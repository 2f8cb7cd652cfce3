-------------------------- MODULE SubstringSearch --------------------------
(***************************************************************************)
(* 2016-3-20-java-KMP.java: two searches for a pattern in a text.  KMP     *)
(* builds an automaton, one column for each position of the pattern, from  *)
(* the columns it has already built (X is the state the automaton would be *)
(* in had it skipped the first character), and runs the text through it.   *)
(* BoyerMoore lays the pattern on the text, compares from its end, and     *)
(* shifts it by what the table of last positions allows.                   *)
(*                                                                         *)
(* The heads of two loops do not compile and are read as what they stand   *)
(* for: line 12 starts with X = 0 and j = 1, and line 77 lets i go from 0  *)
(* to N-M.  Characters are those below both radixes, 250 and 256.          *)
(*                                                                         *)
(* i and j of both searches are at and state, and the names that every     *)
(* specification has begin with Search, so that a module can extend        *)
(* another one beside this one.                                            *)
(***************************************************************************)
EXTENDS Integers, SequencesExt

CONSTANTS
    Alphabet,
    Patterns,   \* not empty: charAt(0) raises on an empty one
    Texts

ASSUME PatternsAssumption == Patterns \subseteq Seq(Alphabet) \ {<<>>}
ASSUME TextsAssumption == Texts \subseteq Seq(Alphabet)

VARIABLES
    searchPc,   \* "args", "column", "scan", "align" or "done"
    pat, txt,
    dfa, X,     \* of KMP
    at,         \* the place in the text
    state,      \* the column of dfa being made, and then the one reached
    answer      \* what KMP's search has returned, and then BoyerMoore's

searchVars == <<searchPc, pat, txt, dfa, X, at, state, answer>>

M == Len(pat)
N == Len(txt)

\* charAt counts from 0.
charAt(s, p) == s[p + 1]

SearchTypeOK ==
    /\ searchPc \in {"args", "column", "scan", "align", "done"}
    /\ IF searchPc = "args"
       THEN pat = <<>> /\ txt = <<>>
       ELSE /\ pat \in Patterns /\ txt \in Texts
            /\ dfa \in [Alphabet -> [0..(M - 1) -> 0..M]]
    /\ X \in 0..M /\ state \in 0..M
    /\ at \in Nat
    /\ answer \in Seq(Int)

SearchInit ==
    /\ searchPc = "args"
    /\ pat = <<>> /\ txt = <<>>
    /\ dfa = [c \in {} |-> 0] /\ X = 0
    /\ at = 0 /\ state = 0
    /\ answer = <<>>

-----------------------------------------------------------------------------
(* KMP. *)

\* Lines 5-12: an array of zeros but for one element.
KMP ==
    /\ searchPc = "args"
    /\ pat' \in Patterns /\ txt' \in Texts
    /\ dfa' = [c \in Alphabet |-> [p \in 0..(Len(pat') - 1) |->
                   IF c = charAt(pat', 0) /\ p = 0 THEN 1 ELSE 0]]
    /\ X' = 0 /\ state' = 1
    /\ searchPc' = "column"
    /\ UNCHANGED <<at, answer>>

\* Mutant of Column: X is not taken along.
ColumnStays ==
    /\ searchPc = "column" /\ state < M
    /\ dfa' = [c \in Alphabet |-> [p \in 0..(M - 1) |->
                  IF p # state THEN dfa[c][p] ELSE IF c = charAt(pat, state) THEN state + 1 ELSE dfa[c][X]]]
    /\ state' = state + 1
    /\ UNCHANGED <<searchPc, pat, txt, at, X, answer>>

\* Lines 14-17: the column of X is copied, the match is put in, and X moves on.
Column ==
    /\ searchPc = "column" /\ state < M
    /\ dfa' = [c \in Alphabet |-> [p \in 0..(M - 1) |->
                  IF p # state THEN dfa[c][p] ELSE IF c = charAt(pat, state) THEN state + 1 ELSE dfa[c][X]]]
    /\ X' = dfa[charAt(pat, state)][X]
    /\ state' = state + 1
    /\ UNCHANGED <<searchPc, pat, txt, at, answer>>

\* Line 12's end, and line 23's start.
StartScan ==
    /\ searchPc = "column" /\ state = M
    /\ at' = 0 /\ state' = 0
    /\ searchPc' = "scan"
    /\ UNCHANGED <<pat, txt, dfa, X, answer>>

\* Line 24.
Scan ==
    /\ searchPc = "scan" /\ at < N /\ state < M
    /\ state' = dfa[charAt(txt, at)][state]
    /\ at' = at + 1
    /\ UNCHANGED <<searchPc, pat, txt, dfa, X, answer>>

\* Lines 25-26.  i-N, as the file has it: the end of what is found, counted back
\* from the end of the text, and not i-M, where it starts.
EndScan ==
    /\ searchPc = "scan" /\ ~(at < N /\ state < M)
    /\ answer' = <<IF state = M THEN at - N ELSE N>>
    /\ at' = 0
    /\ searchPc' = "align"
    /\ UNCHANGED <<pat, txt, dfa, X, state>>

-----------------------------------------------------------------------------
(* BoyerMoore. *)

\* Mutant of right: the first position of a character.
rightFirst(c) ==
    IF Contains(pat, c) THEN Min({p \in 0..M - 1 : charAt(pat, p) = c}) ELSE -1

\* Lines 66-69.
right(c) == Max({p \in 0..M - 1 : charAt(pat, p) = c} \cup {-1})

Mismatches == {p \in 0..M - 1 : charAt(pat, p) # charAt(txt, at + p)}

\* Lines 80-87: one position of the pattern on the text.
Align ==
    /\ searchPc = "align" /\ at <= N - M
    /\ IF Mismatches = {}
       THEN answer' = Append(answer, at) /\ searchPc' = "done" /\ UNCHANGED at
       ELSE LET p == Max(Mismatches)
            IN /\ at' = at + Max({p - right(charAt(txt, at + p)), 1})
               /\ UNCHANGED <<searchPc, answer>>
    /\ UNCHANGED <<pat, txt, dfa, X, state>>

\* Line 89.
NotFound ==
    /\ searchPc = "align" /\ at > N - M
    /\ answer' = Append(answer, N)
    /\ searchPc' = "done"
    /\ UNCHANGED <<pat, txt, dfa, X, at, state>>

SearchNext == KMP \/ Column \/ StartScan \/ Scan \/ EndScan \/ Align \/ NotFound

SearchSpec == SearchInit /\ [][SearchNext]_searchVars
-----------------------------------------------------------------------------
(* What must hold. *)

\* The longest beginning of the pattern that the string ends with.
Border(s) == Max({l \in 0..M : IsSuffix(SubSeq(pat, 1, l), s)})

\* A finished column of the automaton sends each character to the longest
\* beginning of the pattern that what has been read ends with, though it was
\* copied from an earlier column and the pattern was never looked at again: X is
\* the state for the pattern without its first character (lines 12-18).
AutomatonFindsBorders ==
    /\ searchPc \in {"column", "scan"} =>
          \A p \in 0..(IF searchPc = "scan" THEN M ELSE state) - 1, c \in Alphabet :
              dfa[c][p] = Border(Append(SubSeq(pat, 1, p), c))
    /\ searchPc = "column" => X = Border(SubSeq(pat, 2, state))

Occurrences == {p \in 0..N - M : SubSeq(txt, p + 1, p + M) = pat}

\* Neither search passes an occurrence, whatever columns were copied and whatever
\* shifts the table of last positions allows: KMP's scan has not gone beyond the
\* end of one and is in its last state exactly at the end of one, BoyerMoore's
\* pattern has not been shifted beyond the start of one.  So KMP returns N exactly
\* if there is none, and BoyerMoore returns where the first one starts, N without
\* one (lines 23-26, 71-90).
NoOccurrencePassed ==
    /\ searchPc = "scan" =>
          /\ \A p \in Occurrences : at <= p + M
          /\ state = M <=> at - M \in Occurrences
    /\ searchPc = "align" => \A p \in Occurrences : at <= p
    /\ searchPc \in {"align", "done"} => (answer[1] = N <=> Occurrences = {})
    /\ searchPc = "done" => answer[2] = IF Occurrences = {} THEN N ELSE Min(Occurrences)

\* Both searches return how far the first occurrence of the pattern is from the
\* beginning of the text, N without one: main takes the result as an offset and
\* prints that many spaces before the pattern (lines 34-38, 97-101).
SearchesAgree ==
    searchPc = "done" =>
        LET offset == IF Occurrences = {} THEN N ELSE Min(Occurrences)
        IN answer = <<offset, offset>>
=============================================================================
