------------------------------- MODULE TrieST -------------------------------
(***************************************************************************)
(* 2016-3-21-StringST.java: a symbol table with strings as keys, kept as a *)
(* tree in which a node has one link per character.                        *)
(*                                                                         *)
(* A node is the string that leads to it, so the tree is a function from   *)
(* the strings of its nodes to their val fields; the tree without a node   *)
(* (root is null) is the function without arguments.  val is null in a     *)
(* node that only leads further, and also where the caller put null.       *)
(*                                                                         *)
(* put and delete go down to the node of the key and come back up; nothing *)
(* looks at the tree meanwhile, so each is one action.                     *)
(*                                                                         *)
(* The file's slips are read as what they stand for: "d == key.length()"   *)
(* at line 34, a search of xs with its four arguments in lines 63-73.      *)
(*                                                                         *)
(* The names that every specification has begin with Trie here, so that a  *)
(* module can extend another one beside this one.                          *)
(***************************************************************************)
EXTENDS Integers, SequencesExt

CONSTANTS
    Char,     \* the characters
    Keys,     \* the keys that are put and deleted
    Values,   \* what is stored
    null,     \* no value
    Queries   \* the strings whose longest prefix is asked for

ASSUME KeysAssumption == Keys \subseteq Seq(Char)
ASSUME QueriesAssumption == Queries \subseteq Seq(Char)
ASSUME NullAssumption == null \notin Values

VARIABLE root

Nodes == DOMAIN root

\* Every node hangs from the first one, and only keys have values.
TrieTypeOK ==
    /\ Nodes \subseteq Seq(Char)
    /\ root \in [Nodes -> Values \cup {null}]
    /\ \A n \in Nodes : Prefixes(n) \subseteq Nodes
    /\ \A n \in Nodes \ Keys : root[n] = null

\* Line 5.
TrieInit == root = [n \in {} |-> null]

-----------------------------------------------------------------------------
(* put and delete. *)

\* Lines 28-38: the nodes on the way are made where they are missing, with val null.
put(key, v) ==
    root' = [n \in Nodes \cup Prefixes(key) |->
                IF n = key THEN v ELSE IF n \in Nodes THEN root[n] ELSE null]

\* Mutant of Cut: line 92 is left out.
CutValued(key) ==
    {n \in Nodes : \A m \in Nodes : IsPrefix(n, m) => IsPrefix(m, key)}

\* Mutant of Cut: lines 92-95 are left out.
CutNothing(key) == {}

\* Lines 92-95.  On the way back up, a node of the path is taken away when it
\* has no value and nothing is left below it: all there was below it was taken
\* away before, so it lay on the path and had no value either.
Cut(key) ==
    {n \in Nodes : \A m \in Nodes :
        IsPrefix(n, m) => IsPrefix(m, key) /\ (m = key \/ root[m] = null)}

\* Lines 78-96.
delete(key) ==
    root' = [n \in Nodes \ Cut(key) |-> IF n = key THEN null ELSE root[n]]

TrieNext == \E key \in Keys : delete(key) \/ \E v \in Values \cup {null} : put(key, v)

TrieSpec == TrieInit /\ [][TrieNext]_root

-----------------------------------------------------------------------------
(* The queries, which change nothing. *)

\* The string of the first d characters of text, and whether the links from the
\* root lead as far as its node.
First(text, d) == SubSeq(text, 1, d)
Reaches(text, d) == \A e \in 0..d : First(text, e) \in Nodes

\* Lines 13-26.
get(key) == IF Reaches(key, Len(key)) THEN root[key] ELSE null

\* Mutant of search: it ends at a node without a value.
searchValued(text) ==
    {d \in 0..Len(text) : Reaches(text, d) /\ \A e \in 1..d : root[First(text, e)] # null}

\* Lines 67-74: the lengths that search assigns, in the order of the way down.
search(text) ==
    {d \in 0..Len(text) : Reaches(text, d) /\ root[First(text, d)] # null}

\* Lines 61-65.
longestPrefixOf(text) == First(text, IF search(text) = {} THEN 0 ELSE Max(search(text)))

-----------------------------------------------------------------------------
(* What must hold. *)

\* The keys that have a value, with their values, as get finds them.
table == [k \in {k \in Keys : get(k) # null} |-> get(k)]

Abstract == INSTANCE SymbolTable

\* A put changes what is found under its key and nothing else, and so does a
\* delete, whatever nodes it takes away (lines 92-95): to its callers the tree is
\* a map from keys to values.
ImplementsSymbolTable == Abstract!Spec

\* A node without a value from which nothing hangs.
DeadEnds ==
    {n \in Nodes : root[n] = null /\ \A m \in Nodes : IsPrefix(n, m) => m = n}

\* A delete leaves no dead end on the way to its key, not even one that was there,
\* and makes none elsewhere: it takes away everything that its key alone kept, up
\* to the next branch or value (lines 92-95).  The same holds for a put of a value
\* (lines 28-38).
LeavesNoDeadEnds ==
    [][\A key \in Keys :
          delete(key) \/ (\E v \in Values : put(key, v)) =>
              DeadEnds' \subseteq DeadEnds \ Prefixes(key)]_root

\* longestPrefixOf answers with the longest key that the text starts with, through
\* any number of nodes without a value, and with the empty string when there is
\* no such key (lines 61-74).
LongestPrefixFound ==
    \A text \in Queries :
        LET found == {k \in DOMAIN table : IsPrefix(k, text)}
            answer == longestPrefixOf(text)
        IN IF found = {} THEN answer = <<>>
           ELSE answer \in found /\ \A k \in found : Len(k) <= Len(answer)
=============================================================================
