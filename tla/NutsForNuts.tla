---------------------------- MODULE NutsForNuts ----------------------------
(***************************************************************************)
(* Nuts-for-nuts.cpp: the least number of moves in which a squirrel that   *)
(* starts at L collects every nut of a field and comes back, by a search   *)
(* in breadth over the states (x, y, get), get being the nuts it has, one  *)
(* bit each.  A layer of the search is the part head..tail of the queue;   *)
(* what the layer leads to is put behind it.                               *)
(*                                                                         *)
(* The file's slips are read as what they stand for: the lists of dx and   *)
(* dy in braces, q[i].get(val) as the nuts with val added, get | val, and  *)
(* intit as init.                                                          *)
(*                                                                         *)
(* q, i, j are queue, here, way, and the names that every specification    *)
(* has begin with Nuts, so that a module can extend another one beside     *)
(* this one.                                                               *)
(***************************************************************************)
EXTENDS Integers, SequencesExt

CONSTANT Fields   \* the cases a run may read: [n, m, start, nuts], one L each

\* The cells of a field.
Cells(field) == (1..field.n) \X (1..field.m)

ASSUME FieldsAssumption ==
    \A field \in Fields :
        /\ field.n \in Nat /\ field.m \in Nat
        /\ field.start \in Cells(field)
        /\ field.nuts \subseteq Cells(field) \ {field.start}

VARIABLES
    nutsPc,  \* "read", "extend", "print" or "return"
    land,    \* -1 around the field, 0 on free cells, the bit of the nut on others
    start,   \* <<Sx, Sy>>
    sum,     \* 2 to the number of nuts
    queue,   \* its length is the variable t of the code
    hash,    \* the elements of the array that are set
    head, tail,   \* the layer
    here,    \* the element of the layer that is extended
    way,     \* the direction in which it is
    move,    \* layers done
    flag     \* the last state has been met

nutsVars == <<nutsPc, land, start, sum, queue, hash, head, tail, here, way, move, flag>>

\* Lines 29-30.
Direction ==
    <<<<0, 1>>, <<-1, 1>>, <<-1, 0>>, <<-1, -1>>, <<0, -1>>, <<1, -1>>, <<1, 0>>, <<1, 1>>>>

maxn == 22

\* Mutant of HashSize: too few elements for the subsets of the nuts.
HashSize3 == 3

HashSize == 32678

\* Line 33: the place of hash[x][y][get] in the array.
Slot(state) == (state.x * maxn + state.y) * HashSize + state.get

Ground == {c \in DOMAIN land : land[c] >= 0}

NutsTypeOK ==
    /\ nutsPc \in {"read", "extend", "print", "return"}
    /\ land \in [DOMAIN land -> Int] /\ sum \in Nat
    /\ queue \in Seq([x : Nat, y : Nat, get : Nat])
    /\ hash \subseteq Nat
    /\ head \in Nat /\ tail \in 0..Len(queue) /\ here \in Nat \ {0} /\ way \in 1..8
    /\ move \in Nat /\ flag \in BOOLEAN

NutsInit ==
    /\ nutsPc = "read"
    /\ land = [c \in {} |-> 0] /\ start = <<0, 0>> /\ sum = 0
    /\ queue = <<>> /\ hash = {}
    /\ head = 1 /\ tail = 0 /\ here = 1 /\ way = 1
    /\ move = 0 /\ flag = FALSE

\* Lines 42 and 51: sum after so many nuts.
doubled[k \in Nat] == IF k = 0 THEN 1 ELSE 2 * doubled[k - 1]

\* The nuts are met row by row.
Before(field, c) == {d \in field.nuts : d[1] < c[1] \/ (d[1] = c[1] /\ d[2] < c[2])}

\* Lines 41-59.
Land(field) ==
    [c \in (0..field.n + 1) \X (0..field.m + 1) |->
        IF c \notin Cells(field) THEN -1
        ELSE IF c \in field.nuts THEN doubled[Cardinality(Before(field, c))] ELSE 0]

\* Lines 99-100, 41-59 and 66-73: every array and variable is set anew.
ReadField ==
    /\ nutsPc = "read"
    /\ \E field \in Fields :
         /\ land' = Land(field)
         /\ start' = field.start
         /\ sum' = doubled[Cardinality(field.nuts)]
         /\ queue' = <<[x |-> field.start[1], y |-> field.start[2], get |-> 0]>>
    /\ hash' = {Slot(queue'[1])}
    /\ head' = 1 /\ tail' = 1 /\ here' = 1 /\ way' = 1 /\ move' = 0
    /\ flag' = (sum' = 1)
    /\ nutsPc' = IF flag' THEN "print" ELSE "extend"

\* Line 99 at the end of the input.
EndOfFields ==
    /\ nutsPc = "read"
    /\ nutsPc' = "return"
    /\ UNCHANGED <<land, start, sum, queue, hash, head, tail, here, way, move, flag>>

\* get | val where val is one bit, or none.
With(get, val) == IF val <= 0 \/ (get \div val) % 2 = 1 THEN get ELSE get + val

\* The state that the direction leads to; it is in the field or on the border.
Moved ==
    LET from == queue[here]
        x == from.x + Direction[way][1]
        y == from.y + Direction[way][2]
    IN [x |-> x, y |-> y, get |-> With(from.get, land[<<x, y>>])]

\* Mutant of Fresh: the states already met are not left out.
FreshAnyway(state) == land[<<state.x, state.y>>] >= 0

Fresh(state) == land[<<state.x, state.y>>] >= 0 /\ Slot(state) \notin hash

IsLast(state) == <<state.x, state.y>> = start /\ state.get = sum - 1

\* Lines 75-88: one direction from one element of the layer.
Extend ==
    /\ nutsPc = "extend" /\ here <= tail
    /\ IF Fresh(Moved)
       THEN /\ queue' = Append(queue, Moved)
            /\ hash' = hash \cup {Slot(Moved)}
            /\ flag' = (flag \/ IsLast(Moved))
       ELSE UNCHANGED <<queue, hash, flag>>
    /\ way' = IF way = 8 THEN 1 ELSE way + 1
    /\ here' = IF way = 8 THEN here + 1 ELSE here
    /\ UNCHANGED <<nutsPc, land, start, sum, head, tail, move>>

\* Lines 90-91 and the condition of line 73.
NextLayer ==
    /\ nutsPc = "extend" /\ here > tail
    /\ head' = tail + 1
    /\ tail' = Len(queue)
    /\ here' = head'
    /\ move' = move + 1
    /\ nutsPc' = IF head' <= tail' /\ ~flag THEN "extend" ELSE "print"
    /\ UNCHANGED <<land, start, sum, queue, hash, way, flag>>

\* Line 93, and on to the next case.
PrintMove ==
    /\ nutsPc = "print"
    /\ nutsPc' = "read"
    /\ UNCHANGED <<land, start, sum, queue, hash, head, tail, here, way, move, flag>>

NutsNext == ReadField \/ EndOfFields \/ Extend \/ NextLayer \/ PrintMove

NutsSpec == NutsInit /\ [][NutsNext]_nutsVars
-----------------------------------------------------------------------------
(* What must hold. *)

Nuts == {c \in DOMAIN land : land[c] > 0}

Apart(c, d) == Max({c[1] - d[1], d[1] - c[1], c[2] - d[2], d[2] - c[2]})

\* The moves it takes to go from each of these stops to the next.
WayLength(stops) ==
    LET upTo[p \in 1..Len(stops)] ==
          IF p = 1 THEN 0 ELSE upTo[p - 1] + Apart(stops[p - 1], stops[p])
    IN upTo[Len(stops)]

\* The length of the round that visits the nuts in this order.
Round(order) == WayLength(<<start>> \o order \o <<start>>)

\* The arrays land and hash have a place for each cell and each state of the cases
\* (lines 33 and 35): up to 20 x 20 cells, and up to 14 nuts.
FieldsFit ==
    \A field \in Fields :
        /\ field.n + 2 <= maxn /\ field.m + 2 <= maxn
        /\ doubled[Cardinality(field.nuts)] <= HashSize

\* What a case prints is the length of a shortest round over its nuts, and no
\* earlier case bears on it; the layer in which the last state is met is
\* finished before the count is taken, and counts (lines 73-93).
AnswerIsLeast ==
    nutsPc = "print" => move = Min({Round(order) : order \in SetToSeqs(Nuts)})

\* No state is in the queue twice, not even by two ways found within one layer,
\* so the queue never has more elements than there are states (lines 79-84).
EachStateOnce ==
    /\ IsInjective(queue)
    /\ Len(queue) <= Cardinality(Ground) * sum
=============================================================================
