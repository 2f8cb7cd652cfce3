---------------------------- MODULE LabelingBalls ----------------------------
(***************************************************************************)
(* Labeling-Balls.cpp: n balls get the weights 1..n so that ball a is      *)
(* lighter than ball b for every relation (a, b) read, and ball 1 is as    *)
(* light as possible, then ball 2, and so on.  The heaviest weight that is *)
(* left goes to the ball of the highest number that no ball without a      *)
(* weight has to outweigh.                                                 *)
(*                                                                         *)
(* A file has, for each of its cases, the line n m and m lines a b.        *)
(* input() reads n and m, looks at g[b][a] before a and b have a value and *)
(* then reads one more line, or none, whatever m is; what it leaves is     *)
(* read by the next case.  So a case may take any line for its n and m and *)
(* any line for its relation, also one with balls that it does not have.   *)
(* A read beyond the end of the file is not modelled: the run ends there.  *)
(*                                                                         *)
(* Read as what they stand for: the array net that add_edge uses, and a    *)
(* semicolon in line 39.                                                   *)
(*                                                                         *)
(* t, n, i are cases, balls, given here, and the names that every          *)
(* specification has begin with Balls, so that a module can extend another *)
(* one beside this one.                                                    *)
(***************************************************************************)
EXTENDS Integers, SequencesExt

CONSTANTS
    MaxBall,      \* bound on the numbers in the file
    BallsFiles    \* what a file may say: its cases, each with n and m pairs <<a, b>>

Ball == 1..MaxBall

\* The lines of a file after its first one.
LinesOf(file) ==
    FlattenSeq([c \in 1..Len(file) |-> <<<<file[c].n, Len(file[c].pairs)>>>> \o file[c].pairs])

ASSUME BallsAssumption ==
    /\ MaxBall \in Nat
    /\ BallsFiles \subseteq Seq([n : Ball, pairs : Seq(Ball \X Ball)])
    /\ \A file \in BallsFiles : LinesOf(file) \in Seq(Ball \X (0..MaxBall))

VARIABLES
    ballsPc,     \* "start", "input" or "work"
    ballsFile,   \* what the file says, not yet chosen at the start
    unread,      \* the lines of it still to be read
    cases,       \* cases left
    balls,       \* how many there are
    given,       \* weights given
    net,         \* net[b]: the balls to be lighter than b; net[0] is there for b = 0
    grad,        \* grad[a]: the balls without a weight that have to outweigh a, or -1
    weight,      \* weights, those of the cases before where not yet written
    labels       \* what the case has printed: weights, or <<-1>>

ballsVars == <<ballsPc, ballsFile, unread, cases, balls, given, net, grad, weight, labels>>

BallsTypeOK ==
    /\ ballsPc \in {"start", "input", "work"}
    /\ ballsFile \in BallsFiles \cup {<<>>}
    /\ unread \in Seq(Ball \X (0..MaxBall))
    /\ cases \in Nat
    /\ balls \in 0..MaxBall /\ given \in 0..balls
    /\ net \in [0..MaxBall -> SUBSET Ball]
    /\ grad \in [Ball -> {-1, 0, 1}]
    /\ weight \in [Ball -> 0..MaxBall]
    /\ labels \in Seq(Int)

BallsInit ==
    /\ ballsPc = "start"
    /\ ballsFile = <<>> /\ unread = <<>>
    /\ cases = 0
    /\ balls = 0 /\ given = 0
    /\ net = [b \in 0..MaxBall |-> {}]
    /\ grad = [a \in Ball |-> 0]
    /\ weight = [a \in Ball |-> 0]
    /\ labels = <<>>

-----------------------------------------------------------------------------
(* main, init() and input(), lines 42-77 and 105-117.  Edge lists of net   *)
(* hold one ball.                                                          *)

\* Lines 107-108.
ReadCount ==
    /\ ballsPc = "start"
    /\ ballsFile' \in BallsFiles
    /\ unread' = LinesOf(ballsFile')
    /\ cases' = Len(ballsFile')
    /\ ballsPc' = "input"
    /\ UNCHANGED <<balls, given, net, grad, weight, labels>>

NoRelation ==
    /\ net' = [b \in 0..MaxBall |-> {}]
    /\ grad' = [a \in Ball |-> 0]

Relation(a, b) ==
    /\ net' = [c \in 0..MaxBall |-> IF c = b THEN {a} ELSE {}]
    /\ grad' = [c \in Ball |-> IF c = a THEN 1 ELSE 0]

\* Lines 109-112.  What line 66 finds at the indices that have no value yet
\* decides whether line 68 reads.
Input ==
    /\ ballsPc = "input" /\ cases > 0
    /\ unread # <<>>
    /\ cases' = cases - 1
    /\ balls' = unread[1][1]
    /\ \/ /\ Len(unread) > 1
          /\ Relation(unread[2][1], unread[2][2])
          /\ unread' = SubSeq(unread, 3, Len(unread))
       \/ NoRelation /\ unread' = Tail(unread)
    /\ given' = 0
    /\ labels' = <<>>
    /\ ballsPc' = "work"
    /\ UNCHANGED <<ballsFile, weight>>

-----------------------------------------------------------------------------
(* work(), lines 79-103. *)

Free == {a \in 1..balls : grad[a] = 0}

\* Mutant of Chosen: looks from the first ball on.
ChosenFirst == Min(Free)

\* Line 84, where it ends above 0.
Chosen == Max(Free)

\* Lines 84-94.
Weigh ==
    /\ ballsPc = "work" /\ given < balls /\ Free # {}
    /\ weight' = [weight EXCEPT ![Chosen] = balls - given]
    /\ grad' = [a \in Ball |-> IF a = Chosen THEN -1
                               ELSE IF a \in net[Chosen] THEN grad[a] - 1 ELSE grad[a]]
    /\ given' = given + 1
    /\ UNCHANGED <<ballsPc, ballsFile, unread, cases, balls, net, labels>>

\* Lines 86-90.
GiveUp ==
    /\ ballsPc = "work" /\ given < balls /\ Free = {}
    /\ labels' = <<-1>>
    /\ ballsPc' = "input"
    /\ UNCHANGED <<ballsFile, unread, cases, balls, given, net, grad, weight>>

\* Lines 96-99.
PrintWeights ==
    /\ ballsPc = "work" /\ given = balls
    /\ labels' = SubSeq(weight, 1, balls)
    /\ ballsPc' = "input"
    /\ UNCHANGED <<ballsFile, unread, cases, balls, given, net, grad, weight>>

BallsNext == ReadCount \/ Input \/ Weigh \/ GiveUp \/ PrintWeights

BallsSpec == BallsInit /\ [][BallsNext]_ballsVars
-----------------------------------------------------------------------------
(* What must hold. *)

\* The weights of n balls that respect a relation: lighter[b] has to be lighter
\* than b, and than one that is not there nothing can be.
LabellingsOf(n, lighter) ==
    {w \in [1..n -> 1..n] :
        /\ \A a, b \in 1..n : a # b => w[a] # w[b]
        /\ \A b \in 0..MaxBall : \A a \in lighter[b] \cap (1..n) : b \in 1..n /\ w[a] < w[b]}

LighterFirst(w, v) ==
    \E p \in DOMAIN v : w[p] < v[p] /\ \A r \in 1..p - 1 : w[r] = v[r]

\* The first in lexicographical order, or -1 for none.
IsLeastOf(result, labellings) ==
    IF result = <<-1>> THEN labellings = {}
    ELSE /\ result \in labellings
         /\ \A v \in labellings : v = result \/ LighterFirst(result, v)

\* The labellings that respect what input() has left in net.
Labellings == LabellingsOf(balls, net)

\* work() alone: giving out the weights from the heaviest down, without ever taking
\* one back, prints the lexicographically least of all labellings that respect
\* net, and -1 if and only if there is none; nothing is left in it of an earlier
\* case (lines 49-60, 79-103).  net holds one pair at most; what it leaves out of the
\* file is judged by LeastForTheFile.
WorkGivesLeast == labels # <<>> => IsLeastOf(labels, Labellings)

\* The balls to be lighter by the m pairs of a case.
LighterInFile(pairs) ==
    [b \in 0..MaxBall |-> {a \in Ball : \E k \in DOMAIN pairs : pairs[k] = <<a, b>>}]

\* What the case prints is least for what the file says of it, for its n and all
\* its m pairs ("given the relations of m balls, find the weight of each ball in
\* the least lexicographical sequence", line 3).
LeastForTheFile ==
    labels # <<>> =>
        LET case == ballsFile[Len(ballsFile) - cases]
        IN IsLeastOf(labels, LabellingsOf(case.n, LighterInFile(case.pairs)))
=============================================================================
