# Daily-Coding: a verification project

The repository is a collection of programs written as daily practice: searches
for short tours (simulated annealing, a genetic algorithm, ant colonies),
shortest paths, string structures, contest solutions, and small network tools
(a TCP proxy, a netcat, TCP and UDP examples).  They share no code.  This
directory models the programs that keep state through long runs, checks them
with TLC and proves part of what is checked with TLAPS.

1. [Inventory](#1-inventory)
2. [How the source is read](#2-how-the-source-is-read)
3. [Modules](#3-modules)
4. [Runs](#4-runs)
5. [Disagreements found](#5-disagreements-found)
6. [Fairness](#6-fairness)
7. [Proofs](#7-proofs)
8. [Not modelled, and the plan](#8-not-modelled-and-the-plan)

## 1. Inventory

| component | source | state it keeps | operations | model |
|---|---|---|---|---|
| shortest paths | `thinking.cpp` | adjacency matrix, distance matrix, three loop counters, remaining cases and queries | read a case, relax a cell, answer a query | FloydWarshell |
| simulated annealing | `TSP-fire.java` | distance matrix, current, best and temporary tour, each with a cached length, loop counters | draw a city, swap two positions, remember the best, accept or reject, cool | SimulatedAnnealing |
| genetic algorithm | `GA-C.cpp` | two populations, the best code and its length, a count of rounds without improvement | draw codes, sort, record, select, cross, mutate, copy | GeneticAlgorithm |
| rank-based ant colony | `2016-3-30-ACO-in-cpp.cpp` | cities, distances, pheromone, 30 ants with tabu list, path and length, a ranked copy, best length and ant | move an ant, rank, update trails, restart | AntColonyRank |
| TCP proxy | `proxy.py` | one thread per connection with two buffers and two sockets | accept, read, rewrite and forward in either direction, close | Proxy |
| netcat | `2016-4-9-Netcat.py` | client: buffer and last read; server threads: upload, command buffer; one file | send, receive, type; upload, save, run, prompt | Netcat |
| UDP client and server | `PythonNetworkProgramming/UDPclient.py`, `UDPserver.py` | the receive buffer of the port, the server's datagram | send, bind, receive, print, quit | Datagrams |
| trie | `2016-3-21-StringST.java` | a tree of nodes with values | put, get, delete, longest prefix | TrieST |
| substring search | `2016-3-20-java-KMP.java` | an automaton; a table of last positions | build, scan; align | SubstringSearch |
| route search (A*) | `AE86-github.cpp` | the map of Romania, estimates, the search of a library with its open list | choose the start, expand a city, display the route | RomaniaSearch |
| nuts for nuts | `Nuts-for-nuts.cpp` | the field, a queue of states, the states met | read a case, extend a state, next layer, print | NutsForNuts |
| labelling balls | `Labeling-Balls.cpp` | a relation, in-degrees, weights | read a case, give out a weight, give up, print | LabelingBalls |
| hotels by ant colony | `2016-3-31-ACO.java`, `2016-4-1-ant.java`, `2016-4-2-ASMain.java` | pheromone, ants with a budget | choose the next hotel, update | section 8 |
| other contest solutions | `Stock-Exchange.cpp`, `Fiber-Network.cpp`, `Task-Sequences.cpp` | arrays | one algorithm each | section 8 |
| A* sketches | `A-algs.py`, `2016-3-29-A-star-inC++.cpp` | open list | expand a node | section 8 |
| other socket examples | `2016-4-9-TCPserver.py`, `2016-4-8-TCPclient.py`, `2016-4-9-UDPclient.py`, the rest of `PythonNetworkProgramming/` | a connection each | accept, answer, send, receive | section 8 |
| scripts | `bh_ssh*.py`, `rforward.py`, `2016-3-18-python-HTTP.py` | none | library calls | section 8 |
| B-tree, notes | `2016-3-22-B-tree.java`, `*.md`, empty files | none | none | section 8 |

**How they interact.** Only the network programs have partners: the proxy sits
between clients and a remote host and shares with its accept loop the variable
`client_socket`; the two halves of the netcat talk to each other, and the threads
of its server write to one file; the UDP clients share one server, which any of
them may end.  Everything else is one thread, and what interacts there are arrays
that are copied into one another, caches beside them, and loops that read what
they overwrite.

**What is hard, and what makes each part correct.**

- *Shortest paths.* The relaxation overwrites the matrix it is reading, in one
  phase per pivot. Correct: every answer is a breadth-first distance; no entry
  ever holds a length that no walk has; row and column `k` stand still in phase `k`.
- *Annealing.* Three arrays and three cached lengths are assigned by separate
  statements; the best tour must be compared before the walk moves on. Correct:
  arrays stay permutations, lengths are those of the arrays beside them, nothing
  shorter than the best was ever looked at, distances are rounded up.
- *Genetic algorithm.* Codes are moved by element-wise swaps through five
  operators, the selection reads memory nobody wrote, the loop may be prolonged
  by every improvement. Correct: every code is a tour; the sort loses nothing and
  leaves a shortest code first; the recorded one is the best of its population;
  the loop ends.
- *Ant colony.* All ants advance by one city per round, in one thread, with five fields per move;
  ranking and trail updates must only see complete tours; the restart has to
  restore a state from which a tour can be made. Correct: tabu list, path and
  length agree; trails are symmetric and positive; the best is the one ranked first.
- *Proxy.* Threads with peers that send and close at any time, reads that stop
  waiting, sends that take a part of a buffer, exceptions nobody catches, sockets
  closed by reference counting.  Correct: nothing is lost but what a send did not
  take, nothing repeated or reordered; no closed socket is used; every thread
  ends; at most one client is left hanging.
- *Netcat.* Streams cut anywhere, two ends that wait for each other, two threads
  with one file. Correct: an upload is received whole, and saved whole unless
  another thread has the file open; the ends are never stuck but in the two
  situations the design brings about; the answer to an upload reaches nobody.
- *Datagrams.* A server that is not there yet, a buffer that is full, a quit
  of another client. Correct: behind the buffer nothing is lost, repeated or
  reordered; a quit that arrives ends the server; a server that waits for ever has
  lost every quit.
- *Trie.* A delete prunes on its way back up, and what it may take away depends on
  every key that shares the path. Correct: to its callers it is a map; no node
  on the way to a deleted key is kept that no other key needs; the longest prefix is found through nodes without values.
- *Substring search.* Columns of the automaton are copied from columns copied
  before; shifts come from a table and may be negative. Correct: a column knows the
  longest border; neither search passes an occurrence; what is returned is where the
  first one starts, which KMP's search gets wrong (section 5).
- *Route search.* Forty-six roads and twenty estimates typed in by hand have to fit
  together. Correct: from every city the route displayed is a cheapest one; the
  search ends.
- *Nuts.* One array marks the states met, with a size that has a digit wrong; states
  are found by several ways in one layer. Correct: the count printed is the
  length of a shortest round; no state is in the queue twice.
- *Balls.* Weights are given out from the heaviest down and never taken back, arrays
  and input are left over from case to case. Correct: the weights printed are the
  lexicographically least ones that respect all relations of the file.  `work()` does
  this for what `input()` has left, and `input()` leaves one relation at most
  (section 5).

`PROJECT.json` lists the hazards line by line with the properties that watch them.

## 2. How the source is read

Many files were typed in without being compiled.  The rule: a name or a token
that cannot be compiled or executed is read as the one it stands for; a token
that can is translated as it is, also where it looks like a slip.

| read as meant | translated as written |
|---|---|
| `reomte_socket`, `semd`, `receive_frist`, `loacl_port` (proxy 40, 58, 105-116) | `or` in the close test (proxy 121) |
| definitions after the call of `main()` (proxy 60, netcat 97) | `tabu` written twice, `path` not at all (ACO 144-145) |
| nesting of the netcat functions (165-239), `client-socket`, `excute`, `upload_descritination` | the run of the command inside the receive loop (netcat 235-239) |
| `denmo`/`denom`, `MAX_CITES`, `upadateTrails`; the missing parenthesis of line 159 at its end, so that the second `pow` is in the exponent of the first (ACO) | `cities[from].y-cities[to].x` (ACO 90), `assert` (ACO 178) |
| `(MAX_CITIES MAX_DIST)` as a product (ACO 14) | the order of `updateTrails` and `restartAnts` (ACO 373-376) |
| `x == key.length()`, the missing `=` and comma of the search (trie 34, 63-73) | the missing return of `collect` (trie 52), which is not modelled |
| the heads of the loops of lines 12 and 77: `X = 0, j = 1` and `i` from 0 to `N-M` (KMP) | `return i-N` (KMP 25), the end of the occurrence counted back from the end of the text |
| the lists of `dx` and `dy` in braces, `q[i].get(val)` as `get \| val`, `intit` (nuts 29-30, 79-84, 100) | 32678 places per cell (nuts 33) |
| the array `net`, the semicolon of line 39 (balls) | `input()` with a single test of `g[b][a]`, before `a` and `b` have a value, and a single pair (balls 66-75) |
| `data.addr`, `addr.text` with a comma, `prinit` (UDP server 11, 13, 17) | `recvfrom(1024)`, which cuts a longer text (UDP server 11) |
| the repeated names of the enumeration (AE86 14), `argc`, the parenthesis of line 202 | one road with two lengths, Eforie-Hirsova (AE86 140, 144) |
| `MAX`/`MAXC`, `repo`/`repro`, `cros`, `paparent`, the lost parameter name of `nrand` (GA) | the sum over `eval`, of which only element 0 is set (GA 191-197); `choose` without a value (GA 207) |

## 3. Modules

**FloydWarshell** — `thinking.cpp`.  One action per iteration of the innermost
loop (`Relax` = `Relaxed` + `Advance`), `ReadCase`, `ReadQueryCount`, `Query`,
`Return`, `Finish`.  A new case replaces `graph` and `dist`: of the arrays of 200 x 200
only the corner that the case writes is kept, as no index is outside it.  `INF + INF`
is 19999998, and no entry is above `INF`, so an `int` holds every sum.  The reference
definition is a breadth-first search (`Walks`, `Shortest`).

**SimulatedAnnealing** — `TSP-fire.java`.  `AnnealingInit` reads a file and fills the
distance matrix (`Rounded`, `RoundedUp` work on squares, so no square root is
needed), `Draw(c)` is one draw of `initGroup`, accepted if it is a `NewCity`,
`StartSearch` the head of `solve`, `Step` one neighbour (`Linju`, `evaluate`,
`RememberBest`, `Metropolis`), `Cool` the outer loop.  `filled` is the loop counter `i` of
`initGroup`, `cooling` and `round` are `k` and `n` of `solve`, and `Rounds` is `N`.  `copyGh` is an assignment of a function.
The temperature decides only whether a *longer* tour is accepted; that is a free
choice.

**GeneticAlgorithm** — `GA-C.cpp`.  `Init` draws the population (`genrcode`
with every sequence of draws), `sortpop` is one comparison of the two loops,
`Record` the comparison with `fopt`, then `repro`, `cross`, `mutation`,
`copypop`.  The roulette holds uninitialised numbers, so `repro` selects any
rows; a draw that misses everything before any draw has hit reads a variable
without a value, and the run ends in `"astray"`.

**KeepBest** — the abstract search: a best candidate with its true cost,
replaced only by a strictly cheaper one.  SimulatedAnnealing and
GeneticAlgorithm instantiate it (`KeepBestSearch`, `Abstract`) and implement it (`KeepsBest`).

**AntColonyRank** — `2016-3-30-ACO-in-cpp.cpp`.  `StartRound`, `MoveAnt`,
`SkipAnt`, `AssertFails`, `EndRound` are main's loop over `simulateAnts`,
`SortAnts`, `UpdateTrails` and `RestartAnts` the three functions.  A double is
an integer number of `1/Scale`, rounded down; the random draw of
`selectNextCity` chooses among the cities of nonzero weight.  A city at distance
zero has weight `phero ^ infinity`, which is zero because every choice is made
with the initial pheromone, below one.  This is line 159 with its missing parenthesis at the
end; a product of two powers would give such a city an infinite weight, and the
chances of the others would be no numbers.

**Proxy** — `proxy.py`.  One process per connection: `Accept` is the loop of
`server_loop` (and releases the socket its variable referred to), then one
action per call of `proxy_handler`, which may raise (`Die`, `MayRaise`).
`receive_from` returns any part of what has arrived, or nothing; that it returns
at all means a timeout on the sockets, and with one a `send` may take only the
first part of a buffer.  The code looks at no result of `send`, so the rest is
lost, and `unsent` keeps account of it.  The handlers tag every message, so a
message that went through the wrong one, or through none, is seen.  Clients and
remote hosts act at any time.

**Netcat** — `2016-4-9-Netcat.py`.  `client_sender` (`ClientSend`, `ClientRecv`,
`Type`, `ClientExit`) and `client_handler` (`Start`, `RecvUpload`, `Open`,
`Write`, `Execute`, `Prompt`, `RecvCommand`, `Run`) over two streams that `recv`
cuts anywhere.  Its sockets block, so a send takes its whole buffer.  Every
client's thread writes its upload to the same file: `OtherSaves` is one more
thread that has received an upload and opens, writes and closes the file at any
time; opening empties the file, and a write lies over what another thread has
written since.  `Release` is the accept of the next client, which drops the last
reference to this one's socket; `Die` an exception at the server.  `ClientExit`
may come anywhere, since `except:` also catches the user's interrupt.

**RomaniaSearch** — `AE86-github.cpp`.  `Arguments`, `SearchStep`, `ShowStart`,
`ShowNext` are the parts of `main`; the map and the estimates are the program's
own figures.  The library stlastar is modelled from its use: `Best` picks any city
of least estimate from the list, `Expand` adds its improved successors, `Reach`
ends the search at the goal.  A failed search is no action: on this map it would
show as a deadlock.  **RomaniaInstance** is its instance with variables of other names,
for the modules that have other programs beside it.

**Datagrams** — `UDPclient.py` and `UDPserver.py`.  `Send` and `ClientDies` of
each client, `Bind`, `Recvfrom`, `PrintText` of the server.  The network is the
receive buffer of the bound port: `Deliver` puts a datagram into it, or into
`gone` when there is no server yet, none any more, or no room.  A text of more than
1024 bytes is cut, perhaps inside a character, and then ends the server.

**TrieST** — `2016-3-21-StringST.java`.  A node is the string that leads to it,
and `root` maps the nodes' strings to their `val` fields.  `put` and `delete` are
one action each: the recursion runs without anything between its calls. `Cut` is
the set of nodes for which a call of `delete` returns null.  The queries `get`
and `longestPrefixOf` are operators.  `TrieInit`, `TrieNext` and `TrieSpec` have
names of their own here, and so have those of SimulatedAnnealing, SubstringSearch,
LabelingBalls and NutsForNuts, so that one module can extend all five, FloydWarshell too.

**SymbolTable** — a map from keys to values, put and deleted at one key at a
time.  TrieST instantiates it (`Abstract`), with the `table` that `get` shows,
and implements it (`ImplementsSymbolTable`).

**NutsForNuts** — `Nuts-for-nuts.cpp`.  `ReadField` is `init` and the head of
`solve`, `Extend` one direction from one element of the layer, `NextLayer`
the end of a layer, `PrintMove` and `EndOfFields` the loop of `main`.  `q`, `i`, `j`
are `queue`, `here`, `way`; `With` is the `|` of a number and one bit.  `hash` holds
the places of the array that are set, with the array's real size, so two states
that shared a place would be seen.

**SubstringSearch** — `2016-3-20-java-KMP.java`.  `KMP`, `Column`, `StartScan`,
`Scan`, `EndScan` are the constructor and the search of the first class, `Align` and
`NotFound` one position of the pattern on the text in the second; both work on the
same pattern and text.  `at` is the `i` of both, `state` the `j` of KMP.  `EndScan`
returns `i-N`, as line 25 has it.  `NoOccurrencePassed` says what both searches get
right, `SearchesAgree` what their callers take the result for.

**LabelingBalls** — `Labeling-Balls.cpp`.  `ReadCount` is the start of `main`, `Input`
is `init` and `input`, `Weigh`, `GiveUp`, `PrintWeights` the parts of `work`.
`ballsFile` is what the file says, its cases with their `n` and all their pairs;
`unread` are its lines (`LinesOf`) that have not been read.  `input` takes one line for `n` and
`m`, and one or none for a relation, and the next case starts in what is left: it may take a
relation for its `n` and `m`, or the head of a later case for its relation.  Where the file
ends the model ends.  `WorkGivesLeast` judges `work()` by `net`, `LeastForTheFile`
the program by the file.  `cases`, `balls`, `given` are `t`, `n`, `i`.

**MCSmallPrograms** — the shortest paths, the annealing, the trie, the substring searches,
the balls and the nuts, and the instance of the route search, in one specification that
extends them all.  They have nothing in common; a behaviour is a run of one of them
(`program`), and the variables of the others stand still.  It only saves starting TLC seven
times.  `RunSpec` gives each program the fairness of its own specification;
`FloydWarshellEnds` and `AnnealingEnds` are the `Termination` of FloydWarshell and
the `AnnealingTermination` of SimulatedAnnealing in the behaviours that run them.

**DataLemmas**, **AlgorithmsProofs** (of FloydWarshell, SubstringSearch, LabelingBalls,
NutsForNuts, RomaniaSearch and TrieST), **SimulatedAnnealingProofs**,
**GeneticAlgorithmProofs**, **AntColonyRankProofs**, **NetcatProofs**, **ProxyProofs**,
**DatagramsProofs** — the proofs, section 7.  The `MC*` modules hold the inputs for TLC.

In every module the definitions called "Mutant of ..." are wrong versions of the
definition that follows them.  They are used nowhere; replacing the definition
by one of them makes TLC report the property that is meant to notice, which shows
that the property is not true by construction.

## 4. Runs

| run | instance | states | what it shows |
|---|---|---|---|
| `genetic_algorithm` | 4 locations beside the start, population of 2, NL = 1 | 321 thousand | tours, sort, best, refinement of KeepBest, termination |
| `ant_colony_rank` | 4 cities, 4 ants, 3 files, builds with 1 and 2 tours | 105 thousand | agreement of the fields of an ant, ranking, trails, best |
| `proxy` | 2 connections, two messages in each direction on one, one request on the other | 859 thousand | conservation of messages, sockets, termination |
| `netcat` | all options, 4 contents of stdin, 2 lines typed, replies of 0 to 2 units, another client's upload of 2 units | 111 thousand | upload and file, answers, waiting |
| `datagrams` | 2 clients, 3 datagrams each, a buffer of 2 | 792 thousand | order and account of the datagrams, waiting, quitting |
| `small_programs` | shortest paths: all graphs of 1 and 2 nodes, all loop-free ones of 3, paths and cycles of 4 in every numbering, 2 cases, 1 query each; annealing: 4 cities, 3 files, 2 x 2 rounds; trie: 5 keys, 2 values and null, texts of up to 4 of 2 characters; A*: the program's map, every argument; nuts: fields up to 3 x 3 with up to 2 nuts, and 2 x 3 with 3; substrings: patterns up to 4, texts up to 6 of 2 characters; balls: files of 1 or 2 cases, the first of up to 4 balls with up to 2 pairs | 227 thousand | answers, phases, stability of the pivot, termination; permutations, cached lengths, best, refinement of KeepBest, termination; refinement of SymbolTable, pruning, longest prefix; cheapest route; shortest round; automaton and both searches; least labels for the relation read |
| `ant_colony_assertion`, `ant_colony_best_path`, `netcat_linefeed`, `netcat_overlap`, `substring_offset` | the same | | section 5 |
| `labeling_balls_file` | `small_programs` with files of one case, 3 balls and 2 relations | | section 5 |

**Bounds and why they are enough.**

- *FloydWarshell*: `MaxN`, `MaxCases`, `MaxQueries`. Three nodes have every
  pattern of pivot, row and column; four add paths through two intermediate
  nodes in every order of pivots, where a wrong nesting of the loops fails. With two
  cases a call follows another. The proofs cover any size.
- *SimulatedAnnealing*: with four cities there are three different round trips,
  so better, equal and worse neighbours all occur, also after a worse tour has
  been accepted. `T = Rounds = 2` has an acceptance and a rejection before and after a
  cooling. The proofs cover any number.
- *GeneticAlgorithm*: with `POPSIZE = 2` one pair is sorted, crossed and copied,
  and `NL = 1` lets an improvement prolong the loop. With four codes the product
  of two populations is out of TLC's reach; the proofs cover every even size.
  `FOPT` lies between the lengths of the tours, so that a code that is never
  recorded occurs.
- *AntColonyRank*: four cities leave every ant a choice twice and give ties in
  the ranking; two ranks lay pheromone (`MAX_ANTS = 4`: rank 0 only through line
  286, the best path in addition). `Builds` has a run that ends after its first
  tour and one that starts another. `Scale = 100` distinguishes the distances. The
  proofs cover any number of cities and ants, any distances and builds.
- *Proxy*: two messages in each direction allow chunks of one and of two, a
  second round, and a send that takes only the first of two; two connections give all interleavings with `Accept`, of which
  only the previous connection matters (`Released`).
- *Netcat*: a server read takes 2 units and a client read 3, so data that
  is shorter than, equal to and longer than a read occurs on both sides.
  `MaxLines`, `MaxOutput` bound what is typed and printed. The other client's upload
  is longer or shorter than this one's, so an overlap shows in both ways. The
  proofs cover any sizes.
- *Datagrams*: `MaxSends`, `Capacity`. With three sends into a buffer of two, one
  client alone makes it overflow; two clients give a quit that ends only its
  sender's side because it was lost, and one that ends the server under the other
  client. The proofs cover any numbers.
- *RomaniaSearch*: no bound; the run is the program itself. Equal estimates are
  taken in every order. The proof covers the same, and says why the figures are right.
- *TrieST*: the keys are prefixes of one another at distances of one and two
  characters, part early and late, and include the empty one, so every shape of a
  path with a value or a branch on it occurs. The proofs cover any keys.
- *NutsForNuts*: a 3 x 3 field has corners, edges and a middle; three nuts are the
  fewest for which the order of collecting matters on such a field. Fields are read
  again and again, so every case follows every other. The proofs cover any fields,
  `AnswerIsLeast` those for which the arrays are large enough (section 7).
- *SubstringSearch*: patterns of four have borders of borders (`aaab`, `abab`), which
  is what `X` has to follow; the texts are longer than a pattern and a shift. The
  proofs cover any patterns and texts.
- *LabelingBalls*: `MaxBall`, `BallsFiles`. Four balls leave some above, between and
  below the two of a relation. The first case has up to two relations, with contradictions
  (`a b` and `b a`, `a a`), so that a line of it is left over for the second case, which
  then takes the head of a case for its relation, with a ball 0 or one it does not have.
  The second case is of up to three balls, and finds weights of the first one. The proof
  covers any files.

Runs with `CHECK_DEADLOCK FALSE` are those of the network programs, which stop when
no peer acts any more, and of the small programs, which end; the others have an
explicit `Terminated`.  That the shortest paths, the annealing and A* do not stop early is
`FloydWarshellEnds`, `AnnealingEnds` and `SearchSucceeds`.

The type invariants of FloydWarshell, SimulatedAnnealing, GeneticAlgorithm, TrieST,
SubstringSearch, LabelingBalls, NutsForNuts, Proxy, Netcat and Datagrams are proved, and are part of no run; that of
AntColonyRank is proved as a conjunct of `AntsCoherent`, and that of RomaniaSearch is
checked and proved as one of `SolutionIsShortest`.

## 5. Disagreements found

Each is a run that TLC ends with a counterexample, and an entry of `findings`.

- **`ant_colony_assertion`** — `restartAnts` (lines 144-145) sets `tabu[i]` to
  0 and then to -1, where `init` sets `tabu` to 0 and `path` to -1.  After the
  first tour no city is selectable and `assert(denom !=0.0)` (line 178) fails.
- **`ant_colony_best_path`** — "adding the best path" (line 305): at the end of
  the first tour `bestIndex` is 0 whatever was found, since only `restartAnts`,
  which comes later, sets it.
- **`netcat_linefeed`** — "show we receive until we see a linefeed" (line 228):
  what has arrived is run after every read.
- **`netcat_overlap`** — "acknowledge that we wrote the file out" (line 207): two
  threads that have `upload_destination` open at a time (line 203) leave a mixture
  of both uploads in it, and line 208 is reached for both.
- **`substring_offset`** — "int offset = kmp.search(text);" (lines 34 and 97), which is
  printed as that many spaces before the pattern: line 25 returns `i-N` where `i-M` would be the
  start of the occurrence. It is zero or negative on a hit, so the pattern stands at the
  margin wherever it was found, while BoyerMoore returns the start.
- **`labeling_balls_file`** — "given the relations of m balls, find the weights in the least
  lexicographical sequence" (line 3): `input` has no loop over `m` (lines 66-75). The run
  ends with the labels 1, 2, 3 where the two relations of the file contradict each other.

## 6. Fairness

- Sequential programs (`GeneticAlgorithm`, and in `small_programs` the shortest paths,
  the annealing and the route search): `WF_vars` of the program's next step. A program whose input is there and that
  never blocks goes on. `SimulatedAnnealing` adds
  `SF_vars(\E c : NewCity(c) /\ Draw(c))`: `initGroup` draws until a fresh city
  comes, and an unbounded sequence of draws contains one with probability one.
- `Proxy`: weak fairness of `Accept(c)` and of `proxy_handler(c)` for every
  connection: the operating system schedules every thread, and `receive_from`
  returns in the end, as the loop requires. Nothing is assumed of peers.
- `Netcat`: weak fairness of each program; a blocked `recv` is not enabled.
  Nothing is assumed of the user, of exceptions, or of a next client.
- `Datagrams`: weak fairness of the server alone, which goes on while its buffer
  holds something. Nothing is assumed of the users, nor that a datagram arrives.
- `AntColonyRank` and, in `small_programs`, the other programs state no
  liveness and have no fairness.

## 7. Proofs

All by TLAPS, for every value of the constants that satisfies the assumptions
stated with them: sizes are natural numbers, at least two cities, an even
population, matrices of natural numbers (`CityAssumption`, ...).  Three need a word.
`INFIsFar`: "no edge" is more than the number of nodes, so no path has that length;
in the code it is 9999999 against 200.  `SizeAssumption`: there are as many ants as
cities, as `sortAnts` counts the ones with the number of the others.  `ScaleAssumption`:
the fixed point of the ant colony is fine enough that the first pheromone can be halved
twice, or a trail would be rounded to zero that is positive in the program.

**AlgorithmsProofs, FloydWarshell.** `TypeCorrect` first.  `PivotIsStable`: a step
of phase `k` that writes row `k` or column `k` would need `dist[k][k]` negative, and
entries are at least 1.  `PhaseInvariantHolds` and `ClosedHolds` share one
inductive invariant `IInv == TypeOK /\ BelowGraph /\ PhaseInvariant /\ Closed`:
the phase invariant speaks of the two ways through an earlier and the present
pivot, because the plain statement "shortest through the nodes below k" is false
in the middle of a phase; `BelowGraph` carries the edges.  `DistanceIsLeastLength`
states the result without recursion: the lengths of walks are the least set that
holds the edges and is closed under concatenation; every entry is in it
(`Sound`), and a closed matrix is below every member.

The two properties that the run checks compare with a breadth-first search, and
need a second invariant.  `InPhase`: there is a table `P`, relaxed with the pivots
below `k`, such that a cell visited holds what phase `k` makes of `P`
(`Through(P, k)`), and any other still holds `P`'s.  `ThroughIsTable`: what a phase
makes is a table for the next; the hard part is `Extends`, that every entry
above an edge is one more than the entry of some neighbour, which holds at the
ends of phases but not in the middle of one.  On the side of the reference,
the layers of the search exist as functions, and a node is in the layer of the
least length of a walk to it; a least length is below the number of nodes, as every
layer before it is inhabited.  From these `DistanceIsRealisedHolds` (at any time,
also in the middle of a phase) and `PrintedIsShortestHolds`.

**AlgorithmsProofs, TrieST.** Prefixes first: `PrefixTrans`, and
`PrefixesArePrefixes`, which turns the set of prefixes into a relation.
`TrieTypeOK` is inductive because what `Cut` takes away is closed upwards
(`CutClosed`); it holds that all prefixes of a node are nodes, from which
`NodesAreReached` concludes that `get` finds every node.  `PutRefines` and
`DeleteRefines` say which abstract step each call is, for its own key and value,
and give `ImplementsMap`.  `DeleteDeadEnds`: a dead end on the way to the key, one that
was there or one that a delete would leave, satisfies `Cut`; `PutDeadEnds`: after a put
of a value the way leads to it.  `LongestPrefix` is a consequence of `TrieTypeOK`.

**AlgorithmsProofs, SubstringSearch.** `Fits(s, l)` says in terms of places that `s`
ends with the first `l` characters of the pattern, and `Border(s)` is the greatest
such `l`.  The lemma that everything rests on is `BorderStep`: the border of a
string with one more character is that of its border with this character, so a
state is all one has to remember.  With it a column that is copied from that of `X` is
right (`ColumnMade`), and so is the next `X`; the first column is the base
(`FirstColumnFinds`).  `Scanned`: the state is the border of the text read so far,
and no occurrence has ended before.  A state of `M` is then an occurrence
(`OccursFits`), and the first.  `Aligned`: no occurrence starts before the place where
the pattern lies.  A shift keeps it (`AlignKeeps`): an occurrence passed over would have
the mismatched character of the text further to the right than its last place in
the pattern.  `Answered` says what is returned, `i-N` included.  `AutomatonIsRight` is a
conjunct of the invariant, `NoOccurrenceIsPassed` a consequence of it: `FoundIsNotN`,
what KMP returns on a hit is not positive and so never `N`.

**AlgorithmsProofs, LabelingBalls.** The invariant says what the loop of `work()`
keeps for the relation in `net`, which is of one pair at most (`OneRelation`): the balls that
have a weight have the heaviest ones (`Heaviest`), the relation holds among them (`Respected`), and `grad` is 1 exactly for a ball that waits for one
without a weight, or for one that is not there (`Blocked`).  `Waited` is what makes
the result the least: a ball with a higher number than `x` that gets a
weight later than `x` had to wait for a ball no heavier than `x`.
`LastFirstIsLeast` is the argument about two labellings: if another one were
less at `p`, every ball that is no heavier than `p` would have a weight
below `p`'s in the other one, which has one weight too few for them (pigeonhole).  When no
ball is free, the one without a weight that would be heaviest in a labelling waits for
a heavier one (`GiveUpKeeps`).

**AlgorithmsProofs, NutsForNuts.** `Marked`: each state of the queue has its place in
`hash` set, lies on a cell of the field, and has a number of nuts below `sum`.
The last needs that `get | val` stays below `sum` (`WithBelow`), since `sum` is a multiple
of twice every bit (`DoubledMultiple`).  A state that passes the test of line 79 is then
in the queue nowhere (`MovedIsNew`), and different ones are no more than cells times
`sum` (`QueueIsBounded`, by an injection).  `EachStateOnceHolds` needs no bound on the
number of nuts: places that states share in the array lose states, but double none.

`AnswerIsLeastHolds` says that the number printed is that of a shortest round. Its
hypothesis `FieldsFit` is that `land` and `hash` have a place for every cell and every
state of a case: at most 20 x 20 cells and 14 nuts, since 2^14 is below the 32678 places
per cell and 2^15 is not. With it `Slot` is injective (`SlotsDiffer`), and a state that
is not new has been queued (`MetIsQueued`). The fields of the run satisfy it; without it
the theorem is false: with three places per cell TLC finds a count that is too large.
Three groups of lemmas come first. *Bits*: `BitAdded` says what `get | val` does to
every bit, and `AllBits` that a number below `sum` with all bits is `sum - 1`; with the
counting of the nuts, `NutAdded` and `NutsAll`. *Lengths*: `Apart` is a metric in which
one move of the eight is a distance of at most 1, and from a cell to any other there is
a move that is one nearer and stays in the field (`ApartNearer`); `WayLengthAppend`
unfolds a way by one stop. *Orders*: those of `SetToSeqs` are the sequences without
repetition that visit all of a set (`OrdersAreVisits`). The invariant `LayersIInv` is
then that of a breadth-first search, with ways over nuts in place of paths:

- `FieldRead`: `land`, `start` and `sum` are those of one of the fields;
- `WaysThere`: for every state queued there is an order of the nuts it has, whose way,
  and on to its cell, takes no more than the moves of its layer;
- `Reached(move)`: every order of some nuts and every cell whose way takes at most
  `move` moves has a state of the queue that stands there and has at least these nuts;
- `OwnNut`: on the cell of a nut a state has it; `HashOnly`: marks are only those of
  states queued;
- `Extended`: the directions tried so far from the layer have led to states of the
  queue;
- `Flagged`: `flag` is set exactly if the last state is queued, and while a layer is
  being extended it is not in this or an earlier one;
- `MovesAreLeast`: when the count is printed, some round takes no more, and none fewer.

`Reached` says "at least these nuts" because a nut on the way is collected whether or
not the order calls for it there; with "exactly" it would not be inductive.
`FoundOnward` takes it to the next layer, and `FoundLast` to the last state. The search
cannot end with an empty layer before `flag` is set, since then every way, of any
length, would have been found (`LayersEnd`).

**AlgorithmsProofs, RomaniaSearch.** The run covers the whole program already; the proof
says which facts about the figures it rests on. They are in `MapFacts`: every road has a
cost above zero and leads to a city of the map, and over no road does the estimate fall by
more than the road costs. One figure mistyped against this and the lemma fails. It is
more than that no estimate is too large, and it holds although the map is not symmetric: it is
75 from Eforie to Hirsova (line 140) and 86 back (line 144).
The invariant of the search:

- `Reachings`: every city seen but the start has a parent that has been expanded, with a
  road to it, and its cost so far is the parent's and the road's;
- `Relaxations`: a road out of an expanded city leads to a city seen, whose cost so far is
  no more than the way over this road;
- `InPromiseOrder`: cost so far and estimate are for no expanded city more than for one of
  the list;
- the goal has not been expanded; `Told`: the solution is a cheapest way (`Cheapest`), and
  what is displayed is the beginning of it.

`InPromiseOrder` and `MapFacts` give that a city that has been expanded never
improves (`ClosedStay`), which keeps `Relaxations`, and with it the parents: without it a
parent could become cheaper after its child has been reached, and the costs would no longer be those
of the ways. `NoneCheaper`: when the goal is taken from the list, follow any way from
the start; the first city on it that has not been expanded is in the list, at no more than
its cost on this way, and with its estimate no more than the whole (`EstimateBelow`). The way
displayed is a recursion along the parents; it is well founded since roads cost something
(`WayToUnfold`), and gives a way with the goal's cost that visits no city twice
(`WayToFinds`).

**SimulatedAnnealingProofs.** `RoundedUpLeast` shows that `Math.round` and the
correction give the least `m` with `m >= sqrt(s / 10)`.  `LegsUnfold`,
`EvaluateInNat` show that the recursive length exists and is a natural number.
The invariant adds `GroupInvariant` (the cities drawn so far differ, no neighbour
yet) to the checked ones; `LinjuTour` shows that a swap keeps a permutation.
`ImplementsKeepBest` maps `StartSearch` to `First`, `Step` to `Improve` or a
stutter.

**GeneticAlgorithmProofs.** `GenrcodeTour`: by induction over the draws, what is
left in the buffer is free of duplicates and of what has been drawn.
`ExchangedTour`, `MutatedTour`: crossing and mutation.  `CompareOnce`: one
comparison of the sort, on lengths alone; `SortInvariant` says how far the two
loops have come.  `SortedPopulationHolds` adds that nothing is lost: after every
comparison there is a bijection between the rows of the population and those
of the one that was copied (`Rearranged`), so every code is there as often as before.  `ImplementsKeepBest` maps `Record` to `First`, `Improve` or a
stutter.

**AntColonyRankProofs.** `restartAnts` leaves the tabu lists in a state in which no
ant can move (section 5), and the invariant has to say so, or a second update of the trails
could not be excluded: `Phase` is the first tour, in which `best` is not set, or
`AfterRestart`, in which every ant stands at its first city and every entry of its tabu
list is -1.  `AntMatches` is the agreement of tabu list, path, index, city and length
of one ant (`AntsCoherentHolds`).  `Clock` and `NoneMoved` follow the rounds: a round without
a move, or the one after the last, finds all tours complete (`TourOver`).  For
`RankedToursCompleteHolds` the sort is followed comparison by comparison
(`SettledBelow`), and `Arrangements` says that ants only change places;
`RanksRight` carries its result into the update and the restart.  `TrailsSymmetricHolds`
goes from one deposit on one edge (`LaidLegKeeps`) to a path (`LayKeeps`) and to all
paths of an update; `Trails(v)`: symmetric, and at least `v`, which is 4 before the update and
1 after its two halvings.  `BestIsFirstRankedHolds` joins the scan of the
restart, which takes the first of the shortest ants (`FoundIsFirst`), with the rank of
that length (`FirstRankedIsLeast`).

**NetcatProofs.** `IInv` adds to the types four things no property says by itself.
`Received`: until the thread is done with its upload, what it has received and
what is on its way are together what the client has sent, and it opens the file
only after the client has exited, when nothing can be added; this gives
`SavedUploadIsIntact`.  `FileHolds`: two threads that never had the file open at
a time each found it empty.  `Answered`: to a client that waits after a line the
server owes a reply (`Owed`: something is on its way, or a linefeed is still to be
run); "not stuck" is not inductive, since it does not say why a reply will come.
`LinefeedKept` follows the linefeed through every cut of the stream.  `NoAnswers`
gives `UploadIsNotAnswered`.

**ProxyProofs.** `ClosedSocketsAreNotUsed` and `OneLeftHanging` rest on `Sockets`,
which ties each place in the code to the two sockets, and the open socket of a
dead thread to the loop variable.  `NothingIsLostInside` takes `Conserved(c)`
through the actions: reads and tests leave the stream from peer to peer as it is
(`Unmoved`), since a handler rewrites the part it takes as it would the whole
(`HandledConcat`, `CutHandled`); a message sent by a peer is greater than all of
the stream (`Adding`); a send takes away only what it puts into `unsent`
(`Dropping`).  `InOrderConcat` says when a concatenation is in order.

**DatagramsProofs.** `Ordered` and `Accounted` speak of `Arrived`, in which a receive
or a print moves nothing (`ServerKeeps`), so only `Send` and the end of the
server need an argument.  `Quits`: while the server lives, the quit of a client that
has finished has arrived or is gone, and none of those printed was a quit; with
an empty buffer it must be gone, which is `WaitingMeansLoss`.

**DataLemmas.** Least elements, induction over a set of natural numbers
(derived from well-foundedness, without an operator parameter), sums and
iterations that are defined recursively exist, and so do functions defined by recursion
to an element of lower rank (`RecursionExists`), sizes of intervals, arrays whose elements
change places hold each value as often.

**Only model-checked.** Every liveness property, and `ENABLED`, are out of the
prover's reach here.  So is induction that takes an operator as a parameter,
which is why recursive definitions are reasoned about through sets
(`NatClosed`) and existence lemmas for the functions.  Every invariant that a passing
run checks is stated by a theorem; what a run checks and no theorem states are
the properties with `~>` and `<>`, and the runs of section 5.

## 8. Not modelled, and the plan

Left out, and why:

- *Ant colony for hotels* (three Java files): `run()` does not get past its first
  ant.  `curHotels` is never filled, every length is 0, which beats
  `Integer.MIN_VALUE`, and line 153 of `2016-3-31-ACO.java` then counts `i` where it
  means `j`, until an index is out of bounds.  What follows is no state of the program.
- *Fiber-Network.cpp* compares with `!=` where it should store with `|=`; the matrix
  stays zero.  *Stock-Exchange.cpp* tests `s[len]-1`, an element not yet written,
  and its search shifts where it should compare, out of the array.
  *Task-Sequences.cpp* uses an undeclared `i`, and its reading loop counts the
  wrong variable (line 43).  A model would be of the algorithm they have in mind.
- *TCP examples*: the pair in C assigns a comparison to `listenfd`, and its client passes
  `argv[2]` where it has checked that there is none; the Python ones are a thread that
  answers one read with one send, or a client of a server elsewhere, and keep nothing.
- *SSH and HTTP scripts*: straight-line calls of libraries that are not here;
  of `rforward.py` there is a part of `main`.
- *A\* sketches*: a template whose grid and queue are not here, and a search that is
  cut off.  *B-tree*: class headers.  *Notes*: prose.
- Parts of modelled files: `keysThatMatch` of the trie changes nothing and, as
  written, raises at every match; the second connection of netcat, whose thread is
  modelled up to the file, and the parsing of its options; `emitDataFile` of the ant
  colony, which writes two files after the loop.

Below the models' granularity: int overflow of squares, rounding of floating point
beyond the fixed point of AntColonyRank, output formats, log files.

Possible next steps:

1. **The A\* template** against an abstract grid, as the library is for the route
   search.
2. **Netcat with several complete connections**, at smaller bounds than one has now.
