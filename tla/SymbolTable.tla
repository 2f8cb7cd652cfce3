---------------------------- MODULE SymbolTable ----------------------------
(***************************************************************************)
(* What a symbol table promises its callers: a partial function from keys  *)
(* to values, changed at one key at a time.  TrieST implements it.         *)
(***************************************************************************)
CONSTANTS Keys, Values

VARIABLE table

Init == table = [k \in {} |-> k]

\* The table with v under key, and the table without key.
With(key, v) == [k \in DOMAIN table \cup {key} |-> IF k = key THEN v ELSE table[k]]
Without(key) == [k \in DOMAIN table \ {key} |-> table[k]]

Put(key, v) == table' = With(key, v)
Delete(key) == table' = Without(key)

Next == \E key \in Keys : Delete(key) \/ \E v \in Values : Put(key, v)

Spec == Init /\ [][Next]_table
=============================================================================
