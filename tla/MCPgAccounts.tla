---------------------------- MODULE MCPgAccounts ----------------------------
(* One administrator and two ids, but only one code, for further accounts.  *)
EXTENDS PgAccounts, TLC

CONSTANTS a1, c1, n1

MCSeed == [id \in Ids |->
  IF id = a1 THEN [name |-> n1, code |-> c1, admin |-> TRUE] ELSE None]

Symmetry == Permutations(Tokens) \cup Permutations(Ids \ {a1}) \cup Permutations(Requests)
=============================================================================
