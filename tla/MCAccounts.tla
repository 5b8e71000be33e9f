----------------------------- MODULE MCAccounts -----------------------------
(* Two administrators, one more account id, two overlapping requests.      *)
EXTENDS Accounts, TLC

CONSTANTS a1, a2, c1, c2, n1

MCSeed == [id \in Ids |->
  IF id = a1 THEN [name |-> n1, code |-> c1, admin |-> TRUE]
  ELSE IF id = a2 THEN [name |-> n1, code |-> c2, admin |-> TRUE]
  ELSE None]

MCOneAdmin == [id \in Ids |->
  IF id = a1 THEN [name |-> n1, code |-> c1, admin |-> TRUE] ELSE None]

Symmetry == Permutations(Tokens) \cup Permutations(Requests)
=============================================================================
