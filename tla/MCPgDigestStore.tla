-------------------------- MODULE MCPgDigestStore --------------------------
(* Transactions over two users and two digests, one of them stored earlier. *)
EXTENDS PgDigestStore, TLC

CONSTANTS u1, e1, t1, analytical

MCLegacy == {[owner |-> u1, title |-> t1, type |-> analytical, version |-> 1,
              state |-> [edit |-> e1, images |-> "none"]]}
=============================================================================
