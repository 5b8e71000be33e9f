--------------------------- MODULE MCPgDigestApi ---------------------------
(* Two requests and the deletion of their user over two digests, which may  *)
(* come from a release that stored images inline.                           *)
EXTENDS PgDigestApi, TLC

CONSTANTS u1, e1, t1, analytical

MCLegacy == {[owner |-> u1, title |-> t1, type |-> analytical, version |-> 1,
              state |-> [edit |-> e1, images |-> "inline"]]}

MCSent == {[edit |-> e1, images |-> "none"]}

Symmetry == Permutations(DigestIds) \cup Permutations(Requests)
=============================================================================
