---------------------------- MODULE MCDigestApi ----------------------------
(* Two requests in flight race on one digest, of either user; it may come  *)
(* from a release that stored images inline.                               *)
EXTENDS DigestApi, TLC

CONSTANTS u1, e1, e2

MCLegacy == {[owner |-> u1, title |-> Untitled, type |-> DefaultType, version |-> 1,
              state |-> [edit |-> e1, images |-> "inline"]]}

\* A client sends a new edit with no image, or an old one with an inline image,
\* which the server stores or leaves as it is.
MCSent == {[edit |-> e2, images |-> "none"], [edit |-> e1, images |-> "inline"],
           [edit |-> e1, images |-> "foreign"]}

Symmetry == Permutations(Requests)
=============================================================================
