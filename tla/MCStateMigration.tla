-------------------------- MODULE MCStateMigration --------------------------
(* Two accounts, a clean and an illustrated digest, and damaged images.     *)
EXTENDS StateMigration, TLC

CONSTANTS u1, u2, e1, e2, i1, i2, p1, p2, m1

Pictures(x, y) == [p \in Places |-> IF p = p1 THEN x ELSE y]
LegacyOf(u, x, y) ==
  [owner |-> u, version |-> 1, state |-> [edit |-> e1, images |-> Pictures(x, y)]]

TwoImages == {LegacyOf(u1, Inline(i1), Inline(i2)), LegacyOf(u2, Inline(i1), Inline(i1))}
Damaged   == {LegacyOf(u1, Inline(i1), Foreign), LegacyOf(u1, Inline(i1), Broken),
              LegacyOf(u2, Inline(i1), NoImage)}
OneImage  == {LegacyOf(u1, Inline(i1), NoImage), LegacyOf(u2, Inline(i1), NoImage)}

SentPlain == {[edit |-> e2, images |-> Pictures(NoImage, NoImage)]}
SentImage == {[edit |-> e2, images |-> Pictures(Inline(i2), NoImage)]}

NoMedia == [rows |-> [m \in MediaIds |-> None], files |-> [m \in MediaIds |-> None]]
RowOnly == [NoMedia EXCEPT !.rows[m1] = [owner |-> u2, content |-> i1]]
Whole   == [RowOnly EXCEPT !.files[m1] = i1]
Other   == [NoMedia EXCEPT !.rows[m1] = [owner |-> u2, content |-> i2], !.files[m1] = i2]

MediaBefore == {NoMedia, RowOnly, Whole}
MediaOfAny  == {NoMedia, RowOnly, Whole, Other}

Symmetry == Permutations(DigestIds) \cup Permutations(MediaIds \ {m1})
=============================================================================
