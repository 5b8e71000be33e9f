---------------------------- MODULE MCStateTree ----------------------------
(* A lone leaf; an array or object of two leaves of up to two parts; and     *)
(* one that holds another beside a leaf, each an array or an object.         *)
EXTENDS StateTree

CONSTANTS
  i1, i2,
  text,           \* decoded as it is written
  long, rounded,  \* a number float64 cannot hold, and what it makes of it
  huge            \* out of range

MCDecoded ==
  [v \in Values |-> CASE v = long -> rounded [] v = huge -> OutOfRange [] OTHER -> v]

AllParts == {Plain(text), Broken, Inline(i1), Inline(i2)}
Scalars  == {<<Plain(v)>> : v \in {long, huge, Null}}
Leaves   == UNION {[1..n -> AllParts] : n \in 0..2} \cup Scalars
Few      == {<<>>, <<Plain(long)>>, <<Inline(i1)>>, <<Inline(i1), Broken>>,
             <<Plain(text), Inline(i2)>>}

MCTrees ==
       {Tree(f, {}) : f \in [{<<>>} -> Leaves]}
  \cup {Tree(f, a) : f \in [{<<1>>, <<2>>} -> Leaves], a \in SUBSET {<<>>}}
  \cup {Tree(f, a) : f \in [{<<1, 1>>, <<1, 2>>, <<2>>} -> Few], a \in SUBSET {<<>>, <<1>>}}
=============================================================================
