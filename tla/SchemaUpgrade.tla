--------------------------- MODULE SchemaUpgrade ---------------------------
(***************************************************************************)
(* What the migration runner promises the rest of the server: the files    *)
(* take effect one after another, each as a whole and once, and a server   *)
(* that migrates at start-up serves only a database that has them all.     *)
(***************************************************************************)
EXTENDS Naturals

CONSTANTS
  N,             \* number of migration files, in the order of their names
  Servers        \* servers that migrate at start-up

VARIABLES
  done,          \* files that have taken effect
  serving        \* servers that accept requests

vars == <<done, serving>>
Files == 1..N

Init == (\E k \in 0..N : done = 1..k) /\ serving = {}

Upgrade(f) ==
  /\ f \notin done /\ \A g \in Files : g < f => g \in done
  /\ done' = done \cup {f}
  /\ UNCHANGED serving

Serve(i) ==
  /\ done = Files
  /\ serving' = serving \cup {i}
  /\ UNCHANGED done

Stop(i) ==
  /\ serving' = serving \ {i}
  /\ UNCHANGED done

Next ==
  \/ \E f \in Files : Upgrade(f)
  \/ \E i \in Servers : Serve(i) \/ Stop(i)

Spec == Init /\ [][Next]_vars
=============================================================================
