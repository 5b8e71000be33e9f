------------------------------ MODULE MCMedia ------------------------------
(* Two users, two images, overlapping saves; Postgres when all goes wrong,  *)
(* Postgres on a good disk, and MemoryStore on a bad one.                   *)
EXTENDS Media, TLC

MCSettings == {[store |-> "postgres", faults |-> AllFaults],
               [store |-> "postgres", faults |-> {"reply"}],
               [store |-> "memory", faults |-> {"disk"}]}

Symmetry == Permutations(MediaIds) \cup Permutations(Requests)
              \cup Permutations(Users) \cup Permutations(Contents)
=============================================================================
