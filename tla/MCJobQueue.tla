----------------------------- MODULE MCJobQueue -----------------------------
(* Instances of JobQueue for TLC. *)
EXTENDS JobQueue, TLC

CONSTANTS w1, w2, w3, j1, j2

\* Every worker has a handler for every job.
AllHandle == [w \in Worker |-> Job]

\* A rolling deployment: worker w2 does not know the type of job j2.
NotAllHandle == [w \in Worker |-> IF w = w2 THEN Job \ {j2} ELSE Job]

WorkerSymmetry == Permutations(Worker)
====
