--------------------------- MODULE MCBackpressure ---------------------------
(* Instances of Backpressure for TLC: three producers' calls, two of them with the
   same idempotency key, one of them a batch. *)
EXTENDS Backpressure, TLC

CONSTANTS c1, c2, c3, j1, j2, j3, j4, k1

Batches == (c1 :> {j1, j2}) @@ (c2 :> {j3}) @@ (c3 :> {j4})
Keys == (j1 :> k1) @@ (j2 :> NoKey) @@ (j3 :> k1) @@ (j4 :> NoKey)
====
