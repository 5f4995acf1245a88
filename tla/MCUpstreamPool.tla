--------------------------- MODULE MCUpstreamPool ---------------------------
(* Instances of UpstreamPool for TLC.  The workers are numbered so that the *)
(* address of a worker's client has a hash of its own.                     *)
EXTENDS UpstreamPool

MCWorkers == 1..2
MCHash == [w \in MCWorkers |-> w]

(* Requests to the first backend may be dropped once. *)
MCLeaks == <<1, 0>>
=============================================================================
