-------------------------- MODULE MCMessageBuffers --------------------------
(***************************************************************************)
(* Model-checking instance of MessageBuffers: four buffers stand for the   *)
(* sixteen of the code, two callers for its threads.                       *)
(***************************************************************************)
EXTENDS MessageBuffers

CONSTANTS c1, c2

MCClients == {c1, c2}

(* An empty message and a longer one: what the length field may tell apart. *)
MCLengths == {0, 1}

=============================================================================
