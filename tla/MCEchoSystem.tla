---------------------------- MODULE MCEchoSystem ----------------------------
(***************************************************************************)
(* Model-checking instance of EchoSystem: three echoes through a pool of   *)
(* two buffers, so that the ring wraps, messages of two bytes, which can   *)
(* be cut off anywhere in their header and their data, and two kinds of    *)
(* signal, which can interrupt each other's handler.                       *)
(***************************************************************************)
EXTENDS EchoSystem

=============================================================================
