--------------------------- MODULE MCRequestReply ---------------------------
(* RequestReply for TLC. *)
EXTENDS RequestReply
=============================================================================
