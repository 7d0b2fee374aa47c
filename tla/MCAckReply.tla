----------------------------- MODULE MCAckReply -----------------------------
(* AckReply for TLC. *)
EXTENDS AckReply

=============================================================================
