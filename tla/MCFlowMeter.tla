---------------------------- MODULE MCFlowMeter ----------------------------
(* FlowMeter for TLC: two meters share the sweeper, two goroutines mark. *)
EXTENDS FlowMeter
=============================================================================
