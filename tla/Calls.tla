-------------------------------- MODULE Calls --------------------------------
(***************************************************************************)
(* What Request and StreamRequest promise their callers.  Every call has a *)
(* nonce of its own, is sent at most once, takes at most one reply, only   *)
(* one that answers it, and ends once.  A channel keeps a reply from the   *)
(* moment it arrives, which may be after the call has ended.               *)
(***************************************************************************)
EXTENDS Integers

CONSTANT Nonce

VARIABLES
    phase,      \* per nonce: "free", "open" while its call is under way, "ended"
    sent,       \* nonces of the requests that were written
    box         \* per nonce: replies that wait to be taken

calls == <<phase, sent, box>>

Init == phase = [n \in Nonce |-> "free"] /\ sent = {} /\ box = [n \in Nonce |-> 0]

Open(n) == phase[n] = "free" /\ phase' = [phase EXCEPT ![n] = "open"] /\ UNCHANGED <<sent, box>>

Send(n) == phase[n] = "open" /\ n \notin sent /\ sent' = sent \cup {n} /\ UNCHANGED <<phase, box>>

Answer(n) == n \in sent /\ box[n] = 0 /\ box' = [box EXCEPT ![n] = 1] /\ UNCHANGED <<phase, sent>>

\* With a reply or without one.
End(n) ==
    /\ phase[n] = "open" /\ phase' = [phase EXCEPT ![n] = "ended"]
    /\ UNCHANGED box \/ (n \in sent /\ box[n] = 1 /\ box' = [box EXCEPT ![n] = 0])
    /\ UNCHANGED sent

Next == \E n \in Nonce : Open(n) \/ Send(n) \/ Answer(n) \/ End(n)

Spec == Init /\ [][Next]_calls
=============================================================================
