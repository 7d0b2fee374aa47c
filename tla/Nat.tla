-------------------------------- MODULE Nat --------------------------------
(***************************************************************************)
(* The search for a gateway that maps ports (protocols/upnp): NewUPnP with *)
(* one goroutine per version of the protocol, NewPMP with one per active   *)
(* gateway and a timeout.  All goroutines answer on one buffered channel,  *)
(* of which the caller takes no more than it needs.                        *)
(***************************************************************************)
EXTENDS Integers, Sequences, SequencesExt

CONSTANTS
    DeviceLists,    \* what DiscoverDevices may find: sequences of [root, services], the
                    \* services being "other", "nonat" or "nat"
    InterfaceLists  \* sequences of [up, addrs]; addrs a sequence of [private, v4]

VARIABLES
    caller,         \* "idle", "wait", "found", "none" or "panic"
    pmp,            \* NewPMP rather than NewUPnP
    seekers,        \* the goroutines
    found, foundCap,\* the channel: the answers in it, TRUE for a gateway; its capacity
    taken,          \* answers the caller has received
    fired           \* the timer has fired

natVars == <<caller, pmp, seekers, found, foundCap, taken, fired>>

NatInit ==
    /\ caller = "idle" /\ pmp = FALSE /\ seekers = <<>>
    /\ found = <<>> /\ foundCap = 0 /\ taken = 0 /\ fired = FALSE

Seeker(devices) == [pc |-> "start", devices |-> devices, d |-> 1, s |-> 1, found |-> FALSE]
-----------------------------------------------------------------------------
NewUPnP ==
    /\ caller = "idle" /\ caller' = "wait" /\ pmp' = FALSE
    /\ \E v1, v2 \in DeviceLists : seekers' = <<Seeker(v1), Seeker(v2)>>
    /\ foundCap' = 2
    /\ UNCHANGED <<found, taken, fired>>

\* Gateways of the private IPv4 networks of the interfaces that are up.
activeGateways(interfaces) ==
    LET inUse == SelectSeq(interfaces, LAMBDA iface : iface.up)
    IN  SelectSeq(FlattenSeq([i \in DOMAIN inUse |-> inUse[i].addrs]), LAMBDA a : a.private /\ a.v4)

NewPMP ==
    /\ caller = "idle" /\ caller' = "wait" /\ pmp' = TRUE
    /\ \E interfaces \in InterfaceLists :
          /\ seekers' = [i \in DOMAIN activeGateways(interfaces) |-> Seeker(<<>>)]
          /\ foundCap' = Len(activeGateways(interfaces))
    /\ UNCHANGED <<found, taken, fired>>

\* The loop of the caller, and the panic after it.
ReceiveFound ==
    /\ caller = "wait"
    /\ IF taken = foundCap THEN caller' = "panic" /\ UNCHANGED <<found, taken>>
       ELSE /\ found # <<>>
            /\ caller' = IF Head(found) THEN "found" ELSE "wait"
            /\ found' = Tail(found) /\ taken' = taken + 1
    /\ UNCHANGED <<pmp, seekers, foundCap, fired>>

\* One timer for all gateways.
Timeout ==
    /\ pmp /\ caller = "wait" /\ taken < foundCap /\ ~fired
    /\ fired' = TRUE /\ caller' = "none"
    /\ UNCHANGED <<pmp, seekers, found, foundCap, taken>>
-----------------------------------------------------------------------------
Send(w, gateway, next) ==
    /\ Len(found) < foundCap
    /\ found' = Append(found, gateway)
    /\ seekers' = [seekers EXCEPT ![w] = next]

\* GetExternalAddress of a gateway.
AskGateway(w) ==
    /\ pmp /\ seekers[w].pc = "start"
    /\ \E answers \in BOOLEAN : Send(w, answers, [seekers[w] EXCEPT !.pc = "done", !.found = answers])

\* DiscoverDevices.
DiscoverDevices(w) ==
    /\ ~pmp /\ seekers[w].pc = "start"
    /\ \/ Send(w, FALSE, [seekers[w] EXCEPT !.pc = "done"])
       \/ seekers' = [seekers EXCEPT ![w].pc = "walk"] /\ UNCHANGED found

Finished(k) == k.d > Len(k.devices) \/ (k.found /\ k.s = 1)

\* Mutant: found is not set, and the walk goes on.
VisitServicesOn(w) ==
    /\ seekers[w].pc = "walk" /\ ~Finished(seekers[w])
    /\ LET k == seekers[w]
           device == k.devices[k.d]
       IN  IF ~device.root \/ k.s > Len(device.services)
           THEN seekers' = [seekers EXCEPT ![w].d = @ + 1, ![w].s = 1] /\ UNCHANGED found
           ELSE IF device.services[k.s] = "nat" THEN Send(w, TRUE, [k EXCEPT !.s = @ + 1])
           ELSE seekers' = [seekers EXCEPT ![w].s = @ + 1] /\ UNCHANGED found

\* One service, or the step to the next device; the services after a match are
\* visited in vain.
VisitServices(w) ==
    /\ seekers[w].pc = "walk" /\ ~Finished(seekers[w])
    /\ LET k == seekers[w]
           device == k.devices[k.d]
       IN  IF ~device.root \/ k.s > Len(device.services)
           THEN seekers' = [seekers EXCEPT ![w].d = @ + 1, ![w].s = 1] /\ UNCHANGED found
           ELSE IF ~k.found /\ device.services[k.s] = "nat" THEN Send(w, TRUE, [k EXCEPT !.s = @ + 1, !.found = TRUE])
           ELSE seekers' = [seekers EXCEPT ![w].s = @ + 1] /\ UNCHANGED found

EndDiscover(w) ==
    /\ seekers[w].pc = "walk" /\ Finished(seekers[w])
    /\ IF seekers[w].found THEN seekers' = [seekers EXCEPT ![w].pc = "done"] /\ UNCHANGED found
       ELSE Send(w, FALSE, [seekers[w] EXCEPT !.pc = "done"])

Seek(w) ==
    /\ AskGateway(w) \/ DiscoverDevices(w) \/ VisitServices(w) \/ EndDiscover(w)
    /\ UNCHANGED <<caller, pmp, foundCap, taken, fired>>

NatNext ==
    /\ caller # "panic"
    /\ NewUPnP \/ NewPMP \/ ReceiveFound \/ Timeout \/ \E w \in DOMAIN seekers : Seek(w)
-----------------------------------------------------------------------------
\* The caller may leave with the first gateway, or at the timeout: still no
\* goroutine of the search is left blocked on the channel, and the program panics
\* only when all have answered and none has a gateway (upnp.go NewUPnP, discover;
\* pmp.go NewPMP).
GatewaySearchEnds ==
    caller = "wait" ~>
       \/ caller = "panic" /\ \A w \in DOMAIN seekers : seekers[w].pc = "done" /\ ~seekers[w].found
       \/ caller = "found" /\ \A w \in DOMAIN seekers : seekers[w].pc = "done"
       \/ caller = "none" /\ fired /\ \A w \in DOMAIN seekers : seekers[w].pc = "done"
=============================================================================
