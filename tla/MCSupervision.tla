--------------------------- MODULE MCSupervision ---------------------------
(***************************************************************************)
(* Dispatch, Lifecycle, Supervision and Nat on small instances; the        *)
(* variable part says which of them a behaviour is about.                  *)
(***************************************************************************)
EXTENDS Dispatch, Lifecycle, Supervision, Nat

VARIABLE part

MCKinds == <<"bytes", "system", "bytes", "app">>
MCServers == <<1, 2>>

Device(r, s) == [root |-> r, services |-> s]
MCDeviceLists ==
    {<<>>, <<Device(TRUE, <<"nonat">>), Device(TRUE, <<>>)>>, <<Device(TRUE, <<"nat">>)>>,
     <<Device(FALSE, <<>>), Device(TRUE, <<"other", "nat", "nonat", "nat">>), Device(TRUE, <<"nat">>)>>}
Interface(u, addrs) == [up |-> u, addrs |-> addrs]
Private == [private |-> TRUE, v4 |-> TRUE]
MCInterfaceLists ==
    {<<>>, <<Interface(TRUE, <<Private>>), Interface(TRUE, <<Private, Private>>)>>,
     <<Interface(FALSE, <<Private>>), Interface(TRUE, <<Private, [Private EXCEPT !.v4 = FALSE], [Private EXCEPT !.private = FALSE]>>)>>}

Init ==
    /\ part \in {"dispatch", "lifecycle", "supervision", "nat"}
    /\ LifeInit /\ NatInit
    /\ DispatchInit /\ (part = "dispatch" \/ (udp /\ inOrder))
    /\ SupInit /\ (part = "supervision" \/ (~proxyMode /\ conns = {Id(1)}))

Next ==
    \/ part = "dispatch" /\ DispatchNext /\ UNCHANGED <<part, lifeVars, supVars, natVars>>
    \/ part = "lifecycle" /\ LifeNext /\ UNCHANGED <<part, dispatchVars, supVars, natVars>>
    \/ part = "supervision" /\ SupNext /\ UNCHANGED <<part, dispatchVars, lifeVars, natVars>>
    \/ part = "nat" /\ NatNext /\ UNCHANGED <<part, dispatchVars, lifeVars, supVars>>

vars == <<part, dispatchVars, lifeVars, supVars, natVars>>
Dispatching == part = "dispatch" /\ UNCHANGED <<part, lifeVars, supVars, natVars>>
Living == part = "lifecycle" /\ ~exited /\ ~crashed /\ UNCHANGED <<part, dispatchVars, supVars, natVars>>
Supervising == part = "supervision" /\ ~panicked /\ UNCHANGED <<part, dispatchVars, lifeVars, natVars>>
Seeking == part = "nat" /\ caller # "panic" /\ UNCHANGED <<part, dispatchVars, lifeVars, supVars>>

\* The goroutines of the library run; callbacks of the application, the peers and
\* the decision to close are not obliged to.
Fairness ==
    /\ WF_vars(Dispatching /\ Worker) /\ WF_vars(Dispatching /\ executeJobs) /\ WF_vars(Dispatching /\ Reader)
    /\ WF_vars(Living /\ Listening) /\ WF_vars(Living /\ WatchKill) /\ WF_vars(Living /\ KeepaliveStops)
    /\ WF_vars(Living /\ listener = "closed" /\ AcceptLoop)
    /\ \A g \in 1..MaxDrops : WF_vars(Supervising /\ g \in DOMAIN goros /\ Supervisor(g))
    /\ WF_vars(Seeking /\ ReceiveFound)
    /\ \A w \in 1..3 : WF_vars(Seeking /\ w \in DOMAIN seekers /\ Seek(w))

Spec == Init /\ [][Next]_vars /\ Fairness
=============================================================================
