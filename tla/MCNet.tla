------------------------------- MODULE MCNet --------------------------------
(***************************************************************************)
(* The network components, checked side by side: part says which of them   *)
(* this behaviour is about, and the others stay in their initial state.    *)
(***************************************************************************)
EXTENDS EPollPoller, NetPoller, TimerQueue, TcpClient, NetConnection, NetServer

VARIABLE part

netVars == <<part, vars, pol, tmr, cli, nc, srv>>

\* The components that are not part stay as they are.
Only(p) == /\ part = p
           /\ UNCHANGED part
           /\ IF p = "registry" THEN TRUE ELSE UNCHANGED vars
           /\ IF p = "pollers" THEN TRUE ELSE UNCHANGED pol
           /\ IF p = "timers" THEN TRUE ELSE UNCHANGED tmr
           /\ IF p = "client" THEN TRUE ELSE UNCHANGED cli
           /\ IF p = "connection" THEN TRUE ELSE UNCHANGED nc
           /\ IF p = "server" THEN TRUE ELSE UNCHANGED srv

NetInit == /\ part \in {"registry", "pollers", "timers", "client", "connection", "server"}
           /\ Init /\ TimerInit /\ NcInit
           /\ PollInit /\ (part # "pollers" => pol.kind = "poll")
           /\ ClientInit /\ (part # "client" => cli.retry)
           /\ SrvInit /\ (part # "server" => srv.lean /\ srv.pool = 0)

NetNext == \/ Only("registry") /\ Next
           \/ Only("pollers") /\ PollNext
           \/ Only("timers") /\ TimerNext
           \/ Only("client") /\ ClientNext
           \/ Only("connection") /\ NcNext
           \/ Only("server") /\ SrvNext

NetSpec == NetInit /\ [][NetNext]_netVars
=============================================================================
