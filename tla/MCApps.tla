------------------------------- MODULE MCApps -------------------------------
(***************************************************************************)
(* Servers and clients built on the library, checked side by side: part    *)
(* says which of them this behaviour is about, and the others stay in      *)
(* their initial state.                                                    *)
(***************************************************************************)
EXTENDS Multiplexer, Memcached, Relay, Broadcast, Rpc, Idle

VARIABLE part

appVars == <<part, mx, mc, rl, ch, hb, rpc, rb, idl>>

\* The components that are not part stay as they are.
Only(p) == /\ part = p
           /\ UNCHANGED part
           /\ IF p = "mux" THEN TRUE ELSE UNCHANGED mx
           /\ IF p = "memcached" THEN TRUE ELSE UNCHANGED mc
           /\ IF p = "relay" THEN TRUE ELSE UNCHANGED rl
           /\ IF p = "chat" THEN TRUE ELSE UNCHANGED ch
           /\ IF p = "hub" THEN TRUE ELSE UNCHANGED hb
           /\ IF p = "rpc" THEN TRUE ELSE UNCHANGED rpc
           /\ IF p = "balancer" THEN TRUE ELSE UNCHANGED rb
           /\ IF p = "idle" THEN TRUE ELSE UNCHANGED idl

AppInit == /\ part \in {"mux", "memcached", "relay", "chat", "hub", "rpc", "balancer", "idle"}
           /\ McInit /\ HubInit /\ RpcInit
           /\ RbInit /\ (part # "balancer" => rb.order[1] = 0)
           /\ MuxInit /\ (part # "mux" => mx.threaded)
           /\ RelayInit /\ (part # "relay" => rl.socks)
           /\ ChatInit /\ (part # "chat" => ch.kind = "server")
           /\ IdleInit /\ (part # "idle" => idl.kind = "wheel")

AppNext == \/ Only("mux") /\ MuxNext
           \/ Only("memcached") /\ McNext
           \/ Only("relay") /\ RelayNext
           \/ Only("chat") /\ ChatNext
           \/ Only("hub") /\ HubNext
           \/ Only("rpc") /\ RpcNext
           \/ Only("balancer") /\ RbNext
           \/ Only("idle") /\ IdleNext

AppSpec == AppInit /\ [][AppNext]_appVars

(* The multiplexer keeps ids, announcements and bytes of its clients       *)
(* apart: MuxSound (multiplexer.cc, demux.cc).                             *)
MuxKeepsApart == part = "mux" => MuxSound

(* Sessions over one table answer every request once and keep the promise  *)
(* of cas: MemcachedSound (Session.cc, MemcacheServer.cc).                 *)
MemcachedServes == part = "memcached" => MemcachedSound

(* A tunnel loses no byte, does not stall and stays bounded: RelaySound    *)
(* (tunnel.h, socks4a.cc).                                                 *)
RelayFlows == part = "relay" => RelaySound

(* Every member of the chat gets every message, a sender's in order:       *)
(* ChatSound (asio/chat/server*.cc).                                       *)
ChatReachesAll == part = "chat" => ChatSound

(* Subscribers of the hub have the latest value and nobody else is kept:   *)
(* HubSound (hub.cc).                                                      *)
HubKeepsCurrent == part = "hub" => HubSound

(* Idle and surplus connections are closed in time, active ones never:     *)
(* IdleSound (idleconnection/echo.cc, sortedlist.cc, maxconnection).       *)
IdleClosesInTime == part = "idle" => IdleSound

(* Remote calls, with channels at both ends and with either balancer in    *)
(* between, are answered to the caller, once, and what was not is          *)
(* accounted for (RpcChannel, balancer.cc, balancer_raw.cc).               *)
CallsSound == (part = "rpc" => RpcSound) /\ (part = "balancer" => BalancerSound)
=============================================================================
