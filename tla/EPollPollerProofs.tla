-------------------------- MODULE EPollPollerProofs --------------------------
(***************************************************************************)
(* For any number of Channels and descriptors: the three records of what   *)
(* is watched agree, no event leads to a destroyed Channel, and no         *)
(* EPOLL_CTL_DEL fails.  Then the same for upstream's two Pollers: each    *)
(* watches exactly what its Channels want, and no assertion of theirs      *)
(* fails.                                                                  *)
(***************************************************************************)
EXTENDS EPollPoller, NetPoller, FiniteSetTheorems, SequenceTheorems, TLAPS

\* A new poller watches nothing, and its fields have their types.
LEMMA InitTypeOK == Init => TypeOK
  BY ZenonT(40) DEF Init, TypeOK, Interests, kNoneEvent, kNew

\* The body of updateChannel keeps the types, whatever the new interest.
LEMMA UpdateTypeOK ==
  ASSUME TypeOK, NEW c \in Channels, NEW interest \in Interests,
         updateChannel(c, interest)
  PROVE  TypeOK'
<1> USE DEF TypeOK, loopVars, epollVars
<1>1. fd_[c] \in Fds
  BY DEF updateChannel, InLoop, Live
<1>2. /\ fd_' = fd_
      /\ events_' \in [Channels -> Interests]
      /\ activeChannels' = activeChannels
      /\ phase' = phase
  BY DEF updateChannel
<1>3. channels_' \in [Fds -> Channels \cup {NoChannel}]
  BY <1>1 DEF updateChannel
<1>4. index_' \in [Channels -> {kNew, kAdded, kDeleted}]
  BY DEF updateChannel
<1>5. /\ epollPtr' \in [Fds -> Channels \cup {NoChannel}]
      /\ epollEvents' \in [Fds -> Interests]
      /\ exited' \in BOOLEAN
  BY <1>1, ZenonT(40) DEF updateChannel, updateAdd, updateMod, updateDel, Interests, kNoneEvent
<1> QED
  BY <1>2, <1>3, <1>4, <1>5

\* The interests the Channel's enable and disable functions ask for.
LEMMA InterestTypes ==
  ASSUME TypeOK, NEW c \in Channels
  PROVE  /\ events_[c] \cup {kReadEvent} \in Interests
         /\ events_[c] \ {kReadEvent} \in Interests
         /\ events_[c] \cup {kWriteEvent} \in Interests
         /\ events_[c] \cap {kWriteEvent} \in Interests
         /\ kNoneEvent \in Interests
<1>1. events_[c] \in SUBSET {kReadEvent, kWriteEvent}
  BY DEF TypeOK, Interests
<1> QED
  BY <1>1, Zenon DEF Interests, kNoneEvent

\* Every operation on a Channel and every step of the loop keeps the types.
LEMMA NextTypeOK == TypeOK /\ [Next]_vars => TypeOK'
<1> SUFFICES ASSUME TypeOK, [Next]_vars PROVE TypeOK'
  OBVIOUS
<1> USE DEF channelVars, loopVars, epollVars
<1>1. ASSUME NEW c \in Channels,
             \/ enableReading(c) \/ disableReading(c) \/ enableWriting(c)
             \/ disableWriting(c) \/ disableAll(c)
      PROVE  TypeOK'
  BY <1>1, UpdateTypeOK, InterestTypes, Zenon
     DEF enableReading, disableReading, enableWriting, disableWriting, disableAll
<1>2. ASSUME NEW c \in Channels, removeChannel(c) PROVE TypeOK'
  <2>1. fd_[c] \in Fds
    BY <1>2 DEF removeChannel, InLoop, Live, TypeOK
  <2>2. /\ epollPtr' \in [Fds -> Channels \cup {NoChannel}]
        /\ epollEvents' \in [Fds -> Interests]
        /\ exited' \in BOOLEAN
    BY <1>2, <2>1, Zenon DEF removeChannel, updateDel, TypeOK, Interests, kNoneEvent
  <2> QED
    BY <1>2, <2>1, <2>2, Zenon DEF removeChannel, TypeOK
<1>3. ASSUME NEW c \in Channels, destroy(c) PROVE TypeOK'
  BY <1>3 DEF destroy, TypeOK, Live, Interests, kNoneEvent
<1>4. ASSUME NEW c \in Channels, handleEvent(c) PROVE TypeOK'
  BY <1>4 DEF handleEvent, TypeOK
<1>5. ASSUME NEW c \in Channels, NEW f \in Fds, construct(c, f) PROVE TypeOK'
  BY <1>5 DEF construct, TypeOK, Interests, kNoneEvent, kNew
<1>6. CASE poll
  BY <1>6 DEF poll, TypeOK, Registered
<1>7. CASE doPendingFunctors
  BY <1>7 DEF doPendingFunctors, TypeOK
<1>8. CASE nextIteration
  BY <1>8 DEF nextIteration, TypeOK
<1>9. CASE UNCHANGED vars
  BY <1>9 DEF vars, TypeOK
<1> QED
  BY <1>1, <1>2, <1>3, <1>4, <1>5, <1>6, <1>7, <1>8, <1>9 DEF Next, ChannelOp

\* Every field of the Channels, the poller and the kernel keeps its type.
THEOREM TypeCorrect == Spec => []TypeOK
  BY InitTypeOK, NextTypeOK, PTL DEF Spec

-----------------------------------------------------------------------------
\* A new poller satisfies the invariant.
LEMMA InitPollerInv == Init => PollerInv
  BY DEF Init, PollerInv, RegistryInStep, Live

\* updateChannel, whatever interest it is called with, moves all three records
\* together and touches no other Channel's descriptor.
LEMMA UpdatePollerInv ==
  ASSUME TypeOK, PollerInv, NEW c \in Channels, NEW interest \in Interests,
         updateChannel(c, interest)
  PROVE  PollerInv'
<1> USE PollerAssumption DEF TypeOK, epollVars, loopVars, kNew, kAdded, kDeleted
<1>1. fd_[c] \in Fds /\ Live(c) /\ InStep(c)
  BY DEF updateChannel, InLoop, Live, PollerInv, RegistryInStep
<1>2. /\ fd_' = fd_
      /\ activeChannels' = activeChannels
      /\ phase' = phase
      /\ events_' = [events_ EXCEPT ![c] = interest]
  BY DEF updateChannel
<1>3. /\ \A d \in Channels \ {c} : index_'[d] = index_[d]
      /\ index_'[c] # kNew
  BY DEF updateChannel
<1>4. \A f \in Fds \ {fd_[c]} :
        /\ channels_'[f] = channels_[f]
        /\ epollPtr'[f] = epollPtr[f]
        /\ epollEvents'[f] = epollEvents[f]
  BY <1>1 DEF updateChannel, updateAdd, updateMod, updateDel
<1>5. InStep(c)' /\ ~exited'
  <2>1. CASE index_[c] \in {kNew, kDeleted}
    <3>1. /\ index_'[c] = kAdded
          /\ channels_'[fd_[c]] = c
          /\ epollPtr'[fd_[c]] = c
          /\ epollEvents'[fd_[c]] = interest
          /\ exited' = exited
      BY <1>1, <2>1 DEF updateChannel, updateAdd, InStep
    <3> QED
      BY <1>2, <3>1 DEF InStep, PollerInv
  <2>2. CASE index_[c] = kAdded /\ interest = kNoneEvent
    <3>1. /\ index_'[c] = kDeleted
          /\ channels_'[fd_[c]] = c
          /\ epollPtr'[fd_[c]] = NoChannel
          /\ ~exited'
      <4>1. updateDel(c) /\ index_' = [index_ EXCEPT ![c] = kDeleted]
                         /\ channels_' = channels_
        BY <2>2 DEF updateChannel
      <4>2. epollPtr[fd_[c]] = c /\ channels_[fd_[c]] = c
        BY <1>1, <2>2, SMTT(40) DEF InStep
      <4> QED
        BY <1>1, <4>1, <4>2, Zenon DEF updateDel
    <3> QED
      BY <1>2, <2>2, <3>1 DEF InStep
  <2>3. CASE index_[c] = kAdded /\ interest # kNoneEvent
    <3>1. /\ index_'[c] = kAdded
          /\ channels_'[fd_[c]] = c
          /\ epollPtr'[fd_[c]] = c
          /\ epollEvents'[fd_[c]] = interest
          /\ exited' = exited
      BY <1>1, <2>3 DEF updateChannel, updateMod, InStep
    <3> QED
      BY <1>2, <3>1 DEF InStep, PollerInv
  <2> QED BY <2>1, <2>2, <2>3
<1>6. ASSUME NEW d \in Channels \ {c}, Live(d)
      PROVE  InStep(d)'
  <2>1. fd_[d] \in Fds \ {fd_[c]} /\ InStep(d)
    BY <1>6 DEF Live, PollerInv, RegistryInStep
  <2> QED
    BY <1>2, <1>3, <1>4, <2>1 DEF InStep
<1>7. RegistryInStep'
  <2>1. ASSUME NEW f \in Fds, \A d \in Channels : fd_[d] # f
        PROVE  channels_'[f] = NoChannel /\ epollPtr'[f] = NoChannel
    BY <2>1, <1>1, <1>4 DEF PollerInv, RegistryInStep
  <2> QED
    BY <1>2, <1>5, <1>6, <2>1, SMTT(40) DEF RegistryInStep, Live
<1>8. \A d \in activeChannels' : Live(d)' /\ index_'[d] # kNew
  BY <1>2, <1>3 DEF PollerInv, Live
<1> QED
  BY <1>2, <1>5, <1>7, <1>8, SMTT(40) DEF PollerInv, Live

\* Every operation on a Channel, its construction and destruction with reuse of
\* its descriptor, and every step of the loop keep the invariant.
LEMMA NextPollerInv == TypeOK /\ PollerInv /\ [Next]_vars => PollerInv'
<1> SUFFICES ASSUME TypeOK, PollerInv, [Next]_vars PROVE PollerInv'
  OBVIOUS
<1> USE PollerAssumption DEF channelVars, loopVars, epollVars
<1>1. ASSUME NEW c \in Channels,
             \/ enableReading(c) \/ disableReading(c) \/ enableWriting(c)
             \/ disableWriting(c) \/ disableAll(c)
      PROVE  PollerInv'
  BY <1>1, UpdatePollerInv, InterestTypes, SMTT(40)
     DEF enableReading, disableReading, enableWriting, disableWriting, disableAll
<1>2. ASSUME NEW c \in Channels, removeChannel(c) PROVE PollerInv'
  <2>1. fd_[c] \in Fds /\ Live(c) /\ InStep(c)
    BY <1>2 DEF removeChannel, InLoop, Live, PollerInv, RegistryInStep, TypeOK
  <2>2. /\ fd_' = fd_ /\ events_' = events_
        /\ activeChannels' = {} /\ phase' = phase
        /\ \A d \in Channels \ {c} : index_'[d] = index_[d]
        /\ index_'[c] = kNew
        /\ channels_'[fd_[c]] = NoChannel
        /\ \A f \in Fds \ {fd_[c]} : channels_'[f] = channels_[f]
    BY <1>2, <2>1 DEF removeChannel, TypeOK, PollerInv
  <2>3. /\ epollPtr'[fd_[c]] = NoChannel
        /\ \A f \in Fds \ {fd_[c]} :
             epollPtr'[f] = epollPtr[f] /\ epollEvents'[f] = epollEvents[f]
        /\ ~exited'
    BY <1>2, <2>1
       DEF removeChannel, updateDel, TypeOK, PollerInv, InStep, kNew, kAdded, kDeleted
  <2>4. ASSUME NEW d \in Channels, Live(d) PROVE InStep(d)'
    <3>1. CASE d = c
      BY <2>2, <2>3, <3>1 DEF InStep, kNew, kAdded, kDeleted
    <3>2. CASE d # c
      <4>1. fd_[d] \in Fds \ {fd_[c]} /\ InStep(d)
        BY <2>4, <3>2 DEF Live, PollerInv, RegistryInStep, TypeOK
      <4> QED BY <2>2, <2>3, <3>2, <4>1 DEF InStep
    <3> QED BY <3>1, <3>2
  <2>5. RegistryInStep'
    <3>1. ASSUME NEW f \in Fds, \A d \in Channels : fd_[d] # f
          PROVE  channels_'[f] = NoChannel /\ epollPtr'[f] = NoChannel
      BY <3>1, <2>2, <2>3, SMTT(40) DEF PollerInv, RegistryInStep
    <3> QED BY <2>2, <2>4, <3>1 DEF RegistryInStep, Live
  <2> QED
    BY <2>2, <2>3, <2>5 DEF PollerInv, Live
<1>3. ASSUME NEW c \in Channels, destroy(c) PROVE PollerInv'
  <2>1. fd_[c] \in Fds /\ Live(c) /\ InStep(c) /\ index_[c] = kNew
    BY <1>3 DEF destroy, Live, PollerInv, RegistryInStep, TypeOK
  <2>2. /\ fd_'[c] = NoFd
        /\ \A d \in Channels \ {c} : fd_'[d] = fd_[d]
        /\ epollPtr'[fd_[c]] = NoChannel
        /\ \A f \in Fds \ {fd_[c]} :
             epollPtr'[f] = epollPtr[f] /\ epollEvents'[f] = epollEvents[f]
        /\ UNCHANGED <<events_, index_, channels_, activeChannels, phase, exited>>
    BY <1>3, <2>1 DEF destroy, TypeOK
  <2>3. ASSUME NEW d \in Channels, Live(d)' PROVE InStep(d)'
    <3>1. d # c /\ Live(d) /\ fd_[d] \in Fds \ {fd_[c]} /\ InStep(d)
      BY <2>2, <2>3 DEF Live, PollerInv, RegistryInStep, TypeOK
    <3> QED BY <2>2, <3>1 DEF InStep
  <2>4. ASSUME NEW f \in Fds, \A d \in Channels : fd_'[d] # f
        PROVE  channels_'[f] = NoChannel /\ epollPtr'[f] = NoChannel
    <3>1. CASE f = fd_[c]
      BY <2>1, <2>2, <3>1 DEF InStep
    <3>2. CASE f # fd_[c]
      BY <2>2, <2>4, <3>2 DEF PollerInv, RegistryInStep
    <3> QED BY <3>1, <3>2, SMTT(40)
  <2>5. \A d \in activeChannels' : Live(d)' /\ index_'[d] # kNew
    BY <2>1, <2>2 DEF PollerInv, Live, TypeOK
  <2>6. \A d, e \in Channels : Live(d)' /\ fd_'[d] = fd_'[e] => d = e
    BY <2>2 DEF PollerInv, Live
  <2> QED
    BY <2>2, <2>3, <2>4, <2>5, <2>6, SMTT(40) DEF PollerInv, RegistryInStep
<1>4. ASSUME NEW c \in Channels, handleEvent(c) PROVE PollerInv'
  BY <1>4 DEF handleEvent, PollerInv, RegistryInStep, InStep, Live
<1>5. ASSUME NEW c \in Channels, NEW f \in Fds, construct(c, f) PROVE PollerInv'
  <2>1. /\ fd_[c] = NoFd
        /\ \A d \in Channels : fd_[d] # f
        /\ fd_'[c] = f
        /\ index_'[c] = kNew
        /\ \A d \in Channels \ {c} :
             fd_'[d] = fd_[d] /\ index_'[d] = index_[d] /\ events_'[d] = events_[d]
        /\ UNCHANGED <<channels_, epollPtr, epollEvents, activeChannels, phase, exited>>
    BY <1>5 DEF construct, Live, TypeOK
  <2>2. channels_[f] = NoChannel /\ epollPtr[f] = NoChannel
    BY <2>1 DEF PollerInv, RegistryInStep
  <2>3. ASSUME NEW d \in Channels, Live(d)' PROVE InStep(d)'
    <3>1. CASE d = c
      BY <2>1, <2>2, <3>1, SMTT(40) DEF InStep, kNew, kAdded, kDeleted
    <3>2. CASE d # c
      BY <2>1, <2>3, <3>2, SMTT(40) DEF InStep, Live, PollerInv, RegistryInStep
    <3> QED BY <3>1, <3>2, SMTT(40)
  <2>4. ASSUME NEW g \in Fds, \A d \in Channels : fd_'[d] # g
        PROVE  channels_'[g] = NoChannel /\ epollPtr'[g] = NoChannel
    <3>1. \A d \in Channels : fd_[d] # g
      BY <2>1, <2>4, PollerAssumption, SMTT(40)
    <3> QED BY <2>1, <3>1 DEF PollerInv, RegistryInStep
  <2>5. \A d \in activeChannels' : Live(d)' /\ index_'[d] # kNew
    BY <2>1 DEF PollerInv, Live, TypeOK
  <2>6. \A d, e \in Channels : Live(d)' /\ fd_'[d] = fd_'[e] => d = e
    BY <2>1 DEF PollerInv, Live
  <2> QED
    BY <2>1, <2>3, <2>4, <2>5, <2>6, SMTT(40) DEF PollerInv, RegistryInStep
<1>6. CASE poll
  <2>1. \A c \in Registered : c \in Channels /\ Live(c) /\ index_[c] # kNew
    <3>1. ASSUME NEW f \in Fds, epollPtr[f] # NoChannel
          PROVE  /\ epollPtr[f] \in Channels
                 /\ Live(epollPtr[f])
                 /\ index_[epollPtr[f]] # kNew
      <4>1. PICK d \in Channels : fd_[d] = f
        BY <3>1 DEF PollerInv, RegistryInStep
      <4>2. Live(d) /\ InStep(d)
        BY <4>1 DEF Live, PollerInv, RegistryInStep
      <4>3. index_[d] = kAdded /\ epollPtr[f] = d
        BY <3>1, <4>1, <4>2, SMTT(40) DEF InStep, TypeOK
      <4> QED BY <4>2, <4>3 DEF kNew, kAdded
    <3> QED BY <3>1 DEF Registered
  <2> QED
    BY <1>6, <2>1 DEF poll, PollerInv, RegistryInStep, InStep, Live
<1>7. CASE doPendingFunctors
  BY <1>7, SMTT(40) DEF doPendingFunctors, PollerInv, RegistryInStep, InStep, Live
<1>8. CASE nextIteration
  BY <1>8, SMTT(40) DEF nextIteration, PollerInv, RegistryInStep, InStep, Live
<1>9. CASE UNCHANGED vars
  BY <1>9 DEF vars, PollerInv, RegistryInStep, InStep, Live
<1> QED
  BY <1>1, <1>2, <1>3, <1>4, <1>5, <1>6, <1>7, <1>8, <1>9, SMTT(40) DEF Next, ChannelOp

\* The inductive invariant holds in every reachable state.
THEOREM PollerInvariant == Spec => [](TypeOK /\ PollerInv)
  BY InitTypeOK, InitPollerInv, NextTypeOK, NextPollerInv, PTL DEF Spec

\* Channel, Poller and kernel agree on what is watched (updateChannel,
\* removeChannel), for any sequence of operations and any reuse of descriptors.
THEOREM RegistryAlwaysInStep == Spec => []RegistryInStep
<1>1. PollerInv => RegistryInStep
  BY DEF PollerInv
<1> QED BY <1>1, PollerInvariant, PTL

\* No pointer that epoll_wait hands to fillActiveChannels, or that waits in
\* activeChannels, is to a destroyed Channel.
THEOREM NoChannelDangles == Spec => []NoDanglingChannel
<1>1. TypeOK /\ PollerInv => NoDanglingChannel
  BY DEF TypeOK, PollerInv, NoDanglingChannel
<1> QED BY <1>1, PollerInvariant, PTL

\* No EPOLL_CTL_DEL is ever refused, so update never ends the process.
THEOREM DeleteNeverFails == Spec => []NoFailedDelete
<1>1. PollerInv => NoFailedDelete
  BY DEF PollerInv, NoFailedDelete
<1> QED BY <1>1, PollerInvariant, PTL

-----------------------------------------------------------------------------
(* Upstream's Pollers.  The parts of PollInv, of the fields they are about.    *)

PollItem == [fd : Int, events : PollEvents]
PollItemOf(c, want, e) == e.events = want /\ (e.fd = c \/ (e.fd = PollIgnored(c) /\ want = {}))
PollIndexed(ev, idx, map) == /\ map = {c \in PollChannels : idx[c] # -1}
                             /\ \A c \in PollChannels : idx[c] = -1 => ev[c] = {}
PollMarked(ev, idx, epoll) ==
  \A c \in PollChannels : /\ idx[c] \in {EpNew, EpAdded, EpDeleted}
                          /\ idx[c] = EpAdded => epoll[c] = ev[c]
                          /\ idx[c] # EpAdded => epoll[c] = NotWatched /\ ev[c] = {}
PollLeads(ev, idx, fds) ==
  \A c \in PollChannels : idx[c] # -1 => idx[c] + 1 \in 1 .. Len(fds) /\ PollItemOf(c, ev[c], fds[idx[c] + 1])
PollLeadsBack(idx, fds) ==
  \A i \in 1 .. Len(fds) : PollMovedIndex(fds[i].fd) \in PollChannels /\ idx[PollMovedIndex(fds[i].fd)] = i - 1
PollIgnores(ev, idx, fds) ==
  \A c \in PollChannels : idx[c] # -1 /\ ev[c] = {} => fds[idx[c] + 1].fd = PollIgnored(c)

PollRecord == [kind : {"poll", "epoll"}, ev : [PollChannels -> PollEvents], idx : [PollChannels -> Int],
               map : SUBSET PollChannels, fds : Seq(PollItem),
               epoll : [PollChannels -> PollEvents \cup {NotWatched}], active : SUBSET PollChannels,
               current : PollChannels \cup {0}, bare : BOOLEAN, fault : BOOLEAN]
PollTyped == pol \in PollRecord
PollParts ==
  /\ PollTyped
  /\ PollIndexed(pol.ev, pol.idx, pol.map)
  /\ pol.kind = "epoll" => PollMarked(pol.ev, pol.idx, pol.epoll)
  /\ pol.kind = "poll" => PollLeads(pol.ev, pol.idx, pol.fds) /\ PollLeadsBack(pol.idx, pol.fds)
  /\ ~pol.bare => ~pol.fault /\ (pol.kind = "poll" => PollIgnores(pol.ev, pol.idx, pol.fds))

\* The parts together are PollInv, in a state and in the next.
LEMMA PollSplit == (PollInv <=> PollParts) /\ (PollInv' <=> PollParts')
<1>1. PollTyped => DOMAIN pol.fds = 1 .. Len(pol.fds)
  BY DEF PollTyped, PollRecord
<1>2. PollInv <=> PollParts
  BY <1>1, Zenon DEF PollInv, PollParts, PollTyped, PollRecord, PollItem, PollIndexed, PollMarked, PollLeads, PollLeadsBack, PollIgnores,
     PollEntryOf, PollItemOf
<1>3. PollTyped' => DOMAIN pol'.fds = 1 .. Len(pol'.fds)
  BY DEF PollTyped, PollRecord
<1>4. PollInv' <=> PollParts'
  BY <1>3, Zenon DEF PollInv, PollParts, PollTyped, PollRecord, PollItem, PollIndexed, PollMarked, PollLeads, PollLeadsBack, PollIgnores,
     PollEntryOf, PollItemOf
<1> QED  BY <1>2, <1>4

\* The descriptor of an entry, ignored or not, names its Channel.
LEMMA PollNames ==
  ASSUME NEW c \in PollChannels, NEW want, NEW e, PollItemOf(c, want, e)
  PROVE  PollMovedIndex(e.fd) = c
  BY PollAssumption, SMTT(40) DEF PollItemOf, PollMovedIndex, PollIgnored

\* PollPoller::updateChannel of a new Channel: its entry comes last.
PollAppended(ev, idx, fds, c, want, evs, idxs, new) ==
  /\ idx[c] = -1
  /\ evs = [ev EXCEPT ![c] = want] /\ idxs = [idx EXCEPT ![c] = Len(fds)]
  /\ new = Append(fds, [fd |-> c, events |-> want])

\* The array and the indices still lead to each other.
LEMMA PollAppends ==
  ASSUME NEW ev \in [PollChannels -> PollEvents], NEW idx \in [PollChannels -> Int], NEW fds \in Seq(PollItem),
         NEW map, NEW c \in PollChannels, NEW want \in PollEvents,
         PollIndexed(ev, idx, map), PollLeads(ev, idx, fds), PollLeadsBack(idx, fds),
         NEW evs, NEW idxs, NEW new, PollAppended(ev, idx, fds, c, want, evs, idxs, new)
  PROVE  /\ new \in Seq(PollItem) /\ idxs \in [PollChannels -> Int] /\ evs \in [PollChannels -> PollEvents]
         /\ PollIndexed(evs, idxs, map \cup {c})
         /\ PollLeads(evs, idxs, new)
         /\ PollLeadsBack(idxs, new)
         /\ PollIgnores(ev, idx, fds) => want = {} \/ PollIgnores(evs, idxs, new)
<1>1. c \in Int /\ [fd |-> c, events |-> want] \in PollItem
  BY PollAssumption DEF PollItem
<1>a. idx[c] = -1
  BY DEF PollAppended
<1> USE <1>a
<1>2. /\ new \in Seq(PollItem) /\ Len(new) = Len(fds) + 1 /\ Len(fds) \in Nat
      /\ new[Len(fds) + 1] = [fd |-> c, events |-> want]
      /\ \A i \in 1 .. Len(fds) : new[i] = fds[i]
  BY <1>1 DEF PollAppended
<1>3. /\ idxs \in [PollChannels -> Int] /\ evs \in [PollChannels -> PollEvents]
      /\ idxs[c] = Len(fds) /\ evs[c] = want
      /\ \A d \in PollChannels \ {c} : idxs[d] = idx[d] /\ evs[d] = ev[d]
  BY <1>2 DEF PollAppended
<1>4. PollIndexed(evs, idxs, map \cup {c})
  BY <1>2, <1>3, SMTT(40) DEF PollIndexed
<1>5. PollLeads(evs, idxs, new)
  <2> SUFFICES ASSUME NEW d \in PollChannels, idxs[d] # -1
               PROVE  idxs[d] + 1 \in 1 .. Len(new) /\ PollItemOf(d, evs[d], new[idxs[d] + 1])
    BY SMTT(40) DEF PollLeads
  <2>1. CASE d = c  BY <2>1, <1>2, <1>3, SMTT(40) DEF PollItemOf
  <2>2. CASE d # c
    <3>1. idx[d] + 1 \in 1 .. Len(fds) /\ PollItemOf(d, ev[d], fds[idx[d] + 1])
      BY <2>2, <1>3, SMTT(40) DEF PollLeads
    <3> QED  BY <3>1, <2>2, <1>2, <1>3, SMTT(40)
  <2> QED  BY <2>1, <2>2
<1>6. PollLeadsBack(idxs, new)
  <2> SUFFICES ASSUME NEW i \in 1 .. Len(new)
               PROVE  PollMovedIndex(new[i].fd) \in PollChannels /\ idxs[PollMovedIndex(new[i].fd)] = i - 1
    BY SMTT(40) DEF PollLeadsBack
  <2>1. CASE i = Len(fds) + 1
    <3>1. PollMovedIndex(new[i].fd) = c
      BY <2>1, <1>2, PollAssumption, SMTT(40) DEF PollMovedIndex
    <3> QED  BY <3>1, <2>1, <1>2, <1>3, SMTT(40)
  <2>2. CASE i \in 1 .. Len(fds)
    <3>1. PollMovedIndex(fds[i].fd) \in PollChannels /\ idx[PollMovedIndex(fds[i].fd)] = i - 1
      BY <2>2 DEF PollLeadsBack
    <3>2. PollMovedIndex(fds[i].fd) # c
      BY <3>1, <2>2, SMTT(40)
    <3> QED  BY <3>1, <3>2, <2>2, <1>2, <1>3, SMTT(40)
  <2> QED  BY <2>1, <2>2, <1>2, SMTT(40)
<1>7. PollIgnores(ev, idx, fds) => want = {} \/ PollIgnores(evs, idxs, new)
  <2> SUFFICES ASSUME PollIgnores(ev, idx, fds), want # {}, NEW d \in PollChannels, idxs[d] # -1, evs[d] = {}
               PROVE  new[idxs[d] + 1].fd = PollIgnored(d)
    BY DEF PollIgnores
  <2>1. d # c /\ idx[d] # -1 /\ ev[d] = {}
    BY <1>3, SMTT(40)
  <2>2. fds[idx[d] + 1].fd = PollIgnored(d) /\ idx[d] + 1 \in 1 .. Len(fds)
    BY <2>1 DEF PollIgnores, PollLeads
  <2> QED  BY <2>1, <2>2, <1>2, <1>3, SMTT(40)
<1> QED  BY <1>2, <1>3, <1>4, <1>5, <1>6, <1>7, SMTT(40)

\* A new Channel that wants something leaves the ignored entries ignored.
LEMMA PollAppendIgnores ==
  ASSUME NEW ev \in [PollChannels -> PollEvents], NEW idx \in [PollChannels -> Int], NEW fds \in Seq(PollItem),
         NEW map, NEW c \in PollChannels, NEW want \in PollEvents,
         PollIndexed(ev, idx, map), PollLeads(ev, idx, fds), PollLeadsBack(idx, fds),
         NEW evs, NEW idxs, NEW new, PollAppended(ev, idx, fds, c, want, evs, idxs, new),
         PollIgnores(ev, idx, fds), want # {}
  PROVE  PollIgnores(evs, idxs, new)
  BY PollAppends, ZenonT(40)

\* PollPoller::updateChannel of a known Channel: its entry is changed in place.
PollChanged(ev, idx, fds, c, want, evs, new) ==
  /\ evs = [ev EXCEPT ![c] = want]
  /\ new = [fds EXCEPT ![idx[c] + 1] = [fd |-> IF want = {} THEN PollIgnored(c) ELSE c, events |-> want]]

\* The array and the indices still lead to each other.
LEMMA PollChanges ==
  ASSUME NEW ev \in [PollChannels -> PollEvents], NEW idx \in [PollChannels -> Int], NEW fds \in Seq(PollItem),
         NEW map, NEW c \in PollChannels, NEW want \in PollEvents, idx[c] # -1,
         PollIndexed(ev, idx, map), PollLeads(ev, idx, fds), PollLeadsBack(idx, fds),
         NEW evs, NEW new, PollChanged(ev, idx, fds, c, want, evs, new)
  PROVE  /\ new \in Seq(PollItem) /\ evs \in [PollChannels -> PollEvents]
         /\ PollIndexed(evs, idx, map)
         /\ PollLeads(evs, idx, new)
         /\ PollLeadsBack(idx, new)
         /\ PollIgnores(ev, idx, fds) => PollIgnores(evs, idx, new)
<1> DEFINE e == [fd |-> IF want = {} THEN PollIgnored(c) ELSE c, events |-> want]
<1> DEFINE k == idx[c] + 1
<1>1. e \in PollItem /\ PollItemOf(c, want, e) /\ (want = {} => e.fd = PollIgnored(c))
  BY PollAssumption DEF PollItem, PollItemOf, PollIgnored
<1>2. k \in 1 .. Len(fds)
  BY DEF PollLeads
<1> HIDE DEF e
<1>3. new = [fds EXCEPT ![k] = e]
  BY DEF e, PollChanged
<1>4. /\ new \in Seq(PollItem) /\ Len(new) = Len(fds) /\ Len(fds) \in Nat
      /\ new[k] = e /\ \A i \in 1 .. Len(fds) : i # k => new[i] = fds[i]
  BY <1>1, <1>2, <1>3
<1>5. /\ evs \in [PollChannels -> PollEvents] /\ evs[c] = want
      /\ \A d \in PollChannels \ {c} : evs[d] = ev[d]
  BY DEF PollChanged
<1>6. \A d \in PollChannels \ {c} : idx[d] # -1 => idx[d] + 1 # k
  <2> SUFFICES ASSUME NEW d \in PollChannels \ {c}, idx[d] # -1, idx[d] + 1 = k  PROVE FALSE
    OBVIOUS
  <2>1. PollItemOf(c, ev[c], fds[k]) /\ PollItemOf(d, ev[d], fds[k])
    BY DEF PollLeads
  <2>2. PollMovedIndex(fds[k].fd) = c /\ PollMovedIndex(fds[k].fd) = d
    BY <2>1, PollNames
  <2> QED  BY <2>2
<1> HIDE DEF k
<1>7. k = idx[c] + 1
  BY DEF k
<1>8. PollIndexed(evs, idx, map)
  BY <1>5 DEF PollIndexed
<1>9. PollLeads(evs, idx, new)
  <2> SUFFICES ASSUME NEW d \in PollChannels, idx[d] # -1
               PROVE  idx[d] + 1 \in 1 .. Len(new) /\ PollItemOf(d, evs[d], new[idx[d] + 1])
    BY DEF PollLeads
  <2>1. idx[d] + 1 \in 1 .. Len(fds) /\ PollItemOf(d, ev[d], fds[idx[d] + 1])
    BY SMTT(40) DEF PollLeads
  <2>2. CASE d = c  BY <2>1, <2>2, <1>1, <1>4, <1>5, <1>7, Zenon
  <2>3. CASE d # c  BY <2>1, <2>3, <1>4, <1>5, <1>6, Zenon
  <2> QED  BY <2>2, <2>3, SMTT(40)
<1>10. PollLeadsBack(idx, new)
  <2> SUFFICES ASSUME NEW i \in 1 .. Len(fds)
               PROVE  PollMovedIndex(new[i].fd) \in PollChannels /\ idx[PollMovedIndex(new[i].fd)] = i - 1
    BY <1>4, Zenon DEF PollLeadsBack
  <2>1. CASE i = k
    <3>1. PollMovedIndex(e.fd) = c  BY <1>1, PollNames, SMTT(40)
    <3> QED  BY <3>1, <2>1, <1>4, <1>7, SMTT(40)
  <2>2. CASE i # k  BY <2>2, <1>4, Zenon DEF PollLeadsBack
  <2> QED  BY <2>1, <2>2, SMTT(40)
<1>11. PollIgnores(ev, idx, fds) => PollIgnores(evs, idx, new)
  <2> SUFFICES ASSUME PollIgnores(ev, idx, fds), NEW d \in PollChannels, idx[d] # -1, evs[d] = {}
               PROVE  new[idx[d] + 1].fd = PollIgnored(d)
    BY Zenon DEF PollIgnores
  <2>1. CASE d = c  BY <2>1, <1>1, <1>4, <1>5, <1>7, Zenon
  <2>2. CASE d # c
    <3>1. fds[idx[d] + 1].fd = PollIgnored(d) /\ idx[d] + 1 \in 1 .. Len(fds)
      BY <2>2, <1>5 DEF PollIgnores, PollLeads
    <3> QED  BY <3>1, <2>2, <1>4, <1>6, Zenon
  <2> QED  BY <2>1, <2>2, SMTT(40)
<1> QED  BY <1>4, <1>5, <1>8, <1>9, <1>10, <1>11

\* What is left of a sequence without its last element.
LEMMA PollFront ==
  ASSUME NEW S, NEW s \in Seq(S), s # << >>, NEW t, t = SubSeq(s, 1, Len(s) - 1)
  PROVE  /\ t \in Seq(S) /\ Len(t) = Len(s) - 1
         /\ \A i \in 1 .. Len(s) - 1 : t[i] = s[i]
<1>1. Len(s) \in Nat \ {0} /\ 1 \in 1 .. Len(s) + 1 /\ Len(s) - 1 \in 0 .. Len(s)
  OBVIOUS
<1>2. \A i \in 1 .. Len(s) : s[i] \in S
  OBVIOUS
<1>3. /\ t \in Seq(S)
      /\ Len(t) = IF 1 <= Len(s) - 1 THEN Len(s) - 1 - 1 + 1 ELSE 0
      /\ \A i \in 1 .. Len(s) - 1 - 1 + 1 : t[i] = s[1 + i - 1]
  BY <1>1, <1>2, SubSeqProperties
<1>4. \A i \in 1 .. Len(s) - 1 : i \in 1 .. Len(s) - 1 - 1 + 1 /\ 1 + i - 1 = i
  BY <1>1
<1>5. \A i \in 1 .. Len(s) - 1 : t[i] = s[i]
  <2> SUFFICES ASSUME NEW i \in 1 .. Len(s) - 1  PROVE t[i] = s[i]
    OBVIOUS
  <2>1. t[i] = s[1 + i - 1]
    BY <1>3, <1>4, Zenon
  <2>2. 1 + i - 1 = i
    BY <1>4
  <2> QED  BY <2>1, <2>2, Zenon
<1>6. Len(t) = Len(s) - 1
  <2>1. Len(t) = IF 1 <= Len(s) - 1 THEN Len(s) - 1 - 1 + 1 ELSE 0
    BY <1>3, Zenon
  <2>2. \A n \in Nat \ {0} : (IF 1 <= n - 1 THEN n - 1 - 1 + 1 ELSE 0) = n - 1
    OBVIOUS
  <2> QED  BY <1>1, <2>1, <2>2, Zenon
<1> QED  BY <1>3, <1>5, <1>6

\* removeChannel's change of the array, and of the indices; k is the hole.
PollMoved(idx, fds, c, k, n, idxs, new) ==
  /\ k = idx[c] + 1 /\ n = Len(fds)
  /\ \/ k = n /\ idxs = [idx EXCEPT ![c] = -1] /\ new = SubSeq(fds, 1, n - 1)
     \/ /\ k # n
        /\ idxs = [[idx EXCEPT ![c] = -1] EXCEPT ![PollMovedIndex(fds[n].fd)] = k - 1]
        /\ new = SubSeq([fds EXCEPT ![k] = fds[n]], 1, n - 1)

\* PollPoller::removeChannel: the last entry, if it is another, moves into the hole.
LEMMA PollMoves ==
  ASSUME NEW ev \in [PollChannels -> PollEvents], NEW idx \in [PollChannels -> Int], NEW fds \in Seq(PollItem),
         NEW map, NEW c \in PollChannels, idx[c] # -1, ev[c] = {},
         PollIndexed(ev, idx, map), PollLeads(ev, idx, fds), PollLeadsBack(idx, fds),
         NEW n, NEW k, NEW idxs, NEW new, PollMoved(idx, fds, c, k, n, idxs, new)
  PROVE  /\ new \in Seq(PollItem) /\ idxs \in [PollChannels -> Int]
         /\ PollIndexed(ev, idxs, map \ {c})
         /\ PollLeads(ev, idxs, new)
         /\ PollLeadsBack(idxs, new)
         /\ PollIgnores(ev, idx, fds) => PollIgnores(ev, idxs, new)
<1> DEFINE m == PollMovedIndex(fds[n].fd)
<1>0. k = idx[c] + 1 /\ n = Len(fds)
  BY DEF PollMoved
<1> USE <1>0
<1>1. k \in 1 .. n /\ n \in Nat \ {0}
  BY DEF PollLeads
<1>2. m \in PollChannels /\ idx[m] = n - 1 /\ PollMovedIndex(fds[k].fd) = c
  <2>1. PollItemOf(c, ev[c], fds[k])
    BY Zenon DEF PollLeads
  <2> QED  BY <2>1, <1>1, PollNames DEF PollLeadsBack
<1>3. k # n => m # c
  BY <1>1, <1>2
<1>4. \A d \in PollChannels : idx[d] = n - 1 => d = m
  <2> SUFFICES ASSUME NEW d \in PollChannels, idx[d] = n - 1  PROVE d = m
    OBVIOUS
  <2>1. PollItemOf(d, ev[d], fds[n])
    BY <1>1, SMTT(40) DEF PollLeads
  <2> QED  BY <2>1, PollNames
<1>5. /\ new \in Seq(PollItem) /\ Len(new) = n - 1
      /\ \A i \in 1 .. n - 1 : i # k => new[i] = fds[i]
      /\ k # n => new[k] = fds[n]
  <2>1. CASE k = n
    <3>1. new = SubSeq(fds, 1, Len(fds) - 1) /\ fds # << >>
      BY <2>1, <1>1 DEF PollMoved
    <3>2. /\ new \in Seq(PollItem) /\ Len(new) = Len(fds) - 1
          /\ \A i \in 1 .. Len(fds) - 1 : new[i] = fds[i]
      BY <3>1, PollFront, SMTT(40)
    <3> QED  BY <3>2, <2>1
  <2>2. CASE k # n
    <3> DEFINE g == [fds EXCEPT ![k] = fds[n]]
    <3>1. fds[n] \in PollItem
      BY <1>1, SMTT(40)
    <3>2. /\ g \in Seq(PollItem) /\ Len(g) = n /\ g[k] = fds[n]
          /\ \A i \in 1 .. n : i # k => g[i] = fds[i]
      BY <1>1, <3>1
    <3>3. new = SubSeq(g, 1, n - 1)
      BY <2>2 DEF PollMoved
    <3> HIDE DEF g
    <3>4. g # << >> /\ new = SubSeq(g, 1, Len(g) - 1)
      BY <3>2, <3>3, <1>1, SMTT(40)
    <3>5. /\ new \in Seq(PollItem) /\ Len(new) = Len(g) - 1
          /\ \A i \in 1 .. Len(g) - 1 : new[i] = g[i]
      BY <3>2, <3>4, PollFront, SMTT(40)
    <3> QED  BY <3>2, <3>5, <2>2, <1>1, SMTT(40)
  <2> QED  BY <2>1, <2>2, SMTT(40)
<1>6. /\ k = n => idxs = [idx EXCEPT ![c] = -1]
      /\ k # n => idxs = [[idx EXCEPT ![c] = -1] EXCEPT ![m] = k - 1]
  BY DEF PollMoved
<1> HIDE DEF m
<1>7. /\ idxs \in [PollChannels -> Int] /\ idxs[c] = -1
      /\ k # n => idxs[m] = k - 1
      /\ \A d \in PollChannels \ {c} : d # m \/ k = n => idxs[d] = idx[d]
  <2>1. CASE k = n  BY <2>1, <1>6, SMTT(40)
  <2>2. CASE k # n
    <3> DEFINE f == [idx EXCEPT ![c] = -1]
    <3>1. f \in [PollChannels -> Int] /\ f[c] = -1 /\ \A d \in PollChannels \ {c} : f[d] = idx[d]
      OBVIOUS
    <3>2. idxs = [f EXCEPT ![m] = k - 1]
      BY <2>2, <1>6
    <3> HIDE DEF f
    <3> QED  BY <3>1, <3>2, <2>2, <1>1, <1>2, <1>3, SMTT(40)
  <2> QED  BY <2>1, <2>2
<1>8. PollIndexed(ev, idxs, map \ {c})
  <2>1. \A d \in PollChannels \ {c} : idxs[d] = -1 <=> idx[d] = -1
    BY <1>1, <1>2, <1>7, SMTT(40)
  <2> QED  BY <2>1, <1>7, Zenon DEF PollIndexed
<1>9. \A d \in PollChannels : idxs[d] # -1 =>
        /\ d # c /\ idx[d] # -1
        /\ idxs[d] + 1 \in 1 .. n - 1
        /\ new[idxs[d] + 1] = fds[idx[d] + 1]
  <2> SUFFICES ASSUME NEW d \in PollChannels, idxs[d] # -1
               PROVE  /\ d # c /\ idx[d] # -1
                      /\ idxs[d] + 1 \in 1 .. n - 1
                      /\ new[idxs[d] + 1] = fds[idx[d] + 1]
    OBVIOUS
  <2>1. d # c
    BY <1>7, SMTT(40)
  <2>2. CASE k # n /\ d = m
    BY <2>1, <2>2, <1>1, <1>2, <1>5, <1>7, SMTT(40)
  <2>3. CASE ~(k # n /\ d = m)
    <3>1. idxs[d] = idx[d]
      BY <2>1, <2>3, <1>7, SMTT(40)
    <3>2. idx[d] + 1 \in 1 .. n /\ PollItemOf(d, ev[d], fds[idx[d] + 1])
      BY <3>1 DEF PollLeads
    <3>3. idx[d] + 1 # k
      <4>1. PollMovedIndex(fds[idx[d] + 1].fd) = d
        BY <3>2, PollNames
      <4> QED  BY <4>1, <2>1, <1>2, SMTT(40)
    <3>4. idx[d] + 1 # n
      <4> SUFFICES ASSUME idx[d] + 1 = n  PROVE FALSE
        OBVIOUS
      <4>1. d = m
        BY <1>1, <1>4
      <4> QED  BY <4>1, <3>3, <2>3, SMTT(40)
    <3>5. idx[d] \in Int /\ idx[d] + 1 \in 1 .. n - 1
      BY <3>2, <3>4, <1>1, SMTT(40)
    <3>6. new[idx[d] + 1] = fds[idx[d] + 1]
      BY <3>3, <3>5, <1>5, Zenon
    <3> QED  BY <3>1, <3>5, <3>6, <2>1, SMTT(40)
  <2> QED  BY <2>2, <2>3, Zenon
<1>10. PollLeads(ev, idxs, new)
  BY <1>5, <1>9, Zenon DEF PollLeads
<1>11. PollLeadsBack(idxs, new)
  <2> SUFFICES ASSUME NEW i \in 1 .. n - 1
               PROVE  PollMovedIndex(new[i].fd) \in PollChannels /\ idxs[PollMovedIndex(new[i].fd)] = i - 1
    BY <1>5, Zenon DEF PollLeadsBack
  <2>1. CASE i = k
    <3>1. k # n /\ new[i] = fds[n]
      BY <2>1, <1>1, <1>5, SMTT(40)
    <3> QED  BY <3>1, <2>1, <1>2, <1>7, Zenon DEF m
  <2>2. CASE i # k
    <3>1. new[i] = fds[i] /\ PollMovedIndex(fds[i].fd) \in PollChannels /\ idx[PollMovedIndex(fds[i].fd)] = i - 1
      <4>1. new[i] = fds[i] /\ i \in 1 .. n
        BY <2>2, <1>1, <1>5, SMTT(40)
      <4> QED  BY <4>1, Zenon DEF PollLeadsBack
    <3>2. PollMovedIndex(fds[i].fd) # c /\ PollMovedIndex(fds[i].fd) # m
      BY <3>1, <2>2, <1>1, <1>2, SMTT(40)
    <3> QED  BY <3>1, <3>2, <1>7, Zenon
  <2> QED  BY <2>1, <2>2, SMTT(40)
<1>12. PollIgnores(ev, idx, fds) => PollIgnores(ev, idxs, new)
  BY <1>9, Zenon DEF PollIgnores
<1> QED  BY <1>5, <1>7, <1>8, <1>10, <1>11, <1>12, SMTT(40)

\* EPollPoller::updateChannel and removeChannel: the mark, the set, the map and the wish
\* of a Channel change together.
PollMarking(ev, idx, map, epoll, c, want, mark, w, evs, idxs, maps, epolls) ==
  /\ \/ mark = EpAdded /\ w = want
     \/ mark \in {EpNew, EpDeleted} /\ w = NotWatched /\ want = {}
  /\ maps = IF mark = EpNew THEN map \ {c} ELSE map \cup {c}
  /\ evs = [ev EXCEPT ![c] = want] /\ idxs = [idx EXCEPT ![c] = mark] /\ epolls = [epoll EXCEPT ![c] = w]

\* The set still has what the Channels marked kAdded want.
LEMMA PollMarks ==
  ASSUME NEW ev \in [PollChannels -> PollEvents], NEW idx \in [PollChannels -> Int],
         NEW epoll \in [PollChannels -> PollEvents \cup {NotWatched}],
         NEW map, NEW c \in PollChannels, NEW want \in PollEvents,
         PollIndexed(ev, idx, map), PollMarked(ev, idx, epoll),
         NEW mark, NEW w, NEW evs, NEW idxs, NEW maps, NEW epolls,
         PollMarking(ev, idx, map, epoll, c, want, mark, w, evs, idxs, maps, epolls)
  PROVE  /\ idxs \in [PollChannels -> Int] /\ evs \in [PollChannels -> PollEvents]
         /\ epolls \in [PollChannels -> PollEvents \cup {NotWatched}]
         /\ PollIndexed(evs, idxs, maps)
         /\ PollMarked(evs, idxs, epolls)
<1>1. mark \in {EpNew, EpAdded, EpDeleted} /\ mark \in Int /\ (mark = -1 <=> mark = EpNew)
  BY DEF EpNew, EpAdded, EpDeleted, PollMarking
<1>2. /\ idxs \in [PollChannels -> Int] /\ evs \in [PollChannels -> PollEvents]
      /\ epolls \in [PollChannels -> PollEvents \cup {NotWatched}]
      /\ idxs[c] = mark /\ evs[c] = want /\ epolls[c] = w
      /\ \A d \in PollChannels \ {c} : idxs[d] = idx[d] /\ evs[d] = ev[d] /\ epolls[d] = epoll[d]
  BY <1>1, SMTT(40) DEF PollMarking
<1>3. PollIndexed(evs, idxs, maps)
  BY <1>1, <1>2, SMTT(40) DEF PollIndexed, PollMarking, EpAdded, EpNew, EpDeleted
<1>4. PollMarked(evs, idxs, epolls)
  BY <1>1, <1>2 DEF PollMarked, PollMarking, EpNew, EpAdded, EpDeleted
<1> QED  BY <1>2, <1>3, <1>4

\* The types of the fields of a poller.
LEMMA PollFields ==
  ASSUME NEW p \in PollRecord
  PROVE  /\ p.kind \in {"poll", "epoll"} /\ p.ev \in [PollChannels -> PollEvents]
         /\ p.idx \in [PollChannels -> Int] /\ p.map \in SUBSET PollChannels /\ p.fds \in Seq(PollItem)
         /\ p.epoll \in [PollChannels -> PollEvents \cup {NotWatched}]
         /\ p.bare \in BOOLEAN /\ p.fault \in BOOLEAN
  BY DEF PollRecord

\* The fields of a poller, but fault, one by one.
PollIs(p, kind, ev, idx, map, fds, epoll, bare) ==
  /\ p.kind = kind /\ p.ev = ev /\ p.idx = idx /\ p.map = map /\ p.fds = fds /\ p.epoll = epoll /\ p.bare = bare

\* An assertion of the code changes nothing but fault.
LEMMA PollAsserts ==
  ASSUME NEW p \in PollRecord, NEW ok \in BOOLEAN, NEW q, q = PollAssert(p, ok)
  PROVE  /\ q \in PollRecord
         /\ PollIs(q, p.kind, p.ev, p.idx, p.map, p.fds, p.epoll, p.bare)
         /\ q.fault <=> p.fault \/ ~ok
<1>1. (p.fault \/ ~ok) \in BOOLEAN
  OBVIOUS
<1>2. q \in PollRecord
  BY <1>1, Zenon DEF PollAssert, PollRecord
<1>3. PollIs(q, p.kind, p.ev, p.idx, p.map, p.fds, p.epoll, p.bare)
  BY DEF PollAssert, PollRecord, PollIs
<1>4. q.fault <=> p.fault \/ ~ok
  BY Zenon DEF PollAssert, PollRecord
<1> QED  BY <1>2, <1>3, <1>4

\* Channel::enableReading and its like first change events_; the poller then sees p.
PollWishes(c, want, p) ==
  /\ p \in PollRecord
  /\ PollIs(p, pol.kind, [pol.ev EXCEPT ![c] = want], pol.idx, pol.map, pol.fds, pol.epoll, p.bare)
  /\ p.ev[c] = want
  /\ p.fault = pol.fault
  /\ p.bare <=> pol.bare \/ (pol.kind = "poll" /\ pol.idx[c] = -1 /\ want = {})

\* There is such a p in each change of a Channel's events.
LEMMA PollWish ==
  ASSUME PollTyped, NEW c \in PollChannels, NEW want \in PollEvents, ChanSet(c, want)
  PROVE  \E p : PollWishes(c, want, p) /\ pol' = IF pol.kind = "poll" THEN PollUpdate(p, c) ELSE EPollUpdate(p, c)
<1> DEFINE b == pol.bare \/ (pol.kind = "poll" /\ pol.idx[c] = -1 /\ want = {})
           p == [pol EXCEPT !.ev[c] = want, !.bare = b]
<1>1. pol' = IF pol.kind = "poll" THEN PollUpdate(p, c) ELSE EPollUpdate(p, c)
  BY Zenon DEF ChanSet
<1>2. b \in BOOLEAN /\ (b <=> pol.bare \/ (pol.kind = "poll" /\ pol.idx[c] = -1 /\ want = {}))
  OBVIOUS
<1> HIDE DEF b
<1>3. p \in PollRecord
  BY <1>2, Zenon DEF PollTyped, PollRecord
<1>4. PollIs(p, pol.kind, [pol.ev EXCEPT ![c] = want], pol.idx, pol.map, pol.fds, pol.epoll, b)
      /\ p.fault = pol.fault /\ p.ev[c] = want
  BY DEF PollTyped, PollRecord, PollIs
<1> HIDE DEF p
<1>5. p.bare = b
  BY <1>4, SMTT(40) DEF PollIs
<1>6. PollWishes(c, want, p)
  BY <1>2, <1>3, <1>4, <1>5, Zenon DEF PollWishes
<1> QED  BY <1>1, <1>6

\* Channel::update with PollPoller, of a Channel it does not know.
LEMMA NextPollNew ==
  ASSUME PollParts, NEW c \in PollChannels, NEW want \in PollEvents, NEW p, PollWishes(c, want, p),
         pol' = PollUpdateNew(p, c), pol.kind = "poll", pol.idx[c] = -1
  PROVE  PollParts'
<1> DEFINE evs == [pol.ev EXCEPT ![c] = want]
           idxs == [pol.idx EXCEPT ![c] = Len(pol.fds)]
           new == Append(pol.fds, [fd |-> c, events |-> want])
<1>1. /\ pol \in PollRecord /\ PollIndexed(pol.ev, pol.idx, pol.map) /\ PollLeads(pol.ev, pol.idx, pol.fds)
      /\ PollLeadsBack(pol.idx, pol.fds)
      /\ ~pol.bare => ~pol.fault /\ PollIgnores(pol.ev, pol.idx, pol.fds)
  BY Zenon DEF PollParts, PollTyped
<1>2. /\ pol.ev \in [PollChannels -> PollEvents] /\ pol.idx \in [PollChannels -> Int]
      /\ pol.fds \in Seq(PollItem) /\ pol.map \in SUBSET PollChannels
  BY <1>1, PollFields, Zenon
<1>3. PollAppended(pol.ev, pol.idx, pol.fds, c, want, evs, idxs, new)
  BY SMTT(40) DEF PollAppended
<1>4. /\ p \in PollRecord /\ p.kind = pol.kind /\ p.ev = evs /\ p.ev[c] = want /\ p.idx = pol.idx /\ p.map = pol.map
      /\ p.fds = pol.fds /\ p.fault = pol.fault
      /\ p.bare <=> pol.bare \/ want = {}
  BY DEF PollWishes, PollIs
<1>5. /\ idxs = [pol.idx EXCEPT ![c] = Len(pol.fds)]
      /\ new = Append(pol.fds, [fd |-> c, events |-> want])
  BY SMTT(40)
<1> HIDE DEF evs, idxs, new
<1>6. /\ new \in Seq(PollItem) /\ idxs \in [PollChannels -> Int] /\ evs \in [PollChannels -> PollEvents]
      /\ PollIndexed(evs, idxs, pol.map \cup {c})
      /\ PollLeads(evs, idxs, new)
      /\ PollLeadsBack(idxs, new)
      /\ PollIgnores(pol.ev, pol.idx, pol.fds) => want = {} \/ PollIgnores(evs, idxs, new)
  <2>1. new \in Seq(PollItem) /\ idxs \in [PollChannels -> Int] /\ evs \in [PollChannels -> PollEvents]
    BY <1>1, <1>2, <1>3, PollAppends, Zenon
  <2>2. PollIndexed(evs, idxs, pol.map \cup {c})
    BY <1>1, <1>2, <1>3, PollAppends, Zenon
  <2>3. PollLeads(evs, idxs, new)
    BY <1>1, <1>2, <1>3, PollAppends, Zenon
  <2>4. PollLeadsBack(idxs, new)
    BY <1>1, <1>2, <1>3, PollAppends, ZenonT(40)
  <2>5. PollIgnores(pol.ev, pol.idx, pol.fds) => want = {} \/ PollIgnores(evs, idxs, new)
    <3> SUFFICES ASSUME PollIgnores(pol.ev, pol.idx, pol.fds), want # {}  PROVE PollIgnores(evs, idxs, new)
      OBVIOUS
    <3> QED  BY <1>1, <1>2, <1>3, PollAppendIgnores, SMTT(40)
  <2> QED  BY <2>1, <2>2, <2>3, <2>4, <2>5, Zenon
<1>7. pol' \in PollRecord
  <2>1. pol' = [p EXCEPT !.fds = new, !.idx = idxs, !.map = pol.map \cup {c}]
    BY <1>4, <1>5, Zenon DEF PollUpdateNew, PollRecord
  <2>2. pol.map \cup {c} \in SUBSET PollChannels
    BY <1>2
  <2> QED  BY <1>4, <1>6, <2>1, <2>2, ZenonT(40) DEF PollRecord
<1>8. /\ pol'.kind = p.kind /\ pol'.ev = p.ev /\ pol'.idx = idxs /\ pol'.map = pol.map \cup {c} /\ pol'.fds = new
      /\ pol'.bare = p.bare /\ pol'.fault = p.fault
  BY <1>4, <1>5, ZenonT(40) DEF PollUpdateNew, PollRecord
<1> QED  BY <1>1, <1>4, <1>6, <1>7, <1>8, ZenonT(40) DEF PollParts, PollTyped

\* Channel::update with PollPoller, of a Channel it knows: its assertions hold.
LEMMA NextPollOld ==
  ASSUME PollParts, NEW c \in PollChannels, NEW want \in PollEvents, NEW p, PollWishes(c, want, p),
         pol' = PollUpdateOld(p, c), pol.kind = "poll", pol.idx[c] # -1
  PROVE  PollParts'
<1> DEFINE evs == [pol.ev EXCEPT ![c] = want]
           e == [fd |-> IF want = {} THEN PollIgnored(c) ELSE c, events |-> want]
           new == [pol.fds EXCEPT ![pol.idx[c] + 1] = e]
           ok == c \in p.map /\ p.idx[c] < Len(p.fds) /\ p.fds[p.idx[c] + 1].fd \in {c, PollIgnored(c)}
           q == PollAssert(p, ok)
<1>1. /\ pol \in PollRecord /\ PollIndexed(pol.ev, pol.idx, pol.map) /\ PollLeads(pol.ev, pol.idx, pol.fds)
      /\ PollLeadsBack(pol.idx, pol.fds)
      /\ ~pol.bare => ~pol.fault /\ PollIgnores(pol.ev, pol.idx, pol.fds)
  BY Zenon DEF PollParts, PollTyped
<1>2. /\ pol.ev \in [PollChannels -> PollEvents] /\ pol.idx \in [PollChannels -> Int]
      /\ pol.fds \in Seq(PollItem) /\ pol.map \in SUBSET PollChannels
  BY <1>1, PollFields, Zenon
<1>3. PollChanged(pol.ev, pol.idx, pol.fds, c, want, evs, new)
  BY SMTT(40) DEF PollChanged
<1>4. /\ p \in PollRecord /\ p.kind = pol.kind /\ p.ev = evs /\ p.ev[c] = want /\ p.idx = pol.idx /\ p.map = pol.map
      /\ p.fds = pol.fds /\ p.fault = pol.fault
      /\ p.bare <=> pol.bare
  BY SMTT(40) DEF PollWishes, PollIs
<1>5. ok
  BY <1>1, <1>2, <1>4 DEF PollIndexed, PollLeads, PollItemOf
<1>6. pol' = [q EXCEPT !.fds[p.idx[c] + 1] = e]
  BY <1>4, Zenon DEF PollUpdateOld
<1> HIDE DEF ok
<1>7. /\ q \in PollRecord
      /\ PollIs(q, p.kind, p.ev, p.idx, p.map, p.fds, p.epoll, p.bare)
      /\ q.fault <=> p.fault
  <2>1. ok \in BOOLEAN
    BY Zenon DEF ok
  <2> QED  BY <1>4, <1>5, <2>1, PollAsserts, ZenonT(40)
<1> HIDE DEF q, e
<1>8. new = [q.fds EXCEPT ![p.idx[c] + 1] = e]
  BY <1>4, <1>7, Zenon DEF PollIs
<1> HIDE DEF evs, new
<1>9. /\ new \in Seq(PollItem) /\ evs \in [PollChannels -> PollEvents]
      /\ PollIndexed(evs, pol.idx, pol.map)
      /\ PollLeads(evs, pol.idx, new)
      /\ PollLeadsBack(pol.idx, new)
      /\ PollIgnores(pol.ev, pol.idx, pol.fds) => PollIgnores(evs, pol.idx, new)
  BY <1>1, <1>2, <1>3, PollChanges, Zenon
<1>10. pol' = [q EXCEPT !.fds = new]
  BY <1>6, <1>7, <1>8, Zenon DEF PollRecord
<1>11. pol' \in PollRecord
  BY <1>7, <1>9, <1>10, Zenon DEF PollRecord
<1>12. /\ pol'.kind = q.kind /\ pol'.ev = q.ev /\ pol'.idx = q.idx /\ pol'.map = q.map /\ pol'.fds = new
       /\ pol'.bare = q.bare /\ pol'.fault = q.fault
  BY <1>7, <1>10, SMTT(40) DEF PollRecord
<1>13. /\ pol'.kind = pol.kind /\ pol'.ev = evs /\ pol'.idx = pol.idx /\ pol'.map = pol.map /\ pol'.fds = new
       /\ pol'.bare <=> pol.bare
       /\ pol'.fault <=> pol.fault
  BY <1>4, <1>7, <1>12, Zenon DEF PollIs
<1> QED  BY <1>1, <1>9, <1>11, <1>13, Zenon DEF PollParts, PollTyped

\* Channel::remove with PollPoller: its assertion holds, unless the Channel was first met with no events.
LEMMA NextPollRemove ==
  ASSUME PollParts, NEW c \in PollChannels, pol' = PollRemove(pol, c), pol.idx[c] # -1, pol.ev[c] = {},
         pol.kind = "poll"
  PROVE  PollParts'
<1> DEFINE k == pol.idx[c] + 1
           n == Len(pol.fds)
           m == PollMovedIndex(pol.fds[n].fd)
           ok == c \in pol.map /\ pol.fds[k] = [fd |-> PollIgnored(c), events |-> {}]
           a == PollAssert(pol, ok)
           q == [a EXCEPT !.map = @ \ {c}, !.idx[c] = -1]
           less == [pol.idx EXCEPT ![c] = -1]
           idxs == IF k = n THEN less ELSE [less EXCEPT ![m] = k - 1]
           new == IF k = n THEN SubSeq(pol.fds, 1, n - 1) ELSE SubSeq([pol.fds EXCEPT ![k] = pol.fds[n]], 1, n - 1)
<1>1. /\ pol \in PollRecord /\ PollIndexed(pol.ev, pol.idx, pol.map) /\ PollLeads(pol.ev, pol.idx, pol.fds)
      /\ PollLeadsBack(pol.idx, pol.fds)
      /\ ~pol.bare => ~pol.fault /\ PollIgnores(pol.ev, pol.idx, pol.fds)
  BY Zenon DEF PollParts, PollTyped
<1>2. /\ pol.ev \in [PollChannels -> PollEvents] /\ pol.idx \in [PollChannels -> Int]
      /\ pol.fds \in Seq(PollItem) /\ pol.map \in SUBSET PollChannels
  BY <1>1, PollFields, Zenon
<1>3. k \in 1 .. n /\ n \in Nat /\ PollItemOf(c, {}, pol.fds[k]) /\ pol.fds[k] \in PollItem
  <2>1. k \in 1 .. n /\ PollItemOf(c, {}, pol.fds[k])
    BY <1>1, Zenon DEF PollLeads
  <2>2. n \in Nat
    BY <1>2, SMTT(40)
  <2>3. pol.fds[k] \in PollItem
    BY <1>2, <2>1, SMTT(40)
  <2> QED  BY <2>1, <2>2, <2>3, Zenon
<1>4. m \in PollChannels
  BY <1>1, <1>3, SMTT(40) DEF PollLeadsBack
<1>5. PollIgnores(pol.ev, pol.idx, pol.fds) => ok
  <2> SUFFICES ASSUME PollIgnores(pol.ev, pol.idx, pol.fds)  PROVE ok
    BY Zenon
  <2>1. pol.fds[k].fd = PollIgnored(c) /\ pol.fds[k].events = {}
    BY <1>3, Zenon DEF PollIgnores, PollItemOf
  <2>2. pol.fds[k] = [fd |-> PollIgnored(c), events |-> {}]
    BY <2>1, <1>3, Zenon DEF PollItem
  <2> QED  BY <2>2, <1>1, Zenon DEF PollIndexed
<1>6. PollMoved(pol.idx, pol.fds, c, k, n, idxs, new)
  BY DEF PollMoved
<1>7. /\ new \in Seq(PollItem) /\ idxs \in [PollChannels -> Int]
      /\ PollIndexed(pol.ev, idxs, pol.map \ {c})
      /\ PollLeads(pol.ev, idxs, new)
      /\ PollLeadsBack(idxs, new)
      /\ PollIgnores(pol.ev, pol.idx, pol.fds) => PollIgnores(pol.ev, idxs, new)
  <2> HIDE DEF idxs, new, k, n
  <2> QED  BY <1>1, <1>2, <1>6, PollMoves, ZenonT(40)
<1>8. pol' = IF k = n THEN [q EXCEPT !.fds = SubSeq(@, 1, n - 1)]
             ELSE [q EXCEPT !.fds = SubSeq([@ EXCEPT ![k] = pol.fds[n]], 1, n - 1), !.idx = [@ EXCEPT ![m] = k - 1]]
  BY <1>4, SMTT(40) DEF PollRemove
<1>9. ok \in BOOLEAN /\ less \in [PollChannels -> Int] /\ pol.map \ {c} \in SUBSET PollChannels
  BY <1>2, SMTT(40)
<1> HIDE DEF ok, m
<1>10. /\ a \in PollRecord
       /\ PollIs(a, pol.kind, pol.ev, pol.idx, pol.map, pol.fds, pol.epoll, pol.bare)
       /\ a.fault <=> pol.fault \/ ~ok
  BY <1>1, <1>9, PollAsserts, Zenon
<1> HIDE DEF a
<1>11. /\ q.kind = a.kind /\ q.ev = a.ev /\ q.idx = less /\ q.map = pol.map \ {c} /\ q.fds = pol.fds
       /\ q.bare = a.bare /\ q.fault = a.fault
  BY <1>10 DEF PollRecord, PollIs
<1>12. q \in PollRecord
  <2>1. a.idx = pol.idx /\ a.map = pol.map
    BY <1>10 DEF PollIs
  <2>2. q = [a EXCEPT !.map = pol.map \ {c}, !.idx = less]
    BY <1>10, <2>1, Zenon DEF PollRecord
  <2> QED  BY <1>9, <1>10, <2>2, Zenon DEF PollRecord
<1> HIDE DEF q
<1>13. pol' = [q EXCEPT !.fds = new, !.idx = idxs]
  <2>1. CASE k = n
    <3>1. pol' = [q EXCEPT !.fds = new] /\ idxs = q.idx
      BY <2>1, <1>8, <1>11, SMTT(40)
    <3> HIDE DEF new, idxs
    <3> QED  BY <3>1, <1>12, Zenon DEF PollRecord
  <2>2. CASE k # n
    BY <2>2, <1>8, <1>11
  <2> QED  BY <2>1, <2>2
<1> HIDE DEF idxs, new
<1>14. pol' \in PollRecord
  BY <1>7, <1>12, <1>13, Zenon DEF PollRecord
<1>15. /\ pol'.kind = q.kind /\ pol'.ev = q.ev /\ pol'.idx = idxs /\ pol'.map = q.map /\ pol'.fds = new
       /\ pol'.bare = q.bare /\ pol'.fault = q.fault
  BY <1>12, <1>13, SMTT(40) DEF PollRecord
<1>16. /\ pol'.kind = pol.kind /\ pol'.ev = pol.ev /\ pol'.map = pol.map \ {c}
       /\ pol'.bare = pol.bare
       /\ pol'.fault <=> pol.fault \/ ~ok
  BY <1>10, <1>11, <1>15, SMTT(40) DEF PollIs
<1> QED  BY <1>1, <1>5, <1>7, <1>14, <1>15, <1>16, Zenon DEF PollParts, PollTyped

\* The poller is q but for the fields a change of a mark touches.
PollSets(q, maps, idxs, epolls) == pol' = [q EXCEPT !.map = maps, !.idx = idxs, !.epoll = epolls]

\* A change of one Channel's mark by EPollPoller, after an assertion that holds.
LEMMA PollMarkStep ==
  ASSUME PollParts, pol.kind = "epoll", NEW c \in PollChannels, NEW want \in PollEvents,
         NEW q \in PollRecord, PollIs(q, pol.kind, [pol.ev EXCEPT ![c] = want], pol.idx, pol.map, pol.fds, pol.epoll, q.bare),
         q.bare <=> pol.bare, q.fault <=> pol.fault,
         NEW mark, NEW w, NEW maps, NEW idxs, NEW epolls, 
         PollMarking(pol.ev, pol.idx, pol.map, pol.epoll, c, want, mark, w, q.ev, idxs, maps, epolls),
         PollSets(q, maps, idxs, epolls)
  PROVE  PollParts'
<1>1. /\ pol \in PollRecord /\ PollIndexed(pol.ev, pol.idx, pol.map) /\ PollMarked(pol.ev, pol.idx, pol.epoll)
      /\ ~pol.bare => ~pol.fault
  BY ZenonT(40) DEF PollParts, PollTyped
<1>2. /\ pol.ev \in [PollChannels -> PollEvents] /\ pol.idx \in [PollChannels -> Int]
      /\ pol.epoll \in [PollChannels -> PollEvents \cup {NotWatched}] /\ pol.map \in SUBSET PollChannels
  BY <1>1, PollFields, Zenon
<1>3. /\ idxs \in [PollChannels -> Int] /\ q.ev \in [PollChannels -> PollEvents]
      /\ epolls \in [PollChannels -> PollEvents \cup {NotWatched}]
      /\ PollIndexed(q.ev, idxs, maps)
      /\ PollMarked(q.ev, idxs, epolls)
  BY <1>1, <1>2, PollMarks, ZenonT(40)
<1>4. maps \in SUBSET PollChannels
  BY <1>2, Zenon DEF PollMarking
<1>5. pol' \in PollRecord
  BY <1>3, <1>4, Zenon DEF PollRecord, PollSets
<1>6. /\ pol'.kind = q.kind /\ pol'.ev = q.ev /\ pol'.idx = idxs /\ pol'.map = maps /\ pol'.epoll = epolls
      /\ pol'.bare = q.bare /\ pol'.fault = q.fault
  BY SMTT(40) DEF PollRecord, PollSets
<1>7. q.kind = "epoll"
  BY Zenon DEF PollIs
<1>8. PollIndexed(pol'.ev, pol'.idx, pol'.map) /\ PollMarked(pol'.ev, pol'.idx, pol'.epoll)
  BY <1>3, <1>6, ZenonT(40)
<1>9. pol'.kind = "epoll" /\ (~pol'.bare => ~pol'.fault)
  BY <1>1, <1>6, <1>7, Zenon DEF PollIs
<1>10. pol'.kind # "poll"
  BY <1>9, Zenon
<1> QED  BY <1>5, <1>8, <1>9, <1>10, Zenon DEF PollParts, PollTyped

\* Channel::update with EPollPoller: add, delete or modify, and its assertions hold.
LEMMA NextEpollUpdate ==
  ASSUME PollParts, NEW c \in PollChannels, NEW want \in PollEvents, NEW p, PollWishes(c, want, p),
         pol' = EPollUpdate(p, c), pol.kind = "epoll"
  PROVE  PollParts'
<1>1. /\ pol \in PollRecord /\ PollIndexed(pol.ev, pol.idx, pol.map) /\ PollMarked(pol.ev, pol.idx, pol.epoll)
  BY SMTT(40) DEF PollParts, PollTyped
<1>2. /\ pol.ev \in [PollChannels -> PollEvents] /\ pol.idx \in [PollChannels -> Int]
      /\ pol.epoll \in [PollChannels -> PollEvents \cup {NotWatched}] /\ pol.map \in SUBSET PollChannels
  BY <1>1, PollFields, SMTT(40)
<1>3. /\ p \in PollRecord /\ p.kind = pol.kind /\ p.ev = [pol.ev EXCEPT ![c] = want] /\ p.ev[c] = want
      /\ p.idx = pol.idx /\ p.map = pol.map /\ p.fds = pol.fds /\ p.epoll = pol.epoll /\ p.fault = pol.fault
      /\ p.bare <=> pol.bare
  BY Zenon DEF PollWishes, PollIs
<1>4. /\ pol.idx[c] \in {EpNew, EpDeleted} => pol.epoll[c] = NotWatched
      /\ pol.idx[c] = EpAdded => pol.epoll[c] # NotWatched
      /\ c \in pol.map <=> pol.idx[c] \in {EpAdded, EpDeleted}
      /\ pol.idx[c] \in {EpNew, EpAdded, EpDeleted} /\ EpNew # EpDeleted /\ EpNew # EpAdded /\ EpAdded # EpDeleted
  <2>1. \A e \in PollEvents : e # NotWatched
    BY DEF PollEvents, NotWatched
  <2> QED  BY <1>1, <1>2, <2>1, SMTT(40) DEF PollIndexed, PollMarked, EpNew, EpAdded, EpDeleted
<1>5. ASSUME NEW ok \in BOOLEAN, ok, NEW q, q = PollAssert(p, ok),
             NEW mark, NEW w, NEW maps, NEW idxs, NEW epolls,
             PollMarking(pol.ev, pol.idx, pol.map, pol.epoll, c, want, mark, w, p.ev, idxs, maps, epolls),
             PollSets(q, maps, idxs, epolls)
      PROVE  PollParts'
  <2>1. /\ q \in PollRecord
        /\ PollIs(q, p.kind, p.ev, p.idx, p.map, p.fds, p.epoll, p.bare)
        /\ q.fault <=> p.fault \/ ~ok
    BY <1>3, <1>5, PollAsserts, Zenon
  <2>2. /\ PollIs(q, pol.kind, [pol.ev EXCEPT ![c] = want], pol.idx, pol.map, pol.fds, pol.epoll, q.bare)
        /\ q.ev = p.ev
        /\ q.bare <=> pol.bare
        /\ q.fault <=> pol.fault
    BY <1>3, <1>5, <2>1, Zenon DEF PollIs
  <2>3. PollMarking(pol.ev, pol.idx, pol.map, pol.epoll, c, want, mark, w, q.ev, idxs, maps, epolls)
    BY <1>5, <2>2, Zenon
  <2> QED  BY <1>5, <2>1, <2>2, <2>3, PollMarkStep, ZenonT(40)
<1>6. \A ok : PollAssert(p, ok) = [p EXCEPT !.fault = @ \/ ~ok]
  BY DEF PollAssert
<1>7. CASE p.idx[c] \in {EpNew, EpDeleted}
  <2> DEFINE ok == p.epoll[c] = NotWatched /\ (p.idx[c] = EpDeleted <=> c \in p.map)
             q == PollAssert(p, ok)
             idxs == [pol.idx EXCEPT ![c] = EpAdded]
             epolls == [pol.epoll EXCEPT ![c] = want]
  <2>1. ok \in BOOLEAN /\ ok
    BY <1>3, <1>4, <1>7, Zenon
  <2>2. pol' = [q EXCEPT !.map = @ \cup {c}, !.idx[c] = EpAdded, !.epoll[c] = p.ev[c]]
    BY <1>3, <1>4, <1>7, ZenonT(40) DEF EPollUpdate
  <2> HIDE DEF ok
  <2>3. q \in PollRecord /\ q.map = pol.map /\ q.idx = pol.idx /\ q.epoll = pol.epoll
    BY <1>3, <2>1, PollAsserts, Zenon DEF PollIs
  <2> HIDE DEF q
  <2>4. PollSets(q, pol.map \cup {c}, idxs, epolls)
    BY <1>3, <2>2, <2>3, ZenonT(40) DEF PollRecord, PollSets
  <2>5. PollMarking(pol.ev, pol.idx, pol.map, pol.epoll, c, want, EpAdded, want, p.ev, idxs, pol.map \cup {c}, epolls)
    BY <1>3, <1>4, Zenon DEF PollMarking
  <2> HIDE DEF idxs, epolls
  <2>6. q = PollAssert(p, ok)
    BY DEF q
  <2> QED  BY <1>5, <2>1, <2>4, <2>5, <2>6, ZenonT(40)
<1>8. CASE p.idx[c] = EpAdded /\ p.ev[c] = {}
  <2> DEFINE ok == p.epoll[c] # NotWatched /\ c \in p.map
             q == PollAssert(p, ok)
             idxs == [pol.idx EXCEPT ![c] = EpDeleted]
             epolls == [pol.epoll EXCEPT ![c] = NotWatched]
  <2>1. ok \in BOOLEAN /\ ok
    BY <1>3, <1>4, <1>8, Zenon
  <2>2. pol' = [q EXCEPT !.epoll[c] = NotWatched, !.idx[c] = EpDeleted]
    BY <1>4, <1>8, Zenon DEF EPollUpdate
  <2> HIDE DEF ok
  <2>3. q \in PollRecord /\ q.map = pol.map /\ q.idx = pol.idx /\ q.epoll = pol.epoll
    BY <1>3, <2>1, PollAsserts, ZenonT(40) DEF PollIs
  <2> HIDE DEF q
  <2>4. PollSets(q, pol.map \cup {c}, idxs, epolls)
    <3>1. pol.map \cup {c} = q.map
      BY <1>3, <1>4, <1>8, <2>3, Zenon
    <3>2. pol' = [q EXCEPT !.map = q.map, !.idx = idxs, !.epoll = epolls]
      BY <2>2, <2>3, ZenonT(40) DEF PollRecord
    <3> QED  BY <3>1, <3>2, ZenonT(40) DEF PollSets
  <2>5. PollMarking(pol.ev, pol.idx, pol.map, pol.epoll, c, want, EpDeleted, NotWatched, p.ev, idxs, pol.map \cup {c}, epolls)
    BY <1>3, <1>4, <1>8, Zenon DEF PollMarking
  <2> HIDE DEF idxs, epolls
  <2>6. q = PollAssert(p, ok)
    BY DEF q
  <2> QED  BY <1>5, <2>1, <2>4, <2>5, <2>6, ZenonT(40)
<1>9. CASE ~(p.idx[c] \in {EpNew, EpDeleted}) /\ ~(p.idx[c] = EpAdded /\ p.ev[c] = {})
  <2> DEFINE ok == p.epoll[c] # NotWatched /\ c \in p.map
             q == PollAssert(p, ok)
             idxs == [pol.idx EXCEPT ![c] = EpAdded]
             epolls == [pol.epoll EXCEPT ![c] = want]
  <2>0. pol.idx[c] = EpAdded
    BY <1>3, <1>4, <1>9, Zenon
  <2>1. ok \in BOOLEAN /\ ok
    BY <1>3, <1>4, <2>0, Zenon
  <2>2. pol' = [q EXCEPT !.epoll[c] = p.ev[c]]
    BY <1>9, Zenon DEF EPollUpdate
  <2> HIDE DEF ok
  <2>3. q \in PollRecord /\ q.map = pol.map /\ q.idx = pol.idx /\ q.epoll = pol.epoll
    BY <1>3, <2>1, PollAsserts, Zenon DEF PollIs
  <2> HIDE DEF q
  <2>4. PollSets(q, pol.map \cup {c}, idxs, epolls)
    <3>1. pol.map \cup {c} = q.map
      BY <1>4, <2>0, <2>3, Zenon
    <3>2. idxs = q.idx
      BY <1>2, <2>0, <2>3, Zenon
    <3>3. pol' = [q EXCEPT !.map = q.map, !.idx = q.idx, !.epoll = epolls]
      BY <1>3, <2>2, <2>3, ZenonT(40) DEF PollRecord
    <3> QED  BY <3>1, <3>2, <3>3, Zenon DEF PollSets
  <2>5. PollMarking(pol.ev, pol.idx, pol.map, pol.epoll, c, want, EpAdded, want, p.ev, idxs, pol.map \cup {c}, epolls)
    BY <1>3, <1>4 DEF PollMarking
  <2> HIDE DEF idxs, epolls
  <2>6. q = PollAssert(p, ok)
    BY DEF q
  <2> QED  BY <1>5, <2>1, <2>4, <2>5, <2>6, Zenon
<1> QED  BY <1>7, <1>8, <1>9, SMTT(40)

\* Channel::remove with EPollPoller: its assertions hold.
LEMMA NextEpollRemove ==
  ASSUME PollParts, NEW c \in PollChannels, pol' = EPollRemove(pol, c), pol.idx[c] # -1, pol.ev[c] = {},
         pol.kind = "epoll"
  PROVE  PollParts'
<1> DEFINE ok == c \in pol.map /\ pol.ev[c] = {}
           q == PollAssert(pol, ok)
           idxs == [pol.idx EXCEPT ![c] = EpNew]
           epolls == [pol.epoll EXCEPT ![c] = NotWatched]
<1>1. pol \in PollRecord /\ PollIndexed(pol.ev, pol.idx, pol.map)
  BY Zenon DEF PollParts, PollTyped
<1>2. ok \in BOOLEAN /\ ok
  BY <1>1 DEF PollIndexed
<1>3. pol' = [q EXCEPT !.map = @ \ {c}, !.epoll[c] = NotWatched, !.idx[c] = EpNew]
  BY Zenon DEF EPollRemove
<1> HIDE DEF ok
<1>4. /\ q \in PollRecord
      /\ PollIs(q, pol.kind, pol.ev, pol.idx, pol.map, pol.fds, pol.epoll, pol.bare)
      /\ q.fault <=> pol.fault
  BY <1>1, <1>2, PollAsserts, Zenon
<1> HIDE DEF q
<1>5. pol.ev = [pol.ev EXCEPT ![c] = {}] /\ {} \in PollEvents
  BY <1>1, PollFields, Zenon DEF PollEvents
<1>6. /\ PollIs(q, pol.kind, [pol.ev EXCEPT ![c] = {}], pol.idx, pol.map, pol.fds, pol.epoll, q.bare)
      /\ q.bare <=> pol.bare
      /\ q.ev = pol.ev /\ q.map = pol.map /\ q.idx = pol.idx /\ q.epoll = pol.epoll
  BY <1>4, <1>5, Zenon DEF PollIs
<1>7. PollSets(q, pol.map \ {c}, idxs, epolls)
  <2>1. q \in PollRecord /\ q.map = pol.map /\ q.idx = pol.idx /\ q.epoll = pol.epoll
    BY <1>4, <1>6, Zenon
  <2> QED  BY <1>3, <2>1, Zenon DEF PollRecord, PollSets
<1>8. PollMarking(pol.ev, pol.idx, pol.map, pol.epoll, c, {}, EpNew, NotWatched, q.ev, idxs, pol.map \ {c}, epolls)
  BY <1>5, <1>6, Zenon DEF PollMarking
<1> HIDE DEF idxs, epolls
<1> QED  BY <1>4, <1>5, <1>6, <1>7, <1>8, PollMarkStep, ZenonT(40)

\* A step that touches none of the fields the parts are about.
LEMMA NextPollSame ==
  ASSUME PollParts, NEW q \in PollRecord,
         PollIs(q, pol.kind, pol.ev, pol.idx, pol.map, pol.fds, pol.epoll, pol.bare), q.fault <=> pol.fault,
         NEW active \in SUBSET PollChannels, NEW current \in PollChannels \cup {0},
         pol' = [q EXCEPT !.active = active, !.current = current]
  PROVE  PollParts'
<1>1. pol' \in PollRecord
  BY Zenon DEF PollRecord
<1>2. /\ pol'.kind = q.kind /\ pol'.ev = q.ev /\ pol'.idx = q.idx /\ pol'.map = q.map /\ pol'.fds = q.fds
      /\ pol'.epoll = q.epoll /\ pol'.bare = q.bare /\ pol'.fault = q.fault
  BY DEF PollRecord
<1>3. /\ pol'.kind = pol.kind /\ pol'.ev = pol.ev /\ pol'.idx = pol.idx /\ pol'.map = pol.map /\ pol'.fds = pol.fds
      /\ pol'.epoll = pol.epoll /\ pol'.bare = pol.bare
      /\ pol'.fault <=> pol.fault
  BY <1>2 DEF PollIs
<1> QED  BY <1>1, <1>3 DEF PollParts, PollTyped

\* What the kernel watches is registered.
LEMMA PollWatchesMapped == PollParts => PollWatched \subseteq pol.map
<1> SUFFICES ASSUME PollParts, NEW c \in PollWatched  PROVE c \in pol.map
  OBVIOUS
<1>1. pol \in PollRecord /\ PollIndexed(pol.ev, pol.idx, pol.map)
  BY DEF PollParts, PollTyped
<1>2. c \in PollChannels
  BY SMTT(40) DEF PollWatched, EPollWatched
<1>3. CASE pol.kind = "epoll"
  <2>1. pol.epoll[c] # NotWatched /\ PollMarked(pol.ev, pol.idx, pol.epoll)
    BY <1>3, Zenon DEF PollWatched, EPollWatched, PollParts
  <2>2. pol.idx[c] # -1
    BY <1>2, <2>1, SMTT(40) DEF PollMarked, EpAdded
  <2> QED  BY <1>1, <1>2, <2>2, SMTT(40) DEF PollIndexed
<1>4. CASE pol.kind = "poll"
  <2>1. PICK i \in DOMAIN pol.fds : pol.fds[i].fd = c
    BY <1>4 DEF PollWatched
  <2>2. i \in 1 .. Len(pol.fds) /\ i \in Int
    BY <1>1, PollFields
  <2>3. PollMovedIndex(pol.fds[i].fd) = c
    BY <1>2, <2>1, PollAssumption, SMTT(40) DEF PollMovedIndex
  <2>4. pol.idx[c] = i - 1
    BY <1>4, <2>2, <2>3, Zenon DEF PollParts, PollLeadsBack
  <2> QED  BY <1>1, <1>2, <2>2, <2>4, SMTT(40) DEF PollIndexed
<1> QED  BY <1>1, <1>3, <1>4, PollFields, SMTT(40)

\* Every step of a Channel or of the loop keeps the parts.
LEMMA PollStep ==
  ASSUME PollParts, PollNext
  PROVE  PollParts'
<1>1. pol \in PollRecord /\ PollTyped
  BY DEF PollParts, PollTyped
<1>2. ASSUME NEW c \in PollChannels, NEW want \in PollEvents, ChanSet(c, want)  PROVE PollParts'
  <2>1. PICK p : PollWishes(c, want, p) /\ pol' = IF pol.kind = "poll" THEN PollUpdate(p, c) ELSE EPollUpdate(p, c)
    BY <1>1, <1>2, PollWish, SMTT(40)
  <2>2. p.idx = pol.idx
    BY <2>1, Zenon DEF PollWishes, PollIs
  <2>3. CASE pol.kind = "epoll"
    BY <1>2, <2>1, <2>3, NextEpollUpdate, SMTT(40)
  <2>4. CASE pol.kind = "poll" /\ pol.idx[c] = -1
    <3>1. pol' = PollUpdateNew(p, c)
      BY <2>1, <2>2, <2>4, SMTT(40) DEF PollUpdate
    <3> QED  BY <1>2, <2>1, <2>4, <3>1, NextPollNew, Zenon
  <2>5. CASE pol.kind = "poll" /\ pol.idx[c] # -1
    <3>1. pol.idx[c] + 1 \in 1 .. Len(pol.fds) /\ pol.idx[c] \in Int
      BY <1>1, <2>5, PollFields, Zenon DEF PollParts, PollLeads
    <3>2. pol' = PollUpdateOld(p, c)
      BY <2>1, <2>2, <2>5, <3>1, SMTT(40) DEF PollUpdate
    <3> QED  BY <1>2, <2>1, <2>5, <3>2, NextPollOld, Zenon
  <2> QED  BY <1>1, <2>3, <2>4, <2>5, PollFields, Zenon
<1>3. ASSUME NEW c \in PollChannels, 
             ChanEnableReading(c) \/ ChanDisableReading(c) \/ ChanEnableWriting(c) \/ ChanDisableWriting(c) \/ ChanDisableAll(c)
      PROVE  PollParts'
  <2>1. pol.ev[c] \in PollEvents
    BY <1>1, PollFields, SMTT(40)
  <2>2. /\ pol.ev[c] \cup {"r"} \in PollEvents /\ pol.ev[c] \ {"r"} \in PollEvents
        /\ pol.ev[c] \cup {"w"} \in PollEvents /\ pol.ev[c] \ {"w"} \in PollEvents /\ {} \in PollEvents
    BY <2>1 DEF PollEvents
  <2> QED  BY <1>2, <1>3, <2>2, SMTT(40)
           DEF ChanEnableReading, ChanDisableReading, ChanEnableWriting, ChanDisableWriting, ChanDisableAll
<1>4. ASSUME NEW c \in PollChannels, ChanRemove(c)  PROVE PollParts'
  <2>1. pol.idx[c] # -1 /\ pol.ev[c] = {}
    BY <1>4, SMTT(40) DEF ChanRemove
  <2>2. CASE pol.kind = "poll"
    BY <1>4, <2>1, <2>2, NextPollRemove, SMTT(40) DEF ChanRemove
  <2>3. CASE pol.kind = "epoll"
    BY <1>4, <2>1, <2>3, NextEpollRemove, Zenon DEF ChanRemove
  <2> QED  BY <1>1, <2>2, <2>3, PollFields, SMTT(40)
<1>5. /\ PollIs(pol, pol.kind, pol.ev, pol.idx, pol.map, pol.fds, pol.epoll, pol.bare)
      /\ pol.active \in SUBSET PollChannels /\ pol.current \in PollChannels \cup {0}
  BY <1>1, SMTT(40) DEF PollIs, PollRecord
<1>6. ASSUME NEW c \in PollChannels, PollHandle(c)  PROVE PollParts'
  <2>1. pol' = [pol EXCEPT !.active = pol.active \ {c}, !.current = c] /\ pol.active \ {c} \in SUBSET PollChannels
    BY <1>5, <1>6, SMTT(40) DEF PollHandle
  <2> QED  BY <1>1, <1>5, <2>1, NextPollSame, Zenon
<1>7. CASE PollHandled
  <2>1. pol' = [pol EXCEPT !.active = pol.active, !.current = 0]
    BY <1>1, <1>7, ZenonT(40) DEF PollHandled, PollRecord
  <2> QED  BY <1>1, <1>5, <2>1, NextPollSame, Zenon
<1>8. ASSUME NEW ready \in SUBSET PollWatched, PollPoll(ready)  PROVE PollParts'
  <2> DEFINE ok == ready \subseteq pol.map
             q == PollAssert(pol, ok)
  <2>1. ok \in BOOLEAN /\ ok /\ ready \in SUBSET PollChannels
    BY <1>1, PollWatchesMapped, PollFields, SMTT(40)
  <2>2. pol' = [q EXCEPT !.active = ready]
    BY <1>8, Zenon DEF PollPoll
  <2> HIDE DEF ok
  <2>3. /\ q \in PollRecord
        /\ PollIs(q, pol.kind, pol.ev, pol.idx, pol.map, pol.fds, pol.epoll, pol.bare)
        /\ q.fault <=> pol.fault
    BY <1>1, <2>1, PollAsserts, Zenon
  <2> HIDE DEF q
  <2>4. pol' = [q EXCEPT !.active = ready, !.current = q.current] /\ q.current \in PollChannels \cup {0}
    BY <2>2, <2>3, Zenon DEF PollRecord
  <2> QED  BY <2>1, <2>3, <2>4, NextPollSame, ZenonT(40)
<1> QED  BY <1>3, <1>4, <1>6, <1>7, <1>8, SMTT(40) DEF PollNext

\* A new poller, of either kind, watches nothing.
LEMMA PollStarts == PollInit => PollParts
<1> SUFFICES ASSUME PollInit  PROVE PollParts
  OBVIOUS
<1>1. /\ pol.kind \in {"poll", "epoll"} /\ pol.ev = [c \in PollChannels |-> {}]
      /\ pol.idx = [c \in PollChannels |-> -1] /\ pol.map = {} /\ pol.fds = << >>
      /\ pol.epoll = [c \in PollChannels |-> NotWatched] /\ pol.active = {} /\ pol.current = 0
      /\ pol.bare = FALSE /\ pol.fault = FALSE
      /\ pol = [kind |-> pol.kind, ev |-> pol.ev, idx |-> pol.idx, map |-> pol.map, fds |-> pol.fds, epoll |-> pol.epoll,
                active |-> pol.active, current |-> pol.current, bare |-> pol.bare, fault |-> pol.fault]
  BY Zenon DEF PollInit
<1>2. /\ pol.ev \in [PollChannels -> PollEvents] /\ pol.idx \in [PollChannels -> Int] /\ pol.fds \in Seq(PollItem)
      /\ pol.epoll \in [PollChannels -> PollEvents \cup {NotWatched}]
      /\ pol.map \in SUBSET PollChannels /\ pol.active \in SUBSET PollChannels /\ pol.current \in PollChannels \cup {0}
      /\ pol.bare \in BOOLEAN /\ pol.fault \in BOOLEAN
  <2>1. {} \in PollEvents
    BY DEF PollEvents
  <2>2. pol.ev \in [PollChannels -> PollEvents] /\ pol.epoll \in [PollChannels -> PollEvents \cup {NotWatched}]
    BY <1>1, <2>1, Zenon
  <2>3. pol.idx \in [PollChannels -> Int]
    BY <1>1, SMTT(40)
  <2>4. pol.fds \in Seq(PollItem)
    BY <1>1
  <2> QED  BY <1>1, <2>2, <2>3, <2>4, Zenon
<1>3. pol \in PollRecord
  BY <1>1, <1>2, Zenon DEF PollRecord
<1>4. PollIndexed(pol.ev, pol.idx, pol.map)
  BY <1>1, Zenon DEF PollIndexed
<1>5. PollMarked(pol.ev, pol.idx, pol.epoll)
  BY <1>1, SMTT(40) DEF PollMarked, EpNew, EpAdded, EpDeleted
<1>6. PollLeads(pol.ev, pol.idx, pol.fds) /\ PollLeadsBack(pol.idx, pol.fds) /\ PollIgnores(pol.ev, pol.idx, pol.fds)
  BY <1>1 DEF PollLeads, PollLeadsBack, PollIgnores
<1> QED  BY <1>1, <1>3, <1>4, <1>5, <1>6, Zenon DEF PollParts, PollTyped

\* PollPoller's array has as many entries as there are registered Channels.
LEMMA PollCounts ==
  ASSUME NEW ev, NEW idx \in [PollChannels -> Int], NEW map, NEW fds \in Seq(PollItem),
         PollIndexed(ev, idx, map), PollLeads(ev, idx, fds), PollLeadsBack(idx, fds)
  PROVE  Len(fds) = Cardinality(map)
<1> DEFINE f == [i \in 1 .. Len(fds) |-> PollMovedIndex(fds[i].fd)]
<1>1. Len(fds) \in Nat /\ \A i \in 1 .. Len(fds) : f[i] \in map /\ idx[f[i]] = i - 1
  BY DEF PollLeadsBack, PollIndexed
<1>2. \A c \in map : idx[c] + 1 \in 1 .. Len(fds) /\ f[idx[c] + 1] = c
  <2> SUFFICES ASSUME NEW c \in map  PROVE idx[c] + 1 \in 1 .. Len(fds) /\ f[idx[c] + 1] = c
    BY SMTT(40)
  <2>1. c \in PollChannels /\ idx[c] + 1 \in 1 .. Len(fds) /\ PollItemOf(c, ev[c], fds[idx[c] + 1])
    BY Zenon DEF PollIndexed, PollLeads
  <2>2. PollMovedIndex(fds[idx[c] + 1].fd) = c
    BY <2>1, PollNames, SMTT(40)
  <2> QED  BY <2>1, <2>2, Zenon
<1> HIDE DEF f
<1>3. f \in [1 .. Len(fds) -> map]
  BY <1>1 DEF f
<1>4. \A i, j \in 1 .. Len(fds) : f[i] = f[j] => i = j
  BY <1>1
<1>5. f \in Bijection(1 .. Len(fds), map)
  <2>1. f \in Injection(1 .. Len(fds), map)
    BY <1>3, <1>4 DEF Injection, IsInjective
  <2>2. f \in Surjection(1 .. Len(fds), map)
    <3>1. \A c \in map : \E i \in 1 .. Len(fds) : f[i] = c
      BY <1>2
    <3> QED  BY <1>3, <3>1, Zenon DEF Surjection
  <2> QED  BY <2>1, <2>2, Zenon DEF Bijection
<1>6. ExistsBijection(1 .. Len(fds), map)
  BY <1>5 DEF ExistsBijection
<1>7. IsFiniteSet(1 .. Len(fds)) /\ Cardinality(1 .. Len(fds)) = Len(fds)
  <2>1. 1 \in Int /\ Len(fds) \in Int
    BY <1>1
  <2>2. /\ IsFiniteSet(1 .. Len(fds))
        /\ Cardinality(1 .. Len(fds)) = IF 1 > Len(fds) THEN 0 ELSE Len(fds) - 1 + 1
    BY <2>1, FS_Interval, Zenon
  <2>3. (IF 1 > Len(fds) THEN 0 ELSE Len(fds) - 1 + 1) = Len(fds)
    BY <1>1
  <2> QED  BY <2>2, <2>3, SMT, SMTT(40)
<1>8. Cardinality(map) = Cardinality(1 .. Len(fds))
  BY <1>6, <1>7, FS_Bijection, Zenon
<1> QED  BY <1>7, <1>8, Zenon

\* Upstream's two Pollers keep step with their Channels and the kernel: exactly the
\* registered Channels that want events are watched, with those events, index_ leads
\* to a Channel's own entry although PollPoller::removeChannel moves entries about,
\* and no assertion of updateChannel, removeChannel or fillActiveChannels fails.
THEOREM PollersAlwaysKeepStep == PollSpec => []PollersKeepStep
<1>1. PollInit => PollInv
  BY PollStarts, PollSplit
<1>2. PollInv /\ [PollNext]_pol => PollInv'
  <2> SUFFICES ASSUME PollInv, [PollNext]_pol  PROVE PollInv'
    OBVIOUS
  <2>1. CASE PollNext
    BY <2>1, PollStep, PollSplit, SMTT(40)
  <2>2. CASE UNCHANGED pol
    <3>1. PollParts
      BY PollSplit
    <3>2. PollParts'
      BY <2>2, <3>1, Zenon DEF PollParts, PollTyped
    <3> QED  BY <3>2, PollSplit, SMTT(40)
  <2> QED  BY <2>1, <2>2
<1>3. PollInv => PollersKeepStep
  <2> SUFFICES ASSUME PollParts, ~pol.bare  PROVE PollersKeepStep
    BY PollSplit, Zenon DEF PollersKeepStep
  <2>1. /\ pol \in PollRecord /\ ~pol.fault /\ PollIndexed(pol.ev, pol.idx, pol.map)
        /\ pol.kind = "epoll" => PollMarked(pol.ev, pol.idx, pol.epoll)
        /\ pol.kind = "poll" => /\ PollLeads(pol.ev, pol.idx, pol.fds) /\ PollLeadsBack(pol.idx, pol.fds)
                                /\ PollIgnores(pol.ev, pol.idx, pol.fds)
    BY Zenon DEF PollParts, PollTyped
  <2>2. pol.map = {c \in PollChannels : pol.idx[c] # -1}
    BY <2>1, Zenon DEF PollIndexed
  <2>3. ASSUME pol.kind = "epoll", NEW c \in PollChannels  PROVE pol.epoll[c] \ NotWatched = pol.ev[c]
    <3>1. pol.ev[c] \in PollEvents /\ pol.epoll[c] \in PollEvents \cup {NotWatched}
      BY <2>1, PollFields, Zenon
    <3>2. \A e \in PollEvents : e \ NotWatched = e
      BY SMTT(40) DEF PollEvents, NotWatched
    <3>3. pol.epoll[c] = pol.ev[c] \/ (pol.epoll[c] = NotWatched /\ pol.ev[c] = {})
      BY <2>1, <2>3, Zenon DEF PollMarked
    <3> QED  BY <3>1, <3>2, <3>3, SMTT(40)
  <2>4. ASSUME pol.kind = "poll", NEW c \in pol.map
        PROVE  /\ pol.idx[c] + 1 \in 1 .. Len(pol.fds)
               /\ pol.fds[pol.idx[c] + 1].events = pol.ev[c]
               /\ PollMovedIndex(pol.fds[pol.idx[c] + 1].fd) = c
               /\ pol.ev[c] # {} => pol.fds[pol.idx[c] + 1].fd = c
               /\ pol.ev[c] = {} => pol.fds[pol.idx[c] + 1].fd = PollIgnored(c)
    <3>1. c \in PollChannels /\ pol.idx[c] # -1
      BY <2>2, SMTT(40)
    <3>2. pol.idx[c] + 1 \in 1 .. Len(pol.fds) /\ PollItemOf(c, pol.ev[c], pol.fds[pol.idx[c] + 1])
      BY <2>1, <2>4, <3>1, Zenon DEF PollLeads
    <3>3. PollMovedIndex(pol.fds[pol.idx[c] + 1].fd) = c
      BY <3>1, <3>2, PollNames, Zenon
    <3>4. pol.ev[c] = {} => pol.fds[pol.idx[c] + 1].fd = PollIgnored(c)
      BY <2>1, <2>4, <3>1, Zenon DEF PollIgnores
    <3> QED  BY <3>2, <3>3, <3>4, Zenon DEF PollItemOf
  <2>5. ASSUME pol.kind = "poll"  PROVE PollWatched = {c \in pol.map : pol.ev[c] # {}}
    <3>1. PollWatched = {pol.fds[i].fd : i \in DOMAIN pol.fds} \cap PollChannels
      BY <2>5, SMTT(40) DEF PollWatched
    <3>2. ASSUME NEW c \in pol.map, pol.ev[c] # {}  PROVE c \in PollWatched
      <4>1. pol.idx[c] + 1 \in DOMAIN pol.fds
        BY <2>1, <2>4, <2>5, PollFields, SMTT(40)
      <4> QED  BY <2>2, <2>4, <2>5, <3>1, <3>2, <4>1, Zenon
    <3>3. ASSUME NEW c \in PollWatched  PROVE c \in pol.map /\ pol.ev[c] # {}
      <4>1. c \in pol.map /\ c \in PollChannels
        BY <2>2, PollWatchesMapped
      <4>2. PICK i \in DOMAIN pol.fds : pol.fds[i].fd = c
        BY <3>1, <3>3, SMTT(40)
      <4>3. PollMovedIndex(pol.fds[i].fd) = c
        BY <4>1, <4>2, PollAssumption, SMTT(40) DEF PollMovedIndex
      <4>4. i \in 1 .. Len(pol.fds) /\ i \in Int
        BY <2>1, PollFields, SMTT(40)
      <4>5. pol.idx[c] + 1 = i
        BY <2>1, <2>5, <4>3, <4>4, SMTT(40) DEF PollLeadsBack
      <4>6. pol.ev[c] = {} => c = PollIgnored(c)
        BY <2>4, <2>5, <4>1, <4>2, <4>5, Zenon
      <4>7. c # PollIgnored(c)
        BY <4>1, PollAssumption, SMTT(40) DEF PollIgnored
      <4> QED  BY <4>1, <4>6, <4>7, SMTT(40)
    <3> QED  BY <3>2, <3>3, SMTT(40)
  <2>6. ASSUME pol.kind = "poll"  PROVE Len(pol.fds) = Cardinality(pol.map)
    BY <2>1, <2>6, PollFields, PollCounts, Zenon
  <2>7. pol.kind = "epoll" => \A c \in PollChannels : pol.epoll[c] \ NotWatched = pol.ev[c]
    BY <2>3, Zenon
  <2>8. pol.kind = "poll" => \A c \in pol.map : /\ pol.fds[pol.idx[c] + 1].events = pol.ev[c]
                                              /\ PollMovedIndex(pol.fds[pol.idx[c] + 1].fd) = c
    BY <2>4, Zenon
  <2> QED  BY <2>1, <2>2, <2>5, <2>6, <2>7, <2>8, ZenonT(40) DEF PollersKeepStep
<1> QED  BY <1>1, <1>2, <1>3, PTL DEF PollSpec
=============================================================================
