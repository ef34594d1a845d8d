----------------------------- MODULE EPollPoller -----------------------------
(***************************************************************************)
(* The Poller of one EventLoop and the Channels registered with it         *)
(* (Channel.h, Channel.cc, Poller.cc, EPollPoller.cc).  Three records of   *)
(* what is watched have to be kept in step.  A Channel knows its interest  *)
(* (events_) and how the poller last left it (index_); the poller maps     *)
(* descriptors to Channels (channels_); the kernel's epoll set maps        *)
(* descriptors to an interest and a raw Channel pointer, which epoll_wait  *)
(* hands back.  Descriptors and Channel objects are reused.                *)
(*                                                                         *)
(* The clients (TcpConnection, Acceptor, EventLoop) keep a contract:       *)
(* Channels are changed in the loop's thread; a Channel is removed while   *)
(* functors run, never in the middle of a dispatch (connectDestroyed is    *)
(* always queued), and is destroyed, and its descriptor closed, only when  *)
(* it is not registered.                                                   *)
(***************************************************************************)
EXTENDS Naturals

CONSTANTS
  Channels,   \* addresses of Channel objects
  Fds,        \* descriptor numbers
  NoChannel,  \* a null or absent Channel pointer
  NoFd        \* fd_ of memory that holds no Channel now

ASSUME PollerAssumption ==
  /\ NoChannel \notin Channels
  /\ NoFd \notin Fds

VARIABLES
  fd_, events_, index_,   \* Channel: a function of the object's address
  channels_,              \* Poller: the map from descriptors to Channels
  epollPtr, epollEvents,  \* the kernel's epoll set: data.ptr and interest
  activeChannels,         \* Channels reported by poll, not handled yet
  phase,                  \* what the loop's thread is doing
  exited                  \* LOG_ERROR was reached: the process is gone

channelVars == <<fd_, events_, index_>>
epollVars == <<epollPtr, epollEvents>>
loopVars == <<activeChannels, phase>>
vars == <<fd_, events_, index_, channels_, epollPtr, epollEvents,
          activeChannels, phase, exited>>

kNew == "kNew"
kAdded == "kAdded"
kDeleted == "kDeleted"

kReadEvent == "read"
kWriteEvent == "write"
Interests == SUBSET {kReadEvent, kWriteEvent}
kNoneEvent == {}

Live(c) == fd_[c] # NoFd

TypeOK ==
  /\ fd_ \in [Channels -> Fds \cup {NoFd}]
  /\ events_ \in [Channels -> Interests]
  /\ index_ \in [Channels -> {kNew, kAdded, kDeleted}]
  /\ channels_ \in [Fds -> Channels \cup {NoChannel}]
  /\ epollPtr \in [Fds -> Channels \cup {NoChannel}]
  /\ epollEvents \in [Fds -> Interests]
  /\ activeChannels \in SUBSET Channels
  /\ phase \in {"poll", "dispatch", "functors"}
  /\ exited \in BOOLEAN

\* An empty poller, before loop() is called.
Init ==
  /\ fd_ = [c \in Channels |-> NoFd]
  /\ events_ = [c \in Channels |-> kNoneEvent]
  /\ index_ = [c \in Channels |-> kNew]
  /\ channels_ = [f \in Fds |-> NoChannel]
  /\ epollPtr = [f \in Fds |-> NoChannel]
  /\ epollEvents = [f \in Fds |-> kNoneEvent]
  /\ activeChannels = {}
  /\ phase = "functors"
  /\ exited = FALSE

-----------------------------------------------------------------------------
(* epoll_ctl, and EPollPoller::update around it.  The kernel refuses to    *)
(* add a descriptor twice, and to change or delete an absent one; update   *)
(* then logs: LOG_ERROR, for a failed delete, exits; LOG_FATAL goes on.    *)

updateAdd(c, interest) ==
  LET f == fd_[c] IN
  /\ IF epollPtr[f] = NoChannel
     THEN /\ epollPtr' = [epollPtr EXCEPT ![f] = c]
          /\ epollEvents' = [epollEvents EXCEPT ![f] = interest]
     ELSE UNCHANGED epollVars
  /\ UNCHANGED exited

updateMod(c, interest) ==
  LET f == fd_[c] IN
  /\ IF epollPtr[f] # NoChannel
     THEN /\ epollPtr' = [epollPtr EXCEPT ![f] = c]
          /\ epollEvents' = [epollEvents EXCEPT ![f] = interest]
     ELSE UNCHANGED epollVars
  /\ UNCHANGED exited

updateDel(c) ==
  LET f == fd_[c] IN
  /\ epollPtr' = [epollPtr EXCEPT ![f] = NoChannel]
  /\ epollEvents' = [epollEvents EXCEPT ![f] = kNoneEvent]
  /\ exited' = (epollPtr[f] = NoChannel)

-----------------------------------------------------------------------------
(* Channel and Poller operations.                                          *)

InLoop(c) == ~exited /\ phase # "poll" /\ Live(c)

\* Mutant: index_ is not set to kDeleted after the delete.
updateChannel_StaysAdded(c, interest) ==
  /\ InLoop(c)
  /\ events_' = [events_ EXCEPT ![c] = interest]
  /\ IF index_[c] \in {kNew, kDeleted}
     THEN /\ channels_' = IF index_[c] = kNew
                          THEN [channels_ EXCEPT ![fd_[c]] = c] ELSE channels_
          /\ index_' = [index_ EXCEPT ![c] = kAdded]
          /\ updateAdd(c, interest)
     ELSE /\ IF interest = kNoneEvent
             THEN updateDel(c)
             ELSE updateMod(c, interest)
          /\ UNCHANGED <<channels_, index_>>
  /\ UNCHANGED <<fd_, loopVars>>

\* Mutant: an interest that is already registered is not written again.
updateChannel_NoMod(c, interest) ==
  /\ InLoop(c)
  /\ events_' = [events_ EXCEPT ![c] = interest]
  /\ IF index_[c] \in {kNew, kDeleted}
     THEN /\ channels_' = IF index_[c] = kNew
                          THEN [channels_ EXCEPT ![fd_[c]] = c] ELSE channels_
          /\ index_' = [index_ EXCEPT ![c] = kAdded]
          /\ updateAdd(c, interest)
     ELSE /\ IF interest = kNoneEvent
             THEN updateDel(c) /\ index_' = [index_ EXCEPT ![c] = kDeleted]
             ELSE UNCHANGED <<epollVars, exited, index_>>
          /\ UNCHANGED channels_
  /\ UNCHANGED <<fd_, loopVars>>

\* Channel::update and EPollPoller::updateChannel, after one of the Channel's
\* enable and disable functions has set events_ to interest.
updateChannel(c, interest) ==
  /\ InLoop(c)
  /\ events_' = [events_ EXCEPT ![c] = interest]
  /\ IF index_[c] \in {kNew, kDeleted}
     THEN /\ channels_' = IF index_[c] = kNew
                          THEN [channels_ EXCEPT ![fd_[c]] = c] ELSE channels_
          /\ index_' = [index_ EXCEPT ![c] = kAdded]
          /\ updateAdd(c, interest)
     ELSE /\ IF interest = kNoneEvent
             THEN updateDel(c) /\ index_' = [index_ EXCEPT ![c] = kDeleted]
             ELSE updateMod(c, interest) /\ UNCHANGED index_
          /\ UNCHANGED channels_
  /\ UNCHANGED <<fd_, loopVars>>

enableReading(c) == updateChannel(c, events_[c] \cup {kReadEvent})
disableReading(c) == updateChannel(c, events_[c] \ {kReadEvent})
enableWriting(c) == updateChannel(c, events_[c] \cup {kWriteEvent})

\* The code has `events_ &= kWriteEvent': reading goes, writing stays.
disableWriting(c) == updateChannel(c, events_[c] \cap {kWriteEvent})

disableAll(c) == updateChannel(c, kNoneEvent)

\* Mutant: only the poller's own map forgets the channel.
removeChannel_MapOnly(c) ==
  /\ InLoop(c)
  /\ phase = "functors"
  /\ channels_' = [channels_ EXCEPT ![fd_[c]] = NoChannel]
  /\ index_' = [index_ EXCEPT ![c] = kNew]
  /\ UNCHANGED <<fd_, events_, epollVars, loopVars, exited>>

removeChannel(c) ==
  /\ InLoop(c)
  /\ phase = "functors"
  /\ channels_' = [channels_ EXCEPT ![fd_[c]] = NoChannel]
  /\ IF index_[c] = kAdded THEN updateDel(c) ELSE UNCHANGED <<epollVars, exited>>
  /\ index_' = [index_ EXCEPT ![c] = kNew]
  /\ UNCHANGED <<fd_, events_, loopVars>>

\* A Channel for a descriptor just opened (accept, socket, eventfd): no other
\* Channel has it.  This may happen in another thread while this loop polls.
construct(c, f) ==
  /\ ~exited
  /\ ~Live(c)
  /\ \A d \in Channels : fd_[d] # f
  /\ fd_' = [fd_ EXCEPT ![c] = f]
  /\ events_' = [events_ EXCEPT ![c] = kNoneEvent]
  /\ index_' = [index_ EXCEPT ![c] = kNew]
  /\ UNCHANGED <<channels_, epollVars, loopVars, exited>>

\* The client dies: ~Channel, then ~Socket closes the descriptor, which the
\* kernel drops from the epoll set.
destroy(c) ==
  /\ ~exited
  /\ Live(c)
  /\ index_[c] = kNew
  /\ fd_' = [fd_ EXCEPT ![c] = NoFd]
  /\ epollPtr' = [epollPtr EXCEPT ![fd_[c]] = NoChannel]
  /\ epollEvents' = [epollEvents EXCEPT ![fd_[c]] = kNoneEvent]
  /\ UNCHANGED <<events_, index_, channels_, loopVars, exited>>

-----------------------------------------------------------------------------
(* The loop: poll, dispatch, functors.                                     *)

\* Mutant: entries past numEvents are read too.
Registered_PastEnd == {epollPtr[f] : f \in Fds}

Registered == {epollPtr[f] : f \in {g \in Fds : epollPtr[g] # NoChannel}}

\* epoll_wait reports some registered descriptors (hang-ups and errors even
\* with an empty interest), and fillActiveChannels follows their pointers.
poll ==
  /\ ~exited
  /\ phase = "poll"
  /\ activeChannels' \in SUBSET Registered
  /\ phase' = "dispatch"
  /\ UNCHANGED <<channelVars, channels_, epollVars, exited>>

\* Channel::handleEvent runs callbacks, whose operations are the ones above.
handleEvent(c) ==
  /\ ~exited
  /\ phase = "dispatch"
  /\ c \in activeChannels
  /\ activeChannels' = activeChannels \ {c}
  /\ UNCHANGED <<channelVars, channels_, epollVars, phase, exited>>

doPendingFunctors ==
  /\ ~exited
  /\ phase = "dispatch"
  /\ activeChannels = {}
  /\ phase' = "functors"
  /\ UNCHANGED <<channelVars, channels_, epollVars, activeChannels, exited>>

nextIteration ==
  /\ ~exited
  /\ phase = "functors"
  /\ phase' = "poll"
  /\ UNCHANGED <<channelVars, channels_, epollVars, activeChannels, exited>>

ChannelOp(c) ==
  \/ enableReading(c)
  \/ disableReading(c)
  \/ enableWriting(c)
  \/ disableWriting(c)
  \/ disableAll(c)
  \/ removeChannel(c)
  \/ destroy(c)
  \/ handleEvent(c)
  \/ \E f \in Fds : construct(c, f)

Next ==
  \/ \E c \in Channels : ChannelOp(c)
  \/ poll
  \/ doPendingFunctors
  \/ nextIteration

Spec == Init /\ [][Next]_vars

-----------------------------------------------------------------------------
(* Properties.                                                             *)

\* How a live Channel, the poller's map and the kernel's epoll set relate, in
\* each of the three states of index_.
InStep(c) ==
  LET f == fd_[c] IN
  /\ index_[c] = kNew => channels_[f] = NoChannel /\ epollPtr[f] = NoChannel
  /\ index_[c] = kAdded =>
       channels_[f] = c /\ epollPtr[f] = c /\ epollEvents[f] = events_[c]
  /\ index_[c] = kDeleted =>
       channels_[f] = c /\ epollPtr[f] = NoChannel /\ events_[c] = kNoneEvent

\* The Channel, the poller and the kernel always agree on what is watched, and
\* neither map keeps an entry for a descriptor that no live Channel has, across
\* every sequence of enable, disable, remove, destroy and descriptor reuse.
RegistryInStep ==
  /\ \A c \in Channels : Live(c) => InStep(c)
  /\ \A f \in Fds : (\A c \in Channels : fd_[c] # f) =>
       channels_[f] = NoChannel /\ epollPtr[f] = NoChannel

\* The inductive invariant behind the three properties.  Two live Channels never
\* share a descriptor, and what poll reported stays registered with the poller
\* (though perhaps no longer with the kernel) until the dispatch is over.
PollerInv ==
  /\ RegistryInStep
  /\ \A c, d \in Channels : Live(c) /\ fd_[c] = fd_[d] => c = d
  /\ \A c \in activeChannels : Live(c) /\ index_[c] # kNew
  /\ activeChannels # {} => phase = "dispatch"
  /\ ~exited

\* fillActiveChannels and the dispatch loop never follow a pointer to a Channel
\* that has been destroyed.
NoDanglingChannel == activeChannels \subseteq {c \in Channels : Live(c)}

\* EPOLL_CTL_DEL never fails, so LOG_ERROR in EPollPoller::update is not reached.
NoFailedDelete == ~exited
=============================================================================
