------------------------------ MODULE NetPoller ------------------------------
(***************************************************************************)
(* Upstream's two Pollers, PollPoller and EPollPoller, under one Channel   *)
(* interface.  Channel c watches descriptor c.  pol.ev[c] and pol.idx[c]   *)
(* are its events_ and index_, pol.map the poller's channels_, pol.fds the *)
(* array given to poll(2) (0-based in the code, 1-based here), pol.epoll   *)
(* the kernel's epoll set.  fault: an assertion of the code has failed;    *)
(* bare: PollPoller first met some Channel with no events.                 *)
(***************************************************************************)
EXTENDS Integers, Sequences, FiniteSets

CONSTANT PollChannels     \* descriptors, positive numbers

ASSUME PollAssumption == PollChannels \subseteq Nat \ {0}

VARIABLE pol

PollEvents == {{}, {"r"}, {"w"}, {"r", "w"}}
NotWatched == {"none"}

PollInit == pol \in [kind : {"poll", "epoll"}, ev : {[c \in PollChannels |-> {}]},
                     idx : {[c \in PollChannels |-> -1]}, map : {{}}, fds : {<< >>},
                     epoll : {[c \in PollChannels |-> NotWatched]}, active : {{}}, current : {0},
                     bare : {FALSE}, fault : {FALSE}]

PollIgnored(c) == -c - 1
PollAssert(p, cond) == [p EXCEPT !.fault = @ \/ ~cond]

\* PollPoller::updateChannel: appended, or changed in place; ignored while empty.
PollUpdateNew(p, c) == [p EXCEPT !.fds = Append(@, [fd |-> c, events |-> p.ev[c]]),
                                 !.idx[c] = Len(p.fds), !.map = @ \cup {c}]
PollUpdateOld(p, c) ==
  [PollAssert(p, c \in p.map /\ p.idx[c] < Len(p.fds) /\ p.fds[p.idx[c] + 1].fd \in {c, PollIgnored(c)})
     EXCEPT !.fds[p.idx[c] + 1] = [fd |-> IF p.ev[c] = {} THEN PollIgnored(c) ELSE c, events |-> p.ev[c]]]
PollUpdate(p, c) == IF p.idx[c] < 0 THEN PollUpdateNew(p, c) ELSE PollUpdateOld(p, c)

\* PollPoller::removeChannel: the last entry moves into the hole.
PollMovedIndex_Raw(fd) == fd
PollMovedIndex(fd) == IF fd < 0 THEN -fd - 1 ELSE fd
PollRemove(p, c) ==
  LET i == p.idx[c] + 1
      n == Len(p.fds)
      q == [PollAssert(p, c \in p.map /\ p.fds[i] = [fd |-> PollIgnored(c), events |-> {}])
              EXCEPT !.map = @ \ {c}, !.idx[c] = -1]
  IN  IF i = n THEN [q EXCEPT !.fds = SubSeq(@, 1, n - 1)]
      ELSE LET d == PollMovedIndex(p.fds[n].fd)
           IN  [q EXCEPT !.fds = SubSeq([@ EXCEPT ![i] = p.fds[n]], 1, n - 1),
                         !.idx = IF d \in PollChannels THEN [@ EXCEPT ![d] = i - 1] ELSE @]

\* EPollPoller::updateChannel and removeChannel: index_ is kNew, kAdded or kDeleted.
EpNew == -1
EpAdded == 1
EpDeleted == 2
EPollUpdate_NoMod(p, c) ==
  CASE p.idx[c] \in {EpNew, EpDeleted} -> [p EXCEPT !.map = @ \cup {c}, !.idx[c] = EpAdded, !.epoll[c] = p.ev[c]]
    [] p.idx[c] = EpAdded /\ p.ev[c] = {} -> [p EXCEPT !.epoll[c] = NotWatched, !.idx[c] = EpDeleted]
    [] OTHER -> p
EPollUpdate(p, c) ==
  CASE p.idx[c] \in {EpNew, EpDeleted} ->
         [PollAssert(p, p.epoll[c] = NotWatched /\ (p.idx[c] = EpDeleted <=> c \in p.map))
            EXCEPT !.map = @ \cup {c}, !.idx[c] = EpAdded, !.epoll[c] = p.ev[c]]
    [] p.idx[c] = EpAdded /\ p.ev[c] = {} ->
         [PollAssert(p, p.epoll[c] # NotWatched /\ c \in p.map) EXCEPT !.epoll[c] = NotWatched, !.idx[c] = EpDeleted]
    [] OTHER -> [PollAssert(p, p.epoll[c] # NotWatched /\ c \in p.map) EXCEPT !.epoll[c] = p.ev[c]]
EPollRemove(p, c) == [PollAssert(p, c \in p.map /\ p.ev[c] = {}) EXCEPT
                        !.map = @ \ {c}, !.epoll[c] = NotWatched, !.idx[c] = EpNew]

-----------------------------------------------------------------------------
\* The Channel: enable and disable change events_ and update the poller.
ChanSet(c, events) ==
  LET p == [pol EXCEPT !.ev[c] = events, 
                        !.bare = @ \/ (pol.kind = "poll" /\ pol.idx[c] = -1 /\ events = {})]
  IN  pol' = IF pol.kind = "poll" THEN PollUpdate(p, c) ELSE EPollUpdate(p, c)

ChanEnableReading(c) == ChanSet(c, pol.ev[c] \cup {"r"})
ChanDisableReading(c) == ChanSet(c, pol.ev[c] \ {"r"})
ChanEnableWriting(c) == ChanSet(c, pol.ev[c] \cup {"w"})
ChanDisableWriting(c) == ChanSet(c, pol.ev[c] \ {"w"})
ChanDisableAll(c) == ChanSet(c, {})

\* Channel::remove and EventLoop::removeChannel: of the Channel in hand, or of one that
\* has no event waiting; the callers see to that.
ChanRemove(c) == /\ pol.idx[c] # -1 /\ pol.ev[c] = {}
                 /\ c = pol.current \/ c \notin pol.active
                 /\ pol' = IF pol.kind = "poll" THEN PollRemove(pol, c) ELSE EPollRemove(pol, c)

\* What poll(2) or epoll_wait may report, and fillActiveChannels.
EPollWatched == {c \in PollChannels : pol.epoll[c] # NotWatched}
PollWatched == IF pol.kind = "epoll" THEN EPollWatched ELSE {pol.fds[i].fd : i \in DOMAIN pol.fds} \cap PollChannels
PollPoll(ready) == /\ pol.active = {} /\ pol.current = 0 /\ ready # {}
                   /\ pol' = [PollAssert(pol, ready \subseteq pol.map) EXCEPT !.active = ready]

\* EventLoop::loop hands each active Channel its event.
PollHandle(c) == /\ c \in pol.active
                 /\ pol' = [pol EXCEPT !.active = @ \ {c}, !.current = c]
PollHandled == /\ pol.current # 0 /\ pol.active = {}
               /\ pol' = [pol EXCEPT !.current = 0]

PollNext == \/ \E c \in PollChannels :
                 \/ ChanEnableReading(c) \/ ChanDisableReading(c) \/ ChanEnableWriting(c) \/ ChanDisableWriting(c)
                 \/ ChanDisableAll(c) \/ ChanRemove(c) \/ PollHandle(c)
            \/ \E ready \in SUBSET PollWatched : PollPoll(ready)
            \/ PollHandled

PollSpec == PollInit /\ [][PollNext]_pol

(* Both Pollers keep the same promise through every order of enable, disable and *)
(* remove, although one moves its entries about and one marks the deleted ones:  *)
(* the kernel watches exactly the registered Channels that want events, with     *)
(* the events they want, an index_ leads to the Channel's own entry, and no      *)
(* assertion fails.  Except: a Channel whose first update has no events, which   *)
(* PollPoller watches for hang-ups and refuses to remove.  (EPollPoller adds it  *)
(* with no events, as it does on a repeated disable, and copes.)                 *)
PollersKeepStep ==
  ~pol.bare =>
    /\ ~pol.fault
    /\ pol.map = {c \in PollChannels : pol.idx[c] # -1}
    /\ pol.kind = "epoll" => \A c \in PollChannels : pol.epoll[c] \ NotWatched = pol.ev[c]
    /\ pol.kind = "poll" =>
         /\ PollWatched = {c \in pol.map : pol.ev[c] # {}}
         /\ Len(pol.fds) = Cardinality(pol.map)
         /\ \A c \in pol.map : /\ pol.fds[pol.idx[c] + 1].events = pol.ev[c]
                               /\ PollMovedIndex(pol.fds[pol.idx[c] + 1].fd) = c

\* Entry i of the array is Channel c's: for its descriptor or, ignored, with no events.
PollEntryOf(c, e) == /\ e.events = pol.ev[c]
                     /\ e.fd = c \/ (e.fd = PollIgnored(c) /\ pol.ev[c] = {})

(* What PollersKeepStep rests on, and every step keeps.  The array and the     *)
(* Channels' indices lead to each other, so the entry that moves is the one    *)
(* whose index_ is set; an entry is ignored whenever its Channel wants nothing *)
(* (unless it was first met so).  The epoll set has what the Channels marked   *)
(* kAdded want, and the others want nothing.                                   *)
PollInv ==
  /\ pol \in [kind : {"poll", "epoll"}, ev : [PollChannels -> PollEvents], idx : [PollChannels -> Int],
              map : SUBSET PollChannels, fds : Seq([fd : Int, events : PollEvents]),
              epoll : [PollChannels -> PollEvents \cup {NotWatched}], active : SUBSET PollChannels,
              current : PollChannels \cup {0}, bare : BOOLEAN, fault : BOOLEAN]
  /\ pol.map = {c \in PollChannels : pol.idx[c] # -1}
  /\ \A c \in PollChannels : pol.idx[c] = -1 => pol.ev[c] = {}
  /\ pol.kind = "epoll" =>
       \A c \in PollChannels : /\ pol.idx[c] \in {EpNew, EpAdded, EpDeleted}
                               /\ pol.idx[c] = EpAdded => pol.epoll[c] = pol.ev[c]
                               /\ pol.idx[c] # EpAdded => pol.epoll[c] = NotWatched /\ pol.ev[c] = {}
  /\ pol.kind = "poll" =>
       /\ \A c \in PollChannels : pol.idx[c] # -1 =>
            pol.idx[c] + 1 \in DOMAIN pol.fds /\ PollEntryOf(c, pol.fds[pol.idx[c] + 1])
       /\ \A i \in DOMAIN pol.fds : LET c == PollMovedIndex(pol.fds[i].fd)
                                    IN  c \in PollChannels /\ pol.idx[c] = i - 1
  /\ ~pol.bare =>
       /\ ~pol.fault
       /\ pol.kind = "poll" => \A c \in pol.map : pol.ev[c] = {} => pol.fds[pol.idx[c] + 1].fd = PollIgnored(c)
=============================================================================
