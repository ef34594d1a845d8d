--------------------------- MODULE TimerQueueProofs ---------------------------
(***************************************************************************)
(* TimersKept of TimerQueue for every set of addresses and delays, every   *)
(* number of timers and any length of time.                                *)
(*                                                                         *)
(* The invariant is TimerGood.  Its heart, TimerBook, places every Timer   *)
(* that is reachable: it is scheduled, in the batch in hand or waiting to  *)
(* be added, in exactly one of the three, allocated and with the           *)
(* expiration its entry says.  Sequence numbers only grow, so the identity *)
(* of a cancelled Timer does not come back when its address is reused.     *)
(* TimerBook is a relation of the sets alone: the lemmas about it know     *)
(* nothing of the record tmr, which the later lemmas take apart.           *)
(***************************************************************************)
EXTENDS TimerQueue, FiniteSetTheorems, SequenceTheorems, WellFoundedInduction, TLAPS

TimerEntry == Nat \X TimerAddrs
TimerIdSet == TimerAddrs \X Nat
TimerCell == [seq : Nat, exp : Nat, interval : Nat]

\* The identities of the entries es.
TimerIds(heap, es) == {<<e[2], heap[e[2]].seq>> : e \in es}

\* One entry more, and its identity.
TimerGains(heap, es, x, a, more, ids) ==
  more = es \cup {<<x, a>>} /\ ids = TimerIds(heap, es) \cup {<<a, heap[a].seq>>}

\* insert() keeps activeTimers_ the identities of timers_.
LEMMA TimerIdsAdd ==
  ASSUME NEW heap, NEW es, NEW x, NEW a, NEW more, NEW ids, TimerGains(heap, es, x, a, more, ids)
  PROVE  ids = TimerIds(heap, more)
<1> USE DEF TimerGains
<1>1. <<x, a>>[2] = a /\ <<x, a>> \in more /\ \A e \in more : e \in es \/ e = <<x, a>>
  OBVIOUS
<1>2. \A id \in TimerIds(heap, more) : id \in TimerIds(heap, es) \cup {<<a, heap[a].seq>>}
  BY <1>1, Zenon DEF TimerIds
<1>3. \A id \in TimerIds(heap, es) : id \in TimerIds(heap, more)
  BY Zenon DEF TimerIds
<1>4. <<a, heap[a].seq>> \in TimerIds(heap, more)
  BY <1>1, Zenon DEF TimerIds
<1> QED  BY <1>2, <1>3, <1>4

\* The Timers that are in no set and no queue, so that one may be inserted.
TimerFresh(heap, a, timers, expired, adding, cancelled) ==
  /\ heap[a].seq > 0 /\ <<a, heap[a].seq>> \notin cancelled
  /\ \A e \in timers \cup expired : e[2] # a
  /\ \A id \in adding : id[1] # a

TimerShapes(heap, n, timers, expired, adding) ==
  /\ heap \in [TimerAddrs -> TimerCell] /\ n \in Nat
  /\ timers \in SUBSET TimerEntry /\ expired \in SUBSET TimerEntry /\ adding \in SUBSET TimerIdSet

\* An allocated Timer is scheduled, in the batch in hand or waiting to be added.
TimerPlaces(heap, timers, expired, adding) ==
  /\ \A e \in timers \cup expired : heap[e[2]].seq > 0 /\ heap[e[2]].exp = e[1]
  /\ \A id \in adding : id[2] > 0 /\ heap[id[1]].seq = id[2]
  /\ \A e \in timers, f \in expired : e[2] # f[2]
  /\ \A e \in timers \cup expired, id \in adding : e[2] # id[1]

\* Sequence numbers grow, so a cancelled identity does not come back.
TimerGone(heap, n, timers, expired, adding, canceling, cancelled) ==
  /\ \A a \in TimerAddrs : heap[a].seq <= n
  /\ \A id \in cancelled : id[2] \in 0 .. n
  /\ \A e \in timers : <<e[2], heap[e[2]].seq>> \notin cancelled
  /\ \A e \in expired : <<e[2], heap[e[2]].seq>> \in cancelled => <<e[2], heap[e[2]].seq>> \in canceling
  /\ adding \cap cancelled = {}

TimerBook(heap, n, timers, expired, adding, canceling, cancelled) ==
  /\ TimerShapes(heap, n, timers, expired, adding)
  /\ TimerPlaces(heap, timers, expired, adding)
  /\ TimerGone(heap, n, timers, expired, adding, canceling, cancelled)

\* A Timer made at a free address is nowhere yet.
LEMMA TimerBookNew ==
  ASSUME NEW heap, NEW n, NEW T, NEW X, NEW A, NEW canceling, NEW cancelled,
         TimerBook(heap, n, T, X, A, canceling, cancelled),
         NEW a \in TimerAddrs, heap[a].seq = 0, NEW x \in Nat, NEW v \in Nat,
         NEW heap2, heap2 = [heap EXCEPT ![a] = [seq |-> n + 1, exp |-> x, interval |-> v]]
  PROVE  TimerBook(heap2, n + 1, T, X, A, canceling, cancelled) /\ TimerFresh(heap2, a, T, X, A, cancelled)
<1>1. TimerShapes(heap, n, T, X, A) /\ TimerPlaces(heap, T, X, A)
  BY DEF TimerBook
<1>2. /\ \A b \in TimerAddrs : b # a => heap2[b] = heap[b]
      /\ heap2[a].seq = n + 1
      /\ TimerShapes(heap2, n + 1, T, X, A)
  BY <1>1 DEF TimerShapes, TimerCell
<1>3. /\ \A e \in T \cup X : e[2] \in TimerAddrs /\ e[2] # a
      /\ \A id \in A : id[1] \in TimerAddrs /\ id[1] # a
  BY <1>1 DEF TimerShapes, TimerPlaces, TimerEntry, TimerIdSet
<1>4. TimerPlaces(heap2, T, X, A)
  BY <1>1, <1>2, <1>3 DEF TimerPlaces
<1>5. TimerGone(heap2, n + 1, T, X, A, canceling, cancelled) /\ <<a, n + 1>> \notin cancelled
  <2>1. TimerGone(heap, n, T, X, A, canceling, cancelled) /\ n \in Nat /\ heap \in [TimerAddrs -> TimerCell]
    BY <1>1 DEF TimerBook, TimerShapes
  <2>2. \A id \in cancelled : id[2] \in 0 .. n + 1 /\ id[2] # n + 1
    BY <2>1 DEF TimerGone
  <2>3. \A b \in TimerAddrs : heap2[b].seq <= n + 1
    BY <1>2, <2>1 DEF TimerGone, TimerCell
  <2>4. <<a, n + 1>> \notin cancelled
    BY <2>2
  <2>5. \A e \in T \cup X : <<e[2], heap2[e[2]].seq>> = <<e[2], heap[e[2]].seq>>
    BY <1>2, <1>3, Zenon
  <2>6. \A e \in T : <<e[2], heap2[e[2]].seq>> \notin cancelled
    BY <2>1, <2>5, Zenon DEF TimerGone
  <2>7. \A e \in X : <<e[2], heap2[e[2]].seq>> \in cancelled => <<e[2], heap2[e[2]].seq>> \in canceling
    BY <2>1, <2>5, Zenon DEF TimerGone
  <2> QED  BY <2>1, <2>2, <2>3, <2>4, <2>6, <2>7 DEF TimerGone
<1>6. heap2[a].seq > 0
  BY <1>1, <1>2 DEF TimerShapes
<1> QED  BY <1>2, <1>3, <1>4, <1>5, <1>6 DEF TimerBook, TimerFresh

\* insert() of a Timer that is nowhere yet.
LEMMA TimerBookInsert ==
  ASSUME NEW heap, NEW n, NEW T, NEW X, NEW A, NEW canceling, NEW cancelled,
         TimerBook(heap, n, T, X, A, canceling, cancelled),
         NEW a \in TimerAddrs, TimerFresh(heap, a, T, X, A, cancelled)
  PROVE  TimerBook(heap, n, T \cup {<<heap[a].exp, a>>}, X, A, canceling, cancelled)
<1>1. heap[a] \in TimerCell
  BY DEF TimerBook, TimerShapes
<1>2. TimerShapes(heap, n, T \cup {<<heap[a].exp, a>>}, X, A)
  BY <1>1 DEF TimerBook, TimerShapes, TimerEntry, TimerCell
<1>3. TimerPlaces(heap, T \cup {<<heap[a].exp, a>>}, X, A)
  BY DEF TimerBook, TimerPlaces, TimerFresh
<1>4. TimerGone(heap, n, T \cup {<<heap[a].exp, a>>}, X, A, canceling, cancelled)
  BY DEF TimerBook, TimerGone, TimerFresh
<1> QED  BY <1>2, <1>3, <1>4 DEF TimerBook

\* A Timer that is nowhere yet is queued to be added.
LEMMA TimerBookQueue ==
  ASSUME NEW heap, NEW n, NEW T, NEW X, NEW A, NEW canceling, NEW cancelled,
         TimerBook(heap, n, T, X, A, canceling, cancelled),
         NEW a \in TimerAddrs, TimerFresh(heap, a, T, X, A, cancelled)
  PROVE  TimerBook(heap, n, T, X, A \cup {<<a, heap[a].seq>>}, canceling, cancelled)
<1>1. heap[a] \in TimerCell
  BY DEF TimerBook, TimerShapes
<1>2. TimerShapes(heap, n, T, X, A \cup {<<a, heap[a].seq>>})
  BY <1>1 DEF TimerBook, TimerShapes, TimerIdSet, TimerCell
<1>3. TimerPlaces(heap, T, X, A \cup {<<a, heap[a].seq>>})
  BY DEF TimerBook, TimerPlaces, TimerFresh
<1>4. TimerGone(heap, n, T, X, A \cup {<<a, heap[a].seq>>}, canceling, cancelled)
  BY DEF TimerBook, TimerGone, TimerFresh
<1> QED  BY <1>2, <1>3, <1>4 DEF TimerBook

\* A Timer whose turn to be added has come is nowhere else.
LEMMA TimerBookUnqueue ==
  ASSUME NEW heap, NEW n, NEW T, NEW X, NEW A, NEW canceling, NEW cancelled,
         TimerBook(heap, n, T, X, A, canceling, cancelled), NEW id \in A
  PROVE  /\ id[1] \in TimerAddrs
         /\ TimerBook(heap, n, T, X, A \ {id}, canceling, cancelled)
         /\ TimerFresh(heap, id[1], T, X, A \ {id}, cancelled)
<1>1. id \in TimerIdSet /\ A \in SUBSET TimerIdSet
  BY DEF TimerBook, TimerShapes
<1>2. id = <<id[1], id[2]>> /\ id[1] \in TimerAddrs /\ \A d \in A : d = <<d[1], d[2]>>
  BY <1>1 DEF TimerIdSet
<1>3. TimerShapes(heap, n, T, X, A \ {id}) /\ TimerPlaces(heap, T, X, A \ {id})
      /\ TimerGone(heap, n, T, X, A \ {id}, canceling, cancelled)
  BY DEF TimerBook, TimerShapes, TimerPlaces, TimerGone
<1>4. heap[id[1]].seq = id[2] /\ id[2] > 0 /\ \A d \in A : heap[d[1]].seq = d[2]
  BY DEF TimerBook, TimerPlaces
<1>5. \A d \in A \ {id} : d[1] # id[1]
  BY <1>2, <1>4
<1>6. \A e \in T \cup X : e[2] # id[1]
  BY DEF TimerBook, TimerPlaces
<1>7. id \notin cancelled
  BY DEF TimerBook, TimerGone
<1> QED  BY <1>2, <1>3, <1>4, <1>5, <1>6, <1>7 DEF TimerBook, TimerFresh

\* cancel() of a scheduled Timer: it is deleted.
LEMMA TimerBookCancel ==
  ASSUME NEW heap, NEW n, NEW T, NEW X, NEW A, NEW canceling, NEW cancelled,
         TimerBook(heap, n, T, X, A, canceling, cancelled), NEW e \in T,
         NEW heap2, heap2 = [heap EXCEPT ![e[2]] = NoTimer]
  PROVE  TimerBook(heap2, n, T \ {e}, X, A, canceling, cancelled \cup {<<e[2], heap[e[2]].seq>>})
<1>1. TimerShapes(heap, n, T, X, A) /\ TimerPlaces(heap, T, X, A)
      /\ TimerGone(heap, n, T, X, A, canceling, cancelled)
  BY DEF TimerBook
<1>2. e[2] \in TimerAddrs /\ \A f \in T \cup X : f \in TimerEntry /\ f[2] \in TimerAddrs /\ f = <<f[1], f[2]>>
  BY <1>1 DEF TimerShapes, TimerEntry
<1>3. /\ \A b \in TimerAddrs : b # e[2] => heap2[b] = heap[b]
      /\ heap2[e[2]].seq = 0
      /\ TimerShapes(heap2, n, T \ {e}, X, A)
  BY <1>1, <1>2 DEF TimerShapes, TimerCell, NoTimer
<1>4. /\ \A f \in (T \ {e}) \cup X : f[2] # e[2]
      /\ \A id \in A : id[1] \in TimerAddrs /\ id[1] # e[2]
  <2>1. \A f \in T \ {e} : f[2] # e[2]
    BY <1>1, <1>2 DEF TimerPlaces
  <2>2. \A f \in X : f[2] # e[2]
    BY <1>1 DEF TimerPlaces
  <2>3. \A id \in A : id[1] \in TimerAddrs /\ id[1] # e[2]
    BY <1>1 DEF TimerPlaces, TimerShapes, TimerIdSet
  <2> QED  BY <2>1, <2>2, <2>3
<1>5. TimerPlaces(heap2, T \ {e}, X, A)
  BY <1>1, <1>2, <1>3, <1>4 DEF TimerPlaces
<1>6. TimerGone(heap2, n, T \ {e}, X, A, canceling, cancelled \cup {<<e[2], heap[e[2]].seq>>})
  <2>1. \A a \in TimerAddrs : heap2[a].seq <= n
    BY <1>1, <1>2, <1>3 DEF TimerGone, TimerShapes
  <2>2. \A id \in cancelled \cup {<<e[2], heap[e[2]].seq>>} : id[2] \in 0 .. n
    BY <1>1, <1>2 DEF TimerGone, TimerShapes, TimerCell
  <2>3. \A f \in T \ {e} : <<f[2], heap2[f[2]].seq>> \notin cancelled \cup {<<e[2], heap[e[2]].seq>>}
    BY <1>1, <1>2, <1>3, <1>4 DEF TimerGone
  <2>4. \A f \in X : <<f[2], heap2[f[2]].seq>> \in cancelled \cup {<<e[2], heap[e[2]].seq>>} => <<f[2], heap2[f[2]].seq>> \in canceling
    BY <1>1, <1>2, <1>3, <1>4 DEF TimerGone
  <2>5. A \cap (cancelled \cup {<<e[2], heap[e[2]].seq>>}) = {}
    BY <1>1, <1>4 DEF TimerGone
  <2> QED  BY <2>1, <2>2, <2>3, <2>4, <2>5 DEF TimerGone
<1> QED  BY <1>3, <1>5, <1>6 DEF TimerBook

\* cancel() of a Timer of the batch in hand, or of one that is gone: it is marked.
LEMMA TimerBookMark ==
  ASSUME NEW heap, NEW n, NEW T, NEW X, NEW A, NEW canceling, NEW cancelled,
         TimerBook(heap, n, T, X, A, canceling, cancelled), NEW id, id \notin TimerIds(heap, T),
         NEW cancelled2, cancelled2 = IF id \in TimerIds(heap, X) THEN cancelled \cup {id} ELSE cancelled
  PROVE  TimerBook(heap, n, T, X, A, canceling \cup {id}, cancelled2)
<1>1. TimerShapes(heap, n, T, X, A) /\ TimerPlaces(heap, T, X, A)
      /\ TimerGone(heap, n, T, X, A, canceling, cancelled)
  BY DEF TimerBook
<1>2. CASE id \in TimerIds(heap, X)
  <2>1. PICK f \in X : id = <<f[2], heap[f[2]].seq>>
    BY <1>2 DEF TimerIds
  <2>2. f[2] \in TimerAddrs /\ id[2] \in 0 .. n
    BY <1>1, <2>1 DEF TimerShapes, TimerEntry, TimerGone, TimerCell
  <2>3. id \notin A
    BY <1>1, <2>1 DEF TimerPlaces
  <2>4. \A e \in T : <<e[2], heap[e[2]].seq>> # id
    BY DEF TimerIds
  <2>5. cancelled2 = cancelled \cup {id}
    BY <1>2
  <2> QED  BY <1>1, <2>2, <2>3, <2>4, <2>5 DEF TimerBook, TimerGone
<1>3. CASE id \notin TimerIds(heap, X)
  BY <1>1, <1>3 DEF TimerBook, TimerGone
<1> QED  BY <1>2, <1>3

\* handleRead: the due Timers go from the schedule to the batch.
LEMMA TimerBookRead ==
  ASSUME NEW heap, NEW n, NEW T, NEW A, NEW canceling, NEW cancelled,
         TimerBook(heap, n, T, {}, A, canceling, cancelled), NEW due \in SUBSET T
  PROVE  TimerBook(heap, n, T \ due, due, A, {}, cancelled)
<1>1. TimerShapes(heap, n, T, {}, A) /\ TimerPlaces(heap, T, {}, A)
      /\ TimerGone(heap, n, T, {}, A, canceling, cancelled)
  BY DEF TimerBook
<1>2. TimerShapes(heap, n, T \ due, due, A)
  BY <1>1 DEF TimerShapes
<1>3. \A e \in T \ due, f \in due : e[2] # f[2]
  <2>1. \A e \in T : e = <<heap[e[2]].exp, e[2]>>
    BY <1>1 DEF TimerPlaces, TimerShapes, TimerEntry
  <2> QED  BY <2>1
<1>4. TimerPlaces(heap, T \ due, due, A)
  BY <1>1, <1>3 DEF TimerPlaces
<1>5. TimerGone(heap, n, T \ due, due, A, {}, cancelled)
  BY <1>1 DEF TimerGone
<1> QED  BY <1>2, <1>4, <1>5 DEF TimerBook

\* reset: the Timers of the batch X that repeat are scheduled again, the others deleted.
TimerRestores(heap, X, canceling, again, heap2, T, U) ==
  /\ again \in SUBSET {e[2] : e \in X} /\ heap2 \in [TimerAddrs -> TimerCell]
  /\ \A a \in again : <<a, heap[a].seq>> \notin canceling /\ heap2[a].seq = heap[a].seq
  /\ \A a \in {e[2] : e \in X} \ again : heap2[a].seq = 0
  /\ \A a \in TimerAddrs \ {e[2] : e \in X} : heap2[a] = heap[a]
  /\ U = T \cup {<<heap2[a].exp, a>> : a \in again}

\* The sets after reset fit together.
LEMMA TimerBookReset ==
  ASSUME NEW heap, NEW n, NEW T, NEW X, NEW A, NEW canceling, NEW cancelled,
         TimerBook(heap, n, T, X, A, canceling, cancelled),
         NEW again, NEW heap2, NEW U, TimerRestores(heap, X, canceling, again, heap2, T, U)
  PROVE  TimerBook(heap2, n, U, {}, A, canceling, cancelled)
<1> DEFINE done == {e[2] : e \in X}
<1>a. again \in SUBSET {e[2] : e \in X} /\ heap2 \in [TimerAddrs -> TimerCell]
  BY DEF TimerRestores
<1>b. \A a \in again : <<a, heap[a].seq>> \notin canceling
  BY DEF TimerRestores
<1>c. \A a \in again : heap2[a].seq = heap[a].seq
  BY Zenon DEF TimerRestores
<1>d. \A a \in {e[2] : e \in X} \ again : heap2[a].seq = 0
  BY DEF TimerRestores
<1>e. \A a \in TimerAddrs \ {e[2] : e \in X} : heap2[a] = heap[a]
  BY DEF TimerRestores
<1>f. U = T \cup {<<heap2[a].exp, a>> : a \in again}
  BY DEF TimerRestores
<1> USE <1>a, <1>b, <1>c, <1>d, <1>e, <1>f
<1>1. TimerShapes(heap, n, T, X, A) /\ TimerPlaces(heap, T, X, A)
      /\ TimerGone(heap, n, T, X, A, canceling, cancelled)
  BY DEF TimerBook
<1>2. \A a \in again : a \in TimerAddrs /\ \E e \in X : e[2] = a
  BY <1>1 DEF TimerShapes, TimerEntry
<1>3. \A f \in T : f \in TimerEntry /\ f[2] \in TimerAddrs \ done /\ heap2[f[2]] = heap[f[2]]
  BY <1>1 DEF TimerShapes, TimerEntry, TimerPlaces
<1>4. \A id \in A : id[1] \in TimerAddrs \ done /\ heap2[id[1]] = heap[id[1]]
  BY <1>1 DEF TimerShapes, TimerIdSet, TimerPlaces
<1>5. \A e \in U : \/ e \in T
                   \/ e[2] \in again /\ e = <<heap2[e[2]].exp, e[2]>>
  OBVIOUS
<1>6. TimerShapes(heap2, n, U, {}, A)
  <2>1. \A a \in again : <<heap2[a].exp, a>> \in TimerEntry
    BY <1>2 DEF TimerEntry, TimerCell
  <2> QED  BY <1>1, <1>3, <2>1 DEF TimerShapes
<1>7. \A e \in U : heap2[e[2]].seq > 0 /\ heap2[e[2]].exp = e[1]
  <2>1. \A a \in again : heap2[a].seq > 0
    BY <1>1, <1>2 DEF TimerPlaces
  <2>2. \A e \in T : heap2[e[2]].seq > 0 /\ heap2[e[2]].exp = e[1]
    BY <1>1, <1>3 DEF TimerPlaces
  <2> QED  BY <1>5, <2>1, <2>2
<1>8. TimerPlaces(heap2, U, {}, A)
  <2>1. \A id \in A : id[2] > 0 /\ heap2[id[1]].seq = id[2]
    BY <1>1, <1>4 DEF TimerPlaces
  <2>2. \A e \in U, id \in A : e[2] # id[1]
    BY <1>1, <1>4, <1>5 DEF TimerPlaces
  <2> QED  BY <1>7, <2>1, <2>2 DEF TimerPlaces
<1>9. TimerGone(heap2, n, U, {}, A, canceling, cancelled)
  <2>1. \A a \in TimerAddrs : heap2[a].seq <= n
    <3>1. \A a \in TimerAddrs : heap[a].seq <= n /\ heap[a].seq \in Nat
      BY <1>1 DEF TimerGone, TimerShapes, TimerCell
    <3>2. n \in Nat /\ 0 <= n
      BY <1>1 DEF TimerShapes
    <3> QED  BY <1>2, <3>1, <3>2
  <2>2. \A e \in U : <<e[2], heap2[e[2]].seq>> \notin cancelled
    <3>1. \A e \in T : <<e[2], heap2[e[2]].seq>> \notin cancelled
      BY <1>1, <1>3 DEF TimerGone
    <3>2. \A a \in again : <<a, heap2[a].seq>> \notin cancelled
      BY <1>1, <1>2 DEF TimerGone
    <3> QED  BY <1>5, <3>1, <3>2
  <2> QED  BY <1>1, <2>1, <2>2 DEF TimerGone
<1> QED  BY <1>6, <1>8, <1>9, Zenon DEF TimerBook

-----------------------------------------------------------------------------
\* The functors of other threads, and those that add a Timer.
TimerFunctors == {"add", "cancel"} \X TimerIdSet
TimerAdding(queue) == {queue[i][2] : i \in {j \in DOMAIN queue : queue[j][1] = "add"}}
TimerOnce(queue) == \A i, j \in DOMAIN queue :
                      queue[i][1] = "add" /\ queue[j][1] = "add" /\ queue[i][2] = queue[j][2] => i = j

\* What queueing a functor does to the Timers that wait.
LEMMA TimerAddingAppend ==
  ASSUME NEW queue \in Seq(TimerFunctors), NEW f \in TimerFunctors, TimerOnce(queue),
         f[1] = "add" => f[2] \notin TimerAdding(queue)
  PROVE  /\ TimerOnce(Append(queue, f))
         /\ f[1] = "add" => TimerAdding(Append(queue, f)) = TimerAdding(queue) \cup {f[2]}
         /\ f[1] # "add" => TimerAdding(Append(queue, f)) = TimerAdding(queue)
<1> DEFINE t == Append(queue, f)
<1>1. /\ DOMAIN queue = 1 .. Len(queue) /\ DOMAIN t = 1 .. Len(queue) + 1 /\ Len(queue) \in Nat
      /\ \A i \in 1 .. Len(queue) : t[i] = queue[i]
      /\ t[Len(queue) + 1] = f
  OBVIOUS
<1> HIDE DEF t
<1>2. \A i \in DOMAIN t : i \in DOMAIN queue \/ i = Len(queue) + 1
  BY <1>1
<1>3. DOMAIN queue \subseteq DOMAIN t /\ Len(queue) + 1 \in DOMAIN t
  BY <1>1
<1>4. TimerOnce(t)
  BY <1>1, <1>2 DEF TimerOnce, TimerAdding
<1>5. \A id : id \in TimerAdding(t) <=> id \in TimerAdding(queue) \/ (f[1] = "add" /\ id = f[2])
  <2>1. ASSUME NEW id \in TimerAdding(t)  PROVE id \in TimerAdding(queue) \/ (f[1] = "add" /\ id = f[2])
    BY <1>1, <1>2 DEF TimerAdding
  <2>2. ASSUME NEW id \in TimerAdding(queue)  PROVE id \in TimerAdding(t)
    BY <1>1, <1>3 DEF TimerAdding
  <2>3. f[1] = "add" => f[2] \in TimerAdding(t)
    BY <1>1, <1>3 DEF TimerAdding
  <2> QED  BY <2>1, <2>2, <2>3
<1> QED  BY <1>4, <1>5, Zenon DEF t

\* What running the first functor does to them.
LEMMA TimerAddingTail ==
  ASSUME NEW queue \in Seq(TimerFunctors), queue # << >>, TimerOnce(queue)
  PROVE  /\ Head(queue) \in TimerFunctors /\ Tail(queue) \in Seq(TimerFunctors) /\ TimerOnce(Tail(queue))
         /\ Head(queue)[1] = "add" => /\ TimerAdding(Tail(queue)) = TimerAdding(queue) \ {Head(queue)[2]}
                                      /\ Head(queue)[2] \in TimerAdding(queue)
         /\ Head(queue)[1] # "add" => TimerAdding(Tail(queue)) = TimerAdding(queue)
<1> DEFINE t == Tail(queue)
           f == Head(queue)
<1>1. /\ DOMAIN queue = 1 .. Len(queue) /\ DOMAIN t = 1 .. Len(queue) - 1 /\ Len(queue) \in Nat \ {0}
      /\ \A i \in 1 .. Len(queue) - 1 : t[i] = queue[i + 1]
      /\ queue[1] = f /\ f \in TimerFunctors /\ t \in Seq(TimerFunctors)
  BY HeadTailProperties
<1> HIDE DEF t, f
<1>2. 1 \in DOMAIN queue /\ \A i \in DOMAIN t : i + 1 \in DOMAIN queue /\ i + 1 # 1 /\ t[i] = queue[i + 1] /\ i \in Int
  BY <1>1
<1>3. \A i \in DOMAIN queue : i = 1 \/ \E j \in DOMAIN t : i = j + 1 /\ t[j] = queue[i]
  <2> SUFFICES ASSUME NEW i \in DOMAIN queue, i # 1  PROVE \E j \in DOMAIN t : i = j + 1 /\ t[j] = queue[i]
    OBVIOUS
  <2>1. i - 1 \in DOMAIN t /\ i = (i - 1) + 1 /\ t[i - 1] = queue[i]
    BY <1>1
  <2> QED  BY <2>1
<1>4. TimerOnce(t)
  <2> SUFFICES ASSUME NEW i \in DOMAIN t, NEW j \in DOMAIN t, t[i][1] = "add", t[j][1] = "add", t[i][2] = t[j][2]
               PROVE  i = j
    BY DEF TimerOnce
  <2>1. i + 1 = j + 1
    BY <1>2 DEF TimerOnce
  <2> QED  BY <1>2, <2>1
<1>5. ASSUME NEW id \in TimerAdding(t)  PROVE id \in TimerAdding(queue) /\ (f[1] = "add" => id # f[2])
  <2>1. PICK i \in DOMAIN t : t[i][1] = "add" /\ t[i][2] = id
    BY DEF TimerAdding
  <2>2. i + 1 \in DOMAIN queue /\ i + 1 # 1 /\ queue[i + 1][1] = "add" /\ queue[i + 1][2] = id
    BY <1>2, <2>1
  <2>3. id \in TimerAdding(queue)
    BY <2>2 DEF TimerAdding
  <2>4. f[1] = "add" => id # f[2]
    BY <1>1, <1>2, <2>2, Zenon DEF TimerOnce
  <2> QED  BY <2>3, <2>4
<1>6. ASSUME NEW id \in TimerAdding(queue)  PROVE id \in TimerAdding(t) \/ (f[1] = "add" /\ id = f[2])
  <2>1. PICK i \in DOMAIN queue : queue[i][1] = "add" /\ queue[i][2] = id
    BY DEF TimerAdding
  <2>2. CASE i = 1
    BY <1>1, <2>1, <2>2
  <2>3. CASE i # 1
    <3>1. PICK j \in DOMAIN t : t[j] = queue[i]
      BY <1>3, <2>3
    <3> QED  BY <2>1, <3>1 DEF TimerAdding
  <2> QED  BY <2>2, <2>3
<1>7. f[1] = "add" => f[2] \in TimerAdding(queue)
  BY <1>1, <1>2 DEF TimerAdding
<1>8. f[1] = "add" => TimerAdding(t) = TimerAdding(queue) \ {f[2]}
  BY <1>5, <1>6
<1>9. f[1] # "add" => TimerAdding(t) = TimerAdding(queue)
  BY <1>5, <1>6, Zenon
<1> QED  BY <1>1, <1>4, <1>7, <1>8, <1>9 DEF t, f

-----------------------------------------------------------------------------
TimerRecord == [now : Nat, heap : [TimerAddrs -> TimerCell], made : Seq(TimerAddrs), timers : SUBSET TimerEntry,
                active : SUBSET TimerIdSet, canceling : SUBSET TimerIdSet, cancelled : SUBSET TimerIdSet,
                calling : BOOLEAN, expired : Seq(TimerEntry), next : Nat, readAt : Nat, armed : Nat,
                queue : Seq(TimerFunctors)]

TimerNowhere(q, a) == TimerFresh(q.heap, a, q.timers, Range(q.expired), TimerAdding(q.queue), q.cancelled)

\* The timerfd fires in time for every scheduled Timer.
TimerWakes(now, timers, armed) == \A e \in timers : armed # 0 /\ (armed <= e[1] \/ armed <= now + 1)

\* The sets of the TimerQueue q and its heap fit together.
TimerBooked(q) ==
  /\ IsFiniteSet(q.timers)
  /\ TimerBook(q.heap, Len(q.made), q.timers, Range(q.expired), TimerAdding(q.queue), q.canceling, q.cancelled)
  /\ q.active = TimerIds(q.heap, q.timers)
  /\ TimerOnce(q.queue)
  /\ ~q.calling => q.expired = << >>

TimerGood(q) == q \in TimerRecord /\ TimerBooked(q) /\ (~q.calling => TimerWakes(q.now, q.timers, q.armed))

\* The fields of q, one by one.
TimerIs(q, now, heap, made, timers, active, canceling, cancelled, calling, expired, armed, queue) ==
  /\ q.now = now /\ q.heap = heap /\ q.made = made /\ q.timers = timers /\ q.active = active
  /\ q.canceling = canceling /\ q.cancelled = cancelled /\ q.calling = calling /\ q.expired = expired
  /\ q.armed = armed /\ q.queue = queue

\* The fields of a TimerQueue have their types.
LEMMA TimerFields ==
  ASSUME NEW q \in TimerRecord
  PROVE  /\ q.now \in Nat /\ q.heap \in [TimerAddrs -> TimerCell] /\ q.made \in Seq(TimerAddrs)
         /\ q.timers \in SUBSET TimerEntry /\ q.active \in SUBSET TimerIdSet
         /\ q.canceling \in SUBSET TimerIdSet /\ q.cancelled \in SUBSET TimerIdSet
         /\ q.calling \in BOOLEAN /\ q.expired \in Seq(TimerEntry) /\ q.next \in Nat /\ q.readAt \in Nat
         /\ q.armed \in Nat /\ q.queue \in Seq(TimerFunctors)
BY DEF TimerRecord

\* resetTimerfd.
LEMMA TimerResetFdFields ==
  ASSUME NEW q \in TimerRecord, NEW when \in Nat,
         NEW armed, armed = IF when > q.now THEN when ELSE q.now + 1
  PROVE  /\ TimerResetFd(q, when) \in TimerRecord
         /\ TimerIs(TimerResetFd(q, when), q.now, q.heap, q.made, q.timers, q.active, q.canceling, q.cancelled,
                    q.calling, q.expired, armed, q.queue)
<1>1. armed \in Nat
  BY TimerFields
<1> QED  BY <1>1, Zenon DEF TimerResetFd, TimerRecord, TimerIs

\* insert.
LEMMA TimerInsertFields ==
  ASSUME NEW q \in TimerRecord, NEW a \in TimerAddrs
  PROVE  /\ TimerInsert(q, a) \in TimerRecord
         /\ TimerIs(TimerInsert(q, a), q.now, q.heap, q.made, q.timers \cup {<<q.heap[a].exp, a>>},
                    q.active \cup {<<a, q.heap[a].seq>>}, q.canceling, q.cancelled,
                    q.calling, q.expired, q.armed, q.queue)
<1>1. /\ q.timers \cup {<<q.heap[a].exp, a>>} \in SUBSET TimerEntry
      /\ q.active \cup {<<a, q.heap[a].seq>>} \in SUBSET TimerIdSet
  BY TimerFields DEF TimerCell, TimerEntry, TimerIdSet
<1> QED  BY <1>1, Zenon DEF TimerInsert, TimerIdAt, TimerRecord, TimerIs

\* addTimerInLoop, of a Timer that is nowhere yet.
LEMMA TimerAddInLoopGood ==
  ASSUME NEW q, TimerGood(q), NEW a \in TimerAddrs, TimerNowhere(q, a)
  PROVE  TimerGood(TimerAddInLoop(q, a))
<1> DEFINE T == q.timers \cup {<<q.heap[a].exp, a>>}
           p == TimerInsert(q, a)
           r == TimerAddInLoop(q, a)
           armed == IF q.heap[a].exp > q.now THEN q.heap[a].exp ELSE q.now + 1
<1>1. q \in TimerRecord /\ TimerBooked(q)
  BY DEF TimerGood
<1>2. /\ q.heap[a] \in TimerCell /\ q.heap[a].exp \in Nat /\ q.heap[a].seq \in Nat
      /\ q.now \in Nat /\ q.armed \in Nat /\ q.calling \in BOOLEAN /\ q.timers \in SUBSET TimerEntry
  BY <1>1, TimerFields DEF TimerCell
<1>3. /\ p \in TimerRecord
      /\ TimerIs(p, q.now, q.heap, q.made, T, q.active \cup {<<a, q.heap[a].seq>>}, q.canceling, q.cancelled,
                 q.calling, q.expired, q.armed, q.queue)
  BY <1>1, TimerInsertFields, Zenon
<1>4. \/ TimerEarliest(q, a) /\ r = TimerResetFd(p, q.heap[a].exp)
      \/ ~TimerEarliest(q, a) /\ r = p
  BY DEF TimerAddInLoop
<1> HIDE DEF p, r
<1>5. /\ r \in TimerRecord
      /\ r.now = q.now /\ r.heap = q.heap /\ r.made = q.made /\ r.timers = T
      /\ r.active = q.active \cup {<<a, q.heap[a].seq>>} /\ r.canceling = q.canceling /\ r.cancelled = q.cancelled
      /\ r.calling = q.calling /\ r.expired = q.expired /\ r.queue = q.queue
      /\ r.armed = IF TimerEarliest(q, a) THEN armed ELSE q.armed
  <2>1. CASE TimerEarliest(q, a)
    <3>1. armed = IF q.heap[a].exp > p.now THEN q.heap[a].exp ELSE p.now + 1
      BY <1>3 DEF TimerIs
    <3>2. r = TimerResetFd(p, q.heap[a].exp)
      BY <1>4, <2>1
    <3> HIDE DEF armed
    <3>3. /\ r \in TimerRecord
          /\ TimerIs(r, p.now, p.heap, p.made, p.timers, p.active, p.canceling, p.cancelled,
                     p.calling, p.expired, armed, p.queue)
      BY <1>2, <1>3, <3>1, <3>2, TimerResetFdFields, Zenon
    <3>4. r.armed = IF TimerEarliest(q, a) THEN armed ELSE q.armed
      BY <2>1, <3>3 DEF TimerIs
    <3>5. /\ r.now = q.now /\ r.heap = q.heap /\ r.made = q.made /\ r.canceling = q.canceling
          /\ r.cancelled = q.cancelled /\ r.expired = q.expired /\ r.queue = q.queue
      BY <1>3, <3>3 DEF TimerIs
    <3>6. r.calling = q.calling
      BY <1>3, <3>3, Zenon DEF TimerIs
    <3>7. r.timers = T /\ r.active = q.active \cup {<<a, q.heap[a].seq>>}
      BY <1>3, <3>3, Zenon DEF TimerIs
    <3> QED  BY <3>3, <3>4, <3>5, <3>6, <3>7, Zenon
  <2>2. CASE ~TimerEarliest(q, a)
    BY <1>3, <1>4, <2>2 DEF TimerIs
  <2> QED  BY <2>1, <2>2
<1>6. IsFiniteSet(T)
  BY <1>1, FS_AddElement, Zenon DEF TimerBooked
<1>7. TimerBook(q.heap, Len(q.made), T, Range(q.expired), TimerAdding(q.queue), q.canceling, q.cancelled)
  BY <1>1, TimerBookInsert DEF TimerBooked, TimerNowhere
<1>8. r.active = TimerIds(q.heap, T)
  <2>1. q.active = TimerIds(q.heap, q.timers)
    BY <1>1 DEF TimerBooked
  <2>2. T = q.timers \cup {<<q.heap[a].exp, a>>}
    OBVIOUS
  <2> HIDE DEF T
  <2>3. r.active = TimerIds(q.heap, q.timers) \cup {<<a, q.heap[a].seq>>}
    BY <1>5, <2>1, Zenon
  <2>4. TimerGains(q.heap, q.timers, q.heap[a].exp, a, T, r.active)
    BY <2>2, <2>3, Zenon DEF TimerGains
  <2> QED  BY <2>4, TimerIdsAdd, Zenon
<1>9. ~q.calling => TimerWakes(q.now, T, r.armed)
  <2> SUFFICES ASSUME ~q.calling, NEW e \in T
               PROVE  r.armed # 0 /\ (r.armed <= e[1] \/ r.armed <= q.now + 1)
    BY DEF TimerWakes
  <2>1. \A f \in q.timers : f[1] \in Nat /\ q.armed # 0 /\ (q.armed <= f[1] \/ q.armed <= q.now + 1)
    BY <1>2 DEF TimerGood, TimerWakes, TimerEntry
  <2>2. CASE TimerEarliest(q, a)
    <3>1. r.armed = armed /\ \A f \in q.timers : q.heap[a].exp < f[1]
      BY <1>5, <2>2 DEF TimerEarliest
    <3>2. e \in q.timers \/ e[1] = q.heap[a].exp
      OBVIOUS
    <3> QED  BY <1>2, <2>1, <3>1, <3>2
  <2>3. CASE ~TimerEarliest(q, a)
    <3>1. PICK f \in q.timers : ~(q.heap[a].exp < f[1])
      BY <2>3 DEF TimerEarliest
    <3>2. r.armed = q.armed
      BY <1>5, <2>3
    <3>3. e \in q.timers \/ e[1] = q.heap[a].exp
      OBVIOUS
    <3> QED  BY <1>2, <2>1, <3>1, <3>2, <3>3
  <2> QED  BY <2>2, <2>3
<1> HIDE DEF T
<1>10. TimerBooked(r)
  <2>1. TimerOnce(q.queue) /\ (~q.calling => q.expired = << >>)
    BY <1>1 DEF TimerBooked
  <2> QED  BY <1>5, <1>6, <1>7, <1>8, <2>1, Zenon DEF TimerBooked
<1> QED  BY <1>5, <1>9, <1>10, Zenon DEF TimerGood, r

\* Only the queue, and perhaps the clock and the callback in hand, change.
LEMMA TimerSameBook ==
  ASSUME NEW q, TimerGood(q), NEW r \in TimerRecord,
         TimerIs(r, q.now, q.heap, q.made, q.timers, q.active, q.canceling, q.cancelled, q.calling, q.expired,
                 q.armed, r.queue),
         TimerOnce(r.queue),
         TimerBook(q.heap, Len(q.made), q.timers, Range(q.expired), TimerAdding(r.queue), q.canceling, q.cancelled)
  PROVE  TimerGood(r)
<1>1. r.calling <=> q.calling
  BY Zenon DEF TimerIs
<1>2. TimerBooked(r)
  BY <1>1, Zenon DEF TimerGood, TimerBooked, TimerIs
<1>3. ~r.calling => TimerWakes(r.now, r.timers, r.armed)
  BY <1>1, Zenon DEF TimerGood, TimerIs
<1> QED  BY <1>2, <1>3, Zenon DEF TimerGood

\* A queue that replaces the queued functors leaves the other fields alone.
LEMMA TimerQueueFields ==
  ASSUME NEW q \in TimerRecord, NEW queue \in Seq(TimerFunctors)
  PROVE  /\ [q EXCEPT !.queue = queue] \in TimerRecord
         /\ TimerIs([q EXCEPT !.queue = queue], q.now, q.heap, q.made, q.timers, q.active, q.canceling, q.cancelled,
                    q.calling, q.expired, q.armed, queue)
BY Zenon DEF TimerRecord, TimerIs

\* A functor is queued: a cancel, or the add of a Timer that is nowhere yet.
LEMMA TimerQueueGood ==
  ASSUME NEW q, TimerGood(q), NEW f \in TimerFunctors,
         f[1] = "add" => f[2] = <<f[2][1], q.heap[f[2][1]].seq>> /\ TimerNowhere(q, f[2][1])
  PROVE  TimerGood([q EXCEPT !.queue = Append(q.queue, f)])
<1> DEFINE r == [q EXCEPT !.queue = Append(q.queue, f)]
<1>1. q \in TimerRecord /\ TimerBooked(q) /\ q.queue \in Seq(TimerFunctors)
  BY TimerFields DEF TimerGood
<1>2. Append(q.queue, f) \in Seq(TimerFunctors)
  BY <1>1
<1>3. /\ r \in TimerRecord
      /\ TimerIs(r, q.now, q.heap, q.made, q.timers, q.active, q.canceling, q.cancelled,
                 q.calling, q.expired, q.armed, Append(q.queue, f))
  BY <1>1, <1>2, TimerQueueFields, Zenon
<1> HIDE DEF r
<1>4. r.queue = Append(q.queue, f)
  BY <1>3 DEF TimerIs
<1>5. f[1] = "add" => f[2] \notin TimerAdding(q.queue) /\ f[2][1] \in TimerAddrs
  <2>1. f[1] = "add" => f[2] \notin TimerAdding(q.queue)
    BY Zenon DEF TimerNowhere, TimerFresh
  <2>2. f[2][1] \in TimerAddrs
    BY DEF TimerFunctors, TimerIdSet
  <2> QED  BY <2>1, <2>2
<1>6. TimerOnce(q.queue)
  BY <1>1 DEF TimerBooked
<1>7. /\ TimerOnce(r.queue)
      /\ f[1] = "add" => TimerAdding(r.queue) = TimerAdding(q.queue) \cup {f[2]}
      /\ f[1] # "add" => TimerAdding(r.queue) = TimerAdding(q.queue)
  <2>1. f[1] = "add" => f[2] \notin TimerAdding(q.queue)
    BY <1>5
  <2> QED  BY <1>1, <1>4, <1>6, <2>1, TimerAddingAppend
<1>8. TimerBook(q.heap, Len(q.made), q.timers, Range(q.expired), TimerAdding(q.queue), q.canceling, q.cancelled)
  BY <1>1 DEF TimerBooked
<1>9. TimerBook(q.heap, Len(q.made), q.timers, Range(q.expired), TimerAdding(r.queue), q.canceling, q.cancelled)
  <2>1. CASE f[1] = "add"
    <3>1. TimerAdding(r.queue) = TimerAdding(q.queue) \cup {<<f[2][1], q.heap[f[2][1]].seq>>}
      BY <1>7, <2>1, Zenon
    <3>2. TimerFresh(q.heap, f[2][1], q.timers, Range(q.expired), TimerAdding(q.queue), q.cancelled)
      BY <2>1, Zenon DEF TimerNowhere
    <3>3. TimerBook(q.heap, Len(q.made), q.timers, Range(q.expired), TimerAdding(q.queue) \cup {<<f[2][1], q.heap[f[2][1]].seq>>},
                    q.canceling, q.cancelled)
      BY <1>5, <1>8, <2>1, <3>2, TimerBookQueue, Zenon
    <3> QED  BY <3>1, <3>3, Zenon
  <2>2. CASE f[1] # "add"
    BY <1>7, <1>8, <2>2, Zenon
  <2> QED  BY <2>1, <2>2
<1>10. TimerIs(r, q.now, q.heap, q.made, q.timers, q.active, q.canceling, q.cancelled, q.calling, q.expired, q.armed, r.queue)
  BY <1>3, <1>4, Zenon
<1>11. TimerGood(r)
  BY <1>3, <1>7, <1>9, <1>10, TimerSameBook, Zenon
<1> QED  BY <1>11 DEF r

\* The first functor is taken out: a Timer that it adds is then nowhere.
LEMMA TimerDequeueGood ==
  ASSUME NEW q, TimerGood(q), q.queue # << >>, NEW r, r = [q EXCEPT !.queue = Tail(q.queue)]
  PROVE  /\ TimerGood(r) /\ Head(q.queue) \in TimerFunctors
         /\ Head(q.queue)[1] = "add" => Head(q.queue)[2][1] \in TimerAddrs /\ TimerNowhere(r, Head(q.queue)[2][1])
<1> DEFINE f == Head(q.queue)
<1>1. q \in TimerRecord /\ TimerBooked(q) /\ q.queue \in Seq(TimerFunctors)
  BY TimerFields DEF TimerGood
<1>2. TimerOnce(q.queue)
  BY <1>1 DEF TimerBooked
<1>3. /\ f \in TimerFunctors /\ Tail(q.queue) \in Seq(TimerFunctors) /\ TimerOnce(Tail(q.queue))
      /\ f[1] = "add" => /\ TimerAdding(Tail(q.queue)) = TimerAdding(q.queue) \ {f[2]}
                         /\ f[2] \in TimerAdding(q.queue)
      /\ f[1] # "add" => TimerAdding(Tail(q.queue)) = TimerAdding(q.queue)
  BY <1>1, <1>2, TimerAddingTail, Zenon
<1>4. /\ r \in TimerRecord
      /\ TimerIs(r, q.now, q.heap, q.made, q.timers, q.active, q.canceling, q.cancelled,
                 q.calling, q.expired, q.armed, Tail(q.queue))
  BY <1>1, <1>3, TimerQueueFields, Zenon
<1> HIDE DEF f
<1>5. /\ r.queue = Tail(q.queue) /\ r.heap = q.heap /\ r.timers = q.timers /\ r.expired = q.expired
      /\ r.cancelled = q.cancelled
  BY <1>4, Zenon DEF TimerIs
<1>6. TimerBook(q.heap, Len(q.made), q.timers, Range(q.expired), TimerAdding(q.queue), q.canceling, q.cancelled)
  BY <1>1 DEF TimerBooked
<1>7. f[1] = "add" =>
        /\ f[2][1] \in TimerAddrs
        /\ TimerBook(q.heap, Len(q.made), q.timers, Range(q.expired), TimerAdding(q.queue) \ {f[2]}, q.canceling, q.cancelled)
        /\ TimerFresh(q.heap, f[2][1], q.timers, Range(q.expired), TimerAdding(q.queue) \ {f[2]}, q.cancelled)
  BY <1>3, <1>6, TimerBookUnqueue, Zenon
<1>8. TimerBook(q.heap, Len(q.made), q.timers, Range(q.expired), TimerAdding(r.queue), q.canceling, q.cancelled)
  BY <1>3, <1>5, <1>6, <1>7, Zenon
<1>9. f[1] = "add" => TimerNowhere(r, f[2][1])
  BY <1>3, <1>5, <1>7, Zenon DEF TimerNowhere
<1>10. TimerIs(r, q.now, q.heap, q.made, q.timers, q.active, q.canceling, q.cancelled, q.calling, q.expired, q.armed, r.queue)
       /\ TimerOnce(r.queue)
  BY <1>3, <1>4, <1>5, Zenon
<1>11. TimerGood(r)
  BY <1>4, <1>8, <1>10, TimerSameBook, Zenon
<1> QED  BY <1>3, <1>7, <1>9, <1>11, Zenon DEF f

\* The least of some expirations.
LEMMA TimerMin ==
  ASSUME NEW S \in SUBSET Nat, S # {}
  PROVE  Min(S) \in S /\ \A x \in S : Min(S) <= x
<1> DEFINE R == OpToRel(<, Nat)
<1>1. IsWellFoundedOn(R, Nat)
  BY NatLessThanWellFounded, Zenon
<1>2. \A x, y \in Nat : <<x, y>> \in R <=> x < y
  BY DEF OpToRel
<1> HIDE DEF R
<1>3. PICK m \in S : \A y \in S : ~(<<y, m>> \in R)
  BY <1>1, WFMin, Zenon
<1>4. \A y \in S : m <= y
  <2>1. \A y \in S : ~(y < m)
    BY <1>2, <1>3, Zenon
  <2> QED  BY <2>1
<1> QED  BY <1>4, Zenon DEF Min

\* What cancel() takes out of the sets, and the Timer it deletes.
LEMMA TimerIdsDrop ==
  ASSUME NEW heap, NEW n, NEW T, NEW X, NEW A, NEW canceling, NEW cancelled,
         TimerBook(heap, n, T, X, A, canceling, cancelled), NEW e \in T,
         NEW heap2, heap2 = [heap EXCEPT ![e[2]] = NoTimer]
  PROVE  TimerIds(heap2, T \ {e}) = TimerIds(heap, T) \ {<<e[2], heap[e[2]].seq>>}
<1>1. TimerShapes(heap, n, T, X, A) /\ TimerPlaces(heap, T, X, A)
  BY DEF TimerBook
<1>2. \A f \in T : f[2] \in TimerAddrs /\ f = <<heap[f[2]].exp, f[2]>>
  BY <1>1 DEF TimerShapes, TimerPlaces, TimerEntry
<1>3. \A f \in T \ {e} : f[2] # e[2] /\ heap2[f[2]] = heap[f[2]]
  BY <1>1, <1>2 DEF TimerShapes
<1>4. \A id \in TimerIds(heap2, T \ {e}) : id \in TimerIds(heap, T) /\ id # <<e[2], heap[e[2]].seq>>
  BY <1>3 DEF TimerIds
<1>5. \A id \in TimerIds(heap, T) : id = <<e[2], heap[e[2]].seq>> \/ id \in TimerIds(heap2, T \ {e})
  <2> SUFFICES ASSUME NEW f \in T, f # e  PROVE <<f[2], heap[f[2]].seq>> \in TimerIds(heap2, T \ {e})
    BY DEF TimerIds
  <2>1. heap2[f[2]] = heap[f[2]] /\ f \in T \ {e}
    BY <1>3
  <2> QED  BY <2>1, Zenon DEF TimerIds
<1> QED  BY <1>4, <1>5, Zenon

\* cancel of a scheduled Timer.
LEMMA TimerCancelActive ==
  ASSUME NEW q, TimerGood(q), NEW id \in q.active, NEW r,
         r = [q EXCEPT !.timers = @ \ {<<q.heap[id[1]].exp, id[1]>>},
                       !.active = @ \ {id}, !.heap[id[1]] = NoTimer, !.cancelled = @ \cup {id}]
  PROVE  TimerGood(r)
<1> DEFINE heap2 == [q.heap EXCEPT ![id[1]] = NoTimer]
<1>1. q \in TimerRecord /\ TimerBooked(q)
  BY DEF TimerGood
<1>2. q.heap \in [TimerAddrs -> TimerCell] /\ q.timers \in SUBSET TimerEntry /\ q.active \in SUBSET TimerIdSet
      /\ q.cancelled \in SUBSET TimerIdSet
  BY <1>1, TimerFields
<1>3. TimerBook(q.heap, Len(q.made), q.timers, Range(q.expired), TimerAdding(q.queue), q.canceling, q.cancelled)
  BY <1>1 DEF TimerBooked
<1>4. PICK e \in q.timers : id = <<e[2], q.heap[e[2]].seq>>
  BY <1>1, Zenon DEF TimerBooked, TimerIds
<1>5. e[2] \in TimerAddrs /\ e = <<q.heap[e[2]].exp, e[2]>>
  BY <1>2, <1>3 DEF TimerBook, TimerPlaces, TimerEntry
<1>6. id[1] = e[2] /\ e = <<q.heap[id[1]].exp, id[1]>>
  <2>1. id[1] = e[2]
    BY <1>4
  <2> QED  BY <1>5, <2>1
<1>7. heap2 \in [TimerAddrs -> TimerCell] /\ q.timers \ {e} \in SUBSET TimerEntry /\ q.active \ {id} \in SUBSET TimerIdSet
      /\ q.cancelled \cup {id} \in SUBSET TimerIdSet
  <2>1. NoTimer \in TimerCell
    BY DEF NoTimer, TimerCell
  <2>2. q.timers \ {e} \in SUBSET TimerEntry /\ q.active \ {id} \in SUBSET TimerIdSet
        /\ q.cancelled \cup {id} \in SUBSET TimerIdSet
    BY <1>2
  <2> QED  BY <1>2, <2>1, <2>2, Zenon
<1>8. r = [q EXCEPT !.timers = q.timers \ {e}, !.active = q.active \ {id}, !.heap = heap2, !.cancelled = q.cancelled \cup {id}]
  BY <1>1, <1>6, Zenon DEF TimerRecord
<1> HIDE DEF heap2
<1>9. /\ r \in TimerRecord
      /\ TimerIs(r, q.now, heap2, q.made, q.timers \ {e}, q.active \ {id}, q.canceling, q.cancelled \cup {id},
                 q.calling, q.expired, q.armed, q.queue)
  BY <1>1, <1>7, <1>8, Zenon DEF TimerRecord, TimerIs
<1>10. heap2 = [q.heap EXCEPT ![e[2]] = NoTimer]
  BY <1>6 DEF heap2
<1>11. TimerBook(heap2, Len(q.made), q.timers \ {e}, Range(q.expired), TimerAdding(q.queue), q.canceling, q.cancelled \cup {id})
  <2>1. TimerBook(heap2, Len(q.made), q.timers \ {e}, Range(q.expired), TimerAdding(q.queue), q.canceling,
                  q.cancelled \cup {<<e[2], q.heap[e[2]].seq>>})
    BY <1>3, <1>10, TimerBookCancel, Zenon
  <2> QED  BY <1>4, <2>1, Zenon
<1>12. q.active \ {id} = TimerIds(heap2, q.timers \ {e})
  <2>1. TimerIds(heap2, q.timers \ {e}) = TimerIds(q.heap, q.timers) \ {<<e[2], q.heap[e[2]].seq>>}
    BY <1>3, <1>10, TimerIdsDrop, Zenon
  <2>2. q.active = TimerIds(q.heap, q.timers)
    BY <1>1 DEF TimerBooked
  <2> QED  BY <1>4, <2>1, <2>2, Zenon
<1>13. IsFiniteSet(q.timers \ {e})
  BY <1>1, FS_RemoveElement DEF TimerBooked
<1>14. TimerBooked(r)
  <2>1. TimerOnce(q.queue) /\ (~q.calling => q.expired = << >>)
    BY <1>1 DEF TimerBooked
  <2>2. r.timers = q.timers \ {e} /\ r.heap = heap2 /\ r.made = q.made /\ r.expired = q.expired /\ r.queue = q.queue
        /\ r.canceling = q.canceling /\ r.cancelled = q.cancelled \cup {id} /\ r.active = q.active \ {id}
        /\ r.calling = q.calling
    BY <1>9, Zenon DEF TimerIs
  <2> QED  BY <1>11, <1>12, <1>13, <2>1, <2>2, Zenon DEF TimerBooked
<1>15. ~r.calling => TimerWakes(r.now, r.timers, r.armed)
  <2>1. r.timers = q.timers \ {e} /\ r.now = q.now /\ r.armed = q.armed /\ r.calling = q.calling
    BY <1>9, Zenon DEF TimerIs
  <2>2. ~q.calling => TimerWakes(q.now, q.timers \ {e}, q.armed)
    BY Zenon DEF TimerGood, TimerWakes
  <2> QED  BY <2>1, <2>2, Zenon
<1> QED  BY <1>9, <1>14, <1>15, Zenon DEF TimerGood

\* The batch in hand, as a set.
LEMMA TimerExpiredIds == \A q \in TimerRecord : TimerExpired(q) = TimerIds(q.heap, Range(q.expired))
BY DEF TimerExpired, TimerIdAt, TimerIds, Range

\* cancel, called in a callback, of a Timer that is not scheduled.
LEMMA TimerCancelCalling ==
  ASSUME NEW q, TimerGood(q), NEW id \in TimerIdSet, id \notin q.active, q.calling, NEW r,
         r = [q EXCEPT !.canceling = @ \cup {id},
                       !.cancelled = IF id \in TimerExpired(q) THEN @ \cup {id} ELSE @]
  PROVE  TimerGood(r)
<1> DEFINE cancelled2 == IF id \in TimerIds(q.heap, Range(q.expired)) THEN q.cancelled \cup {id} ELSE q.cancelled
<1>1. q \in TimerRecord /\ TimerBooked(q) /\ q.canceling \in SUBSET TimerIdSet /\ q.cancelled \in SUBSET TimerIdSet
  BY TimerFields DEF TimerGood
<1>2. TimerExpired(q) = TimerIds(q.heap, Range(q.expired))
  BY <1>1, TimerExpiredIds
<1>3. r = [q EXCEPT !.canceling = q.canceling \cup {id}, !.cancelled = cancelled2]
  BY <1>1, <1>2, Zenon DEF TimerRecord
<1>4. cancelled2 \in SUBSET TimerIdSet /\ q.canceling \cup {id} \in SUBSET TimerIdSet
  BY <1>1
<1>5. TimerBook(q.heap, Len(q.made), q.timers, Range(q.expired), TimerAdding(q.queue), q.canceling \cup {id}, cancelled2)
  <2>1. TimerBook(q.heap, Len(q.made), q.timers, Range(q.expired), TimerAdding(q.queue), q.canceling, q.cancelled)
        /\ id \notin TimerIds(q.heap, q.timers)
    BY <1>1 DEF TimerBooked
  <2>2. cancelled2 = IF id \in TimerIds(q.heap, Range(q.expired)) THEN q.cancelled \cup {id} ELSE q.cancelled
    OBVIOUS
  <2> HIDE DEF cancelled2
  <2> QED  BY <2>1, <2>2, TimerBookMark, Zenon
<1> HIDE DEF cancelled2
<1>6. /\ r \in TimerRecord
      /\ TimerIs(r, q.now, q.heap, q.made, q.timers, q.active, q.canceling \cup {id}, cancelled2,
                 q.calling, q.expired, q.armed, q.queue)
  BY <1>1, <1>3, <1>4, Zenon DEF TimerRecord, TimerIs
<1>7. TimerBooked(r)
  BY <1>1, <1>5, <1>6, Zenon DEF TimerBooked, TimerIs
<1>8. r.calling
  BY <1>6, Zenon DEF TimerIs
<1> QED  BY <1>6, <1>7, <1>8, Zenon DEF TimerGood

\* cancelInLoop.
LEMMA TimerCancelGood ==
  ASSUME NEW q, TimerGood(q), NEW id \in TimerIdSet
  PROVE  TimerGood(TimerCancelInLoop(q, id))
<1>1. CASE id \in q.active
  BY <1>1, TimerCancelActive, Zenon DEF TimerCancelInLoop
<1>2. CASE id \notin q.active /\ q.calling
  BY <1>2, TimerCancelCalling, Zenon DEF TimerCancelInLoop
<1>3. CASE id \notin q.active /\ ~q.calling
  <2>1. TimerCancelInLoop(q, id) = q
    BY <1>3, Zenon DEF TimerCancelInLoop
  <2> QED  BY <2>1
<1> QED  BY <1>1, <1>2, <1>3

\* A new Timer, before it is added: it is nowhere.
LEMMA TimerNewGood ==
  ASSUME NEW q, TimerGood(q), NEW a \in TimerAddrs, q.heap[a] = NoTimer, NEW x \in Nat, NEW v \in Nat, NEW r,
         r = [q EXCEPT !.made = Append(@, a),
                       !.heap[a] = [seq |-> Len(q.made) + 1, exp |-> x, interval |-> v]]
  PROVE  TimerGood(r) /\ TimerNowhere(r, a)
<1> DEFINE heap2 == [q.heap EXCEPT ![a] = [seq |-> Len(q.made) + 1, exp |-> x, interval |-> v]]
<1>1. q \in TimerRecord /\ TimerBooked(q) /\ q.made \in Seq(TimerAddrs) /\ q.heap \in [TimerAddrs -> TimerCell]
      /\ q.timers \in SUBSET TimerEntry
  BY TimerFields DEF TimerGood
<1>2. Append(q.made, a) \in Seq(TimerAddrs) /\ Len(Append(q.made, a)) = Len(q.made) + 1 /\ Len(q.made) \in Nat
  BY <1>1
<1>3. [seq |-> Len(q.made) + 1, exp |-> x, interval |-> v] \in TimerCell
  BY <1>2 DEF TimerCell
<1>4. heap2 \in [TimerAddrs -> TimerCell]
  BY <1>1, <1>3, Zenon
<1>5. r = [q EXCEPT !.made = Append(q.made, a), !.heap = heap2]
  BY <1>1, Zenon DEF TimerRecord
<1>6. q.heap[a].seq = 0
  BY DEF NoTimer
<1>7. TimerBook(q.heap, Len(q.made), q.timers, Range(q.expired), TimerAdding(q.queue), q.canceling, q.cancelled)
  BY <1>1 DEF TimerBooked
<1>8. heap2 = [q.heap EXCEPT ![a] = [seq |-> Len(q.made) + 1, exp |-> x, interval |-> v]]
  OBVIOUS
<1> HIDE DEF heap2
<1>9. /\ TimerBook(heap2, Len(q.made) + 1, q.timers, Range(q.expired), TimerAdding(q.queue), q.canceling, q.cancelled)
      /\ TimerFresh(heap2, a, q.timers, Range(q.expired), TimerAdding(q.queue), q.cancelled)
  BY <1>6, <1>7, <1>8, TimerBookNew, Zenon
<1>10. /\ r \in TimerRecord
       /\ TimerIs(r, q.now, heap2, Append(q.made, a), q.timers, q.active, q.canceling, q.cancelled,
                  q.calling, q.expired, q.armed, q.queue)
  BY <1>1, <1>2, <1>4, <1>5, Zenon DEF TimerRecord, TimerIs
<1>11. TimerIds(heap2, q.timers) = TimerIds(q.heap, q.timers)
  <2>1. \A e \in q.timers : e[2] \in TimerAddrs /\ e[2] # a
    BY <1>1, <1>9 DEF TimerFresh, TimerEntry
  <2>2. \A e \in q.timers : heap2[e[2]] = heap2[e[2]] /\ heap2[e[2]] = q.heap[e[2]]
    BY <1>1, <1>8, <2>1
  <2>3. \A e \in q.timers : <<e[2], heap2[e[2]].seq>> = <<e[2], q.heap[e[2]].seq>>
    BY <2>2, Zenon
  <2>4. \A id : id \in TimerIds(heap2, q.timers) <=> id \in TimerIds(q.heap, q.timers)
    BY <2>3, Zenon DEF TimerIds
  <2> QED  BY <2>4, Zenon
<1>12. TimerBooked(r)
  <2>1. IsFiniteSet(q.timers) /\ q.active = TimerIds(q.heap, q.timers) /\ TimerOnce(q.queue) /\ (~q.calling => q.expired = << >>)
    BY <1>1 DEF TimerBooked
  <2> QED  BY <1>2, <1>9, <1>10, <1>11, <2>1, Zenon DEF TimerBooked, TimerIs
<1>13. ~r.calling => TimerWakes(r.now, r.timers, r.armed)
  BY <1>10, Zenon DEF TimerIs, TimerGood
<1>14. TimerNowhere(r, a)
  BY <1>9, <1>10, Zenon DEF TimerNowhere, TimerIs
<1> QED  BY <1>10, <1>12, <1>13, <1>14, Zenon DEF TimerGood

\* Which identities stay when the due entries go.
LEMMA TimerIdsRead ==
  ASSUME NEW heap, NEW n, NEW T, NEW X, NEW A, NEW canceling, NEW cancelled,
         TimerBook(heap, n, T, X, A, canceling, cancelled), NEW due \in SUBSET T
  PROVE  TimerIds(heap, T \ due) = TimerIds(heap, T) \ TimerIds(heap, due)
<1>1. TimerShapes(heap, n, T, X, A) /\ TimerPlaces(heap, T, X, A)
  BY DEF TimerBook
<1>2. \A f \in T : f = <<heap[f[2]].exp, f[2]>>
  BY <1>1 DEF TimerShapes, TimerPlaces, TimerEntry
<1>3. \A e, f \in T : <<e[2], heap[e[2]].seq>> = <<f[2], heap[f[2]].seq>> => e = f
  <2> SUFFICES ASSUME NEW e \in T, NEW f \in T, <<e[2], heap[e[2]].seq>> = <<f[2], heap[f[2]].seq>>  PROVE e = f
    OBVIOUS
  <2>1. e[2] = f[2]
    OBVIOUS
  <2> QED  BY <1>2, <2>1, Zenon
<1>4. \A id \in TimerIds(heap, T \ due) : id \in TimerIds(heap, T) /\ id \notin TimerIds(heap, due)
  BY <1>3, Zenon DEF TimerIds
<1>5. \A id \in TimerIds(heap, T) : id \in TimerIds(heap, T \ due) \/ id \in TimerIds(heap, due)
  BY Zenon DEF TimerIds
<1> QED  BY <1>4, <1>5

\* handleRead takes the batch.
LEMMA TimerReadGood == ASSUME TimerGood(tmr), TimerHandleRead PROVE TimerGood(tmr')
<1> DEFINE due == {e \in tmr.timers : e[1] <= tmr.now}
<1>1. tmr \in TimerRecord /\ TimerBooked(tmr)
  BY DEF TimerGood
<1>2. PICK s \in [1 .. Cardinality(due) -> due] :
        /\ TimerSorted(s, due)
        /\ tmr' = [tmr EXCEPT !.armed = 0, !.readAt = tmr.now, !.calling = TRUE, !.next = 1,
                              !.canceling = {}, !.timers = @ \ due, !.expired = s,
                              !.active = @ \ {TimerIdAt(tmr, e[2]) : e \in due}]
  BY Zenon DEF TimerHandleRead
<1>3. due \in SUBSET tmr.timers /\ ~tmr.calling
  BY DEF TimerHandleRead
<1> HIDE DEF due
<1>4. /\ tmr.timers \in SUBSET TimerEntry /\ tmr.active \in SUBSET TimerIdSet /\ tmr.now \in Nat
      /\ tmr.canceling \in SUBSET TimerIdSet
  BY <1>1, TimerFields
<1>5. IsFiniteSet(due) /\ IsFiniteSet(tmr.timers \ due)
  BY <1>1, <1>3, FS_Subset DEF TimerBooked
<1>6. Cardinality(due) \in Nat
  BY <1>5, FS_CardinalityType
<1>7. s \in Seq(TimerEntry) /\ Range(s) = due
  <2>1. s \in Seq(due)
    BY <1>2, <1>6
  <2>2. s \in Seq(TimerEntry)
    BY <1>3, <1>4, <2>1
  <2> QED  BY <1>2, <2>2 DEF TimerSorted
<1>8. {TimerIdAt(tmr, e[2]) : e \in due} = TimerIds(tmr.heap, due)
  BY DEF TimerIdAt, TimerIds
<1>9. TimerBook(tmr.heap, Len(tmr.made), tmr.timers, {}, TimerAdding(tmr.queue), tmr.canceling, tmr.cancelled)
  <2>1. tmr.expired = << >> /\ Range(<< >>) = {}
    BY <1>1, <1>3 DEF TimerBooked, Range
  <2>2. TimerBook(tmr.heap, Len(tmr.made), tmr.timers, Range(tmr.expired), TimerAdding(tmr.queue), tmr.canceling, tmr.cancelled)
    BY <1>1 DEF TimerBooked
  <2> QED  BY <2>1, <2>2, Zenon
<1> DEFINE T2 == tmr.timers \ due
           ids == tmr.active \ TimerIds(tmr.heap, due)
<1>10. TimerBook(tmr.heap, Len(tmr.made), T2, due, TimerAdding(tmr.queue), {}, tmr.cancelled)
  BY <1>3, <1>9, TimerBookRead, Zenon
<1>11. ids = TimerIds(tmr.heap, T2)
  <2>1. TimerIds(tmr.heap, tmr.timers \ due) = TimerIds(tmr.heap, tmr.timers) \ TimerIds(tmr.heap, due)
    BY <1>3, <1>9, TimerIdsRead
  <2>2. tmr.active = TimerIds(tmr.heap, tmr.timers)
    BY <1>1 DEF TimerBooked
  <2> QED  BY <2>1, <2>2, Zenon
<1>12. T2 \in SUBSET TimerEntry /\ ids \in SUBSET TimerIdSet /\ {} \in SUBSET TimerIdSet /\ 0 \in Nat /\ 1 \in Nat /\ TRUE \in BOOLEAN
  BY <1>4
<1>13. tmr' = [tmr EXCEPT !.armed = 0, !.readAt = tmr.now, !.calling = TRUE, !.next = 1,
                          !.canceling = {}, !.timers = T2, !.expired = s, !.active = ids]
  BY <1>1, <1>2, <1>8, Zenon DEF TimerRecord
<1>14. IsFiniteSet(T2)
  BY <1>5
<1> HIDE DEF T2, ids
<1>15. /\ tmr' \in TimerRecord /\ tmr'.heap = tmr.heap /\ tmr'.made = tmr.made /\ tmr'.timers = T2 /\ tmr'.active = ids
       /\ tmr'.canceling = {} /\ tmr'.cancelled = tmr.cancelled /\ tmr'.calling /\ tmr'.expired = s
       /\ tmr'.queue = tmr.queue
  BY <1>1, <1>4, <1>7, <1>12, <1>13, Zenon DEF TimerRecord
<1>16. TimerOnce(tmr.queue)
  BY <1>1 DEF TimerBooked
<1>17. TimerBooked(tmr')
  BY <1>7, <1>10, <1>11, <1>14, <1>15, <1>16, Zenon DEF TimerBooked
<1> QED  BY <1>15, <1>17, Zenon DEF TimerGood

\* The image of a finite set is finite.
LEMMA TimerImage ==
  ASSUME NEW S, IsFiniteSet(S), NEW T, NEW f \in [S -> T], \A x \in T : \E y \in S : f[y] = x
  PROVE  IsFiniteSet(T)
<1>1. f \in Surjection(S, T)
  BY DEF Surjection
<1> QED  BY <1>1, FS_Surjection, Zenon

\* The entries that a batch gives back are finitely many.
LEMMA TimerBatchFinite ==
  ASSUME NEW s \in Seq(TimerEntry), NEW again \in SUBSET {e[2] : e \in Range(s)}, NEW heap2
  PROVE  IsFiniteSet({<<heap2[a].exp, a>> : a \in again})
<1> DEFINE X == Range(s)
           done == {e[2] : e \in X}
           back == {<<heap2[a].exp, a>> : a \in again}
<1>1. IsFiniteSet(X)
  <2>1. Len(s) \in Nat /\ DOMAIN s = 1 .. Len(s)
    OBVIOUS
  <2>2. IsFiniteSet(DOMAIN s)
    BY <2>1, FS_Interval
  <2>3. s \in [DOMAIN s -> X] /\ \A x \in X : \E y \in DOMAIN s : s[y] = x
    BY <2>1 DEF Range
  <2> QED  BY <2>2, <2>3, TimerImage, Zenon
<1> HIDE DEF X
<1>2. IsFiniteSet(done)
  <2> DEFINE f == [e \in X |-> e[2]]
  <2>1. f \in [X -> done] /\ \A x \in done : \E y \in X : f[y] = x
    OBVIOUS
  <2> HIDE DEF f, done
  <2> QED  BY <1>1, <2>1, TimerImage, Zenon
<1>3. IsFiniteSet(again)
  <2>1. again \in SUBSET done
    BY DEF X
  <2> QED  BY <1>2, <2>1, FS_Subset, Zenon
<1>4. IsFiniteSet(back)
  <2> DEFINE f == [a \in again |-> <<heap2[a].exp, a>>]
  <2>1. f \in [again -> back] /\ \A x \in back : \E y \in again : f[y] = x
    OBVIOUS
  <2> HIDE DEF f, back
  <2> QED  BY <1>3, <2>1, TimerImage, Zenon
<1> QED  BY <1>4

\* The identities that reset gives back.
LEMMA TimerIdsReset ==
  ASSUME NEW heap, NEW n, NEW T, NEW X, NEW A, NEW canceling, NEW cancelled,
         TimerBook(heap, n, T, X, A, canceling, cancelled),
         NEW again, NEW heap2, NEW U, TimerRestores(heap, X, canceling, again, heap2, T, U)
  PROVE  TimerIds(heap2, U) = TimerIds(heap, T) \cup {<<a, heap2[a].seq>> : a \in again}
<1> DEFINE back == {<<heap2[a].exp, a>> : a \in again}
<1>1. TimerShapes(heap, n, T, X, A) /\ TimerPlaces(heap, T, X, A)
  BY DEF TimerBook
<1>2. \A e \in T : e[2] \in TimerAddrs \ {f[2] : f \in X}
  BY <1>1 DEF TimerShapes, TimerPlaces, TimerEntry
<1>3. \A e \in T : <<e[2], heap2[e[2]].seq>> = <<e[2], heap[e[2]].seq>>
  <2>1. \A e \in T : heap2[e[2]] = heap[e[2]]
    BY <1>2, Zenon DEF TimerRestores
  <2> QED  BY <2>1, Zenon
<1>4. TimerIds(heap2, T) = TimerIds(heap, T)
  <2>1. \A id : id \in TimerIds(heap2, T) <=> id \in TimerIds(heap, T)
    BY <1>3, Zenon DEF TimerIds
  <2> QED  BY <2>1
<1>5. TimerIds(heap2, back) = {<<a, heap2[a].seq>> : a \in again}
  <2>1. \A a \in again : <<heap2[a].exp, a>> \in back /\ <<heap2[a].exp, a>>[2] = a
    OBVIOUS
  <2>2. \A e \in back : \E a \in again : e[2] = a
    OBVIOUS
  <2>3. \A a \in again : <<a, heap2[a].seq>> \in TimerIds(heap2, back)
    BY <2>1, Zenon DEF TimerIds
  <2>4. \A id \in TimerIds(heap2, back) : \E a \in again : id = <<a, heap2[a].seq>>
    BY <2>2, Zenon DEF TimerIds
  <2> QED  BY <2>3, <2>4
<1>6. U = T \cup back
  BY DEF TimerRestores
<1> HIDE DEF back
<1>7. TimerIds(heap2, T \cup back) = TimerIds(heap2, T) \cup TimerIds(heap2, back)
  BY Zenon DEF TimerIds
<1> QED  BY <1>4, <1>5, <1>6, <1>7, Zenon

\* reset gives the batch back or deletes it, and arms the timerfd.
LEMMA TimerResetGood == ASSUME TimerGood(tmr), TimerReset PROVE TimerGood(tmr')
<1> DEFINE X == Range(tmr.expired)
           done == {e[2] : e \in X}
           again == {a \in done : TimerRestarts(tmr, a)}
           heap2 == [a \in TimerAddrs |->
                       CASE a \in again -> [tmr.heap[a] EXCEPT !.exp = tmr.readAt + tmr.heap[a].interval]
                         [] a \in done \ again -> NoTimer
                         [] OTHER -> tmr.heap[a]]
           back == {<<heap2[a].exp, a>> : a \in again}
           T2 == tmr.timers \cup back
           ids == tmr.active \cup {<<a, heap2[a].seq>> : a \in again}
           q == [tmr EXCEPT !.calling = FALSE, !.expired = << >>, !.heap = heap2, !.timers = T2, !.active = ids]
           least == Min({e[1] : e \in T2})
<1>1. tmr \in TimerRecord /\ TimerBooked(tmr)
  BY DEF TimerGood
<1>2. /\ tmr.timers \in SUBSET TimerEntry /\ tmr.active \in SUBSET TimerIdSet /\ tmr.now \in Nat /\ tmr.readAt \in Nat
      /\ tmr.heap \in [TimerAddrs -> TimerCell] /\ tmr.expired \in Seq(TimerEntry) /\ tmr.armed \in Nat
  BY <1>1, TimerFields
<1>3. TimerBook(tmr.heap, Len(tmr.made), tmr.timers, X, TimerAdding(tmr.queue), tmr.canceling, tmr.cancelled)
  BY <1>1 DEF TimerBooked
<1>4. q \in {[tmr EXCEPT !.calling = FALSE, !.expired = << >>, !.heap = heap2,
                         !.timers = @ \cup back, !.active = @ \cup {<<a, heap2[a].seq>> : a \in again}]}
  BY <1>1, Zenon DEF TimerRecord
<1>5. tmr' = IF q.timers = {} THEN q ELSE TimerResetFd(q, Min({e[1] : e \in q.timers}))
  BY <1>4, Zenon DEF TimerReset
<1>6. done \in SUBSET TimerAddrs /\ again \in SUBSET done
  <2>1. X \in SUBSET TimerEntry
    BY <1>3 DEF TimerBook, TimerShapes
  <2> QED  BY <2>1 DEF TimerEntry
<1>7. \A a \in again : <<a, tmr.heap[a].seq>> \notin tmr.canceling
  BY DEF TimerRestarts, TimerIdAt
<1> HIDE DEF X, done, again
<1>8. \A a \in TimerAddrs : tmr.heap[a] \in TimerCell /\ tmr.heap[a].interval \in Nat /\ tmr.heap[a].seq \in Nat
                            /\ tmr.heap[a].exp \in Nat
  BY <1>2 DEF TimerCell
<1>9. \A a \in TimerAddrs :
        /\ a \in again => heap2[a] = [tmr.heap[a] EXCEPT !.exp = tmr.readAt + tmr.heap[a].interval]
        /\ a \in done \ again => heap2[a] = NoTimer
        /\ a \notin done => heap2[a] = tmr.heap[a]
  BY <1>6
<1>10. heap2 = [a \in TimerAddrs |-> heap2[a]]
  OBVIOUS
<1> HIDE DEF heap2
<1>11. \A a \in again : heap2[a] \in TimerCell /\ heap2[a].seq = tmr.heap[a].seq
  <2> SUFFICES ASSUME NEW a \in again  PROVE heap2[a] \in TimerCell /\ heap2[a].seq = tmr.heap[a].seq
    OBVIOUS
  <2>1. a \in TimerAddrs /\ tmr.heap[a] \in TimerCell
    BY <1>6, <1>8
  <2>2. tmr.readAt + tmr.heap[a].interval \in Nat
    BY <1>2, <1>8, <2>1
  <2>3. heap2[a] = [tmr.heap[a] EXCEPT !.exp = tmr.readAt + tmr.heap[a].interval]
    BY <1>9, <2>1
  <2> QED  BY <2>1, <2>2, <2>3 DEF TimerCell
<1>12. \A a \in done \ again : heap2[a] \in TimerCell /\ heap2[a].seq = 0
  <2>1. NoTimer \in TimerCell /\ NoTimer.seq = 0
    BY DEF NoTimer, TimerCell
  <2> QED  BY <1>6, <1>9, <2>1, Zenon
<1>13. heap2 \in [TimerAddrs -> TimerCell]
  <2>1. \A a \in TimerAddrs : heap2[a] \in TimerCell
    BY <1>8, <1>9, <1>11, <1>12, Zenon
  <2> QED  BY <1>10, <2>1
<1>14. \A a \in TimerAddrs \ done : heap2[a] = tmr.heap[a]
  BY <1>9, Zenon
<1>a. TimerRestores(tmr.heap, X, tmr.canceling, again, heap2, tmr.timers, T2)
  <2>1. again \in SUBSET {e[2] : e \in X}
    BY <1>6 DEF done
  <2>2. \A a \in again : heap2[a].seq = tmr.heap[a].seq
    BY <1>11
  <2>3. \A a \in {e[2] : e \in X} \ again : heap2[a].seq = 0
    BY <1>12 DEF done
  <2>4. \A a \in TimerAddrs \ {e[2] : e \in X} : heap2[a] = tmr.heap[a]
    BY <1>14 DEF done
  <2>5. T2 = tmr.timers \cup {<<heap2[a].exp, a>> : a \in again}
    OBVIOUS
  <2> HIDE DEF T2
  <2> QED  BY <1>7, <1>13, <2>1, <2>2, <2>3, <2>4, <2>5, Zenon DEF TimerRestores
<1>15. TimerBook(heap2, Len(tmr.made), T2, {}, TimerAdding(tmr.queue), tmr.canceling, tmr.cancelled)
  BY <1>3, <1>a, TimerBookReset, Zenon
<1>16. ids = TimerIds(heap2, T2)
  <2>1. tmr.active = TimerIds(tmr.heap, tmr.timers)
    BY <1>1 DEF TimerBooked
  <2>2. ids = tmr.active \cup {<<a, heap2[a].seq>> : a \in again}
    OBVIOUS
  <2> HIDE DEF T2, ids
  <2>3. TimerIds(heap2, T2) = TimerIds(tmr.heap, tmr.timers) \cup {<<a, heap2[a].seq>> : a \in again}
    BY <1>3, <1>a, TimerIdsReset
  <2> QED  BY <2>1, <2>2, <2>3, Zenon
<1>17. IsFiniteSet(T2)
  <2>1. IsFiniteSet(back)
    BY <1>2, <1>6, TimerBatchFinite, Zenon DEF done, X
  <2>2. IsFiniteSet(tmr.timers)
    BY <1>1 DEF TimerBooked
  <2> HIDE DEF back
  <2> QED  BY <2>1, <2>2, FS_Union, Zenon
<1>18. T2 \in SUBSET TimerEntry /\ ids \in SUBSET TimerIdSet
  BY <1>2, <1>6, <1>11 DEF TimerEntry, TimerIdSet, TimerCell
<1> HIDE DEF T2, ids
<1>19. /\ q \in TimerRecord
       /\ TimerIs(q, tmr.now, heap2, tmr.made, T2, ids, tmr.canceling, tmr.cancelled, FALSE, << >>, tmr.armed, tmr.queue)
  <2>1. << >> \in Seq(TimerEntry) /\ FALSE \in BOOLEAN
    OBVIOUS
  <2> QED  BY <1>1, <1>13, <1>18, <2>1, Zenon DEF TimerRecord, TimerIs
<1>20. TimerOnce(tmr.queue) /\ Range(<< >>) = {}
  BY <1>1 DEF TimerBooked, Range
<1>21. TimerBooked(q)
  <2>1. /\ q.heap = heap2 /\ q.made = tmr.made /\ q.timers = T2 /\ q.active = ids /\ q.canceling = tmr.canceling
        /\ q.cancelled = tmr.cancelled /\ q.expired = << >> /\ q.queue = tmr.queue
    BY <1>19, Zenon DEF TimerIs
  <2> HIDE DEF q
  <2>2. TimerBook(q.heap, Len(q.made), q.timers, Range(q.expired), TimerAdding(q.queue), q.canceling, q.cancelled)
    BY <1>15, <1>20, <2>1, Zenon
  <2>3. IsFiniteSet(q.timers) /\ q.active = TimerIds(q.heap, q.timers) /\ TimerOnce(q.queue)
    BY <1>16, <1>17, <1>20, <2>1, Zenon
  <2> QED  BY <2>1, <2>2, <2>3, Zenon DEF TimerBooked
<1>22. q.timers = T2 /\ q.now = tmr.now
  BY <1>19, Zenon DEF TimerIs
<1>23. tmr' = IF T2 = {} THEN q ELSE TimerResetFd(q, least)
  <2> HIDE DEF q
  <2>1. {e[1] : e \in q.timers} = {e[1] : e \in T2}
    BY <1>22
  <2> QED  BY <1>5, <1>22, <2>1, Zenon
<1> HIDE DEF q
<1>24. CASE T2 = {}
  <2>1. tmr' = q
    BY <1>23, <1>24
  <2>2. TimerWakes(q.now, q.timers, q.armed)
    BY <1>22, <1>24 DEF TimerWakes
  <2> QED  BY <1>19, <1>21, <2>1, <2>2, Zenon DEF TimerGood
<1>25. CASE T2 # {}
  <2>1. {e[1] : e \in T2} \in SUBSET Nat /\ {e[1] : e \in T2} # {}
    BY <1>18, <1>25 DEF TimerEntry
  <2>2. least \in {e[1] : e \in T2} /\ \A x \in {e[1] : e \in T2} : least <= x
    BY <2>1, TimerMin, Zenon
  <2> HIDE DEF least
  <2>3. least \in Nat /\ \A e \in T2 : least <= e[1] /\ e[1] \in Nat
    BY <2>1, <2>2
  <2> DEFINE armed == IF least > q.now THEN least ELSE q.now + 1
  <2>4. armed \in Nat /\ armed # 0 /\ (armed = least \/ armed = q.now + 1)
    BY <1>2, <1>22, <2>3
  <2>5. armed = IF least > q.now THEN least ELSE q.now + 1
    OBVIOUS
  <2> HIDE DEF armed
  <2>6. /\ tmr' \in TimerRecord
        /\ TimerIs(tmr', q.now, q.heap, q.made, q.timers, q.active, q.canceling, q.cancelled,
                   q.calling, q.expired, armed, q.queue)
    BY <1>19, <1>23, <1>25, <2>3, <2>5, TimerResetFdFields, Zenon
  <2>7. TimerWakes(q.now, q.timers, armed)
    BY <1>2, <1>22, <2>3, <2>4 DEF TimerWakes
  <2>8. TimerWakes(tmr'.now, tmr'.timers, tmr'.armed)
    BY <2>6, <2>7, Zenon DEF TimerIs
  <2>9. TimerBooked(tmr')
    BY <1>21, <2>6, Zenon DEF TimerIs, TimerBooked
  <2> QED  BY <2>6, <2>8, <2>9, Zenon DEF TimerGood
<1> QED  BY <1>24, <1>25

\* addTimer, in the loop's thread or another.
LEMMA TimerAddGood ==
  ASSUME TimerGood(tmr), NEW a \in TimerAddrs, NEW d \in TimerDelays, NEW i \in TimerDelays, NEW inLoop \in BOOLEAN,
         TimerAdd(a, d, i, inLoop)
  PROVE  TimerGood(tmr')
<1> DEFINE new == [tmr EXCEPT !.made = Append(@, a),
                              !.heap[a] = [seq |-> Len(tmr.made) + 1, exp |-> tmr.now + d, interval |-> i]]
           f == <<"add", TimerIdAt(new, a)>>
<1>1. /\ tmr.heap[a] = NoTimer
      /\ tmr' = IF inLoop THEN TimerAddInLoop(new, a) ELSE [new EXCEPT !.queue = Append(@, f)]
  BY DEF TimerAdd
<1>2. d \in Nat /\ i \in Nat
  BY TimerAssumption
<1>3. tmr.now + d \in Nat
  BY <1>2, TimerFields DEF TimerGood
<1>4. TimerGood(new) /\ TimerNowhere(new, a)
  BY <1>1, <1>2, <1>3, TimerNewGood, Zenon
<1> HIDE DEF new
<1>5. CASE inLoop
  <2>1. tmr' = TimerAddInLoop(new, a)
    BY <1>1, <1>5
  <2> QED  BY <1>4, <2>1, TimerAddInLoopGood, Zenon
<1>6. CASE ~inLoop
  <2>1. new.heap[a].seq \in Nat
    BY <1>4, TimerFields DEF TimerGood, TimerCell
  <2>2. /\ f \in TimerFunctors /\ f[2][1] = a /\ f[2] = <<f[2][1], new.heap[f[2][1]].seq>>
    BY <2>1 DEF TimerFunctors, TimerIdSet, TimerIdAt
  <2>3. TimerNowhere(new, f[2][1])
    BY <1>4, <2>2, Zenon
  <2>4. tmr' = [new EXCEPT !.queue = Append(new.queue, f)]
    <3>1. tmr' = [new EXCEPT !.queue = Append(@, f)]
      BY <1>1, <1>6
    <3> HIDE DEF f
    <3> QED  BY <1>4, <3>1, Zenon DEF TimerGood, TimerRecord
  <2> HIDE DEF f
  <2> QED  BY <1>4, <2>2, <2>3, <2>4, TimerQueueGood, Zenon
<1> QED  BY <1>5, <1>6

\* cancel, in the loop's thread or another.
LEMMA TimerCancelStep ==
  ASSUME TimerGood(tmr), NEW s \in DOMAIN tmr.made, NEW inLoop \in BOOLEAN, TimerCancel(<<tmr.made[s], s>>, inLoop)
  PROVE  TimerGood(tmr')
<1> DEFINE id == <<tmr.made[s], s>>
           f == <<"cancel", id>>
<1>1. id \in TimerIdSet
  <2>1. tmr.made \in Seq(TimerAddrs)
    BY TimerFields DEF TimerGood
  <2> QED  BY <2>1 DEF TimerIdSet
<1>2. tmr' = IF inLoop THEN TimerCancelInLoop(tmr, id) ELSE [tmr EXCEPT !.queue = Append(@, f)]
  BY DEF TimerCancel
<1> HIDE DEF id
<1>3. CASE inLoop
  <2>1. tmr' = TimerCancelInLoop(tmr, id)
    BY <1>2, <1>3
  <2> QED  BY <1>1, <2>1, TimerCancelGood, Zenon
<1>4. CASE ~inLoop
  <2>1. f \in TimerFunctors /\ f[1] # "add"
    BY <1>1 DEF TimerFunctors
  <2> HIDE DEF f
  <2>2. tmr' = [tmr EXCEPT !.queue = Append(tmr.queue, f)]
    BY <1>2, <1>4, Zenon DEF TimerGood, TimerRecord
  <2> QED  BY <2>1, <2>2, TimerQueueGood, Zenon
<1> QED  BY <1>3, <1>4

\* A functor of another thread runs.
LEMMA TimerFunctorGood == ASSUME TimerGood(tmr), TimerFunctor PROVE TimerGood(tmr')
<1> DEFINE f == Head(tmr.queue)
           q == [tmr EXCEPT !.queue = Tail(tmr.queue)]
<1>1. tmr.queue # << >>
  BY DEF TimerFunctor
<1>2. q = [tmr EXCEPT !.queue = Tail(@)]
  BY Zenon DEF TimerGood, TimerRecord
<1>3. tmr' = IF f[1] = "add" THEN TimerAddInLoop(q, f[2][1]) ELSE TimerCancelInLoop(q, f[2])
  BY <1>2, Zenon DEF TimerFunctor
<1>4. /\ TimerGood(q) /\ f \in TimerFunctors
      /\ f[1] = "add" => f[2][1] \in TimerAddrs /\ TimerNowhere(q, f[2][1])
  BY <1>1, TimerDequeueGood, Zenon
<1>5. f[2] \in TimerIdSet
  BY <1>4 DEF TimerFunctors
<1> HIDE DEF q, f
<1>6. CASE f[1] = "add"
  <2>1. tmr' = TimerAddInLoop(q, f[2][1])
    BY <1>3, <1>6
  <2> QED  BY <1>4, <1>6, <2>1, TimerAddInLoopGood, Zenon
<1>7. CASE f[1] # "add"
  <2>1. tmr' = TimerCancelInLoop(q, f[2])
    BY <1>3, <1>7
  <2> QED  BY <1>4, <1>5, <2>1, TimerCancelGood, Zenon
<1> QED  BY <1>6, <1>7

\* The clock ticks, or the next callback of the batch begins.
LEMMA TimerTickGood == ASSUME TimerGood(tmr), TimerTick \/ TimerRun PROVE TimerGood(tmr')
<1>1. tmr \in TimerRecord /\ TimerBooked(tmr) /\ tmr.now \in Nat /\ tmr.next \in Nat
      /\ tmr.armed \in Nat /\ tmr.timers \in SUBSET TimerEntry
  BY TimerFields DEF TimerGood
<1>2. PICK now, next : /\ now \in Nat /\ next \in Nat /\ tmr.now <= now
                       /\ tmr' = [tmr EXCEPT !.now = now, !.next = next]
  <2>1. CASE TimerTick
    <3>1. tmr.now + 1 \in Nat /\ tmr.now <= tmr.now + 1
      BY <1>1
    <3>2. tmr' = [tmr EXCEPT !.now = tmr.now + 1, !.next = tmr.next]
      BY <1>1, <2>1, Zenon DEF TimerTick, TimerRecord
    <3> QED  BY <1>1, <3>1, <3>2, Zenon
  <2>2. CASE TimerRun
    <3>1. tmr.next + 1 \in Nat /\ tmr.now <= tmr.now
      BY <1>1
    <3>2. tmr' = [tmr EXCEPT !.now = tmr.now, !.next = tmr.next + 1]
      BY <1>1, <2>2, Zenon DEF TimerRun, TimerRecord
    <3> QED  BY <1>1, <3>1, <3>2, Zenon
  <2> QED  BY <2>1, <2>2, Zenon
<1>3. /\ tmr' \in TimerRecord
      /\ TimerIs(tmr', now, tmr.heap, tmr.made, tmr.timers, tmr.active, tmr.canceling, tmr.cancelled,
                 tmr.calling, tmr.expired, tmr.armed, tmr.queue)
  BY <1>1, <1>2, Zenon DEF TimerRecord, TimerIs
<1>4. TimerBooked(tmr')
  BY <1>1, <1>3, Zenon DEF TimerBooked, TimerIs
<1>5. ~tmr.calling => TimerWakes(now, tmr.timers, tmr.armed)
  <2>1. ~tmr.calling => TimerWakes(tmr.now, tmr.timers, tmr.armed)
    BY DEF TimerGood
  <2>2. TimerWakes(tmr.now, tmr.timers, tmr.armed) => TimerWakes(now, tmr.timers, tmr.armed)
    BY <1>1, <1>2 DEF TimerWakes, TimerEntry
  <2> QED  BY <2>1, <2>2
<1>6. ~tmr'.calling => TimerWakes(tmr'.now, tmr'.timers, tmr'.armed)
  BY <1>3, <1>5, Zenon DEF TimerIs
<1> QED  BY <1>3, <1>4, <1>6, Zenon DEF TimerGood

\* The new TimerQueue: nothing is allocated.
LEMMA TimerInitGood == ASSUME TimerInit PROVE TimerGood(tmr)
<1> DEFINE heap == [a \in TimerAddrs |-> NoTimer]
<1>1. /\ tmr.now = 1 /\ tmr.heap = heap /\ tmr.made = << >> /\ tmr.timers = {} /\ tmr.active = {} /\ tmr.canceling = {}
      /\ tmr.cancelled = {} /\ tmr.expired = << >> /\ tmr.armed = 0 /\ tmr.queue = << >>
  BY DEF TimerInit
<1>2. heap \in [TimerAddrs -> TimerCell] /\ \A a \in TimerAddrs : heap[a].seq = 0
  BY DEF TimerCell, NoTimer
<1>3. tmr \in TimerRecord
  <2>1. 0 \in Nat /\ 1 \in Nat /\ FALSE \in BOOLEAN
    OBVIOUS
  <2>2. << >> \in Seq(TimerAddrs) /\ << >> \in Seq(TimerEntry) /\ << >> \in Seq(TimerFunctors)
    OBVIOUS
  <2>3. {} \in SUBSET TimerEntry /\ {} \in SUBSET TimerIdSet
    OBVIOUS
  <2> HIDE DEF heap
  <2>4. tmr = [now |-> 1, heap |-> heap, made |-> << >>, timers |-> {}, active |-> {}, canceling |-> {},
               cancelled |-> {}, calling |-> FALSE, expired |-> << >>, next |-> 1, readAt |-> 0,
               armed |-> 0, queue |-> << >>]
    BY Zenon DEF TimerInit, heap
  <2> QED  BY <1>2, <2>1, <2>2, <2>3, <2>4, Zenon DEF TimerRecord
<1> HIDE DEF heap
<1>4. Len(<< >>) = 0 /\ Range(<< >>) = {} /\ TimerAdding(<< >>) = {} /\ TimerOnce(<< >>)
  BY DEF Range, TimerAdding, TimerOnce
<1>5. TimerBook(heap, 0, {}, {}, {}, {}, {})
  BY <1>2 DEF TimerBook, TimerShapes, TimerPlaces, TimerGone
<1>6. TimerIds(heap, {}) = {} /\ IsFiniteSet({})
  BY FS_EmptySet DEF TimerIds
<1>7. TimerBooked(tmr)
  BY <1>1, <1>4, <1>5, <1>6, Zenon DEF TimerBooked
<1>8. TimerWakes(tmr.now, tmr.timers, tmr.armed)
  BY <1>1 DEF TimerWakes
<1> QED  BY <1>3, <1>7, <1>8 DEF TimerGood

\* Every step of the TimerQueue and of its users.
LEMMA TimerStepGood == TimerGood(tmr) /\ [TimerNext]_tmr => TimerGood(tmr)'
<1> SUFFICES ASSUME TimerGood(tmr), [TimerNext]_tmr  PROVE TimerGood(tmr')
  OBVIOUS
<1>1. CASE TimerTick \/ TimerRun
  BY <1>1, TimerTickGood
<1>2. CASE TimerFunctor
  BY <1>2, TimerFunctorGood
<1>3. CASE TimerHandleRead
  BY <1>3, TimerReadGood
<1>4. CASE TimerReset
  BY <1>4, TimerResetGood
<1>5. CASE \E a \in TimerAddrs, d \in TimerDelays, i \in TimerDelays, b \in BOOLEAN : TimerAdd(a, d, i, b)
  BY <1>5, TimerAddGood, Zenon
<1>6. CASE \E s \in DOMAIN tmr.made, b \in BOOLEAN : TimerCancel(<<tmr.made[s], s>>, b)
  BY <1>6, TimerCancelStep, Zenon
<1>7. CASE UNCHANGED tmr
  BY <1>7
<1> QED  BY <1>1, <1>2, <1>3, <1>4, <1>5, <1>6, <1>7, Zenon DEF TimerNext

\* timers_ and activeTimers_ are as many.
LEMMA TimerIdsCount ==
  ASSUME NEW heap, NEW n, NEW T, NEW X, NEW A, NEW canceling, NEW cancelled,
         TimerBook(heap, n, T, X, A, canceling, cancelled), IsFiniteSet(T)
  PROVE  Cardinality(TimerIds(heap, T)) = Cardinality(T)
<1> DEFINE ids == TimerIds(heap, T)
           f == [e \in T |-> <<e[2], heap[e[2]].seq>>]
<1>1. TimerShapes(heap, n, T, X, A) /\ TimerPlaces(heap, T, X, A)
  BY DEF TimerBook
<1>2. \A e \in T : e = <<heap[e[2]].exp, e[2]>>
  BY <1>1 DEF TimerShapes, TimerPlaces, TimerEntry
<1>3. f \in [T -> ids] /\ (\A x \in ids : \E e \in T : f[e] = x) /\ \A e \in T : f[e] = <<e[2], heap[e[2]].seq>>
  BY DEF TimerIds
<1> HIDE DEF f, ids
<1>4. \A e, g \in T : f[e] = f[g] => e = g
  <2> SUFFICES ASSUME NEW e \in T, NEW g \in T, f[e] = f[g]  PROVE e = g
    OBVIOUS
  <2>1. e[2] = g[2]
    BY <1>3
  <2> QED  BY <1>2, <2>1, Zenon
<1>5. f \in Surjection(T, ids) /\ f \in Injection(T, ids)
  <2>1. f \in Surjection(T, ids)
    BY <1>3 DEF Surjection
  <2>2. f \in Injection(T, ids)
    BY <1>3, <1>4 DEF Injection, IsInjective
  <2> QED  BY <2>1, <2>2
<1>6. Cardinality(ids) = Cardinality(T)
  BY <1>5, FS_Surjection, Zenon
<1> QED  BY <1>6 DEF ids

\* What the invariant says of the sets.
LEMMA TimerGoodKept == ASSUME TimerGood(tmr) PROVE TimersKept
<1> DEFINE X == Range(tmr.expired)
           A == TimerAdding(tmr.queue)
<1>1. tmr \in TimerRecord /\ TimerBooked(tmr)
  BY DEF TimerGood
<1>2. TimerBook(tmr.heap, Len(tmr.made), tmr.timers, X, A, tmr.canceling, tmr.cancelled)
  BY <1>1 DEF TimerBooked
<1>3. /\ TimerShapes(tmr.heap, Len(tmr.made), tmr.timers, X, A) /\ TimerPlaces(tmr.heap, tmr.timers, X, A)
      /\ TimerGone(tmr.heap, Len(tmr.made), tmr.timers, X, A, tmr.canceling, tmr.cancelled)
  BY <1>2 DEF TimerBook
<1>4. TimerExpired(tmr) = TimerIds(tmr.heap, X)
  BY <1>1, TimerExpiredIds
<1>5. tmr.active = TimerIds(tmr.heap, tmr.timers) /\ IsFiniteSet(tmr.timers)
  BY <1>1 DEF TimerBooked
<1>6. Cardinality(tmr.active) = Cardinality(tmr.timers)
  BY <1>2, <1>5, TimerIdsCount, Zenon
<1>7. tmr.active = {TimerIdAt(tmr, e[2]) : e \in tmr.timers}
  BY <1>5, Zenon DEF TimerIds, TimerIdAt
<1>8. A = {tmr.queue[i][2] : i \in {j \in DOMAIN tmr.queue : tmr.queue[j][1] = "add"}}
  BY Zenon DEF TimerAdding
<1> HIDE DEF A, X
<1>9. \A id \in A : TimerIdAt(tmr, id[1]) = id
  BY <1>3 DEF TimerShapes, TimerPlaces, TimerIdAt, TimerIdSet
<1>10. \A e \in tmr.timers \cup X : tmr.heap[e[2]].seq > 0 /\ tmr.heap[e[2]].exp = e[1]
  BY <1>3, Zenon DEF TimerPlaces
<1>11. tmr.active \cap (TimerExpired(tmr) \cup A) = {}
  <2> SUFFICES ASSUME NEW id \in tmr.active, id \in TimerExpired(tmr) \/ id \in A  PROVE FALSE
    OBVIOUS
  <2>1. PICK e \in tmr.timers : id = <<e[2], tmr.heap[e[2]].seq>>
    BY <1>5 DEF TimerIds
  <2>2. id[1] = e[2]
    BY <2>1
  <2>3. CASE id \in TimerExpired(tmr)
    <3>1. PICK g \in X : id = <<g[2], tmr.heap[g[2]].seq>>
      BY <1>4, <2>3 DEF TimerIds
    <3>2. id[1] = g[2]
      BY <3>1
    <3> QED  BY <1>3, <2>2, <3>2, Zenon DEF TimerPlaces
  <2>4. CASE id \in A
    BY <1>3, <2>2, <2>4, Zenon DEF TimerPlaces
  <2> QED  BY <2>3, <2>4
<1>12. TimerSetsInStep
  BY <1>6, <1>7, <1>8, <1>9, <1>10, <1>11, Zenon DEF TimerSetsInStep, X
<1>13. TimerStaysCancelled
  <2> SUFFICES ASSUME NEW id \in tmr.cancelled
               PROVE  id \notin tmr.active /\ (id \in TimerExpired(tmr) => id \in tmr.canceling)
    BY DEF TimerStaysCancelled
  <2>1. id \notin TimerIds(tmr.heap, tmr.timers)
    BY <1>3, Zenon DEF TimerGone, TimerIds
  <2>2. id \in TimerIds(tmr.heap, X) => id \in tmr.canceling
    BY <1>3, Zenon DEF TimerGone, TimerIds
  <2> QED  BY <1>4, <1>5, <2>1, <2>2, Zenon
<1>14. TimerfdArmed
  BY DEF TimerGood, TimerWakes, TimerfdArmed
<1> QED  BY <1>12, <1>13, <1>14 DEF TimersKept

(* The TimerQueue keeps what it owes: timers_ and activeTimers_ in step, every      *)
(* cancelled timer gone for good and the timerfd set in time, for any addresses,    *)
(* delays, number of timers and length of time.                                     *)
THEOREM TimersAlwaysKept == TimerSpec => []TimersKept
<1>1. TimerInit => TimerGood(tmr)
  BY TimerInitGood
<1>2. TimerGood(tmr) /\ [TimerNext]_tmr => TimerGood(tmr)'
  BY TimerStepGood
<1>3. TimerGood(tmr) => TimersKept
  BY TimerGoodKept
<1> QED  BY <1>1, <1>2, <1>3, PTL DEF TimerSpec
====
