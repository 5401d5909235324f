------------------------- MODULE PacketDeadlockProofs -------------------------
(***************************************************************************)
(* Proofs about PacketSystem: producers and consumers never wait for each  *)
(* other in a circle, so that without an observer somebody can always go   *)
(* on, as long as Sound holds.                                             *)
(*                                                                         *)
(* SafeInv says which mutexes a thread owns at least.  Here the converse   *)
(* is needed: a mutex that is taken is one that its owner is still going   *)
(* to release, further up the list than the one it waits for.              *)
(***************************************************************************)
EXTENDS PacketListProofs

(* The allocated mutexes that t can own. *)
Holds(t, q) ==
  \/ pc[t] \in Standing /\ q = packet[cur[t]]
  \/ pc[t] \in HoldsWanted /\ q = want[t]
  \/ pc[t] \in HoldsHead /\ q = empty_packet
  \/ pc[t] = "get.second" /\ q = packet[next[queue_head]]
  \/ pc[t] \in Taking \cup {"get.unlockFirst", "get.unlockHead", "got"} /\ q = arg[t]

Held == \A t \in Workers, q \in heap \cup {empty_packet} : owner[q] = t => Holds(t, q)

HeldInv == Sound => Held

(* The list is finite, however many packets there may be. *)
FiniteList == IsFiniteSet(live)

-----------------------------------------------------------------------------
(* What a step of t leaves to the other threads.                           *)

LEMMA MovesPacket ==
  ASSUME TypeInv, Safe, NEW t \in Threads, Moves(t), NEW e \in Linked
  PROVE  packet'[e] = packet[e]
<1>1. CASE Resting(t) \/ Dropping(t) \/ Renewing(t)
  BY <1>1 DEF Resting, Dropping, Renewing, SameQueue
<1>2. CASE Unlinking(t)
  BY <1>2 DEF Unlinking, Unlink
<1>3. ASSUME NEW new, NEW p, Linking(new, t, p) PROVE packet'[e] = packet[e]
  BY <1>3, LinkAt
<1> QED
  BY <1>1, <1>2, <1>3 DEF Moves

LEMMA MovesOthers ==
  ASSUME TypeInv, Safe, NEW t \in Threads, Moves(t)
  PROVE  Others(t)
<1>1. CASE Resting(t) \/ Dropping(t) \/ Renewing(t)
  BY <1>1 DEF Resting, Dropping, Renewing, SameQueue
<1>2. CASE Unlinking(t)
  BY <1>2, UnlinkAt
<1>3. ASSUME NEW new, NEW p, Linking(new, t, p) PROVE Others(t)
  BY <1>3 DEF Linking
<1> QED
  BY <1>1, <1>2, <1>3 DEF Moves

(* Nobody but t itself makes t the owner of a mutex. *)
LEMMA StepOwners ==
  ASSUME TypeInv, NEW t \in Threads, Step(t), NEW u \in Threads \ {t},
         NEW q \in heap' \cup {empty_packet}, owner'[q] = u
  PROVE  owner[q] = u /\ q \in heap \cup {empty_packet}
<1> /\ heap \cup {empty_packet} \subseteq Cells /\ NULL \notin Threads
    /\ empty_packet \in Cells /\ Packets \subseteq Cells
  BY TypesAt, AddressAssumption DEF Cells
<1>1. CASE /\ heap' \subseteq heap
           /\ \/ UNCHANGED owner
              \/ owner' = [owner EXCEPT ![want[t]] = t]
              \/ owner' = [owner EXCEPT ![want[t]] = NULL]
  BY <1>1, TypeParts DEF PacketTypeOK
<1>2. CASE AddFreshPacket(t)
  <2>1. PICK p \in Packets : /\ heap' = heap \cup {p}
                             /\ owner' = [owner EXCEPT ![p] = NULL]
    BY <1>2 DEF AddFreshPacket
  <2>2. q \in Cells
    BY <2>1
  <2>3. q # p /\ owner[q] = u
    BY <2>1, <2>2, TypeParts DEF PacketTypeOK
  <2> QED
    BY <2>1, <2>3
<1>3. CASE QueueStep(t)
  <2>1. \/ UNCHANGED owner
        \/ owner' = [owner EXCEPT ![want[t]] = t]
        \/ owner' = [owner EXCEPT ![want[t]] = NULL]
    BY <1>3 DEF QueueStep, AddLock, AddFull, WalkPrev, WalkNext, DupPrev, InsPrev,
       AppPrev, UnlockCur, LoadIndex, AddStore, GetLock, GetFirst, GetSecond, GetEmpty,
       GetUnlockSecond, GetStore, GetUnlockFirst, GetUnlockHead, Crash, Lock, Unlock
  <2>2. heap' \subseteq heap
    BY <1>3 DEF QueueStep, AddLock, AddFull, WalkPrev, WalkNext, DupPrev, InsPrev,
       AppPrev, UnlockCur, LoadIndex, AddStore, GetLock, GetFirst, GetSecond, GetEmpty,
       GetUnlockSecond, GetStore, GetUnlockFirst, GetUnlockHead, Crash, Visit, Reject,
       pkts
  <2> QED
    BY <1>1, <2>1, <2>2
<1>4. CASE ProducerStep(t)
  <2>1. CASE Produce(t)
    BY <1>2, <2>1 DEF Produce
  <2>2. CASE RetryFull(t)
    BY <1>2, <2>2 DEF RetryFull
  <2>3. CASE RetryFreed(t) \/ Produced(t) \/ ProducerDone(t)
    BY <1>1, <2>3 DEF RetryFreed, Produced, ProducerDone, pkts
  <2> QED
    BY <1>4, <2>1, <2>2, <2>3 DEF ProducerStep
<1>5. CASE ConsumerStep(t)
  BY <1>1, <1>5 DEF ConsumerStep, Consume, Consumed, NothingConsumed, ConsumerDone, pkts
<1>6. CASE ObserverStep(t)
  BY <1>1, <1>6 DEF ObserverStep, Observe, ObsLock, ObsPrint, ObsMove, ObsPrev, ObsPeek,
     ObsNext, ObsLast, ObserverDone, Lock, Unlock, pkts
<1> QED
  BY <1>3, <1>4, <1>5, <1>6 DEF Step

(* The first element stays where it is while u owns it and the head. *)
LEMMA FirstKept ==
  ASSUME TypeInv, TypeInv', Safe, Safe', Held, NEW t \in Threads, Step(t), Moves(t),
         NEW u \in Workers \ {t}, pc[u] = "get.second"
  PROVE  next'[queue_head] = next[queue_head]
<1> SUFFICES ASSUME NEW first, NEW after,
                    first = next[queue_head], after = next'[queue_head]
             PROVE  after = first
  OBVIOUS
<1> u \in Threads /\ u # NULL
  BY SystemAssumption, AddressAssumption DEF Workers
<1>1. pc'[u] = "get.second"
  BY MovesOthers DEF Others
<1>2. /\ first # NULL /\ owner[packet[first]] = u /\ owner[empty_packet] = u
      /\ first \in Linked /\ Number(queue_head) < Number(first) /\ queue_head \in Linked
  BY LinkedPacket, TypesAt DEF Safe, ThreadsOK, WantOK, PlaceOK, HoldsHead
<1>3. after # NULL /\ owner'[packet'[after]] = u
  BY <1>1 DEF Safe, ThreadsOK, WantOK
<1>4. /\ after \in Linked' /\ Number(queue_head)' < Number(after)'
      /\ queue_head \in Linked'
  <2>1. queue_head \in Linked'
    BY InLinkedNext
  <2> QED
    BY <1>3, <2>1 DEF Safe, ChainOK, InOrder
<1>5. CASE SameQueue(t)
  <2>1. after \in Linked /\ first \in Linked'
    BY <1>2, <1>4, <1>5 DEF SameQueue
  <2>2. /\ Number(queue_head)' = Number(queue_head) /\ Number(first)' = Number(first)
        /\ Number(after)' = Number(after)
    BY <1>2, <1>5, <2>1 DEF SameQueue
  <2>3. Number(first) <= Number(after)
    BY <1>2, <1>4, <2>1, <2>2 DEF Safe, ChainOK, InOrder
  <2>4. Number(after)' <= Number(first)'
    BY <1>2, <1>4, <2>1, <2>2 DEF Safe, ChainOK, InOrder
  <2>5. Number(first) = Number(after)
    BY <1>2, <2>1, <2>2, <2>3, <2>4, LinkedPacket
  <2> QED
    BY <1>2, <2>1, <2>5 DEF Safe, ChainOK
<1>6. CASE Unlinking(t)
  BY <1>2, <1>6 DEF Unlinking
<1>7. ASSUME NEW new, NEW p, Linking(new, t, p) PROVE after = first
  <2>1. CASE p # queue_head
    BY <1>7, <2>1, LinkAt
  <2>2. CASE p = queue_head
    <3>1. after = new /\ packet'[new] = arg[t] /\ arg[t] \in heap
          /\ \A e \in Linked : packet[e] # arg[t]
      BY <1>7, <2>2, LinkAt DEF Linking, Safe, HandOK
    <3>2. owner[arg[t]] = u
      BY <1>3, <1>7, <3>1, StepOwners DEF Linking
    <3>3. Holds(u, arg[t])
      BY <3>1, <3>2 DEF Held
    <3>4. packet[queue_head] = empty_packet
      BY DEF Safe, HeapOK
    <3> QED
      BY <1>2, <3>1, <3>3, <3>4
      DEF Holds, Standing, HoldsWanted, HoldsHead, Taking
  <2> QED
    BY <2>1, <2>2
<1> QED
  BY <1>5, <1>6, <1>7 DEF Moves, Resting, Dropping, Renewing

LEMMA HeldByOthers ==
  ASSUME TypeInv, TypeInv', Safe, Safe', Held, NEW t \in Threads, Step(t), Moves(t),
         NEW u \in Workers \ {t}, NEW q \in heap' \cup {empty_packet}, owner'[q] = u
  PROVE  Holds(u, q)'
<1> u \in Threads
  BY SystemAssumption DEF Workers
<1>1. Holds(u, q)
  BY StepOwners DEF Held
<1>2. pc'[u] = pc[u] /\ cur'[u] = cur[u] /\ arg'[u] = arg[u] /\ want'[u] = want[u]
  BY MovesOthers DEF Others
<1>3. pc[u] \in Standing => packet'[cur[u]] = packet[cur[u]]
  BY MovesPacket DEF Safe, ThreadsOK, PlaceOK
<1>4. pc[u] = "get.second" =>
        packet'[next'[queue_head]] = packet[next[queue_head]]
  <2>1. pc[u] = "get.second" => next[queue_head] \in Linked
    BY LinkedPacket, TypesAt DEF Safe, ThreadsOK, WantOK
  <2> QED
    BY <2>1, FirstKept, MovesPacket
<1> QED
  BY <1>1, <1>2, <1>3, <1>4 DEF Holds

-----------------------------------------------------------------------------
(* What a step of t makes of its own mutexes, one lemma for each part of   *)
(* the code.                                                               *)

(* A lock adds the mutex that was wanted, an unlock takes it away. *)
LEMMA LockHeld ==
  ASSUME TypeInv, Held, NEW t \in Workers, Lock(t),
         NEW q \in heap \cup {empty_packet}, owner'[q] = t
  PROVE  q = want[t] \/ Holds(t, q)
<1> t \in Threads /\ q \in Cells
  BY SystemAssumption, TypesAt DEF Workers, Cells
<1> QED
  BY LockOwners DEF Held

LEMMA UnlockHeld ==
  ASSUME TypeInv, Held, Sound', NEW t \in Workers, Unlock(t),
         NEW q \in heap \cup {empty_packet}, owner'[q] = t
  PROVE  q # want[t] /\ Holds(t, q)
<1> t \in Threads /\ q \in Cells /\ t # NULL
  BY SystemAssumption, TypesAt, AddressAssumption DEF Workers, Cells
<1> QED
  BY UnlockOwners DEF Held

LEMMA AddLockHeld ==
  ASSUME TypeInv, TypeInv', Safe, Safe', Held, NEW t \in Producers, AddLock(t), Moves(t),
         NEW q \in heap' \cup {empty_packet}, owner'[q] = t
  PROVE  Holds(t, q)'
<1> t \in Threads /\ t \in Workers
  BY SystemAssumption DEF Workers
<1>1. pc[t] = "add.lock" /\ Lock(t) /\ want[t] = empty_packet
  BY DEF AddLock, Safe, ThreadsOK, WantOK
<1>2. q \in heap \cup {empty_packet}
  BY DEF AddLock, Visit, Reject
<1>3. q = empty_packet
  BY <1>1, <1>2, LockHeld
  DEF Holds, Standing, HoldsWanted, HoldsHead, Taking
<1>4. CASE Goto(t, "add.full", empty_packet)
  BY <1>3, <1>4, GotoAt DEF Holds, HoldsHead
<1>5. CASE Visit(t, queue_head)
  <2>1. cur'[t] = queue_head /\ packet'[queue_head] = empty_packet
    <3>1. cur' = [cur EXCEPT ![t] = queue_head]
      BY <1>5 DEF Visit
    <3>2. cur'[t] = queue_head
      BY <3>1, CurAt
    <3>3. packet'[queue_head] = empty_packet
      BY DEF Safe, HeapOK
    <3> QED
      BY <3>2, <3>3
  <2>2. Advance(t, queue_head)
    BY <1>1, <1>5, VisitHead DEF InHand, Adding
  <2>3. pc'[t] \in {"walk.next", "app.prev", "app.cur"}
    BY <2>2, GotoAt DEF Advance
  <2> QED
    BY <1>3, <2>1, <2>3 DEF Holds, Standing
<1> QED
  BY <1>4, <1>5 DEF AddLock

(* At the next element the mutexes of both are held, and no third one. *)
LEMMA WalkNextHeld ==
  ASSUME TypeInv, TypeInv', Safe, Safe', Held, NEW t \in Producers, WalkNext(t), Moves(t),
         NEW q \in heap' \cup {empty_packet}, owner'[q] = t
  PROVE  Holds(t, q)'
<1> DEFINE c == next[cur[t]]
<1> t \in Threads /\ t \in Workers
  BY SystemAssumption DEF Workers
<1>1. /\ pc[t] = "walk.next" /\ Lock(t) /\ Visit(t, c)
      /\ cur[t] \in Linked /\ c # NULL /\ want[t] = packet[c]
  BY DEF WalkNext, Safe, ThreadsOK, PlaceOK, WantOK, Standing
<1>2. q \in heap \cup {empty_packet}
  BY <1>1 DEF Visit, Reject
<1>3. q = packet[c] \/ q = packet[cur[t]]
  BY <1>1, <1>2, LockHeld
  DEF Holds, Standing, HoldsWanted, HoldsHead, Taking
<1>4. c \in Linked /\ prev[c] = cur[t] /\ prev[c] # NULL /\ packet[c] # NULL
  BY <1>1, LinkedPacket
<1>5. cur'[t] = c /\ packet'[c] = packet[c]
  BY <1>1, <1>4, CurAt, MovesPacket DEF Visit
<1>6. pc'[t] \in {"dup.prev", "ins.prev", "walk.prev"} /\ want'[t] = packet[cur[t]]
  <2>1. \/ Goto(t, "dup.prev", packet[cur[t]]) \/ Goto(t, "ins.prev", packet[cur[t]])
        \/ Goto(t, "walk.prev", packet[cur[t]])
    BY <1>1, <1>4 DEF Visit, InsertBefore
  <2> QED
    BY <2>1, GotoAt
<1> QED
  BY <1>3, <1>5, <1>6 DEF Holds, Standing, HoldsWanted

LEMMA AddHeld ==
  ASSUME TypeInv, TypeInv', Safe, Safe', Held, Sound', NEW t \in Producers, Moves(t),
         \/ AddFull(t) \/ WalkPrev(t) \/ DupPrev(t) \/ InsPrev(t) \/ AppPrev(t)
         \/ UnlockCur(t),
         NEW q \in heap' \cup {empty_packet}, owner'[q] = t
  PROVE  Holds(t, q)'
<1> t \in Threads /\ t \in Workers
  BY SystemAssumption DEF Workers
<1>1. Unlock(t) /\ q \in heap \cup {empty_packet}
  BY DEF AddFull, WalkPrev, DupPrev, InsPrev, AppPrev, UnlockCur, Reject, pkts
<1>2. q # want[t] /\ Holds(t, q)
  BY <1>1, UnlockHeld
<1>3. WantOK(t)
  BY DEF Safe, ThreadsOK
<1>4. CASE AddFull(t) \/ UnlockCur(t)
  <2>1. pc[t] \in {"add.full", "ins.cur", "app.cur"}
    BY <1>4 DEF AddFull, UnlockCur
  <2> QED
    BY <1>2, <1>3, <2>1 DEF WantOK, Holds, Standing, HoldsWanted, HoldsHead, Taking
<1>5. CASE WalkPrev(t) \/ DupPrev(t) \/ InsPrev(t) \/ AppPrev(t)
  <2>1. pc[t] \in {"walk.prev", "dup.prev", "ins.prev", "app.prev"} /\ UNCHANGED cur
    BY <1>5 DEF WalkPrev, DupPrev, InsPrev, AppPrev, locals
  <2>2. q = packet[cur[t]]
    BY <1>2, <2>1 DEF Holds, Standing, HoldsWanted, HoldsHead, Taking
  <2>3. pc'[t] \in {"walk.next", "app.prev", "app.cur", "dup", "ins.cur"}
    BY <1>5, GotoAt DEF WalkPrev, DupPrev, InsPrev, AppPrev, Advance, Reject
  <2>4. packet'[cur[t]] = packet[cur[t]]
    BY <2>1, MovesPacket DEF Safe, ThreadsOK, PlaceOK, Standing
  <2> QED
    BY <2>1, <2>2, <2>3, <2>4 DEF Holds, Standing
<1> QED
  BY <1>4, <1>5

(* Steps that touch no mutex, and hold the same before and after. *)
LEMMA IdleHeld ==
  ASSUME TypeInv, Held, Sound', NEW t \in Workers,
         \/ LoadIndex(t) \/ AddStore(t) \/ Produced(t) \/ ProducerDone(t)
         \/ Consume(t) \/ NothingConsumed(t) \/ ConsumerDone(t) \/ RetryFreed(t),
         NEW q \in heap' \cup {empty_packet}, owner'[q] = t
  PROVE  Holds(t, q)'
<1> t \in Threads
  BY SystemAssumption DEF Workers
<1>1. ~RetryFreed(t)
  BY DEF RetryFreed, Sound
<1>2. Holds(t, q)
  BY <1>1 DEF Held, LoadIndex, AddStore, Produced, ProducerDone, Consume,
     NothingConsumed, ConsumerDone, pkts
<1>3. CASE LoadIndex(t)
  <2>1. pc[t] = "get.load" /\ Goto(t, "get.store", NULL) /\ UNCHANGED arg
    BY <1>2, <1>3 DEF LoadIndex, Holds, Standing, HoldsWanted, HoldsHead, Taking
  <2>2. pc'[t] = "get.store" /\ arg'[t] = arg[t]
    BY <2>1, GotoAt
  <2> QED
    BY <1>2, <2>1, <2>2 DEF Holds, Standing, HoldsWanted, HoldsHead, Taking
<1>4. CASE ~LoadIndex(t)
  <2>1. pc[t] \in {"add.store", "added", "producer", "consumer", "empty"}
    BY <1>1, <1>4 DEF AddStore, Produced, ProducerDone, Consume, NothingConsumed,
       ConsumerDone
  <2> QED
    BY <1>2, <2>1 DEF Holds, Standing, HoldsWanted, HoldsHead, Taking
<1> QED
  BY <1>3, <1>4

(* A new packet has a free mutex. *)
LEMMA FreshHeld ==
  ASSUME TypeInv, Held, NEW t \in Producers, Produce(t) \/ RetryFull(t),
         NEW q \in heap' \cup {empty_packet}
  PROVE  owner'[q] # t
<1> /\ t \in Threads /\ t \in Workers /\ t # NULL
    /\ heap \cup {empty_packet} \cup Packets \subseteq Cells
  BY SystemAssumption, AddressAssumption, TypesAt DEF Workers, Cells
<1>1. AddFreshPacket(t)
  BY DEF Produce, RetryFull
<1>2. PICK p \in Packets : heap' = heap \cup {p} /\ owner' = [owner EXCEPT ![p] = NULL]
  BY <1>1 DEF AddFreshPacket
<1>3. q = p => owner'[q] = NULL
  BY <1>2, TypeParts DEF PacketTypeOK
<1>4. q # p => q \in heap \cup {empty_packet} /\ owner'[q] = owner[q]
  BY <1>2, TypeParts DEF PacketTypeOK
<1>5. pc[t] \in {"producer", "full"}
  BY DEF Produce, RetryFull
<1>6. ~Holds(t, q)
  BY <1>5 DEF Holds, Standing, HoldsWanted, HoldsHead, Taking
<1> QED
  BY <1>3, <1>4, <1>6 DEF Held

(* get_paket on its way to the first two elements. *)
LEMMA GetLooksHeld ==
  ASSUME TypeInv, Safe, Safe', Held, NEW t \in Consumers,
         GetLock(t) \/ GetFirst(t) \/ GetSecond(t),
         NEW q \in heap' \cup {empty_packet}, owner'[q] = t
  PROVE  Holds(t, q)'
<1> DEFINE first == next[queue_head]
<1> t \in Threads /\ t \in Workers
  BY SystemAssumption DEF Workers
<1>1. Lock(t) /\ q \in heap \cup {empty_packet}
  BY DEF GetLock, GetFirst, GetSecond, pkts
<1>2. (q = want[t] \/ Holds(t, q)) /\ WantOK(t)
  BY <1>1, LockHeld DEF Safe, ThreadsOK
<1>3. ASSUME first # NULL, Unlink(t),
             q \in {empty_packet, packet[first]}
                     \cup (IF next[first] # NULL THEN {packet[next[first]]} ELSE {})
      PROVE  Holds(t, q)'
  <2>1. arg'[t] = packet[first]
    BY <1>3, ArgAt DEF Unlink
  <2>2. \/ /\ pc'[t] = "get.unlockSecond" /\ next[first] # NULL
           /\ want'[t] = packet[next[first]]
        \/ pc'[t] = "get.load" /\ next[first] = NULL
    BY <1>3, GotoAt DEF Unlink
  <2> QED
    BY <1>3, <2>1, <2>2 DEF Holds, Standing, HoldsWanted, HoldsHead, Taking
<1>4. CASE GetLock(t)
  <2>1. pc[t] = "get.lock"
    BY <1>4 DEF GetLock
  <2>2. q = empty_packet
    BY <1>2, <2>1 DEF WantOK, Holds, Standing, HoldsWanted, HoldsHead, Taking
  <2>3. pc'[t] \in {"get.first", "get.empty"}
    BY <1>4, GotoAt DEF GetLock, Unlink
  <2> QED
    BY <2>2, <2>3 DEF Holds, HoldsHead
<1>5. CASE GetFirst(t)
  <2>1. pc[t] = "get.first" /\ first # NULL /\ want[t] = packet[first]
    BY <1>2, <1>5 DEF GetFirst, WantOK
  <2>2. q \in {empty_packet, packet[first]}
    BY <1>2, <2>1 DEF Holds, Standing, HoldsWanted, HoldsHead, Taking
  <2>3. CASE Unlink(t)
    BY <1>3, <2>1, <2>2, <2>3
  <2>4. CASE ~Unlink(t)
    <3>1. pc'[t] = "get.second" /\ UNCHANGED <<packet, next>>
      BY <1>5, <2>4, GotoAt DEF GetFirst, list
    <3> QED
      BY <2>2, <3>1 DEF Holds, HoldsHead
  <2> QED
    BY <2>3, <2>4
<1>6. CASE GetSecond(t)
  <2>1. /\ pc[t] = "get.second" /\ Unlink(t) /\ first # NULL /\ next[first] # NULL
        /\ want[t] = packet[next[first]]
    BY <1>2, <1>6 DEF GetSecond, WantOK
  <2>2. q \in {empty_packet, packet[first], packet[next[first]]}
    BY <1>2, <2>1 DEF Holds, Standing, HoldsWanted, HoldsHead, Taking
  <2> QED
    BY <1>3, <2>1, <2>2
<1> QED
  BY <1>4, <1>5, <1>6

(* get_paket on its way back, and the consumer's free. *)
LEMMA GetDoneHeld ==
  ASSUME TypeInv, Safe, Safe', Held, Sound', NEW t \in Consumers,
         \/ GetEmpty(t) \/ GetUnlockSecond(t) \/ GetStore(t) \/ GetUnlockFirst(t)
         \/ GetUnlockHead(t) \/ Consumed(t),
         NEW q \in heap' \cup {empty_packet}, owner'[q] = t
  PROVE  Holds(t, q)'
<1> /\ t \in Threads /\ t \in Workers
    /\ heap \cup {empty_packet} \subseteq Cells /\ t # NULL
  BY SystemAssumption, AddressAssumption, TypesAt DEF Workers, Cells
<1>1. q \in heap \cup {empty_packet}
  BY DEF GetEmpty, GetUnlockSecond, GetStore, GetUnlockFirst, GetUnlockHead, Consumed,
     pkts
<1>2. Holds(t, q) /\ (Unlock(t) => q # want[t])
  BY <1>1, UnlockHeld DEF Held, GetEmpty, GetUnlockSecond, GetStore, GetUnlockFirst,
     GetUnlockHead, Consumed
<1>3. WantOK(t)
  BY DEF Safe, ThreadsOK
<1>4. CASE GetEmpty(t)
  BY <1>2, <1>3, <1>4
  DEF GetEmpty, WantOK, Holds, Standing, HoldsWanted, HoldsHead, Taking
<1>5. CASE GetUnlockHead(t)
  <2>1. pc[t] = "get.unlockHead" /\ q # empty_packet /\ UNCHANGED arg
    BY <1>2, <1>3, <1>5 DEF GetUnlockHead, WantOK
  <2>2. q = arg[t]
    BY <1>2, <2>1 DEF Holds, Standing, HoldsWanted, HoldsHead, Taking
  <2>3. pc'[t] = "got"
    BY <1>5, GotoAt DEF GetUnlockHead, Return
  <2> QED
    BY <2>1, <2>2, <2>3 DEF Holds
<1>6. CASE GetUnlockSecond(t) \/ GetStore(t) \/ GetUnlockFirst(t)
  <2>1. pc[t] \in {"get.unlockSecond", "get.store", "get.unlockFirst"} /\ UNCHANGED arg
        /\ (pc[t] = "get.unlockSecond" => Unlock(t))
    BY <1>6 DEF GetUnlockSecond, GetStore, GetUnlockFirst, locals
  <2>2. q = empty_packet \/ q = arg[t]
    BY <1>2, <2>1 DEF Holds, Standing, HoldsWanted, HoldsHead, Taking
  <2>3. pc'[t] \in {"get.load", "get.unlockFirst", "get.unlockHead"}
    BY <1>6, GotoAt DEF GetUnlockSecond, GetStore, GetUnlockFirst
  <2> QED
    BY <2>1, <2>2, <2>3 DEF Holds, HoldsHead, Taking
<1>7. CASE Consumed(t)
  <2>1. pc[t] = "got" /\ heap' = heap \ {arg[t]}
    BY <1>7 DEF Consumed
  <2>2. q = arg[t]
    BY <1>2, <2>1 DEF Holds, Standing, HoldsWanted, HoldsHead, Taking
  <2>3. arg[t] \in heap /\ empty_packet \notin heap
    BY <2>1, TypesAt, AddressAssumption DEF Safe, HandOK, InHand
  <2> QED
    BY <2>1, <2>2, <2>3
<1> QED
  BY <1>4, <1>5, <1>6, <1>7

-----------------------------------------------------------------------------
(* The invariant.                                                          *)

LEMMA WorkerStep ==
  ASSUME TypeInv, Safe, NEW t \in Workers, Step(t)
  PROVE  \/ t \in Producers /\ (ProducerStep(t) \/ LoadIndex(t) \/ AddStore(t)
              \/ AddLock(t) \/ AddFull(t) \/ WalkPrev(t) \/ WalkNext(t) \/ DupPrev(t)
              \/ InsPrev(t) \/ AppPrev(t) \/ UnlockCur(t))
         \/ t \in Consumers /\ (ConsumerStep(t) \/ LoadIndex(t) \/ GetLock(t)
              \/ GetFirst(t) \/ GetSecond(t) \/ GetEmpty(t) \/ GetUnlockSecond(t)
              \/ GetStore(t) \/ GetUnlockFirst(t) \/ GetUnlockHead(t))
<1> t \in Threads /\ t \notin Observers /\ ~Crash(t)
  BY SystemAssumption, NoCrash DEF Workers, Crash
<1>1. pc[t] \in Adding => t \in Producers
  BY TypeParts, Roles
<1>2. pc[t] \in Getting => t \in Consumers
  BY TypeParts, Roles
<1>3. CASE QueueStep(t)
  <2>1. CASE AddLock(t) \/ AddFull(t) \/ WalkPrev(t) \/ WalkNext(t) \/ DupPrev(t)
             \/ InsPrev(t) \/ AppPrev(t) \/ UnlockCur(t) \/ AddStore(t)
    <3>1. pc[t] \in Adding
      BY <2>1 DEF AddLock, AddFull, WalkPrev, WalkNext, DupPrev, InsPrev, AppPrev,
                  UnlockCur, AddStore, Adding
    <3> QED
      BY <1>1, <2>1, <3>1
  <2>2. CASE GetLock(t) \/ GetFirst(t) \/ GetSecond(t) \/ GetEmpty(t)
             \/ GetUnlockSecond(t) \/ GetStore(t) \/ GetUnlockFirst(t)
             \/ GetUnlockHead(t)
    <3>1. pc[t] \in Getting
      BY <2>2 DEF GetLock, GetFirst, GetSecond, GetEmpty, GetUnlockSecond, GetStore,
                  GetUnlockFirst, GetUnlockHead, Getting
    <3> QED
      BY <1>2, <2>2, <3>1
  <2>3. CASE LoadIndex(t)
    BY <2>3 DEF Workers
  <2> QED
    BY <1>3, <2>1, <2>2, <2>3 DEF QueueStep
<1> QED
  BY <1>3 DEF Step

LEMMA HeldStep ==
  ASSUME TypeInv, TypeInv', Safe, Sound', Held, NEW t \in Threads, Step(t)
  PROVE  Held'
<1>1. Safe' /\ Moves(t)
  BY StepSafe
<1> SUFFICES ASSUME NEW u \in Workers, NEW q \in heap' \cup {empty_packet}, owner'[q] = u
             PROVE  Holds(u, q)'
  BY DEF Held
<1>2. CASE u # t
  BY <1>1, <1>2, HeldByOthers
<1>3. CASE u = t
  <2>1. CASE t \in Producers
    <3>1. CASE ProducerStep(t)
      BY <1>3, <2>1, <3>1, FreshHeld, IdleHeld DEF ProducerStep
    <3>2. CASE LoadIndex(t) \/ AddStore(t)
      BY <1>3, <3>2, IdleHeld
    <3>3. CASE AddLock(t) \/ WalkNext(t)
      BY <1>1, <1>3, <2>1, <3>3, AddLockHeld, WalkNextHeld
    <3>4. CASE AddFull(t) \/ WalkPrev(t) \/ DupPrev(t) \/ InsPrev(t) \/ AppPrev(t)
               \/ UnlockCur(t)
      BY <1>1, <1>3, <2>1, <3>4, AddHeld
    <3>5. t \notin Consumers
      BY <2>1, SystemAssumption
    <3> QED
      BY <1>3, <3>1, <3>2, <3>3, <3>4, <3>5, WorkerStep
  <2>2. CASE t \in Consumers
    <3>1. CASE ConsumerStep(t) \/ LoadIndex(t)
      BY <1>1, <1>3, <2>2, <3>1, IdleHeld, GetDoneHeld DEF ConsumerStep
    <3>2. CASE GetLock(t) \/ GetFirst(t) \/ GetSecond(t)
      BY <1>1, <1>3, <2>2, <3>2, GetLooksHeld
    <3>3. CASE GetEmpty(t) \/ GetUnlockSecond(t) \/ GetStore(t) \/ GetUnlockFirst(t)
               \/ GetUnlockHead(t)
      BY <1>1, <1>3, <2>2, <3>3, GetDoneHeld
    <3>4. t \notin Producers
      BY <2>2, SystemAssumption
    <3> QED
      BY <1>3, <3>1, <3>2, <3>3, <3>4, WorkerStep
  <2> QED
    BY <1>3, <2>1, <2>2 DEF Workers
<1> QED
  BY <1>2, <1>3

LEMMA HeldInvInit == Init => HeldInv /\ FiniteList
<1> SUFFICES ASSUME Init PROVE Held /\ FiniteList
  BY DEF HeldInv
<1>1. live = {} /\ \A q \in Cells : owner[q] = NULL
  BY DEF Init, QueueInit
<1>2. heap = {} /\ empty_packet \in Cells /\ \A t \in Workers : t # NULL
  BY SystemAssumption, AddressAssumption DEF Init, QueueInit, Cells, Workers
<1> QED
  BY <1>1, <1>2, FS_EmptySet DEF Held, FiniteList

LEMMA HeldInvStep == TypeInv /\ SafeInv /\ HeldInv /\ [Next]_vars => HeldInv'
<1> SUFFICES ASSUME TypeInv, SafeInv, HeldInv, [Next]_vars, Sound' PROVE Held'
  BY DEF HeldInv
<1>1. Sound /\ Safe /\ Held /\ TypeInv'
  BY FaultsStay, TypeInvStep DEF Sound, SafeInv, HeldInv
<1>2. CASE UNCHANGED vars
  BY <1>1, <1>2 DEF vars, queueVars, list, pkts, locals, Held, Holds
<1>3. ASSUME NEW t \in Threads, Step(t) PROVE Held'
  BY <1>1, <1>3, HeldStep
<1> QED
  BY <1>2, <1>3 DEF Next

LEMMA FiniteListStep == FiniteList /\ [Next]_vars => FiniteList'
<1> SUFFICES ASSUME FiniteList, [Next]_vars PROVE IsFiniteSet(live')
  BY DEF FiniteList
<1>1. CASE UNCHANGED live
  BY <1>1 DEF FiniteList
<1>2. ASSUME NEW e, live' = live \cup {e} PROVE IsFiniteSet(live')
  BY <1>2, FS_AddElement DEF FiniteList
<1>3. ASSUME NEW e, live' = live \ {e} PROVE IsFiniteSet(live')
  BY <1>3, FS_RemoveElement DEF FiniteList
<1>4. UNCHANGED live \/ \E e : live' = live \cup {e} \/ live' = live \ {e}
  <2>1. ASSUME NEW t \in Threads, NEW c, Advance(t, c) \/ InsertBefore(t, c)
        PROVE  UNCHANGED live \/ \E e : live' = live \cup {e}
    BY <2>1 DEF Advance, InsertBefore, Link, list
  <2>2. ASSUME NEW t \in Threads, NEW c, Visit(t, c)
        PROVE  UNCHANGED live \/ \E e : live' = live \cup {e}
    BY <2>1, <2>2 DEF Visit, list
  <2>3. ASSUME NEW t \in Threads, QueueStep(t)
        PROVE  UNCHANGED live \/ \E e : live' = live \cup {e} \/ live' = live \ {e}
    <3>1. CASE AddLock(t) \/ WalkPrev(t) \/ WalkNext(t)
      BY <2>1, <2>2, <3>1 DEF AddLock, WalkPrev, WalkNext, list
    <3>2. CASE AddFull(t) \/ DupPrev(t) \/ InsPrev(t) \/ AppPrev(t) \/ UnlockCur(t)
               \/ LoadIndex(t) \/ AddStore(t) \/ Crash(t)
      BY <3>2 DEF AddFull, DupPrev, InsPrev, AppPrev, UnlockCur, LoadIndex, AddStore,
         Crash, list
    <3>3. CASE GetLock(t) \/ GetFirst(t) \/ GetSecond(t) \/ GetEmpty(t)
               \/ GetUnlockSecond(t) \/ GetUnlockFirst(t) \/ GetUnlockHead(t)
      BY <3>3 DEF GetLock, GetFirst, GetSecond, GetEmpty, GetUnlockSecond,
         GetUnlockFirst, GetUnlockHead, Unlink, list
    <3>4. CASE GetStore(t)
      BY <3>4 DEF GetStore
    <3> QED
      BY <2>3, <3>1, <3>2, <3>3, <3>4 DEF QueueStep
  <2>4. ASSUME NEW t \in Threads, ProducerStep(t) \/ ConsumerStep(t) \/ ObserverStep(t)
        PROVE  UNCHANGED live
    BY <2>4 DEF ProducerStep, Produce, RetryFull, AddFreshPacket, RetryFreed, Produced,
       ProducerDone, ConsumerStep, Consume, Consumed, NothingConsumed, ConsumerDone, ObserverStep,
       Observe, ObsLock, ObsPrint, ObsMove, ObsPrev, ObsPeek, ObsNext, ObsLast,
       ObserverDone, list
  <2>5. CASE UNCHANGED vars
    BY <2>5 DEF vars, queueVars, list
  <2> QED
    BY <2>3, <2>4, <2>5 DEF Next, Step
<1> QED
  BY <1>1, <1>2, <1>3, <1>4

-----------------------------------------------------------------------------
(* Who waits, waits for a mutex further up the list than any it owns.      *)

(* The element whose mutex t waits for. *)
WaitsAt(t, e) == /\ t \in Workers /\ Blocked(t)
                 /\ e \in Linked /\ want[t] = packet[e]

LEMMA BlockedWaits ==
  ASSUME TypeInv, Safe, NEW t \in Workers, Blocked(t)
  PROVE  \E e : WaitsAt(t, e)
<1>1. t \in Threads /\ t \notin Observers
  BY SystemAssumption DEF Workers
<1>2. WantOK(t) /\ PlaceOK(t) /\ packet[queue_head] = empty_packet
      /\ queue_head \in Linked
  BY <1>1, TypesAt DEF Safe, ThreadsOK, HeapOK
<1>3. pc[t] \in {"add.lock", "walk.next", "get.lock", "get.first", "get.second"}
  <2>1. pc[t] \in Labels(t)
    BY <1>1, TypesAt
  <2> QED
    BY <1>1, <2>1 DEF Blocked, Labels, Workers, Adding, Getting
<1>4. CASE pc[t] \in {"add.lock", "get.lock"}
  BY <1>2, <1>4 DEF WantOK, WaitsAt
<1>5. CASE pc[t] = "walk.next"
  <2>1. next[cur[t]] \in Linked /\ want[t] = packet[next[cur[t]]]
    BY <1>2, <1>5, LinkedPacket DEF WantOK, PlaceOK, Standing
  <2> QED
    BY <2>1 DEF WaitsAt
<1>6. CASE pc[t] = "get.first"
  <2>1. next[queue_head] \in Linked /\ want[t] = packet[next[queue_head]]
    BY <1>2, <1>6, LinkedPacket DEF WantOK
  <2> QED
    BY <2>1 DEF WaitsAt
<1>7. CASE pc[t] = "get.second"
  <2>1. next[queue_head] \in Linked
    BY <1>2, <1>7, LinkedPacket DEF WantOK
  <2>2. next[next[queue_head]] \in Linked /\ want[t] = packet[next[next[queue_head]]]
    BY <1>2, <1>7, <2>1, LinkedPacket DEF WantOK
  <2> QED
    BY <2>2 DEF WaitsAt
<1> QED
  BY <1>3, <1>4, <1>5, <1>6, <1>7

LEMMA WaitsUpwards ==
  ASSUME TypeInv, Safe, Held, NEW u, NEW f, WaitsAt(u, f),
         NEW e \in Linked, owner[packet[e]] = u
  PROVE  Number(e) < Number(f)
<1>1. u \in Threads /\ u \in Workers /\ u \notin Observers
  BY SystemAssumption DEF WaitsAt, Workers
<1>2. WantOK(u) /\ PlaceOK(u) /\ packet[queue_head] = empty_packet
      /\ queue_head \in Linked
  BY <1>1, TypesAt DEF Safe, ThreadsOK, HeapOK
<1>3. Holds(u, packet[e])
  BY <1>1, LinkedPacket DEF Held
<1>4. pc[u] \in {"add.lock", "walk.next", "get.lock", "get.first", "get.second"}
  <2>1. pc[u] \in Labels(u)
    BY <1>1, TypesAt
  <2> QED
    BY <1>1, <2>1 DEF WaitsAt, Blocked, Labels, Workers, Adding, Getting
<1>5. ASSUME NEW g \in Linked, packet[g] = packet[e] PROVE g = e
  BY <1>5 DEF Number, Safe, ChainOK
<1>6. ASSUME NEW g \in Linked, packet[g] = packet[f] PROVE g = f
  BY <1>6 DEF Number, Safe, ChainOK, WaitsAt
<1>7. CASE pc[u] = "walk.next"
  <2>1. cur[u] \in Linked /\ packet[cur[u]] = packet[e]
    BY <1>2, <1>3, <1>7
    DEF PlaceOK, Holds, Standing, HoldsWanted, HoldsHead, Taking
  <2>2. next[cur[u]] \in Linked /\ packet[next[cur[u]]] = packet[f]
        /\ Number(cur[u]) < Number(next[cur[u]])
    BY <1>2, <1>7, <2>1, LinkedPacket DEF WantOK, WaitsAt
  <2> QED
    BY <1>5, <1>6, <2>1, <2>2
<1>8. CASE pc[u] = "get.first"
  <2>1. packet[e] = packet[queue_head]
    BY <1>2, <1>3, <1>8 DEF Holds, Standing, HoldsWanted, HoldsHead, Taking
  <2>2. next[queue_head] \in Linked /\ packet[next[queue_head]] = packet[f]
        /\ Number(queue_head) < Number(next[queue_head])
    BY <1>2, <1>8, LinkedPacket DEF WantOK, WaitsAt
  <2> QED
    BY <1>2, <1>5, <1>6, <2>1, <2>2
<1>9. CASE pc[u] = "get.second"
  <2> DEFINE first == next[queue_head]
  <2>1. packet[e] \in {packet[queue_head], packet[first]}
    BY <1>2, <1>3, <1>9 DEF Holds, Standing, HoldsWanted, HoldsHead, Taking
  <2>2. first \in Linked /\ Number(queue_head) < Number(first)
    BY <1>2, <1>9, LinkedPacket DEF WantOK
  <2>3. /\ next[first] \in Linked /\ packet[next[first]] = packet[f]
        /\ Number(first) < Number(next[first])
    BY <1>2, <1>9, <2>2, LinkedPacket DEF WantOK, WaitsAt
  <2>4. f = next[first] /\ e \in {queue_head, first}
    BY <1>2, <1>5, <1>6, <2>1, <2>2, <2>3
  <2> QED
    BY <1>2, <2>2, <2>3, <2>4, LinkedPacket
<1>10. CASE pc[u] \in {"add.lock", "get.lock"}
  BY <1>3, <1>10 DEF Holds, Standing, HoldsWanted, HoldsHead, Taking
<1> QED
  BY <1>4, <1>7, <1>8, <1>9, <1>10

(* In a finite list there is nothing above every element. *)
LEMMA SomeTop ==
  ASSUME TypeInv, Safe, FiniteList, NEW T \in SUBSET Linked, T # {}
  PROVE  \E e \in T : \A f \in T : ~(Number(e) < Number(f))
<1> DEFINE Above(e) == {g \in Linked : Number(e) < Number(g)}
           S == {Above(e) : e \in T}
<1>1. IsFiniteSet(Linked)
  <2>1. IsFiniteSet(live \cup {queue_head})
    BY FS_AddElement DEF FiniteList
  <2>2. Linked \in SUBSET (live \cup {queue_head})
    BY InLinked
  <2> QED
    BY <2>1, <2>2, FS_Subset
<1>2. \A U \in SUBSET Linked : IsFiniteSet(U)
  BY <1>1, FS_Subset
<1>3. S \subseteq FiniteSubsetsOf(Linked) /\ S # {}
  BY <1>2 DEF FiniteSubsetsOf
<1>4. PICK x \in S : \A y \in S : <<y, x>> \notin StrictSubsetOrdering(Linked)
  BY <1>3, FS_StrictSubsetOrderingWellFounded, WFMin
<1>5. PICK e \in T : x = Above(e)
  BY <1>4
<1>6. ASSUME NEW f \in T, Number(e) < Number(f) PROVE FALSE
  <2>1. \A g \in Linked : Number(g) \in Int
    BY LinkedPacket
  <2>2. Above(f) \subseteq Above(e)
    BY <1>6, <2>1
  <2>3. f \in Above(e) /\ f \notin Above(f)
    BY <1>6, <2>1
  <2>4. <<Above(f), Above(e)>> \in StrictSubsetOrdering(Linked)
    BY <2>2, <2>3 DEF StrictSubsetOrdering
  <2> QED
    BY <1>4, <1>5, <2>4
<1> QED
  BY <1>5, <1>6

(* Whoever owns an allocated packet's mutex is not done. *)
LEMMA OwnerBusy ==
  ASSUME TypeInv, Safe, Held, NEW t, NEW e, WaitsAt(t, e), owner[want[t]] \in Workers
  PROVE  pc[owner[want[t]]] # "done"
<1>1. want[t] \in heap \cup {empty_packet}
  BY LinkedPacket DEF WaitsAt
<1>2. Holds(owner[want[t]], want[t])
  BY <1>1 DEF Held
<1> QED
  BY <1>2 DEF Holds, Standing, HoldsWanted, HoldsHead, Taking

LEMMA NoCircleFollows == TypeInv /\ SafeInv /\ HeldInv /\ FiniteList => NoCircleWhileSound
<1> SUFFICES ASSUME TypeInv, Safe, Held, FiniteList,
                    NEW T \in (SUBSET (Producers \cup Consumers)) \ {{}}
             PROVE  \E t \in T : ~(Blocked(t) /\ owner[want[t]] \in T)
  BY DEF SafeInv, HeldInv, NoCircleWhileSound
<1> SUFFICES ASSUME \A t \in T : Blocked(t) /\ owner[want[t]] \in T
             PROVE  FALSE
  OBVIOUS
<1>0. T \subseteq Workers /\ T # {}
  BY DEF Workers
<1> DEFINE E == {e \in Linked : \E t \in T : WaitsAt(t, e)}
<1>1. \A t \in T : \E e \in E : WaitsAt(t, e)
  BY <1>0, BlockedWaits DEF WaitsAt
<1>2. PICK e \in E : \A f \in E : ~(Number(e) < Number(f))
  BY <1>0, <1>1, SomeTop
<1>3. PICK t \in T : WaitsAt(t, e)
  BY <1>2
<1>4. PICK u \in T : owner[packet[e]] = u
  BY <1>3 DEF WaitsAt
<1>5. PICK f \in E : WaitsAt(u, f)
  BY <1>1
<1> QED
  BY <1>2, <1>4, <1>5, WaitsUpwards

(* Producers and consumers take mutexes in list order (queue.c:31, 77, 103 *)
(* to 110), so as long as Sound holds they never wait for each other in a  *)
(* circle, however many they are and whatever an observer does.            *)
THEOREM NoCircle == Spec => []NoCircleWhileSound
BY NoCircleFollows, TypeInvInit, TypeInvStep, SafeInvInit, SafeInvStep, HeldInvInit,
   HeldInvStep, FiniteListStep, PTL DEF Spec

(* Without observers, then, somebody can go on until everybody is done.    *)
(* An observer may wait for ever for the mutex of a packet that has been   *)
(* freed (observer.c:45).                                                  *)
THEOREM NoDeadlock ==
  ASSUME Observers = {}
  PROVE  Spec => []NoDeadlockWhileSound
<1>1. TypeInv /\ SafeInv /\ HeldInv /\ FiniteList => NoDeadlockWhileSound
  <2> SUFFICES ASSUME TypeInv, Safe, Held, NoCircleWhileSound, Sound,
                      NEW t0 \in Threads, pc[t0] # "done",
                      \A t \in Threads : pc[t] # "done" => Blocked(t)
               PROVE  FALSE
    BY NoCircleFollows DEF SafeInv, HeldInv, NoDeadlockWhileSound, AllDone
  <2> DEFINE T == {t \in Threads : pc[t] # "done"}
  <2>1. Threads = Workers
    BY SystemAssumption DEF Workers
  <2>2. \A t \in T : owner[want[t]] \in T
    <3> SUFFICES ASSUME NEW t \in T PROVE owner[want[t]] \in T
      OBVIOUS
    <3>1. PICK e : WaitsAt(t, e)
      BY <2>1, BlockedWaits
    <3>2. owner[want[t]] \in Threads
      BY <3>1, LinkedPacket, TypesAt DEF WaitsAt, Blocked
    <3> QED
      BY <2>1, <3>1, <3>2, OwnerBusy
  <2> QED
    BY <2>1, <2>2 DEF NoCircleWhileSound, Workers
<1> QED
  BY <1>1, TypeInvInit, TypeInvStep, SafeInvInit, SafeInvStep, HeldInvInit, HeldInvStep,
     FiniteListStep, PTL DEF Spec
=============================================================================
