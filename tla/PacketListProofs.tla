--------------------------- MODULE PacketListProofs ---------------------------
(***************************************************************************)
(* Proofs about PacketSystem: hand-over-hand locking keeps the list in     *)
(* order and every thread off freed memory, for any number of producers,   *)
(* consumers and observers, as long as no mutex is stolen, none in freed   *)
(* memory used and no freed packet added again.                            *)
(*                                                                         *)
(* The invariant speaks of states in which none of that has happened       *)
(* (Sound).  It says of the list what InOrder does not: numbers differ and *)
(* prev is the inverse of next.  Of each thread it says which mutexes it   *)
(* owns at each pc, and that the mutex it names next is still the one of   *)
(* the neighbour it was computed from.                                     *)
(***************************************************************************)
EXTENDS PacketSystemProofs, FiniteSetTheorems

(* A producer has locked the packet of its current element. *)
Standing == {"walk.prev", "walk.next", "dup.prev", "ins.prev", "ins.cur",
             "app.prev", "app.cur", "dup"}

(* A thread has locked the head, and is not standing on it. *)
HoldsHead == {"add.full", "get.first", "get.second", "get.empty",
              "get.unlockSecond", "get.load", "get.store", "get.unlockFirst",
              "get.unlockHead"}

(* A thread also holds the mutex it is about to release. *)
HoldsWanted == {"walk.prev", "dup.prev", "ins.prev", "get.unlockSecond"}

(* Where a worker has no packet, or none yet. *)
NoPacket == {"producer", "consumer", "done", "get.lock", "get.first", "get.second",
             "get.empty", "empty"}

Workers == Producers \cup Consumers

HeapOK ==
  /\ packet[queue_head] = empty_packet /\ num[empty_packet] = -1
  /\ \A p \in heap : num[p] \in Nums
  /\ \A e \in live : packet[e] \in heap
  /\ \A e, f \in live : packet[e] = packet[f] => e = f
  /\ \A e \in Nodes \ (live \cup {queue_head}) : packet[e] = NULL

ChainOK ==
  /\ InOrder
  /\ \A e, f \in Linked : Number(e) = Number(f) => e = f
  /\ \A e \in Linked \ {queue_head} : prev[e] \in Linked /\ next[prev[e]] = e

HandOK ==
  \A t \in Threads : InHand(t) =>
    /\ arg[t] \in heap
    /\ \A e \in Linked : packet[e] # arg[t]
    /\ \A u \in Threads \ {t} : InHand(u) => arg[u] # arg[t]

(* Where a thread is, and what it owns. *)
PlaceOK(t) ==
  /\ t \in Workers /\ pc[t] \notin Standing \cup Taking => cur[t] = NULL
  /\ pc[t] \in {"observer", "done"} => cur[t] = NULL
  /\ pc[t] \in Standing => cur[t] \in Linked /\ owner[packet[cur[t]]] = t
  /\ pc[t] \in HoldsHead => owner[empty_packet] = t
  /\ pc[t] \in HoldsWanted =>
       owner[want[t]] = t /\ \E e \in Linked : want[t] = packet[e]
  /\ pc[t] \in Taking => cur[t] \in live /\ arg[t] = packet[cur[t]]
  /\ pc[t] \in Taking \cup {"get.unlockFirst"} => owner[arg[t]] = t
  /\ t \notin Workers \/ pc[t] \in NoPacket => arg[t] = NULL

(* What its next call is about. *)
WantOK(t) ==
  /\ pc[t] \in {"add.lock", "add.full", "get.lock", "get.empty", "get.unlockHead"}
       => want[t] = empty_packet
  /\ pc[t] \in {"walk.prev", "dup.prev", "app.prev"} =>
       cur[t] # queue_head /\ want[t] = packet[prev[cur[t]]]
  /\ pc[t] = "ins.prev" => want[t] # packet[cur[t]]
  /\ pc[t] \in {"ins.cur", "app.cur"} => want[t] = packet[cur[t]]
  /\ pc[t] \in {"walk.prev", "walk.next"} => Number(cur[t]) < num[arg[t]]
  /\ pc[t] = "walk.next" =>
       next[cur[t]] # NULL /\ want[t] = packet[next[cur[t]]]
  /\ pc[t] = "get.first" =>
       next[queue_head] # NULL /\ want[t] = packet[next[queue_head]]
  /\ pc[t] = "get.second" =>
       LET first == next[queue_head] IN
       /\ first # NULL /\ owner[packet[first]] = t
       /\ next[first] # NULL /\ want[t] = packet[next[first]]
  /\ pc[t] = "get.unlockSecond" => want[t] # empty_packet
  /\ pc[t] = "get.unlockFirst" => want[t] = arg[t]

ThreadsOK == \A t \in Threads : PlaceOK(t) /\ WantOK(t)

Safe == HeapOK /\ ChainOK /\ HandOK /\ ThreadsOK

SafeInv == Sound => Safe

-----------------------------------------------------------------------------
(* Basic facts.                                                            *)

LEMMA InLinked ==
  \A e : e \in Linked <=>
    \/ e = queue_head
    \/ e \in live /\ \A u \in Threads : pc[u] \in Taking => cur[u] # e
BY DEF Linked, Unlinked, Taking

LEMMA InLinkedNext ==
  \A e : e \in Linked' <=>
    \/ e = queue_head
    \/ e \in live' /\ \A u \in Threads : pc'[u] \in Taking => cur'[u] # e
BY DEF Linked, Unlinked, Taking

(* The types, pointwise. *)
LEMMA TypesAt ==
  ASSUME TypeInv
  PROVE  /\ \A e \in Nodes : /\ packet[e] \in Cells \cup {NULL}
                             /\ next[e] \in Elements \cup {NULL}
                             /\ prev[e] \in Nodes \cup {NULL}
         /\ prev[queue_head] = NULL
         /\ live \subseteq Elements /\ Linked \subseteq Nodes /\ heap \subseteq Packets
         /\ queue_head \in Linked
         /\ \A p \in Cells : num[p] \in Int /\ owner[p] \in Threads \cup {NULL}
         /\ \A u \in Threads : /\ pc[u] \in Labels(u) /\ cur[u] \in Nodes \cup {NULL}
                               /\ arg[u] \in Cells \cup {NULL}
                               /\ want[u] \in Cells \cup {NULL}
<1>1. ListTypeOK /\ PacketTypeOK /\ ThreadTypeOK /\ prev[queue_head] = NULL
  BY TypeParts DEF ListInv
<1>2. Linked \subseteq Nodes
  BY <1>1, InLinked DEF ListTypeOK, Nodes
<1> QED
  BY <1>1, <1>2, InLinked DEF ListTypeOK, PacketTypeOK, ThreadTypeOK

(* A packet of the list, and its number. *)
LEMMA ListedPacket ==
  ASSUME TypeInv, HeapOK, NEW e \in live \cup {queue_head}
  PROVE  /\ packet[e] \in heap \cup {empty_packet} /\ packet[e] \in Cells
         /\ packet[e] # NULL /\ Number(e) \in Int
         /\ e # queue_head => packet[e] \in heap /\ Number(e) \in Nat
         /\ e \in Nodes
<1>1. e \in Nodes /\ packet[e] \in heap \cup {empty_packet}
      /\ (e # queue_head => packet[e] \in heap)
  BY TypesAt DEF HeapOK, Nodes
<1>2. packet[e] \in Cells /\ packet[e] # NULL
  BY <1>1, TypesAt, AddressAssumption DEF Cells
<1> QED
  BY <1>1, <1>2, TypesAt, SystemAssumption DEF HeapOK, Number

(* What is in somebody's hands is in no element, but the one taken out. *)
LEMMA HandNotListed ==
  ASSUME TypeInv, Safe, NEW t \in Threads, InHand(t), pc[t] \notin Taking,
         NEW e \in live \cup {queue_head}
  PROVE  packet[e] # arg[t]
<1>1. CASE e \in Linked
  BY <1>1 DEF Safe, HandOK
<1>2. CASE e \notin Linked
  <2>1. PICK u \in Threads : pc[u] \in Taking /\ cur[u] = e
    BY <1>2, InLinked
  <2>2. packet[e] = arg[u] /\ InHand(u) /\ u # t
    BY <2>1 DEF Safe, ThreadsOK, PlaceOK, InHand, Taking
  <2> QED
    BY <2>2 DEF Safe, HandOK
<1> QED
  BY <1>1, <1>2

-----------------------------------------------------------------------------
(* What a step of t leaves to the other threads.                           *)

Others(t) ==
  \A u \in Threads \ {t} :
    pc'[u] = pc[u] /\ cur'[u] = cur[u] /\ arg'[u] = arg[u] /\ want'[u] = want[u]

(* Mutexes they own, but for one in a packet that t is about to give up. *)
OwnersKept(t) ==
  \A q \in heap \cup {empty_packet}, u \in Threads \ {t} :
    owner[q] = u /\ (InHand(t) => q # arg[t]) => owner'[q] = u

(* The elements of which they own the mutex; packets in their elements,    *)
(* and the numbers of packets that t has not got in its hands.             *)
ListKept(t) ==
  /\ \A e \in live \cup {queue_head}, u \in Threads \ {t} : owner[packet[e]] = u =>
       /\ e \in live' \cup {queue_head} /\ (e \in Linked => e \in Linked')
       /\ next'[e] = next[e] /\ prev'[e] = prev[e]
  /\ \A e \in (live \cap live') \cup {queue_head} : packet'[e] = packet[e]
  /\ \A p \in (heap \cap heap') \cup {empty_packet} :
       (InHand(t) => p # arg[t]) => num'[p] = num[p]

Frame(t) == Others(t) /\ OwnersKept(t) /\ ListKept(t)

LEMMA OtherPlace ==
  ASSUME TypeInv, TypeInv', Safe, HeapOK', ChainOK', HandOK', NEW t \in Threads, Frame(t),
         NEW u \in Threads \ {t}
  PROVE  PlaceOK(u)'
<1>1. PlaceOK(u) /\ WantOK(u)
  BY DEF Safe, ThreadsOK
<1>2. pc'[u] = pc[u] /\ cur'[u] = cur[u] /\ arg'[u] = arg[u] /\ want'[u] = want[u]
  BY DEF Frame, Others
<1>3. ASSUME NEW e \in Linked, owner[packet[e]] = u
      PROVE  e \in Linked' /\ packet'[e] = packet[e] /\ owner'[packet[e]] = u
  <2>1. e \in live \cup {queue_head}
    BY InLinked
  <2>2. packet[e] \in heap \cup {empty_packet} /\ (InHand(t) => packet[e] # arg[t])
    BY <2>1, ListedPacket DEF Safe, HandOK
  <2>3. e \in Linked' /\ e \in live' \cup {queue_head}
    BY <1>3, <2>1 DEF Frame, ListKept
  <2> QED
    BY <1>3, <2>1, <2>2, <2>3 DEF Frame, ListKept, OwnersKept
<1>4. pc[u] \in HoldsHead => owner'[empty_packet] = u
  <2>1. InHand(t) => arg[t] # empty_packet
    BY TypesAt, AddressAssumption DEF Safe, HandOK
  <2> QED
    BY <1>1, <2>1 DEF PlaceOK, Frame, OwnersKept
<1>5. pc[u] \in Taking \cup {"get.unlockFirst"} => owner'[arg[u]] = u
  <2>1. pc[u] \in Taking \cup {"get.unlockFirst"} => InHand(u)
    BY DEF InHand, Taking
  <2> QED
    BY <1>1, <2>1 DEF PlaceOK, Frame, OwnersKept, Safe, HandOK
<1>6. pc[u] \in Taking => cur[u] \in live' /\ arg[u] = packet'[cur[u]]
  <2>1. pc[u] \in Taking => cur[u] \in live /\ owner[packet[cur[u]]] = u
    BY <1>1 DEF PlaceOK
  <2>2. pc[u] \in Taking => cur[u] \in live'
    BY <2>1, TypesAt, AddressAssumption DEF Frame, ListKept
  <2> QED
    BY <1>1, <2>1, <2>2 DEF PlaceOK, Frame, ListKept
<1> QED
  BY <1>1, <1>2, <1>3, <1>4, <1>5, <1>6 DEF PlaceOK

LEMMA OtherWant ==
  ASSUME TypeInv, TypeInv', Safe, HeapOK', ChainOK', HandOK', NEW t \in Threads, Frame(t),
         NEW u \in Threads \ {t}
  PROVE  WantOK(u)'
<1>1. PlaceOK(u) /\ WantOK(u)
  BY DEF Safe, ThreadsOK
<1>2. pc'[u] = pc[u] /\ cur'[u] = cur[u] /\ arg'[u] = arg[u] /\ want'[u] = want[u]
  BY DEF Frame, Others
<1>3. ASSUME NEW e \in Linked, owner[packet[e]] = u
      PROVE  /\ e \in Linked' /\ packet'[e] = packet[e] /\ owner'[packet[e]] = u
             /\ next'[e] = next[e] /\ prev'[e] = prev[e] /\ Number(e)' = Number(e)
             /\ next[e] # NULL => /\ next[e] \in Linked
                                  /\ packet'[next[e]] = packet[next[e]]
             /\ e # queue_head => packet'[prev[e]] = packet[prev[e]]
  <2>1. e \in live \cup {queue_head}
    BY InLinked
  <2>2. packet[e] \in heap \cup {empty_packet} /\ (InHand(t) => packet[e] # arg[t])
    BY <2>1, ListedPacket DEF Safe, HandOK
  <2>3. /\ e \in Linked' /\ e \in live' \cup {queue_head} /\ packet'[e] = packet[e]
        /\ next'[e] = next[e] /\ prev'[e] = prev[e]
    BY <1>3, <2>1 DEF Frame, ListKept
  <2>4. owner'[packet[e]] = u
    BY <1>3, <2>2 DEF Frame, OwnersKept
  <2>5. packet'[e] \in heap' \cup {empty_packet}
    BY <2>3 DEF HeapOK
  <2>6. Number(e)' = Number(e)
    BY <2>2, <2>3, <2>5 DEF Number, Frame, ListKept
  <2>7. ASSUME NEW f \in Linked, f \in Linked' PROVE packet'[f] = packet[f]
    BY <2>7, InLinked, InLinkedNext DEF Frame, ListKept
  <2>8. next[e] # NULL => next[e] \in Linked /\ next[e] \in Linked'
    BY <2>3 DEF Safe, ChainOK, InOrder
  <2>9. e # queue_head => prev[e] \in Linked /\ prev[e] \in Linked'
    BY <2>3 DEF Safe, ChainOK
  <2> QED
    BY <2>3, <2>4, <2>6, <2>7, <2>8, <2>9
<1>4. pc[u] \in Standing => cur[u] \in Linked /\ owner[packet[cur[u]]] = u
  BY <1>1 DEF PlaceOK
<1>5. InHand(u) => num'[arg[u]] = num[arg[u]]
  <2>1. InHand(u) => InHand(u)' /\ arg'[u] = arg[u]
    BY <1>2 DEF InHand
  <2>2. InHand(u) => arg[u] \in heap \cap heap' /\ (InHand(t) => arg[u] # arg[t])
    BY <2>1 DEF Safe, HandOK
  <2> QED
    BY <2>2 DEF Frame, ListKept
<1>6. /\ pc[u] \in {"walk.prev", "walk.next"} => pc[u] \in Standing /\ InHand(u)
      /\ pc[u] \in {"walk.prev", "dup.prev", "app.prev", "ins.prev", "ins.cur", "app.cur"}
           => pc[u] \in Standing
      /\ pc[u] \in {"get.first", "get.second"} =>
           owner[packet[queue_head]] = u /\ queue_head \in Linked
  BY <1>1, TypesAt DEF Standing, InHand, Adding, PlaceOK, HoldsHead, Safe, HeapOK
<1>7. pc[u] = "get.second" => next[queue_head] \in Linked
  BY <1>1, <1>6, <1>3 DEF WantOK
<1> QED
  BY <1>1, <1>2, <1>3, <1>4, <1>5, <1>6, <1>7 DEF WantOK

(* The other threads are where they were, and own what they owned. *)
LEMMA OtherThreads ==
  ASSUME TypeInv, TypeInv', Safe, HeapOK', ChainOK', HandOK', NEW t \in Threads, Frame(t),
         PlaceOK(t)', WantOK(t)'
  PROVE  Safe'
<1>1. ASSUME NEW u \in Threads PROVE PlaceOK(u)' /\ WantOK(u)'
  BY OtherPlace, OtherWant
<1> QED
  BY <1>1 DEF Safe, ThreadsOK

-----------------------------------------------------------------------------
(* What a step of t does to the packets.                                   *)

SameQueue(t) ==
  /\ Others(t) /\ Linked' = Linked
  /\ \A e \in Linked : packet'[e] = packet[e] /\ Number(e)' = Number(e)

Resting(t) == /\ SameQueue(t) /\ UNCHANGED heap
              /\ InHand(t)' <=> InHand(t)
              /\ InHand(t) => arg'[t] = arg[t]

(* The packet in its hands is freed. *)
Dropping(t) == /\ SameQueue(t) /\ heap' = heap \ {arg[t]}
               /\ InHand(t) /\ ~InHand(t)'

(* A packet is allocated; one in its hands is forgotten. *)
Renewing(t) == /\ SameQueue(t) /\ pc[t] \notin Taking /\ InHand(t)'
               /\ arg'[t] \notin heap /\ heap' = heap \cup {arg'[t]}

(* A new element behind p, by a thread that has locked p and what follows. *)
Linking(new, t, p) ==
  /\ new \in Elements \ live /\ p \in Linked
  /\ Link(new, t, p, next[p])
  /\ Number(p) < num[arg[t]]
  /\ next[p] # NULL => num[arg[t]] < Number(next[p])
  /\ InHand(t) /\ pc[t] \notin Taking /\ ~InHand(t)' /\ pc'[t] \notin Taking
  /\ Others(t) /\ UNCHANGED <<num, heap>>

(* t holds the head's mutex, and those of the first and second element.    *)
Unlinking(t) ==
  LET first == next[queue_head]
      second == next[first] IN
  /\ first # NULL
  /\ Unlink(t) /\ UNCHANGED pkts
  /\ pc[t] \in {"get.first", "get.second"}
  /\ owner[empty_packet] \notin Threads \ {t}
  /\ owner[packet[first]] \notin Threads \ {t}
  /\ second # NULL => owner[packet[second]] \notin Threads \ {t}

Moves(t) == \/ Resting(t) \/ Dropping(t) \/ Renewing(t) \/ Unlinking(t)
            \/ \E new, p : Linking(new, t, p)

-----------------------------------------------------------------------------
(* Steps that leave list, packets and hands alone.                         *)

SameList(t) == /\ UNCHANGED list /\ Others(t)
               /\ \/ pc[t] \notin Taking /\ pc'[t] \notin Taking
                  \/ pc[t] \in Taking /\ pc'[t] \in Taking /\ cur'[t] = cur[t]

LEMMA LinkedSame ==
  ASSUME NEW t \in Threads, SameList(t)
  PROVE  /\ Linked' = Linked /\ UNCHANGED <<packet, next, prev, live>>
         /\ \A q \in heap \cup {empty_packet} : num'[q] = num[q]
              => \A e \in Nodes : packet[e] = q => Number(e)' = Number(e)
<1>1. \A e : e \in Linked' <=> e \in Linked
  BY InLinked, InLinkedNext DEF SameList, Others, list
<1> QED
  BY <1>1 DEF SameList, list, Number

Quiet(t) == /\ SameList(t) /\ UNCHANGED pkts
            /\ InHand(t)' <=> InHand(t)
            /\ InHand(t) => arg'[t] = arg[t]

LEMMA QuietShared ==
  ASSUME TypeInv, Safe, NEW t \in Threads, Quiet(t)
  PROVE  HeapOK' /\ ChainOK' /\ HandOK'
<1>1. Linked' = Linked /\ UNCHANGED <<packet, next, prev, live, num, heap>>
  BY LinkedSame DEF Quiet, pkts
<1>2. HeapOK'
  BY <1>1 DEF Safe, HeapOK
<1>3. ChainOK'
  BY <1>1 DEF Safe, ChainOK, InOrder, Number
<1>4. \A u \in Threads : InHand(u)' => InHand(u) /\ arg'[u] = arg[u]
  BY DEF Quiet, SameList, Others, InHand
<1>5. HandOK'
  BY <1>1, <1>4 DEF Safe, HandOK
<1> QED
  BY <1>2, <1>3, <1>5

LEMMA QuietStep ==
  ASSUME TypeInv, TypeInv', Safe, NEW t \in Threads, Quiet(t), OwnersKept(t),
         PlaceOK(t)', WantOK(t)'
  PROVE  Safe' /\ Moves(t)
<1>1. Linked' = Linked /\ UNCHANGED <<packet, next, prev, live, num, heap>>
  BY LinkedSame DEF Quiet, pkts
<1>2. Frame(t)
  BY <1>1 DEF Frame, ListKept, Quiet, SameList
<1>3. Resting(t)
  BY <1>1 DEF Resting, SameQueue, Quiet, SameList, Number
<1> QED
  BY <1>2, <1>3, QuietShared, OtherThreads DEF Moves

(* pthread calls as they look to the others. *)
LEMMA UnlockOwners ==
  ASSUME TypeInv, NEW t \in Threads, Unlock(t), Sound'
  PROVE  /\ Sound /\ want[t] # NULL /\ owner[want[t]] \in {t, NULL}
         /\ \A q \in Cells : owner'[q] = IF q = want[t] THEN NULL ELSE owner[q]
         /\ OwnersKept(t)
<1>1. /\ want[t] # NULL /\ owner[want[t]] \in {t, NULL} /\ Sound
      /\ owner' = [owner EXCEPT ![want[t]] = NULL]
  BY DEF Unlock, Sound
<1>2. \A q \in Cells : owner'[q] = IF q = want[t] THEN NULL ELSE owner[q]
  BY <1>1, TypeParts DEF PacketTypeOK
<1>3. heap \cup {empty_packet} \subseteq Cells /\ NULL \notin Threads
  BY TypesAt, AddressAssumption DEF Cells
<1>4. OwnersKept(t)
  BY <1>1, <1>2, <1>3 DEF OwnersKept
<1> QED
  BY <1>1, <1>2, <1>4

LEMMA LockOwners ==
  ASSUME TypeInv, NEW t \in Threads, Lock(t)
  PROVE  /\ want[t] # NULL /\ owner[want[t]] = NULL
         /\ \A q \in Cells : owner'[q] = IF q = want[t] THEN t ELSE owner[q]
         /\ OwnersKept(t)
<1>1. /\ want[t] # NULL /\ owner[want[t]] = NULL
      /\ owner' = [owner EXCEPT ![want[t]] = t]
  BY DEF Lock
<1>2. \A q \in Cells : owner'[q] = IF q = want[t] THEN t ELSE owner[q]
  BY <1>1, TypeParts DEF PacketTypeOK
<1>3. heap \cup {empty_packet} \subseteq Cells /\ NULL \notin Threads
  BY TypesAt, AddressAssumption DEF Cells
<1>4. OwnersKept(t)
  BY <1>1, <1>2, <1>3 DEF OwnersKept
<1> QED
  BY <1>1, <1>2, <1>4

LEMMA SameOwners ==
  ASSUME NEW t \in Threads, UNCHANGED owner
  PROVE  OwnersKept(t)
BY DEF OwnersKept

(* Jumps and returns, pointwise. *)
LEMMA GotoAt ==
  ASSUME TypeInv, NEW t \in Threads, NEW label, NEW m, Goto(t, label, m)
  PROVE  /\ pc'[t] = label /\ want'[t] = m
         /\ \A u \in Threads \ {t} : pc'[u] = pc[u] /\ want'[u] = want[u]
BY TypeParts DEF Goto, ThreadTypeOK

LEMMA CurAt ==
  ASSUME TypeInv, NEW t \in Threads, NEW c, cur' = [cur EXCEPT ![t] = c]
  PROVE  cur'[t] = c /\ \A u \in Threads \ {t} : cur'[u] = cur[u]
BY TypeParts DEF ThreadTypeOK

LEMMA ArgAt ==
  ASSUME TypeInv, NEW t \in Threads, NEW p, arg' = [arg EXCEPT ![t] = p]
  PROVE  arg'[t] = p /\ \A u \in Threads \ {t} : arg'[u] = arg[u]
BY TypeParts DEF ThreadTypeOK

-----------------------------------------------------------------------------
(* The mutexes a worker names are those of allocated packets.              *)

LEMMA LinkedPacket ==
  ASSUME TypeInv, Safe, NEW e \in Linked
  PROVE  /\ packet[e] \in heap \cup {empty_packet} /\ packet[e] \in Cells
         /\ packet[e] # NULL /\ Number(e) \in Int /\ e \in Nodes
         /\ e # queue_head => packet[e] \in heap /\ e \in live /\ Number(e) \in Nat
         /\ next[e] # NULL => /\ next[e] \in Linked /\ next[e] # queue_head
                              /\ prev[next[e]] = e /\ Number(e) < Number(next[e])
         /\ e # queue_head => prev[e] \in Linked /\ prev[e] # NULL /\ prev[e] # e
                              /\ next[prev[e]] = e
                              /\ packet[prev[e]] # packet[e]
<1>1. e \in live \cup {queue_head}
  BY InLinked
<1>2. next[e] # NULL => /\ next[e] \in Linked /\ prev[next[e]] = e
                        /\ Number(e) < Number(next[e])
  BY DEF Safe, ChainOK, InOrder
<1>3. next[e] # NULL => next[e] # queue_head
  <2>1. e # NULL
    BY <1>1, TypesAt, AddressAssumption
  <2> QED
    BY <1>2, <2>1, TypesAt
<1>4. ASSUME e # queue_head
      PROVE  prev[e] \in Linked /\ prev[e] # NULL /\ prev[e] # e
             /\ next[prev[e]] = e /\ packet[prev[e]] # packet[e]
  <2>1. prev[e] \in Linked /\ next[prev[e]] = e /\ prev[e] \in live \cup {queue_head}
    BY <1>4, InLinked DEF Safe, ChainOK
  <2>2. e # NULL /\ prev[e] # NULL
    BY <1>1, <2>1, TypesAt, AddressAssumption
  <2>3. Number(prev[e]) < Number(e)
    BY <2>1, <2>2 DEF Safe, ChainOK, InOrder
  <2>4. Number(prev[e]) \in Int /\ Number(e) \in Int
    BY <1>1, <2>1, ListedPacket DEF Safe
  <2>5. Number(prev[e]) # Number(e)
    BY <2>3, <2>4
  <2> QED
    BY <2>1, <2>2, <2>5 DEF Number
<1> QED
  BY <1>1, <1>2, <1>3, <1>4, ListedPacket DEF Safe

LEMMA WantAllocated ==
  ASSUME TypeInv, Safe, NEW t \in Workers, pc[t] \in PthreadCalls
  PROVE  want[t] \in Allocated
<1> USE DEF Allocated
<1>1. t \in Threads /\ pc[t] \in Labels(t) /\ t \notin Observers
  BY SystemAssumption, TypesAt DEF Workers
<1>2. PlaceOK(t) /\ WantOK(t)
  BY <1>1 DEF Safe, ThreadsOK
<1>3. pc[t] \in PthreadCalls \cap (Adding \cup Getting)
  BY <1>1 DEF Labels, PthreadCalls, Workers, Adding, Getting, Observing
<1>4. CASE pc[t] \in {"add.lock", "add.full", "get.lock", "get.empty", "get.unlockHead"}
  BY <1>2, <1>4 DEF WantOK
<1>5. CASE pc[t] \in HoldsWanted
  <2>1. PICK e \in Linked : want[t] = packet[e]
    BY <1>2, <1>5 DEF PlaceOK
  <2> QED
    BY <2>1, LinkedPacket
<1>6. CASE pc[t] \in {"app.prev", "ins.cur", "app.cur", "walk.next"}
  <2>1. cur[t] \in Linked
    BY <1>2, <1>6 DEF PlaceOK, Standing
  <2> QED
    BY <1>2, <1>6, <2>1, LinkedPacket DEF WantOK
<1>7. CASE pc[t] \in {"get.first", "get.second"}
  BY <1>2, <1>7, LinkedPacket, TypesAt DEF WantOK
<1>8. CASE pc[t] = "get.unlockFirst"
  BY <1>1, <1>2, <1>8 DEF WantOK, Safe, HandOK, InHand
<1> QED
  BY <1>3, <1>4, <1>5, <1>6, <1>7, <1>8 DEF PthreadCalls, Adding, Getting, HoldsWanted, NoPacket

(* So no producer and no consumer crashes.                                 *)
LEMMA NoCrash ==
  ASSUME TypeInv, Safe, NEW t \in Workers
  PROVE  ~BadPointer(t)
<1>1. t \in Threads /\ PlaceOK(t)
  BY SystemAssumption DEF Workers, Safe, ThreadsOK
<1>2. pc[t] \in PthreadCalls => want[t] # NULL
  BY WantAllocated, TypesAt, AddressAssumption DEF Cells, Allocated
<1>3. cur[t] \in live \cup {queue_head, NULL}
  BY <1>1, InLinked DEF PlaceOK
<1>4. pc[t] = "get.store" => packet[cur[t]] # NULL
  BY <1>1, ListedPacket DEF PlaceOK, Taking, Safe
<1> QED
  BY <1>2, <1>3, <1>4 DEF BadPointer

-----------------------------------------------------------------------------
(* The quiet steps.  First their shapes.                                   *)

(* The other locals of t change in no way that anybody can see.            *)
HandLabels == (Adding \ {"ins.prev", "ins.cur", "app.prev", "app.cur",
                         "add.load", "add.store", "added", "dup"})
              \cup {"get.unlockSecond", "get.load", "get.store",
                    "get.unlockFirst", "get.unlockHead", "got"}

QuietLocals(t, label) ==
  /\ pc[t] \in HandLabels <=> label \in HandLabels
  /\ UNCHANGED <<list, pkts, arg>>
  /\ \A u \in Threads \ {t} : cur'[u] = cur[u]
  /\ \/ pc[t] \notin Taking /\ label \notin Taking
     \/ pc[t] \in Taking /\ label \in Taking /\ cur'[t] = cur[t]


LEMMA QuietGoto ==
  ASSUME TypeInv, NEW t \in Threads, NEW label, NEW m, Goto(t, label, m),
         QuietLocals(t, label)
  PROVE  /\ Quiet(t) /\ pc'[t] = label /\ want'[t] = m /\ arg'[t] = arg[t]
         /\ Linked' = Linked /\ UNCHANGED <<packet, next, prev, live, num, heap>>
         /\ \A e : Number(e)' = Number(e)
<1>1. pc'[t] = label /\ want'[t] = m /\ arg'[t] = arg[t]
  BY GotoAt DEF QuietLocals
<1>2. SameList(t)
  BY <1>1, GotoAt DEF SameList, QuietLocals, Others
<1>3. Quiet(t)
  BY <1>1, <1>2 DEF Quiet, QuietLocals, InHand, HandLabels
<1>4. UNCHANGED <<num, heap>> /\ Linked' = Linked /\ UNCHANGED <<packet, next, prev, live>>
  BY <1>2, LinkedSame DEF QuietLocals, pkts
<1> QED
  BY <1>1, <1>3, <1>4 DEF Number

LEMMA AddSteps ==
  ASSUME TypeInv, TypeInv', Safe, Sound', NEW t \in Producers,
         AddFull(t) \/ InsPrev(t) \/ AppPrev(t) \/ UnlockCur(t)
  PROVE  Safe' /\ Moves(t)
<1> t \in Threads /\ t \in Workers
  BY SystemAssumption DEF Workers
<1>0. PlaceOK(t) /\ WantOK(t) /\ cur[t] \in Nodes \cup {NULL}
  BY TypesAt DEF Safe, ThreadsOK
<1>1. Unlock(t)
  BY DEF AddFull, InsPrev, AppPrev, UnlockCur
<1>2. /\ owner[want[t]] \in {t, NULL} /\ OwnersKept(t)
      /\ \A q \in Cells : owner'[q] = IF q = want[t] THEN NULL ELSE owner[q]
  BY <1>1, UnlockOwners
<1>3. CASE AddFull(t)
  <2>1. pc[t] = "add.full" /\ Goto(t, "full", NULL) /\ cur' = [cur EXCEPT ![t] = NULL]
        /\ UNCHANGED <<list, pkts, arg>>
    BY <1>3 DEF AddFull, Return
  <2>2. QuietLocals(t, "full") /\ InHand(t) /\ cur'[t] = NULL
    BY <2>1, CurAt DEF QuietLocals, Taking, HandLabels, Adding, InHand
  <2>3. Quiet(t) /\ pc'[t] = "full"
    BY <2>1, <2>2, QuietGoto
  <2>4. PlaceOK(t)' /\ WantOK(t)'
    BY <2>2, <2>3 DEF PlaceOK, WantOK, Standing, Taking, HoldsHead, HoldsWanted, NoPacket
  <2> QED
    BY <1>2, <2>3, <2>4, QuietStep
<1>4. CASE InsPrev(t) \/ AppPrev(t)
  <2>1. PICK label \in {"ins.cur", "app.cur"} : Goto(t, label, packet[cur[t]])
    BY <1>4 DEF InsPrev, AppPrev
  <2>2. pc[t] \in {"ins.prev", "app.prev"} /\ UNCHANGED <<list, pkts, cur, arg>>
    BY <1>4 DEF InsPrev, AppPrev, locals
  <2>3. QuietLocals(t, label)
    BY <2>1, <2>2 DEF QuietLocals, Taking, HandLabels, Adding
  <2>4. Quiet(t) /\ pc'[t] = label /\ want'[t] = packet[cur[t]] /\ Linked' = Linked
        /\ UNCHANGED packet
    BY <2>1, <2>3, QuietGoto
  <2>5. cur[t] \in Linked /\ owner[packet[cur[t]]] = t
    BY <1>0, <2>2 DEF PlaceOK, Standing
  <2>6. want[t] # packet[cur[t]] /\ packet[cur[t]] \in Cells
    BY <1>0, <2>2, <2>5, LinkedPacket DEF WantOK
  <2>7. owner'[packet[cur[t]]] = t
    BY <1>2, <2>5, <2>6
  <2>8. PlaceOK(t)' /\ WantOK(t)'
    BY <2>1, <2>2, <2>4, <2>5, <2>7
    DEF PlaceOK, WantOK, Standing, Taking, HoldsHead, HoldsWanted, NoPacket
  <2> QED
    BY <1>2, <2>4, <2>8, QuietStep
<1>5. CASE UnlockCur(t)
  <2>1. pc[t] \in {"ins.cur", "app.cur"} /\ Goto(t, "add.load", NULL)
        /\ cur' = [cur EXCEPT ![t] = NULL] /\ UNCHANGED <<list, pkts, arg>>
    BY <1>5 DEF UnlockCur
  <2>2. QuietLocals(t, "add.load") /\ cur'[t] = NULL
    BY <2>1, CurAt DEF QuietLocals, Taking, HandLabels, Adding
  <2>3. Quiet(t) /\ pc'[t] = "add.load"
    BY <2>1, <2>2, QuietGoto
  <2>4. PlaceOK(t)' /\ WantOK(t)'
    BY <2>2, <2>3 DEF PlaceOK, WantOK, Standing, Taking, HoldsHead, HoldsWanted, NoPacket
  <2> QED
    BY <1>2, <2>3, <2>4, QuietStep
<1> QED
  BY <1>3, <1>4, <1>5

(* 73, with an element to go on to. *)
LEMMA WalkOnStep ==
  ASSUME TypeInv, TypeInv', Safe, Sound', NEW t \in Producers, WalkPrev(t),
         next[cur[t]] # NULL
  PROVE  Safe' /\ Moves(t)
<1> t \in Threads /\ t \in Workers
  BY SystemAssumption DEF Workers
<1>0. PlaceOK(t) /\ WantOK(t) /\ cur[t] \in Nodes \cup {NULL}
  BY TypesAt DEF Safe, ThreadsOK
<1>1. pc[t] = "walk.prev" /\ Unlock(t) /\ Goto(t, "walk.next", packet[next[cur[t]]])
      /\ UNCHANGED <<list, pkts, cur, arg>>
  BY DEF WalkPrev, Advance, locals
<1>2. /\ owner[want[t]] \in {t, NULL} /\ OwnersKept(t)
      /\ \A q \in Cells : owner'[q] = IF q = want[t] THEN NULL ELSE owner[q]
  BY <1>1, UnlockOwners
<1>3. QuietLocals(t, "walk.next") /\ InHand(t)
  BY <1>1 DEF QuietLocals, Taking, HandLabels, Adding, InHand
<1>4. /\ Quiet(t) /\ pc'[t] = "walk.next" /\ want'[t] = packet[next[cur[t]]]
      /\ Linked' = Linked /\ UNCHANGED <<packet, next, num>> /\ arg'[t] = arg[t]
      /\ \A e : Number(e)' = Number(e)
  BY <1>1, <1>3, QuietGoto
<1>5. /\ cur[t] \in Linked /\ owner[packet[cur[t]]] = t /\ cur[t] # queue_head
      /\ Number(cur[t]) < num[arg[t]] /\ want[t] = packet[prev[cur[t]]]
  BY <1>0, <1>1 DEF PlaceOK, WantOK, Standing
<1>6. want[t] # packet[cur[t]] /\ packet[cur[t]] \in Cells
  BY <1>5, LinkedPacket
<1>7. owner'[packet[cur[t]]] = t
  BY <1>2, <1>5, <1>6
<1>8. PlaceOK(t)' /\ WantOK(t)'
  BY <1>1, <1>4, <1>5, <1>7
  DEF PlaceOK, WantOK, Standing, Taking, HoldsHead, HoldsWanted, NoPacket
<1> QED
  BY <1>2, <1>4, <1>8, QuietStep

(* The counter, and what the loops of the threads do between two calls.    *)
LEMMA IndexSteps ==
  ASSUME TypeInv, TypeInv', Safe, NEW t \in Workers, LoadIndex(t) \/ AddStore(t)
  PROVE  Safe' /\ Moves(t)
<1> t \in Threads
  BY SystemAssumption DEF Workers
<1>0. PlaceOK(t) /\ WantOK(t) /\ arg[t] \in Cells \cup {NULL}
  BY TypesAt DEF Safe, ThreadsOK
<1>1. UNCHANGED <<list, pkts, arg, owner>>
  BY DEF LoadIndex, AddStore
<1>2. OwnersKept(t)
  BY <1>1, SameOwners
<1>3. CASE pc[t] = "add.load" /\ Goto(t, "add.store", NULL) /\ UNCHANGED cur
  <2>1. QuietLocals(t, "add.store")
    BY <1>1, <1>3 DEF QuietLocals, Taking, HandLabels, Adding
  <2>2. Quiet(t) /\ pc'[t] = "add.store"
    BY <1>3, <2>1, QuietGoto
  <2>3. PlaceOK(t)' /\ WantOK(t)'
    BY <1>0, <1>3, <2>2 DEF PlaceOK, WantOK, Standing, Taking, HoldsHead, HoldsWanted, NoPacket
  <2> QED
    BY <1>2, <2>2, <2>3, QuietStep
<1>4. CASE pc[t] = "get.load" /\ Goto(t, "get.store", NULL) /\ UNCHANGED cur
  <2>1. QuietLocals(t, "get.store") /\ InHand(t)
    BY <1>1, <1>4 DEF QuietLocals, Taking, HandLabels, Adding, InHand
  <2>2. /\ Quiet(t) /\ pc'[t] = "get.store" /\ arg'[t] = arg[t]
        /\ UNCHANGED <<packet, live>>
    BY <1>4, <2>1, QuietGoto
  <2>3. PlaceOK(t)' /\ WantOK(t)'
    BY <1>0, <1>1, <1>4, <2>2
    DEF PlaceOK, WantOK, Standing, Taking, HoldsHead, HoldsWanted, NoPacket
  <2> QED
    BY <1>2, <2>2, <2>3, QuietStep
<1>5. CASE AddStore(t)
  <2>1. pc[t] = "add.store" /\ Goto(t, "added", NULL) /\ cur' = [cur EXCEPT ![t] = NULL]
    BY <1>5 DEF AddStore, Return
  <2>2. QuietLocals(t, "added") /\ cur'[t] = NULL
    BY <1>1, <2>1, CurAt DEF QuietLocals, Taking, HandLabels, Adding
  <2>3. Quiet(t) /\ pc'[t] = "added"
    BY <2>1, <2>2, QuietGoto
  <2>4. PlaceOK(t)' /\ WantOK(t)'
    BY <2>2, <2>3 DEF PlaceOK, WantOK, Standing, Taking, HoldsHead, HoldsWanted, NoPacket
  <2> QED
    BY <1>2, <2>3, <2>4, QuietStep
<1> QED
  BY <1>3, <1>4, <1>5 DEF LoadIndex

(* A step between two calls, to a label at which a thread has nothing.     *)
LEMMA IdleStep ==
  ASSUME TypeInv, TypeInv', Safe, NEW t \in Workers,
         pc[t] \in {"producer", "added", "consumer", "empty"},
         NEW label \in {"producer", "consumer", "done", "segv", "get.lock"}, NEW m,
         label = "get.lock" => m = empty_packet,
         Goto(t, label, m), UNCHANGED <<list, pkts, owner, cur>>,
         arg'[t] = NULL, \A u \in Threads \ {t} : arg'[u] = arg[u]
  PROVE  Safe' /\ Moves(t)
<1> t \in Threads
  BY SystemAssumption DEF Workers
<1>1. PlaceOK(t)
  BY DEF Safe, ThreadsOK
<1>2. pc'[t] = label /\ want'[t] = m
      /\ \A u \in Threads \ {t} : pc'[u] = pc[u] /\ want'[u] = want[u]
  BY GotoAt
<1>3. /\ ~InHand(t) /\ ~InHand(t)' /\ pc[t] \notin Standing \cup Taking
      /\ pc'[t] \notin Standing \cup Taking \cup HoldsHead
  BY <1>2 DEF InHand, Adding, Standing, Taking, HoldsHead
<1>4. Quiet(t)
  BY <1>2, <1>3 DEF Quiet, SameList, Others
<1>5. PlaceOK(t)' /\ WantOK(t)'
  BY <1>1, <1>2 DEF PlaceOK, WantOK, Standing, Taking, HoldsHead, HoldsWanted, NoPacket
<1> QED
  BY <1>4, <1>5, SameOwners, QuietStep

LEMMA IdleSteps ==
  ASSUME TypeInv, TypeInv', Safe, NEW t \in Workers,
         \/ Produced(t) \/ ProducerDone(t) \/ Consume(t) \/ NothingConsumed(t)
         \/ ConsumerDone(t)
  PROVE  Safe' /\ Moves(t)
<1> t \in Threads
  BY SystemAssumption DEF Workers
<1>1. pc[t] \in {"producer", "added", "consumer", "empty"}
  BY DEF Produced, ProducerDone, Consume, NothingConsumed, ConsumerDone
<1>2. CASE Produced(t)
  <2>1. arg'[t] = NULL /\ \A u \in Threads \ {t} : arg'[u] = arg[u]
    BY <1>2, ArgAt DEF Produced
  <2>2. PICK label \in {"producer", "segv"} : Goto(t, label, NULL)
    BY <1>2 DEF Produced, Segfault
  <2> QED
    BY <1>1, <1>2, <2>1, <2>2, IdleStep DEF Produced
<1>3. CASE ProducerDone(t) \/ Consume(t) \/ NothingConsumed(t) \/ ConsumerDone(t)
  <2>1. UNCHANGED <<list, pkts, owner, cur, arg>>
    BY <1>3 DEF ProducerDone, Consume, NothingConsumed, ConsumerDone, locals
  <2>2. PICK label, m : /\ label \in {"consumer", "done", "get.lock"}
                        /\ Goto(t, label, m)
                        /\ label = "get.lock" => m = empty_packet
    BY <1>3 DEF ProducerDone, Consume, NothingConsumed, ConsumerDone
  <2>3. pc[t] \in NoPacket
    BY <1>3 DEF ProducerDone, Consume, NothingConsumed, ConsumerDone, NoPacket
  <2>4. arg'[t] = NULL
    BY <2>1, <2>3 DEF Safe, ThreadsOK, PlaceOK
  <2> QED
    BY <1>1, <2>1, <2>2, <2>4, IdleStep
<1> QED
  BY <1>2, <1>3

(* The observer only reads, and takes and gives back mutexes. *)
LEMMA ObserverSafe ==
  ASSUME TypeInv, TypeInv', Safe, Sound', NEW t \in Observers,
         ObserverStep(t) \/ Crash(t)
  PROVE  Safe' /\ Moves(t)
<1> t \in Threads /\ t \notin Workers
  BY SystemAssumption DEF Workers
<1>1. /\ pc[t] \in {"done", "segv", "observer"} \cup Observing
      /\ pc'[t] \in {"done", "segv", "observer"} \cup Observing
  <2>1. pc[t] \in Labels(t) /\ pc'[t] \in Labels(t)
    BY DEF TypeInv, TypeOK, ThreadTypeOK
  <2>2. t \notin Producers /\ t \notin Consumers
    BY SystemAssumption
  <2> QED
    BY <2>1, <2>2 DEF Labels
<1>2. /\ pc[t] \notin Taking /\ pc'[t] \notin Taking \cup Standing \cup HoldsHead
      /\ ~InHand(t) /\ ~InHand(t)'
  BY <1>1 DEF Observing, Taking, Standing, HoldsHead, InHand, Adding
<1>3. UNCHANGED <<list, pkts, arg>>
  <2>1. CASE Observe(t) \/ ObsLock(t) \/ ObsPrint(t) \/ ObsMove(t) \/ Crash(t)
    BY <2>1 DEF Observe, ObsLock, ObsPrint, ObsMove, Crash, locals, list, pkts
  <2>2. CASE \/ ObsPrev(t) \/ ObsPeek(t) \/ ObsNext(t) \/ ObsLast(t)
             \/ ObserverDone(t)
    BY <2>2 DEF ObsPrev, ObsPeek, ObsNext, ObsLast, ObserverDone, locals, list, pkts
  <2> QED
    BY <2>1, <2>2 DEF ObserverStep
<1>4. PICK label, m : Goto(t, label, m)
  BY DEF ObserverStep, Crash, Observe, ObsLock, ObsPrint, ObsMove, ObsPrev, ObsPeek,
         ObsNext, ObsLast, ObserverDone, Return, Segfault
<1>5. UNCHANGED cur \/ \E c : cur' = [cur EXCEPT ![t] = c]
  BY DEF ObserverStep, Crash, Observe, ObsLock, ObsPrint, ObsMove, ObsPrev, ObsPeek,
         ObsNext, ObsLast, ObserverDone, Return, locals
<1>6. Others(t)
  BY <1>3, <1>4, <1>5, GotoAt, CurAt DEF Others
<1>7. Quiet(t)
  BY <1>2, <1>3, <1>6 DEF Quiet, SameList
<1>8. OwnersKept(t)
  <2>1. UNCHANGED owner \/ Lock(t) \/ Unlock(t)
    BY DEF ObserverStep, Crash, Observe, ObsLock, ObsPrint, ObsMove, ObsPrev, ObsPeek,
           ObsNext, ObsLast, ObserverDone
  <2> QED
    BY <2>1, SameOwners, LockOwners, UnlockOwners
<1>9. PlaceOK(t)' /\ WantOK(t)'
  <2>0. PlaceOK(t)
    BY DEF Safe, ThreadsOK
  <2>1. arg'[t] = NULL
    BY <1>3, <2>0 DEF PlaceOK
  <2>2. pc'[t] \in {"observer", "done"} => cur'[t] = NULL
    <3>1. CASE ObsLast(t)
      BY <3>1, CurAt DEF ObsLast, Return
    <3>2. CASE ObserverDone(t)
      BY <2>0, <3>2 DEF ObserverDone, locals, PlaceOK
    <3>3. CASE ~ObsLast(t) /\ ~ObserverDone(t)
      <4>1. PICK to, n : Goto(t, to, n) /\ to \in Observing \cup {"segv"}
        BY <3>3 DEF ObserverStep, Crash, Observe, ObsLock, ObsPrint, ObsMove, ObsPrev,
           ObsPeek, ObsNext, Segfault, Observing
      <4> QED
        BY <4>1, GotoAt DEF Observing
    <3> QED
      BY <3>1, <3>2, <3>3
  <2> QED
    BY <1>1, <1>2, <2>1, <2>2 DEF PlaceOK, WantOK, Observing, HoldsWanted
<1> QED
  BY <1>7, <1>8, <1>9, QuietStep

(* get_paket, as long as it only looks and locks. *)
LEMMA GetLooks ==
  ASSUME TypeInv, TypeInv', Safe, NEW t \in Consumers,
         GetLock(t) \/ (GetFirst(t) /\ next[next[queue_head]] # NULL)
  PROVE  Safe' /\ Moves(t)
<1> t \in Threads /\ t \in Workers
  BY SystemAssumption DEF Workers
<1>0. PlaceOK(t) /\ WantOK(t)
  BY DEF Safe, ThreadsOK
<1>1. Lock(t) /\ pc[t] \in {"get.lock", "get.first"} /\ UNCHANGED pkts
  BY DEF GetLock, GetFirst
<1>2. /\ OwnersKept(t)
      /\ \A q \in Cells : owner'[q] = IF q = want[t] THEN t ELSE owner[q]
  BY <1>1, LockOwners
<1>3. cur[t] = NULL /\ arg[t] = NULL /\ empty_packet \in Cells
  BY <1>0, <1>1 DEF PlaceOK, Standing, Taking, NoPacket, Cells
<1>4. CASE GetLock(t)
  <2>1. want[t] = empty_packet
    BY <1>0, <1>4 DEF GetLock, WantOK
  <2>2. PICK label \in {"get.first", "get.empty"} :
          /\ Goto(t, label, IF label = "get.first" THEN packet[next[queue_head]]
                                                   ELSE empty_packet)
          /\ label = "get.first" => next[queue_head] # NULL
          /\ UNCHANGED <<list, cur, arg>>
    BY <1>4 DEF GetLock, Unlink
  <2>3. QuietLocals(t, label)
    BY <1>1, <2>2 DEF QuietLocals, Taking, HandLabels, Adding
  <2>4. Quiet(t) /\ pc'[t] = label
        /\ want'[t] = (IF label = "get.first" THEN packet[next[queue_head]]
                                              ELSE empty_packet)
        /\ UNCHANGED <<packet, next>>
    BY <2>2, <2>3, QuietGoto
  <2>5. PlaceOK(t)' /\ WantOK(t)'
    BY <1>2, <1>3, <2>1, <2>2, <2>4
    DEF PlaceOK, WantOK, Standing, Taking, HoldsHead, HoldsWanted, NoPacket
  <2> QED
    BY <1>2, <2>4, <2>5, QuietStep
<1>5. CASE GetFirst(t) /\ next[next[queue_head]] # NULL
  <2>1. /\ next[queue_head] # NULL /\ want[t] = packet[next[queue_head]]
        /\ owner[empty_packet] = t
    BY <1>0, <1>5 DEF GetFirst, PlaceOK, WantOK, HoldsHead
  <2>2. /\ Goto(t, "get.second", packet[next[next[queue_head]]])
        /\ UNCHANGED <<list, cur, arg>>
    BY <1>5, <2>1 DEF GetFirst
  <2>3. QuietLocals(t, "get.second")
    BY <1>1, <2>2 DEF QuietLocals, Taking, HandLabels, Adding
  <2>4. Quiet(t) /\ pc'[t] = "get.second"
        /\ want'[t] = packet[next[next[queue_head]]] /\ UNCHANGED <<packet, next>>
    BY <2>2, <2>3, QuietGoto
  <2>5. want[t] \in Cells
    BY <2>1, LinkedPacket, TypesAt
  <2>6. PlaceOK(t)' /\ WantOK(t)'
    BY <1>2, <1>3, <1>5, <2>1, <2>2, <2>4, <2>5
    DEF PlaceOK, WantOK, Standing, Taking, HoldsHead, HoldsWanted, NoPacket
  <2> QED
    BY <1>2, <2>4, <2>6, QuietStep
<1> QED
  BY <1>4, <1>5

(* get_paket, when it gives its mutexes back. *)
LEMMA GetUnlocks ==
  ASSUME TypeInv, TypeInv', Safe, Sound', NEW t \in Consumers,
         \/ GetEmpty(t) \/ GetUnlockSecond(t) \/ GetUnlockFirst(t) \/ GetUnlockHead(t)
  PROVE  Safe' /\ Moves(t)
<1> t \in Threads /\ t \in Workers
  BY SystemAssumption DEF Workers
<1>0. PlaceOK(t) /\ WantOK(t) /\ empty_packet \in Cells
  BY DEF Safe, ThreadsOK, Cells
<1>1. UNCHANGED <<list, pkts, arg>>
  BY DEF GetEmpty, GetUnlockSecond, GetUnlockFirst, GetUnlockHead, locals
<1>2. /\ OwnersKept(t)
      /\ \A q \in Cells : q # want[t] => owner'[q] = owner[q]
  <2>1. Unlock(t) \/ UNCHANGED owner
    BY DEF GetEmpty, GetUnlockSecond, GetUnlockFirst, GetUnlockHead
  <2> QED
    BY <2>1, UnlockOwners, SameOwners
<1>3. CASE GetEmpty(t) \/ GetUnlockHead(t)
  <2>1. PICK label \in {"empty", "got"} :
          /\ Goto(t, label, NULL) /\ cur' = [cur EXCEPT ![t] = NULL]
          /\ pc[t] \in {"get.empty", "get.unlockHead"}
          /\ label = "got" <=> pc[t] = "get.unlockHead"
    BY <1>3 DEF GetEmpty, GetUnlockHead, Return
  <2>2. QuietLocals(t, label) /\ cur'[t] = NULL
    BY <1>1, <2>1, CurAt DEF QuietLocals, Taking, HandLabels, Adding
  <2>3. Quiet(t) /\ pc'[t] = label
    BY <2>1, <2>2, QuietGoto
  <2>4. PlaceOK(t)' /\ WantOK(t)'
    BY <1>0, <1>1, <2>1, <2>2, <2>3
    DEF PlaceOK, WantOK, Standing, Taking, HoldsHead, HoldsWanted, NoPacket
  <2> QED
    BY <1>2, <2>3, <2>4, QuietStep
<1>4. CASE GetUnlockSecond(t)
  <2>1. pc[t] = "get.unlockSecond" /\ Goto(t, "get.load", NULL) /\ UNCHANGED cur
    BY <1>4 DEF GetUnlockSecond, locals
  <2>2. InHand(t) /\ QuietLocals(t, "get.load")
    BY <1>1, <2>1 DEF QuietLocals, Taking, HandLabels, Adding, InHand
  <2>3. /\ Quiet(t) /\ pc'[t] = "get.load" /\ arg'[t] = arg[t]
        /\ UNCHANGED <<packet, live>>
    BY <2>1, <2>2, QuietGoto
  <2>4. /\ want[t] # empty_packet /\ owner[empty_packet] = t /\ owner[arg[t]] = t
        /\ cur[t] \in live /\ arg[t] = packet[cur[t]]
        /\ \E e \in Linked : want[t] = packet[e]
    BY <1>0, <2>1 DEF PlaceOK, WantOK, HoldsHead, HoldsWanted, NoPacket, Taking
  <2>5. want[t] # arg[t] /\ arg[t] \in Cells
    BY <2>2, <2>4, TypesAt DEF Safe, HandOK, Cells
  <2>6. owner'[arg[t]] = t /\ owner'[empty_packet] = t
    BY <1>0, <1>2, <2>4, <2>5
  <2>7. PlaceOK(t)' /\ WantOK(t)'
    BY <2>1, <2>3, <2>4, <2>6
    DEF PlaceOK, WantOK, Standing, Taking, HoldsHead, HoldsWanted, NoPacket
  <2> QED
    BY <1>2, <2>3, <2>7, QuietStep
<1>5. CASE GetUnlockFirst(t)
  <2>1. pc[t] = "get.unlockFirst" /\ Goto(t, "get.unlockHead", empty_packet)
        /\ UNCHANGED cur
    BY <1>5 DEF GetUnlockFirst, locals
  <2>2. InHand(t) /\ QuietLocals(t, "get.unlockHead")
    BY <1>1, <2>1 DEF QuietLocals, Taking, HandLabels, Adding, InHand
  <2>3. Quiet(t) /\ pc'[t] = "get.unlockHead" /\ want'[t] = empty_packet
    BY <2>1, <2>2, QuietGoto
  <2>4. want[t] = arg[t] /\ owner[empty_packet] = t /\ cur[t] = NULL
    BY <1>0, <2>1 DEF PlaceOK, WantOK, HoldsHead, Standing, Taking
  <2>5. want[t] # empty_packet
    BY <2>2, <2>4, TypesAt, AddressAssumption DEF Safe, HandOK
  <2>6. owner'[empty_packet] = t
    BY <1>0, <1>2, <2>4, <2>5
  <2>7. PlaceOK(t)' /\ WantOK(t)'
    BY <2>1, <2>3, <2>4, <2>6
    DEF PlaceOK, WantOK, Standing, Taking, HoldsHead, HoldsWanted, NoPacket
  <2> QED
    BY <1>2, <2>3, <2>7, QuietStep
<1> QED
  BY <1>3, <1>4, <1>5

-----------------------------------------------------------------------------
(* add_paket puts its packet between a smaller and a larger one.           *)

LEMMA LinkAt ==
  ASSUME TypeInv, Safe, NEW t \in Threads, NEW new, NEW p, Linking(new, t, p)
  PROVE  /\ new \notin Linked /\ new # queue_head /\ new # p /\ new # NULL
         /\ Linked' = Linked \cup {new}
         /\ arg[t] \in heap /\ num[arg[t]] \in Nat
         /\ packet'[new] = arg[t] /\ Number(new)' = num[arg[t]]
         /\ \A e \in Linked : packet'[e] = packet[e] /\ Number(e)' = Number(e)
         /\ \A e \in Nodes \ {new} : packet'[e] = packet[e]
         /\ next'[new] = next[p] /\ next'[p] = new
         /\ \A e \in live \cup {queue_head} : e # p => next'[e] = next[e]
         /\ prev'[new] = p /\ (next[p] # NULL => prev'[next[p]] = new)
         /\ \A e \in live \cup {queue_head} : e # next[p] => prev'[e] = prev[e]
<1>1. /\ new \in Elements \ live /\ p \in Linked /\ Link(new, t, p, next[p])
      /\ UNCHANGED <<num, heap>> /\ InHand(t)
  BY DEF Linking
<1>2. p \in live \cup {queue_head} /\ Linked \subseteq live \cup {queue_head}
      /\ new \notin live \cup {queue_head}
  BY <1>1, InLinked, AddressAssumption
<1>3. live \cup {queue_head} \subseteq Nodes /\ new \in Nodes /\ new # NULL
  BY <1>1, TypesAt, AddressAssumption DEF Nodes
<1>4. /\ live' = live \cup {new}
      /\ packet' = [packet EXCEPT ![new] = arg[t]]
      /\ next' = [next EXCEPT ![new] = next[p], ![p] = new]
      /\ prev' = IF next[p] = NULL THEN [prev EXCEPT ![new] = p]
                 ELSE [prev EXCEPT ![new] = p, ![next[p]] = new]
  BY <1>1 DEF Link
<1>5. packet'[new] = arg[t] /\ \A e \in Nodes \ {new} : packet'[e] = packet[e]
  BY <1>2, <1>3, <1>4, TypeParts DEF ListTypeOK
<1>6. arg[t] \in heap /\ num[arg[t]] \in Nat
  BY <1>1, SystemAssumption DEF Safe, HandOK, HeapOK
<1>7. next'[new] = next[p] /\ next'[p] = new
      /\ \A e \in live \cup {queue_head} : e # p => next'[e] = next[e]
  BY <1>2, <1>3, <1>4, TypeParts DEF ListTypeOK
<1>8. next[p] # NULL => next[p] \in live \cup {queue_head}
  BY <1>1, <1>2, LinkedPacket
<1>9. prev'[new] = p /\ (next[p] # NULL => prev'[next[p]] = new)
      /\ \A e \in live \cup {queue_head} : e # next[p] => prev'[e] = prev[e]
  <2>1. CASE next[p] = NULL
    BY <1>2, <1>3, <1>4, <2>1, TypeParts DEF ListTypeOK
  <2>2. CASE next[p] # NULL
    BY <1>2, <1>3, <1>4, <1>8, <2>2, TypeParts DEF ListTypeOK
  <2> QED
    BY <2>1, <2>2
<1>10. Linked' = Linked \cup {new}
  <2>1. \A u \in Threads : pc[u] \in Taking => cur[u] # new
    BY <1>1 DEF Safe, ThreadsOK, PlaceOK
  <2>2. \A u \in Threads : /\ pc'[u] \in Taking <=> pc[u] \in Taking
                           /\ pc[u] \in Taking => cur'[u] = cur[u]
    BY DEF Linking, Others
  <2>3. \A e : e \in Linked' <=> e \in Linked \/ e = new
    BY <1>4, <2>1, <2>2, InLinked, InLinkedNext
  <2> QED
    BY <2>3
<1> QED
  BY <1>1, <1>2, <1>3, <1>5, <1>6, <1>7, <1>9, <1>10 DEF Number

LEMMA LinkChain ==
  ASSUME TypeInv, Safe, NEW t \in Threads, NEW new, NEW p, Linking(new, t, p)
  PROVE  ChainOK'
<1> DEFINE n == next[p]
           a == num[arg[t]]
<1>1. p \in Linked /\ Number(p) < a /\ (n # NULL => a < Number(n))
  BY DEF Linking
<1>2. a \in Int /\ \A e \in Linked : Number(e) \in Int
  BY LinkAt, LinkedPacket
<1>3. n # NULL => n \in Linked /\ n # queue_head /\ prev[n] = p
  BY <1>1, LinkedPacket
<1>4. \A e \in Linked : e \in live \cup {queue_head} /\ e # new
  BY InLinked, LinkAt
<1>5. /\ \A e \in Linked : next[e] # NULL =>
           next[e] \in Linked /\ prev[next[e]] = e /\ Number(e) < Number(next[e])
      /\ \A e, f \in Linked :
           Number(e) < Number(f) => next[e] # NULL /\ Number(next[e]) <= Number(f)
      /\ \A e, f \in Linked : Number(e) = Number(f) => e = f
      /\ \A e \in Linked \ {queue_head} : prev[e] \in Linked /\ next[prev[e]] = e
  BY DEF Safe, ChainOK, InOrder
<1>6. ASSUME NEW f \in Linked, Number(p) < Number(f)
      PROVE  n # NULL /\ Number(n) <= Number(f) /\ a < Number(f)
  <2>1. n # NULL /\ Number(n) <= Number(f)
    BY <1>1, <1>5, <1>6
  <2> QED
    BY <1>1, <1>2, <1>3, <2>1
<1>7. ASSUME NEW e \in Linked, e # p, Number(e) <= a
      PROVE  next[e] # NULL /\ Number(next[e]) < a
  <2>1. ~(Number(p) < Number(e)) /\ Number(p) # Number(e)
    BY <1>1, <1>2, <1>5, <1>6, <1>7
  <2>2. next[e] # NULL /\ Number(next[e]) <= Number(p)
    BY <1>1, <1>2, <1>5, <2>1
  <2>3. Number(next[e]) \in Int
    BY <1>2, <1>5, <2>2
  <2> QED
    BY <1>1, <1>2, <2>2, <2>3
<1>8. InOrder'
  <2>1. ASSUME NEW e \in Linked', next'[e] # NULL
        PROVE  /\ next'[e] \in Linked' /\ prev'[next'[e]] = e
               /\ Number(e)' < Number(next[e])'
    <3>0. (Number(next[e]))' = num'[packet'[next'[e]]]
      BY DEF Number
    <3>1. CASE e = new
      BY <1>1, <1>3, <2>1, <3>0, <3>1, LinkAt DEF Number
    <3>2. CASE e = p
      BY <1>1, <2>1, <3>0, <3>2, LinkAt DEF Number
    <3>3. CASE e \in Linked /\ e # p
      <4>1. next'[e] = next[e]
        BY <1>4, <3>3, LinkAt
      <4>2. next[e] \in Linked /\ prev[next[e]] = e /\ Number(e) < Number(next[e])
        BY <1>5, <2>1, <3>3, <4>1
      <4>3. next[e] # n
        BY <1>3, <2>1, <3>3, <4>1, <4>2
      <4>4. prev'[next[e]] = prev[next[e]]
        BY <1>4, <4>2, <4>3, LinkAt
      <4> QED
        BY <3>0, <3>3, <4>1, <4>2, <4>4, LinkAt DEF Number
    <3> QED
      BY <3>1, <3>2, <3>3, LinkAt
  <2>2. ASSUME NEW e \in Linked', NEW f \in Linked', Number(e)' < Number(f)'
        PROVE  next'[e] # NULL /\ Number(next[e])' <= Number(f)'
    <3>0. (Number(next[e]))' = num'[packet'[next'[e]]]
      BY DEF Number
    <3>1. CASE e = new
      <4>1. f \in Linked /\ a < Number(f) /\ Number(f)' = Number(f)
        BY <1>2, <2>2, <3>1, LinkAt
      <4>2. Number(p) < Number(f)
        BY <1>1, <1>2, <4>1
      <4>3. n # NULL /\ Number(n) <= Number(f)
        BY <1>6, <4>1, <4>2
      <4> QED
        BY <1>3, <3>0, <3>1, <4>1, <4>3, LinkAt DEF Number
    <3>2. CASE e = p
      <4>1. next'[e] = new /\ new # NULL /\ (Number(next[e]))' = a
        BY <3>0, <3>2, LinkAt DEF Number
      <4>2. CASE f = new
        BY <1>2, <4>1, <4>2, LinkAt
      <4>3. CASE f \in Linked
        <5>1. Number(p) < Number(f) /\ Number(f)' = Number(f)
          BY <1>1, <2>2, <3>2, <4>3, LinkAt
        <5> QED
          BY <1>2, <1>6, <4>1, <4>3, <5>1
      <4> QED
        BY <4>2, <4>3, LinkAt
    <3>3. CASE e \in Linked /\ e # p
      <4>1. next'[e] = next[e] /\ Number(e)' = Number(e)
        BY <1>4, <3>3, LinkAt
      <4>2. ASSUME next[e] # NULL PROVE (Number(next[e]))' = Number(next[e])
        BY <1>5, <3>0, <3>3, <4>1, <4>2, LinkAt DEF Number
      <4>3. CASE f \in Linked
        <5>1. Number(f)' = Number(f)
          BY <4>3, LinkAt
        <5> QED
          BY <1>5, <2>2, <3>3, <4>1, <4>2, <4>3, <5>1
      <4>4. CASE f = new
        <5>1. Number(f)' = a
          BY <4>4, LinkAt
        <5>2. Number(e) <= a
          BY <1>2, <2>2, <3>3, <4>1, <5>1
        <5>3. next[e] # NULL /\ Number(next[e]) < a
          BY <1>7, <3>3, <5>2
        <5> QED
          BY <1>2, <1>5, <3>3, <4>1, <4>2, <5>1, <5>3
      <4> QED
        BY <4>3, <4>4, LinkAt
    <3> QED
      BY <3>1, <3>2, <3>3, LinkAt
  <2> QED
    BY <2>1, <2>2 DEF InOrder
<1>9. \A e, f \in Linked' : Number(e)' = Number(f)' => e = f
  <2>1. \A e \in Linked : Number(e) # a
    <3> SUFFICES ASSUME NEW e \in Linked, Number(e) = a PROVE FALSE
      OBVIOUS
    <3> QED
      BY <1>1, <1>2, <1>6
  <2> QED
    BY <1>5, <2>1, LinkAt
<1>10. \A e \in Linked' \ {queue_head} : prev'[e] \in Linked' /\ next'[prev'[e]] = e
  <2> SUFFICES ASSUME NEW e \in Linked' \ {queue_head}
               PROVE  prev'[e] \in Linked' /\ next'[prev'[e]] = e
    OBVIOUS
  <2>1. CASE e = new
    BY <1>1, <2>1, LinkAt
  <2>2. CASE e = n /\ n # NULL
    BY <2>2, LinkAt
  <2>3. CASE e \in Linked /\ e # n
    <3>1. prev'[e] = prev[e] /\ prev[e] \in Linked /\ next[prev[e]] = e
      BY <1>4, <1>5, <2>3, LinkAt
    <3> QED
      BY <1>4, <2>3, <3>1, LinkAt
  <2>4. NULL \notin Linked
    BY InLinked, TypesAt, AddressAssumption
  <2> QED
    BY <2>1, <2>2, <2>3, <2>4, LinkAt
<1> QED
  BY <1>8, <1>9, <1>10 DEF ChainOK

LEMMA LinkStep ==
  ASSUME TypeInv, TypeInv', Safe, NEW t \in Threads, NEW new, NEW p, Linking(new, t, p),
         owner[packet[p]] \notin Threads \ {t},
         next[p] # NULL => owner[packet[next[p]]] \notin Threads \ {t},
         OwnersKept(t), PlaceOK(t)', WantOK(t)'
  PROVE  Safe' /\ Moves(t)
<1>1. /\ live' = live \cup {new} /\ UNCHANGED <<num, heap>> /\ new \in Elements \ live
      /\ Others(t) /\ InHand(t) /\ ~InHand(t)' /\ pc[t] \notin Taking
  BY DEF Linking, Link
<1>2. HeapOK'
  <2>1. /\ packet[queue_head] = empty_packet /\ num[empty_packet] = -1
        /\ \A q \in heap : num[q] \in Nums
        /\ \A e \in live : packet[e] \in heap
        /\ \A e, f \in live : packet[e] = packet[f] => e = f
    BY DEF Safe, HeapOK
  <2>2. \A e \in live : packet[e] # arg[t]
    BY <1>1, HandNotListed
  <2>3. /\ packet'[new] = arg[t] /\ arg[t] \in heap
        /\ \A e \in Nodes \ {new} : packet'[e] = packet[e]
        /\ \A e \in live \cup {queue_head} : e \in Nodes \ {new}
    BY <1>1, LinkAt, TypesAt DEF Nodes
  <2>4. \A e \in Nodes \ (live \cup {queue_head}) : packet[e] = NULL
    BY DEF Safe, HeapOK
  <2> QED
    BY <1>1, <2>1, <2>2, <2>3, <2>4 DEF HeapOK
<1>3. ChainOK'
  BY LinkChain
<1>4. HandOK'
  <2> SUFFICES ASSUME NEW u \in Threads, InHand(u)'
               PROVE  /\ arg'[u] \in heap' /\ \A e \in Linked' : packet'[e] # arg'[u]
                      /\ \A v \in Threads \ {u} : InHand(v)' => arg'[v] # arg'[u]
    BY DEF HandOK
  <2>1. \A v \in Threads : InHand(v)' => v # t /\ InHand(v) /\ arg'[v] = arg[v]
    BY <1>1 DEF Others, InHand
  <2>2. arg[u] # arg[t] /\ arg[u] \in heap /\ \A e \in Linked : packet[e] # arg[u]
    BY <1>1, <2>1 DEF Safe, HandOK
  <2>3. \A e \in Linked' : packet'[e] # arg[u]
    BY <2>2, LinkAt
  <2>4. \A v \in Threads \ {u} : InHand(v)' => arg[v] # arg[u]
    BY <2>1 DEF Safe, HandOK
  <2> QED
    BY <1>1, <2>1, <2>2, <2>3, <2>4
<1>5. ListKept(t)
  <2>1. ASSUME NEW e \in live \cup {queue_head}, NEW u \in Threads \ {t}, owner[packet[e]] = u
        PROVE  /\ e \in live' \cup {queue_head} /\ (e \in Linked => e \in Linked')
               /\ next'[e] = next[e] /\ prev'[e] = prev[e]
    <3>1. e # p /\ e # next[p]
      BY <2>1, TypesAt, AddressAssumption
    <3> QED
      BY <1>1, <3>1, LinkAt
  <2> QED
    BY <1>1, <2>1, LinkAt, TypesAt DEF ListKept, Nodes
<1> QED
  BY <1>1, <1>2, <1>3, <1>4, <1>5, OtherThreads DEF Frame, Moves

-----------------------------------------------------------------------------
(* Where add_paket goes from an element.                                   *)

(* The end of the list: 83-92. *)
LEMMA AppendStep ==
  ASSUME TypeInv, TypeInv', Safe, NEW t \in Producers, NEW c \in Linked,
         Advance(t, c), next[c] = NULL, pc[t] \in {"add.lock", "walk.prev"},
         Number(c) < num[arg[t]], c = queue_head <=> pc[t] = "add.lock",
         owner[packet[c]] \notin Threads \ {t}, owner'[packet[c]] = t,
         UNCHANGED <<num, heap, arg>>, cur' = [cur EXCEPT ![t] = c], OwnersKept(t)
  PROVE  Safe' /\ Moves(t)
<1> t \in Threads /\ t \in Workers
  BY SystemAssumption DEF Workers
<1>1. PICK new \in Elements \ live : Link(new, t, c, NULL)
  BY DEF Advance
<1>2. PICK label, m :
        /\ label \in {"app.prev", "app.cur"}
        /\ Goto(t, label, m)
        /\ label = "app.prev" => c # queue_head /\ m = packet[prev[c]]
        /\ label = "app.cur" => m = packet[c]
  <2>1. c = queue_head => prev[c] = NULL
    BY TypesAt
  <2> QED
    BY <2>1 DEF Advance
<1>3. pc'[t] = label /\ want'[t] = m /\ cur'[t] = c
      /\ \A u \in Threads \ {t} : pc'[u] = pc[u] /\ want'[u] = want[u] /\ cur'[u] = cur[u]
  <2>1. pc'[t] = label /\ want'[t] = m
        /\ \A u \in Threads \ {t} : pc'[u] = pc[u] /\ want'[u] = want[u]
    BY <1>2, GotoAt
  <2>2. cur'[t] = c /\ \A u \in Threads \ {t} : cur'[u] = cur[u]
    BY CurAt
  <2> QED
    BY <2>1, <2>2
<1>4. /\ InHand(t) /\ ~InHand(t)' /\ pc[t] \notin Taking /\ pc'[t] \notin Taking
      /\ Others(t)
  <2>1. label \in {"app.prev", "app.cur"}
    BY <1>2
  <2>2. InHand(t)
    BY DEF InHand, Adding
  <2>3. pc[t] \notin Taking
    BY DEF Taking
  <2>4. ~InHand(t)' /\ pc'[t] \notin Taking
    BY <1>3, <2>1 DEF InHand, Adding, Taking
  <2> QED
    BY <1>3, <2>2, <2>3, <2>4 DEF Others
<1>5. Linking(new, t, c)
  BY <1>1, <1>4 DEF Linking
<1>6. c \in Linked' /\ packet'[c] = packet[c]
  BY <1>5, LinkAt, InLinked
<1>7. label = "app.prev" => m = packet'[prev'[c]]
  <2>1. ASSUME label = "app.prev" PROVE m = packet'[prev'[c]]
    <3>1. m = packet[prev[c]] /\ prev[c] \in Linked
      BY <1>2, <2>1, LinkedPacket
    <3>2. c # next[c]
      BY InLinked, TypesAt, AddressAssumption
    <3>3. prev'[c] = prev[c]
      BY <1>5, <3>2, LinkAt, InLinked
    <3> QED
      BY <1>5, <3>1, <3>3, LinkAt
  <2> QED
    BY <2>1
<1>8. PlaceOK(t)'
  BY <1>2, <1>3, <1>6 DEF PlaceOK, Standing, Taking, HoldsHead, HoldsWanted, NoPacket
<1>9. WantOK(t)'
  BY <1>2, <1>3, <1>6, <1>7 DEF WantOK
<1> QED
  BY <1>5, <1>8, <1>9, LinkStep

(* 73, with no element to go on to. *)
LEMMA WalkPrevStep ==
  ASSUME TypeInv, TypeInv', Safe, Sound', NEW t \in Producers, WalkPrev(t)
  PROVE  Safe' /\ Moves(t)
<1> t \in Threads
  BY SystemAssumption
<1>0. PlaceOK(t) /\ WantOK(t)
  BY DEF Safe, ThreadsOK
<1>1. pc[t] = "walk.prev" /\ Unlock(t) /\ Advance(t, cur[t]) /\ UNCHANGED <<pkts, cur, arg>>
  BY DEF WalkPrev, locals
<1>2. /\ OwnersKept(t)
      /\ \A q \in Cells : owner'[q] = IF q = want[t] THEN NULL ELSE owner[q]
  BY <1>1, UnlockOwners
<1>3. /\ cur[t] \in Linked /\ owner[packet[cur[t]]] = t /\ cur[t] # queue_head
      /\ Number(cur[t]) < num[arg[t]] /\ want[t] = packet[prev[cur[t]]]
  BY <1>0, <1>1 DEF PlaceOK, WantOK, Standing
<1>4. owner'[packet[cur[t]]] = t
  BY <1>2, <1>3, LinkedPacket
<1>5. cur' = [cur EXCEPT ![t] = cur[t]]
  BY <1>1, TypeParts DEF ThreadTypeOK
<1> QED
  BY <1>1, <1>2, <1>3, <1>4, <1>5, AppendStep, WalkOnStep DEF pkts

(* 31: the first element visited is the head, whose -1 no packet undercuts. *)
LEMMA VisitHead ==
  ASSUME TypeInv, Safe, NEW t \in Threads, InHand(t), Visit(t, queue_head)
  PROVE  /\ cur' = [cur EXCEPT ![t] = queue_head] /\ UNCHANGED heap
         /\ Advance(t, queue_head) /\ Number(queue_head) < num[arg[t]]
<1>1. /\ packet[queue_head] = empty_packet /\ empty_packet # NULL
      /\ prev[queue_head] = NULL /\ queue_head # NULL
  BY TypesAt, AddressAssumption DEF Safe, HeapOK
<1>2. num[packet[queue_head]] = -1 /\ num[arg[t]] \in Nat
  BY <1>1, SystemAssumption DEF Safe, HeapOK, HandOK
<1>3. /\ ~(num[arg[t]] = num[packet[queue_head]])
      /\ ~(num[arg[t]] < num[packet[queue_head]])
  BY <1>2
<1>4. Number(queue_head) < num[arg[t]]
  BY <1>2 DEF Number
<1> QED
  BY <1>1, <1>3, <1>4 DEF Visit

LEMMA AddLockStep ==
  ASSUME TypeInv, TypeInv', Safe, NEW t \in Producers, AddLock(t)
  PROVE  Safe' /\ Moves(t)
<1> t \in Threads /\ t \in Workers
  BY SystemAssumption DEF Workers
<1>0. PlaceOK(t) /\ WantOK(t) /\ empty_packet \in Cells
  BY DEF Safe, ThreadsOK, Cells
<1>1. /\ pc[t] = "add.lock" /\ Lock(t) /\ UNCHANGED <<num, arg>>
      /\ InHand(t) /\ want[t] = empty_packet /\ cur[t] = NULL
  BY <1>0 DEF AddLock, InHand, Adding, WantOK, PlaceOK, Standing, Taking
<1>2. OwnersKept(t) /\ owner'[empty_packet] = t /\ owner[empty_packet] = NULL
  BY <1>0, <1>1, LockOwners
<1>3. CASE Goto(t, "add.full", empty_packet) /\ UNCHANGED <<list, heap, cur>>
  <2>1. QuietLocals(t, "add.full")
    BY <1>1, <1>3 DEF QuietLocals, Taking, HandLabels, Adding, pkts
  <2>2. Quiet(t) /\ pc'[t] = "add.full" /\ want'[t] = empty_packet
    BY <1>1, <1>3, <2>1, QuietGoto
  <2>3. PlaceOK(t)' /\ WantOK(t)'
    BY <1>1, <1>2, <1>3, <2>2
    DEF PlaceOK, WantOK, Standing, Taking, HoldsHead, HoldsWanted, NoPacket
  <2> QED
    BY <1>2, <2>2, <2>3, QuietStep
<1>4. CASE Visit(t, queue_head)
  <2>1. /\ cur' = [cur EXCEPT ![t] = queue_head] /\ UNCHANGED heap
        /\ Advance(t, queue_head) /\ Number(queue_head) < num[arg[t]]
    BY <1>1, <1>4, VisitHead
  <2>2. packet[queue_head] = empty_packet /\ queue_head \in Linked
    BY TypesAt DEF Safe, HeapOK
  <2>3. CASE next[queue_head] = NULL
    BY <1>1, <1>2, <2>1, <2>2, <2>3, AddressAssumption, AppendStep
  <2>4. CASE next[queue_head] # NULL
    <3>1. Goto(t, "walk.next", packet[next[queue_head]]) /\ UNCHANGED list
      BY <2>1, <2>4 DEF Advance
    <3>2. QuietLocals(t, "walk.next") /\ cur'[t] = queue_head
      BY <1>1, <2>1, <3>1, CurAt DEF QuietLocals, Taking, HandLabels, Adding, pkts
    <3>3. /\ Quiet(t) /\ pc'[t] = "walk.next" /\ want'[t] = packet[next[queue_head]]
          /\ Linked' = Linked /\ UNCHANGED <<packet, next, num>>
          /\ \A e : Number(e)' = Number(e)
      BY <1>1, <3>1, <3>2, QuietGoto
    <3>4. PlaceOK(t)' /\ WantOK(t)'
      BY <1>1, <1>2, <2>1, <2>2, <2>4, <3>2, <3>3
      DEF PlaceOK, WantOK, Standing, Taking, HoldsHead, HoldsWanted, NoPacket, Number
    <3> QED
      BY <1>2, <3>3, <3>4, QuietStep
  <2> QED
    BY <2>3, <2>4
<1> QED
  BY <1>3, <1>4 DEF AddLock

(* 77: the next element holds the packet's number, a larger or a smaller one. *)
LEMMA WalkNextStep ==
  ASSUME TypeInv, TypeInv', Safe, NEW t \in Producers, WalkNext(t)
  PROVE  Safe' /\ Moves(t)
<1> DEFINE c == next[cur[t]]
<1> t \in Threads /\ t \in Workers
  BY SystemAssumption DEF Workers
<1>0. PlaceOK(t) /\ WantOK(t)
  BY DEF Safe, ThreadsOK
<1>1. /\ pc[t] = "walk.next" /\ Lock(t) /\ UNCHANGED <<num, arg>> /\ Visit(t, c)
      /\ InHand(t) /\ cur[t] \in Linked /\ owner[packet[cur[t]]] = t
      /\ Number(cur[t]) < num[arg[t]] /\ c # NULL /\ want[t] = packet[c]
  BY <1>0 DEF WalkNext, InHand, Adding, WantOK, PlaceOK, Standing
<1>2. /\ c \in Linked /\ c # queue_head /\ prev[c] = cur[t] /\ prev[c] # NULL
      /\ packet[c] # NULL /\ packet[c] \in Cells /\ packet[prev[c]] # packet[c]
      /\ packet[cur[t]] \in Cells
  <2>1. c \in Linked /\ c # queue_head /\ prev[c] = cur[t] /\ packet[cur[t]] \in Cells
    BY <1>1, LinkedPacket
  <2> QED
    BY <2>1, LinkedPacket
<1>3. /\ OwnersKept(t) /\ owner[packet[c]] = NULL
      /\ owner'[packet[c]] = t /\ owner'[packet[cur[t]]] = t
  BY <1>1, <1>2, LockOwners
<1>4. cur' = [cur EXCEPT ![t] = c]
  BY <1>1 DEF Visit
<1>5. cur'[t] = c /\ \A u \in Threads \ {t} : cur'[u] = cur[u]
  BY <1>4, CurAt
<1>6. UNCHANGED heap
      /\ \/ InsertBefore(t, c) /\ num[arg[t]] < num[packet[c]]
         \/ \E label \in {"dup.prev", "walk.prev"} :
              /\ Goto(t, label, packet[cur[t]]) /\ UNCHANGED list
              /\ label = "walk.prev" => num[packet[c]] < num[arg[t]]
  <2>1. num[arg[t]] > num[packet[c]] => num[packet[c]] < num[arg[t]]
    BY <1>1, <1>2, TypesAt DEF Safe, HandOK, Cells
  <2> QED
    BY <1>1, <1>2, <2>1 DEF Visit
<1>7. CASE InsertBefore(t, c) /\ num[arg[t]] < num[packet[c]]
  <2>1. PICK new \in Elements \ live : Link(new, t, cur[t], c)
    BY <1>2, <1>7 DEF InsertBefore
  <2>2. Goto(t, "ins.prev", packet[cur[t]])
    BY <1>2, <1>7 DEF InsertBefore
  <2>3. pc'[t] = "ins.prev" /\ want'[t] = packet[cur[t]] /\ Others(t)
    BY <1>1, <1>5, <2>2, GotoAt DEF Others
  <2>4. pc[t] \notin Taking /\ pc'[t] \notin Taking /\ ~InHand(t)'
    BY <1>1, <2>3 DEF Taking, InHand, Adding
  <2>5. Linking(new, t, cur[t])
    BY <1>1, <1>6, <1>7, <2>1, <2>3, <2>4 DEF Linking, Number
  <2>6. /\ c \in Linked' /\ cur[t] \in Linked'
        /\ packet'[c] = packet[c] /\ packet'[cur[t]] = packet[cur[t]]
    BY <1>1, <1>2, <2>5, LinkAt
  <2>7. PlaceOK(t)'
    BY <1>2, <1>3, <1>5, <2>3, <2>6 DEF PlaceOK, Standing, Taking, HoldsHead, HoldsWanted, NoPacket
  <2>8. WantOK(t)'
    BY <1>2, <1>5, <2>3, <2>6 DEF WantOK
  <2>9. /\ owner[packet[cur[t]]] \notin Threads \ {t}
        /\ owner[packet[c]] \notin Threads \ {t}
    BY <1>1, <1>3, AddressAssumption
  <2> QED
    BY <1>3, <2>5, <2>7, <2>8, <2>9, LinkStep
<1>8. ASSUME NEW label \in {"dup.prev", "walk.prev"},
             Goto(t, label, packet[cur[t]]), UNCHANGED list,
             label = "walk.prev" => num[packet[c]] < num[arg[t]]
      PROVE  Safe' /\ Moves(t)
  <2>1. QuietLocals(t, label)
    BY <1>1, <1>5, <1>6, <1>8 DEF QuietLocals, Taking, HandLabels, Adding, pkts
  <2>2. /\ Quiet(t) /\ pc'[t] = label /\ want'[t] = packet[cur[t]]
        /\ Linked' = Linked /\ UNCHANGED <<packet, prev, num>> /\ arg'[t] = arg[t]
    BY <1>1, <1>8, <2>1, QuietGoto
  <2>3. PlaceOK(t)'
    BY <1>1, <1>2, <1>3, <1>5, <1>8, <2>2
    DEF PlaceOK, Standing, Taking, HoldsHead, HoldsWanted, NoPacket
  <2>4. WantOK(t)'
    BY <1>2, <1>5, <1>8, <2>2 DEF WantOK, Number
  <2> QED
    BY <1>3, <2>2, <2>3, <2>4, QuietStep
<1> QED
  BY <1>6, <1>7, <1>8

-----------------------------------------------------------------------------
(* get_paket takes the first element out: 113-132.                         *)

LEMMA UnlinkAt ==
  ASSUME TypeInv, Safe, NEW t \in Threads, NEW first, first = next[queue_head],
         Unlinking(t)
  PROVE  /\ first \in Linked /\ first # queue_head /\ first # NULL
         /\ first \in live /\ packet[first] \in heap
         /\ cur'[t] = first /\ arg'[t] = packet[first] /\ ~InHand(t)
         /\ pc'[t] \in {"get.unlockSecond", "get.load"}
         /\ pc'[t] = "get.unlockSecond" =>
              next[first] # NULL /\ want'[t] = packet[next[first]]
         /\ Others(t) /\ UNCHANGED <<packet, live, num, heap>>
         /\ Linked' = Linked \ {first}
         /\ next'[queue_head] = next[first]
         /\ \A e \in live : next'[e] = next[e]
         /\ next[first] # NULL => prev'[next[first]] = queue_head
         /\ \A e \in live \cup {queue_head} : e # next[first] => prev'[e] = prev[e]
<1>1. /\ first # NULL /\ Unlink(t) /\ UNCHANGED <<num, heap>>
      /\ pc[t] \in {"get.first", "get.second"}
  BY DEF Unlinking, pkts
<1>2. first \in Linked /\ first # queue_head /\ first \in live /\ packet[first] \in heap
  BY <1>1, LinkedPacket, TypesAt
<1>3. /\ cur' = [cur EXCEPT ![t] = first] /\ arg' = [arg EXCEPT ![t] = packet[first]]
      /\ next' = [next EXCEPT ![queue_head] = next[first]]
      /\ UNCHANGED <<packet, live>>
      /\ prev' = IF next[first] # NULL THEN [prev EXCEPT ![next[first]] = queue_head]
                 ELSE prev
  BY <1>1 DEF Unlink
<1>4. PICK label, m :
        /\ label \in {"get.unlockSecond", "get.load"}
        /\ Goto(t, label, m)
        /\ label = "get.unlockSecond" => next[first] # NULL /\ m = packet[next[first]]
  BY <1>1 DEF Unlink
<1>5. /\ pc'[t] = label /\ want'[t] = m
      /\ \A u \in Threads \ {t} : pc'[u] = pc[u] /\ want'[u] = want[u]
  BY <1>4, GotoAt
<1>6. cur'[t] = first /\ \A u \in Threads \ {t} : cur'[u] = cur[u]
  BY <1>3, CurAt
<1>7. arg'[t] = packet[first] /\ \A u \in Threads \ {t} : arg'[u] = arg[u]
  BY <1>3, ArgAt
<1>8. Others(t)
  BY <1>5, <1>6, <1>7 DEF Others
<1>9. ~InHand(t) /\ pc[t] \notin Taking /\ pc'[t] \in Taking
  BY <1>1, <1>4, <1>5 DEF InHand, Adding, Taking
<1>10. Linked' = Linked \ {first}
  <2>1. \A u \in Threads : pc'[u] \in Taking <=> u = t \/ pc[u] \in Taking
    BY <1>8, <1>9 DEF Others
  <2>2. \A e : e \in Linked' <=> e \in Linked /\ e # first
    BY <1>2, <1>3, <1>6, <1>9, <2>1, InLinked, InLinkedNext
  <2> QED
    BY <2>2
<1>11. /\ next'[queue_head] = next[first] /\ \A e \in live : next'[e] = next[e]
  BY <1>3, TypesAt, AddressAssumption, TypeParts DEF ListTypeOK, Nodes
<1>12. /\ next[first] # NULL => prev'[next[first]] = queue_head
       /\ \A e \in live \cup {queue_head} : e # next[first] => prev'[e] = prev[e]
  <2>1. next[first] # NULL => next[first] \in Nodes
    BY <1>2, LinkedPacket, TypesAt
  <2>2. live \cup {queue_head} \subseteq Nodes
    BY TypesAt DEF Nodes
  <2> QED
    BY <1>3, <2>1, <2>2, TypeParts DEF ListTypeOK
<1> QED
  BY <1>1, <1>2, <1>3, <1>4, <1>5, <1>6, <1>7, <1>8, <1>9, <1>10, <1>11, <1>12

LEMMA UnlinkChain ==
  ASSUME TypeInv, Safe, NEW t \in Threads, Unlinking(t)
  PROVE  ChainOK'
<1> DEFINE first == next[queue_head]
           second == next[first]
<1>1. /\ first \in Linked /\ first # queue_head /\ first # NULL
      /\ queue_head \in Linked /\ prev[first] = queue_head
  BY UnlinkAt, LinkedPacket, TypesAt
<1>2. /\ \A e \in Linked : next[e] # NULL =>
           next[e] \in Linked /\ prev[next[e]] = e /\ Number(e) < Number(next[e])
      /\ \A e, f \in Linked :
           Number(e) < Number(f) => next[e] # NULL /\ Number(next[e]) <= Number(f)
      /\ \A e, f \in Linked : Number(e) = Number(f) => e = f
      /\ \A e \in Linked \ {queue_head} : prev[e] \in Linked /\ next[prev[e]] = e
  BY DEF Safe, ChainOK, InOrder
<1>3. \A e \in Linked : Number(e) \in Int /\ e \in live \cup {queue_head}
  BY LinkedPacket, InLinked
<1>4. /\ Linked' = Linked \ {first} /\ UNCHANGED <<packet, num>>
      /\ next'[queue_head] = second /\ \A e \in live : next'[e] = next[e]
      /\ second # NULL => prev'[second] = queue_head
      /\ \A e \in live \cup {queue_head} : e # second => prev'[e] = prev[e]
  BY UnlinkAt
<1>5. \A e : Number(e)' = Number(e)
  BY <1>4 DEF Number
<1>6. second # NULL => /\ second \in Linked /\ prev[second] = first
                       /\ Number(first) < Number(second) /\ second # first
                       /\ Number(queue_head) < Number(second)
  BY <1>1, <1>2, <1>3
<1>7. InOrder'
  <2>0. \A e : (Number(next[e]))' = Number(next'[e])
    BY <1>4 DEF Number
  <2>1. ASSUME NEW e \in Linked', next'[e] # NULL
        PROVE  /\ next'[e] \in Linked' /\ prev'[next'[e]] = e
               /\ Number(e) < Number(next'[e])
    <3>1. CASE e = queue_head
      BY <1>4, <1>6, <2>1, <3>1
    <3>2. CASE e # queue_head
      <4>1. e \in Linked /\ e # first /\ next'[e] = next[e]
        BY <1>3, <1>4, <3>2
      <4>2. next[e] \in Linked /\ prev[next[e]] = e /\ Number(e) < Number(next[e])
        BY <1>2, <2>1, <4>1
      <4>3. next[e] # first /\ next[e] # second
        BY <1>1, <1>6, <2>1, <3>2, <4>1, <4>2
      <4> QED
        BY <1>3, <1>4, <4>1, <4>2, <4>3
    <3> QED
      BY <3>1, <3>2
  <2>2. ASSUME NEW e \in Linked', NEW f \in Linked', Number(e) < Number(f)
        PROVE  next'[e] # NULL /\ Number(next'[e]) <= Number(f)
    <3>0. e \in Linked /\ f \in Linked /\ f # first
      BY <1>4
    <3>1. CASE e = queue_head
      <4>1. Number(first) <= Number(f) /\ Number(first) # Number(f)
        BY <1>1, <1>2, <2>2, <3>0, <3>1
      <4>2. Number(first) < Number(f)
        BY <1>1, <1>3, <3>0, <4>1
      <4> QED
        BY <1>1, <1>2, <1>4, <3>0, <3>1, <4>2
    <3>2. CASE e # queue_head
      BY <1>2, <1>3, <1>4, <2>2, <3>0, <3>2
    <3> QED
      BY <3>1, <3>2
  <2> QED
    BY <1>5, <2>0, <2>1, <2>2 DEF InOrder
<1>8. \A e, f \in Linked' : Number(e)' = Number(f)' => e = f
  BY <1>2, <1>4, <1>5
<1>9. \A e \in Linked' \ {queue_head} : prev'[e] \in Linked' /\ next'[prev'[e]] = e
  <2> SUFFICES ASSUME NEW e \in Linked' \ {queue_head}
               PROVE  prev'[e] \in Linked' /\ next'[prev'[e]] = e
    OBVIOUS
  <2>0. e \in Linked /\ e # first /\ e # NULL /\ e \in live
    BY <1>3, <1>4, TypesAt, AddressAssumption
  <2>1. CASE e = second
    BY <1>1, <1>4, <2>0, <2>1
  <2>2. CASE e # second
    <3>1. prev'[e] = prev[e] /\ prev[e] \in Linked /\ next[prev[e]] = e
      BY <1>2, <1>4, <2>0, <2>2
    <3>2. prev[e] # first /\ prev[e] # queue_head
      BY <2>0, <2>2, <3>1
    <3> QED
      BY <1>3, <1>4, <3>1, <3>2
  <2> QED
    BY <2>1, <2>2
<1> QED
  BY <1>7, <1>8, <1>9 DEF ChainOK

LEMMA UnlinkStep ==
  ASSUME TypeInv, TypeInv', Safe, NEW t \in Threads, Unlinking(t),
         OwnersKept(t), PlaceOK(t)', WantOK(t)'
  PROVE  Safe' /\ Moves(t)
<1> DEFINE first == next[queue_head]
           second == next[first]
<1>1. /\ first \in Linked /\ first # queue_head /\ first \in live
      /\ packet[first] \in heap /\ arg'[t] = packet[first] /\ ~InHand(t)
      /\ Linked' = Linked \ {first} /\ UNCHANGED <<packet, live, num, heap>>
      /\ Others(t)
  BY UnlinkAt
<1>2. HeapOK'
  BY <1>1 DEF Safe, HeapOK
<1>3. ChainOK'
  BY UnlinkChain
<1>4. HandOK'
  <2> SUFFICES ASSUME NEW u \in Threads, InHand(u)'
               PROVE  /\ arg'[u] \in heap /\ \A e \in Linked' : packet[e] # arg'[u]
                      /\ \A v \in Threads \ {u} : InHand(v)' => arg'[v] # arg'[u]
    BY <1>1 DEF HandOK
  <2>1. \A v \in Threads \ {t} : InHand(v)' => InHand(v) /\ arg'[v] = arg[v]
    BY <1>1 DEF Others, InHand
  <2>2. \A v \in Threads \ {t} : InHand(v)' => arg'[v] # packet[first]
    BY <1>1, <2>1 DEF Safe, HandOK
  <2>3. \A e \in Linked' : packet[e] # packet[first]
    <3>1. empty_packet \notin heap /\ packet[queue_head] = empty_packet
      BY TypesAt, AddressAssumption DEF Safe, HeapOK
    <3> QED
      BY <1>1, <3>1, InLinked DEF Safe, HeapOK
  <2>4. CASE u = t
    BY <1>1, <2>2, <2>3, <2>4
  <2>5. CASE u # t
    <3>1. InHand(u) /\ arg'[u] = arg[u]
      BY <2>1, <2>5
    <3>2. arg[u] \in heap /\ \A e \in Linked : packet[e] # arg[u]
      BY <3>1 DEF Safe, HandOK
    <3>3. \A v \in Threads \ {u} : InHand(v)' => arg'[v] # arg[u]
      BY <1>1, <2>1, <2>2, <2>5, <3>1 DEF Safe, HandOK
    <3> QED
      BY <1>1, <3>1, <3>2, <3>3
  <2> QED
    BY <2>4, <2>5
<1>5. ListKept(t)
  <2>1. ASSUME NEW e \in live \cup {queue_head}, NEW u \in Threads \ {t}, owner[packet[e]] = u
        PROVE  /\ e \in live' \cup {queue_head} /\ (e \in Linked => e \in Linked')
               /\ next'[e] = next[e] /\ prev'[e] = prev[e]
    <3>1. e # queue_head /\ e # first /\ (second # NULL => e # second)
      BY <2>1 DEF Unlinking, Safe, HeapOK
    <3>2. e # NULL
      BY TypesAt, AddressAssumption
    <3> QED
      BY <1>1, <3>1, <3>2, UnlinkAt
  <2> QED
    BY <1>1, <2>1 DEF ListKept
<1> QED
  BY <1>1, <1>2, <1>3, <1>4, <1>5, OtherThreads DEF Frame, Moves

LEMMA GetTakesStep ==
  ASSUME TypeInv, TypeInv', Safe, NEW t \in Consumers,
         (GetFirst(t) /\ next[next[queue_head]] = NULL) \/ GetSecond(t)
  PROVE  Safe' /\ Moves(t)
<1> DEFINE first == next[queue_head]
           second == next[first]
<1> t \in Threads /\ t \in Workers
  BY SystemAssumption DEF Workers
<1>0. PlaceOK(t) /\ WantOK(t) /\ empty_packet \in Cells
  BY DEF Safe, ThreadsOK, Cells
<1>1. /\ pc[t] \in {"get.first", "get.second"} /\ Lock(t) /\ UNCHANGED pkts
      /\ first # NULL /\ owner[empty_packet] = t
      /\ pc[t] = "get.first" => want[t] = packet[first] /\ second = NULL
      /\ pc[t] = "get.second" => /\ want[t] = packet[second] /\ second # NULL
                                 /\ owner[packet[first]] = t
  BY <1>0 DEF GetFirst, GetSecond, PlaceOK, WantOK, HoldsHead
<1>2. Unlink(t)
  BY <1>1 DEF GetFirst, GetSecond
<1>3. /\ OwnersKept(t) /\ owner[want[t]] = NULL
      /\ \A q \in Cells : owner'[q] = IF q = want[t] THEN t ELSE owner[q]
  BY <1>1, LockOwners
<1>4. /\ first \in Linked /\ first # queue_head /\ packet[first] \in heap
      /\ packet[first] \in Cells /\ Number(first) \in Nat
      /\ second # NULL => /\ second \in Linked /\ second # queue_head
                          /\ Number(first) < Number(second)
  BY <1>1, LinkedPacket, TypesAt
<1>5. second # NULL => packet[second] \in heap /\ packet[second] \in Cells
  BY <1>4, LinkedPacket
<1>6. second # first /\ packet[first] # empty_packet
      /\ (second # NULL => packet[second] # empty_packet)
  <2>1. empty_packet \notin heap
    BY TypesAt, AddressAssumption
  <2>2. CASE second = NULL
    BY <1>1, <1>4, <2>1, <2>2
  <2>3. CASE second # NULL
    <3>1. Number(first) \in Nat /\ Number(first) < Number(second)
      BY <1>4, <2>3
    <3>2. Number(first) # Number(second)
      BY <3>1
    <3> QED
      BY <1>4, <1>5, <2>1, <2>3, <3>2
  <2> QED
    BY <2>2, <2>3
<1>7. Unlinking(t)
  BY <1>1, <1>2, <1>3, AddressAssumption DEF Unlinking
<1>8. owner'[packet[first]] = t /\ owner'[empty_packet] = t
      /\ (second # NULL => pc[t] = "get.second" /\ owner'[packet[second]] = t)
  BY <1>0, <1>1, <1>3, <1>4, <1>5
<1>9. /\ cur'[t] = first /\ first \in live' /\ arg'[t] = packet[first]
      /\ pc'[t] \in {"get.unlockSecond", "get.load"}
      /\ pc'[t] = "get.unlockSecond" => second # NULL /\ want'[t] = packet[second]
      /\ Linked' = Linked \ {first} /\ UNCHANGED packet
  BY <1>7, UnlinkAt
<1>10. PlaceOK(t)'
  BY <1>4, <1>6, <1>8, <1>9 DEF PlaceOK, Standing, Taking, HoldsHead, HoldsWanted, NoPacket
<1>11. WantOK(t)'
  BY <1>6, <1>9 DEF WantOK
<1> QED
  BY <1>3, <1>7, <1>10, <1>11, UnlinkStep

-----------------------------------------------------------------------------
(* Elements and packets are given back, and packets allocated.             *)

(* 133-136: the element goes, its packet is t's alone. *)
LEMMA GetStoreStep ==
  ASSUME TypeInv, TypeInv', Safe, NEW t \in Consumers, GetStore(t)
  PROVE  Safe' /\ Moves(t)
<1> DEFINE first == cur[t]
<1> t \in Threads /\ t \in Workers
  BY SystemAssumption DEF Workers
<1>0. PlaceOK(t)
  BY DEF Safe, ThreadsOK
<1>1. /\ pc[t] = "get.store" /\ first \in live /\ arg[t] = packet[first] /\ owner[arg[t]] = t
      /\ owner[empty_packet] = t /\ InHand(t) /\ first \in Nodes /\ first # queue_head
  BY <1>0, TypesAt, AddressAssumption DEF GetStore, PlaceOK, Taking, HoldsHead, InHand, Nodes
<1>2. /\ packet' = [packet EXCEPT ![first] = NULL] /\ live' = live \ {first}
      /\ cur' = [cur EXCEPT ![t] = NULL]
      /\ Goto(t, "get.unlockFirst", packet[first])
      /\ UNCHANGED <<next, prev, num, heap, owner, arg>>
  BY DEF GetStore, pkts
<1>3. /\ pc'[t] = "get.unlockFirst" /\ want'[t] = arg[t] /\ cur'[t] = NULL /\ arg'[t] = arg[t]
      /\ Others(t)
  <2>1. pc'[t] = "get.unlockFirst" /\ want'[t] = packet[first]
        /\ \A u \in Threads \ {t} : pc'[u] = pc[u] /\ want'[u] = want[u]
    BY <1>2, GotoAt
  <2>2. cur'[t] = NULL /\ \A u \in Threads \ {t} : cur'[u] = cur[u]
    BY <1>2, CurAt
  <2> QED
    BY <1>1, <1>2, <2>1, <2>2 DEF Others
<1>4. \A e \in Nodes \ {first} : packet'[e] = packet[e]
  BY <1>2, TypeParts DEF ListTypeOK
<1>5. Linked' = Linked /\ first \notin Linked
  <2>1. pc[t] \in Taking /\ pc'[t] \notin Taking
    BY <1>1, <1>3 DEF Taking
  <2>2. first \notin Linked
    BY <1>1, <2>1, InLinked
  <2>3. \A e : e \in Linked' <=> e \in Linked
    BY <1>2, <1>3, <2>1, <2>2, InLinked, InLinkedNext DEF Others
  <2> QED
    BY <2>2, <2>3
<1>6. \A e \in Linked : packet'[e] = packet[e] /\ Number(e)' = Number(e)
  BY <1>2, <1>4, <1>5, LinkedPacket DEF Number
<1>7. HeapOK'
  <2>1. packet'[first] = NULL
    BY <1>1, <1>2, TypeParts DEF ListTypeOK
  <2> QED
    BY <1>1, <1>2, <1>4, <2>1, TypesAt DEF Safe, HeapOK, Nodes
<1>8. ChainOK'
  <2>1. \A e \in Linked : next[e] # NULL => (Number(next[e]))' = Number(next[e])
    BY <1>2, <1>6, LinkedPacket DEF Number
  <2> QED
    BY <1>2, <1>5, <1>6, <2>1 DEF Safe, ChainOK, InOrder
<1>9. HandOK'
  <2>1. \A u \in Threads : (InHand(u)' <=> InHand(u)) /\ arg'[u] = arg[u]
    BY <1>1, <1>2, <1>3 DEF Others, InHand
  <2> QED
    BY <1>2, <1>5, <1>6, <2>1 DEF Safe, HandOK
<1>10. ListKept(t)
  BY <1>1, <1>2, <1>4, <1>5, TypesAt DEF ListKept, Nodes
<1>11. OwnersKept(t)
  BY <1>2, SameOwners
<1>12. PlaceOK(t)' /\ WantOK(t)'
  BY <1>1, <1>2, <1>3 DEF PlaceOK, WantOK, Standing, Taking, HoldsHead, HoldsWanted, NoPacket
<1>13. Resting(t)
  <2>1. InHand(t)'
    BY <1>3 DEF InHand
  <2> QED
    BY <1>1, <1>2, <1>3, <1>5, <1>6, <2>1 DEF Resting, SameQueue
<1> QED
  BY <1>3, <1>7, <1>8, <1>9, <1>10, <1>11, <1>12, <1>13, OtherThreads DEF Frame, Moves

(* A packet that was in t's hands is freed. *)
LEMMA DropStep ==
  ASSUME TypeInv, TypeInv', Safe, NEW t \in Threads, SameList(t),
         InHand(t), pc[t] \notin Taking, ~InHand(t)',
         heap' = heap \ {arg[t]}, UNCHANGED num, OwnersKept(t),
         PlaceOK(t)', WantOK(t)'
  PROVE  Safe' /\ Moves(t)
<1>1. Linked' = Linked /\ UNCHANGED <<packet, next, prev, live>> /\ Others(t)
  BY LinkedSame DEF SameList
<1>2. HeapOK'
  <2>1. \A e \in live : packet[e] \in heap /\ packet[e] # arg[t]
    BY HandNotListed DEF Safe, HeapOK
  <2> QED
    BY <1>1, <2>1 DEF Safe, HeapOK
<1>3. ChainOK'
  BY <1>1 DEF Safe, ChainOK, InOrder, Number
<1>4. HandOK'
  <2>1. \A u \in Threads : InHand(u)' => u # t /\ InHand(u) /\ arg'[u] = arg[u]
    BY <1>1 DEF Others, InHand
  <2> QED
    BY <1>1, <2>1 DEF Safe, HandOK
<1>5. Frame(t)
  BY <1>1 DEF Frame, ListKept
<1>6. Dropping(t)
  BY <1>1 DEF Dropping, SameQueue, Number
<1> QED
  BY <1>2, <1>3, <1>4, <1>5, <1>6, OtherThreads DEF Moves

LEMMA DupPrevStep ==
  ASSUME TypeInv, TypeInv', Safe, Sound', NEW t \in Producers, DupPrev(t)
  PROVE  Safe' /\ Moves(t)
<1> t \in Threads /\ t \in Workers
  BY SystemAssumption DEF Workers
<1>0. PlaceOK(t) /\ WantOK(t)
  BY DEF Safe, ThreadsOK
<1>1. /\ pc[t] = "dup.prev" /\ Unlock(t) /\ Goto(t, "dup", NULL)
      /\ heap' = heap \ {arg[t]} /\ UNCHANGED <<list, num, cur, arg>>
  BY DEF DupPrev, Reject, locals
<1>2. /\ OwnersKept(t)
      /\ \A q \in Cells : owner'[q] = IF q = want[t] THEN NULL ELSE owner[q]
  BY <1>1, UnlockOwners
<1>3. pc'[t] = "dup" /\ Others(t)
  BY <1>1, GotoAt DEF Others
<1>4. /\ SameList(t) /\ InHand(t) /\ pc[t] \notin Taking /\ ~InHand(t)'
  BY <1>1, <1>3 DEF SameList, InHand, Adding, Taking
<1>5. /\ cur[t] \in Linked /\ owner[packet[cur[t]]] = t /\ cur[t] # queue_head
      /\ want[t] = packet[prev[cur[t]]]
  BY <1>0, <1>1 DEF PlaceOK, WantOK, Standing
<1>6. owner'[packet[cur[t]]] = t
  BY <1>2, <1>5, LinkedPacket
<1>7. Linked' = Linked /\ UNCHANGED packet
  BY <1>4, LinkedSame
<1>8. PlaceOK(t)' /\ WantOK(t)'
  BY <1>1, <1>3, <1>5, <1>6, <1>7
  DEF PlaceOK, WantOK, Standing, Taking, HoldsHead, HoldsWanted, NoPacket
<1> QED
  BY <1>1, <1>2, <1>4, <1>8, DropStep

LEMMA ConsumedStep ==
  ASSUME TypeInv, TypeInv', Safe, NEW t \in Consumers, Consumed(t)
  PROVE  Safe' /\ Moves(t)
<1> t \in Threads /\ t \in Workers
  BY SystemAssumption DEF Workers
<1>0. PlaceOK(t)
  BY DEF Safe, ThreadsOK
<1>1. /\ pc[t] = "got" /\ Goto(t, "consumer", NULL) /\ heap' = heap \ {arg[t]}
      /\ arg' = [arg EXCEPT ![t] = NULL] /\ UNCHANGED <<list, num, owner, cur>>
  BY DEF Consumed
<1>2. OwnersKept(t)
  BY <1>1, SameOwners
<1>3. pc'[t] = "consumer" /\ arg'[t] = NULL /\ Others(t)
  BY <1>1, GotoAt, ArgAt DEF Others
<1>4. /\ SameList(t) /\ InHand(t) /\ pc[t] \notin Taking /\ ~InHand(t)'
  BY <1>1, <1>3 DEF SameList, InHand, Adding, Taking
<1>5. PlaceOK(t)' /\ WantOK(t)'
  BY <1>0, <1>1, <1>3 DEF PlaceOK, WantOK, Standing, Taking, HoldsHead, HoldsWanted, NoPacket
<1> QED
  BY <1>1, <1>2, <1>4, <1>5, DropStep

(* A fresh packet, whose address is that of none in use. *)
LEMMA FreshStep ==
  ASSUME TypeInv, TypeInv', Safe, NEW t \in Producers, pc[t] \in {"producer", "full"},
         AddFreshPacket(t)
  PROVE  Safe' /\ Moves(t) /\ Renewing(t) /\ (InHand(t) <=> pc[t] = "full")
<1> t \in Threads /\ t \in Workers
  BY SystemAssumption DEF Workers
<1>0. PlaceOK(t) /\ (InHand(t) <=> pc[t] = "full") /\ UNCHANGED <<list, cur>>
  BY DEF Safe, ThreadsOK, InHand, Adding, AddFreshPacket
<1>1. PICK p \in Packets \ heap, n \in Nums :
        /\ heap' = heap \cup {p} /\ num' = [num EXCEPT ![p] = n]
        /\ owner' = [owner EXCEPT ![p] = NULL] /\ arg' = [arg EXCEPT ![t] = p]
  BY DEF AddFreshPacket
<1>2. Goto(t, "add.lock", empty_packet)
  BY DEF AddFreshPacket
<1>3. /\ pc'[t] = "add.lock" /\ want'[t] = empty_packet /\ arg'[t] = p
      /\ \A u \in Threads \ {t} : pc'[u] = pc[u] /\ want'[u] = want[u]
  BY <1>2, GotoAt, <1>1, ArgAt
<1>4. Others(t)
  BY <1>0, <1>1, <1>3, ArgAt DEF Others
<1>5. SameList(t)
  BY <1>0, <1>3, <1>4 DEF SameList, Taking
<1>6. Linked' = Linked /\ UNCHANGED <<packet, next, prev, live>>
  BY <1>5, LinkedSame
<1>8. \A q \in heap : q \in heap' /\ q # p
  BY <1>1
<1>9. /\ p \in Cells /\ p # empty_packet /\ num'[p] \in Nums
      /\ \A q \in Cells \ {p} : num'[q] = num[q] /\ owner'[q] = owner[q]
  BY <1>1, AddressAssumption, TypeParts DEF PacketTypeOK, Cells
<1>10. \A e \in live : packet[e] \in heap /\ packet[e] \in heap' /\ packet[e] # p
  BY <1>8 DEF Safe, HeapOK
<1>11. \A e \in Linked : packet[e] # p /\ Number(e)' = Number(e)
  <2> SUFFICES ASSUME NEW e \in Linked PROVE packet[e] # p /\ Number(e)' = Number(e)
    OBVIOUS
  <2>1. packet[e] # p /\ packet[e] \in Cells
    BY <1>9, <1>10, LinkedPacket DEF Safe, HeapOK
  <2> QED
    BY <1>6, <1>9, <2>1 DEF Number
<1>12. HeapOK'
  <2>1. \A q \in heap' : num'[q] \in Nums
    BY <1>1, <1>9, TypesAt DEF Safe, HeapOK, Cells
  <2>2. packet[queue_head] = empty_packet /\ num'[empty_packet] = -1
    BY <1>9 DEF Safe, HeapOK, Cells
  <2> QED
    BY <1>6, <1>10, <2>1, <2>2 DEF Safe, HeapOK
<1>13. ChainOK'
  <2>1. \A e \in Linked : next[e] # NULL => (Number(next[e]))' = Number(next[e])
    BY <1>6, <1>11, LinkedPacket DEF Number
  <2> QED
    BY <1>6, <1>11, <2>1 DEF Safe, ChainOK, InOrder
<1>14. HandOK'
  <2> SUFFICES ASSUME NEW u \in Threads, InHand(u)'
               PROVE  /\ arg'[u] \in heap' /\ \A e \in Linked : packet[e] # arg'[u]
                      /\ \A v \in Threads \ {u} : InHand(v)' => arg'[v] # arg'[u]
    BY <1>6 DEF HandOK
  <2>1. \A v \in Threads \ {t} : InHand(v)' => InHand(v) /\ arg'[v] = arg[v]
    BY <1>4 DEF Others, InHand
  <2>2. \A v \in Threads \ {t} : InHand(v)' => arg[v] \in heap' /\ arg[v] # p
    BY <1>8, <2>1 DEF Safe, HandOK
  <2>3. CASE u = t
    BY <1>1, <1>3, <1>11, <2>1, <2>2, <2>3
  <2>4. CASE u # t
    <3>1. \A e \in Linked : packet[e] # arg[u]
      BY <2>1, <2>4 DEF Safe, HandOK
    <3>2. \A v \in Threads \ {u} : InHand(v)' => arg'[v] # arg[u]
      BY <1>3, <2>1, <2>2, <2>4 DEF Safe, HandOK
    <3> QED
      BY <2>1, <2>2, <2>4, <3>1, <3>2
  <2> QED
    BY <2>3, <2>4
<1>15. OwnersKept(t)
  <2>1. heap \cup {empty_packet} \subseteq Cells
    BY TypesAt DEF Cells
  <2> QED
    BY <1>8, <1>9, <2>1 DEF OwnersKept
<1>16. ListKept(t)
  <2>1. \A q \in (heap \cap heap') \cup {empty_packet} : num'[q] = num[q]
    BY <1>8, <1>9, TypesAt DEF Cells
  <2> QED
    BY <1>6, <2>1 DEF ListKept
<1>17. PlaceOK(t)' /\ WantOK(t)'
  BY <1>0, <1>3 DEF PlaceOK, WantOK, Standing, Taking, HoldsHead, HoldsWanted, NoPacket
<1>18. Renewing(t)
  <2>1. InHand(t)' /\ pc[t] \notin Taking
    BY <1>3 DEF InHand, Adding, Taking
  <2> QED
    BY <1>1, <1>3, <1>4, <1>6, <1>11, <2>1 DEF Renewing, SameQueue
<1> QED
  BY <1>0, <1>4, <1>12, <1>13, <1>14, <1>15, <1>16, <1>17, <1>18, OtherThreads DEF Frame, Moves

-----------------------------------------------------------------------------
(* All steps together.                                                     *)

(* What has been recorded stays so. *)
LEMMA FaultsStay == [Next]_vars => faults \subseteq faults'
<1> SUFFICES ASSUME [Next]_vars PROVE faults \subseteq faults'
  OBVIOUS
<1>1. CASE UNCHANGED vars
  BY <1>1 DEF vars, queueVars
<1>2. ASSUME NEW t \in Threads, QueueStep(t) PROVE faults \subseteq faults'
  <2>1. UNCHANGED faults \/ Lock(t) \/ Unlock(t)
    BY <1>2 DEF QueueStep, AddLock, AddFull, WalkPrev, WalkNext, DupPrev, InsPrev,
       AppPrev, UnlockCur, LoadIndex, AddStore, GetLock, GetFirst, GetSecond, GetEmpty,
       GetUnlockSecond, GetStore, GetUnlockFirst, GetUnlockHead, Crash
  <2> QED
    BY <2>1 DEF Lock, Unlock
<1>3. ASSUME NEW t \in Threads, ProducerStep(t) \/ ConsumerStep(t)
      PROVE  faults \subseteq faults'
  BY <1>3 DEF ProducerStep, ConsumerStep, Produce, RetryFull, AddFreshPacket,
     RetryFreed, Produced, ProducerDone, Consume, Consumed, NothingConsumed, ConsumerDone
<1>4. ASSUME NEW t \in Threads, ObserverStep(t) PROVE faults \subseteq faults'
  <2>1. UNCHANGED faults \/ Lock(t) \/ Unlock(t)
    BY <1>4 DEF ObserverStep, Observe, ObsLock, ObsPrint, ObsMove, ObsPrev, ObsPeek,
       ObsNext, ObsLast, ObserverDone
  <2> QED
    BY <2>1 DEF Lock, Unlock
<1> QED
  BY <1>1, <1>2, <1>3, <1>4 DEF Next, Step

LEMMA QueueStepSafe ==
  ASSUME TypeInv, TypeInv', Safe, Sound', NEW t \in Threads, QueueStep(t)
  PROVE  Safe' /\ Moves(t)
<1>0. PlaceOK(t) /\ pc[t] \in Labels(t) /\ ThreadTypeOK
  BY TypeParts, TypesAt DEF Safe, ThreadsOK
<1>1. CASE Crash(t)
  <2>1. t \notin Workers
    BY <1>1, NoCrash DEF Crash
  <2> QED
    BY <1>1, <2>1, SystemAssumption, ObserverSafe DEF Workers
<1>2. CASE \/ AddLock(t) \/ AddFull(t) \/ WalkPrev(t) \/ WalkNext(t) \/ DupPrev(t)
           \/ InsPrev(t) \/ AppPrev(t) \/ UnlockCur(t) \/ AddStore(t)
  <2>1. pc[t] \in Adding
    BY <1>2 DEF AddLock, AddFull, WalkPrev, WalkNext, DupPrev, InsPrev, AppPrev,
                UnlockCur, AddStore, Adding
  <2>2. t \in Producers /\ t \in Workers
    BY <1>0, <2>1, Roles DEF Workers
  <2> QED
    BY <1>2, <2>2, AddSteps, AddLockStep, WalkPrevStep, WalkNextStep, DupPrevStep,
       IndexSteps
<1>3. CASE \/ GetLock(t) \/ GetFirst(t) \/ GetSecond(t) \/ GetEmpty(t)
           \/ GetUnlockSecond(t) \/ GetStore(t) \/ GetUnlockFirst(t) \/ GetUnlockHead(t)
  <2>1. pc[t] \in Getting
    BY <1>3 DEF GetLock, GetFirst, GetSecond, GetEmpty, GetUnlockSecond, GetStore,
                GetUnlockFirst, GetUnlockHead, Getting
  <2>2. t \in Consumers
    BY <1>0, <2>1, Roles
  <2> QED
    BY <1>3, <2>2, GetLooks, GetUnlocks, GetTakesStep, GetStoreStep
<1>4. CASE LoadIndex(t)
  <2>1. pc[t] \in Adding \cup Getting
    BY <1>4 DEF LoadIndex, Adding, Getting
  <2>2. t \in Workers
    BY <1>0, <2>1, Roles DEF Workers
  <2> QED
    BY <1>4, <2>2, IndexSteps
<1> QED
  BY <1>1, <1>2, <1>3, <1>4 DEF QueueStep

LEMMA ProducerStepSafe ==
  ASSUME TypeInv, TypeInv', Safe, Sound', NEW t \in Producers, ProducerStep(t)
  PROVE  Safe' /\ Moves(t)
<1> t \in Workers
  BY DEF Workers
<1>1. CASE Produce(t)
  BY <1>1, FreshStep DEF Produce
<1>2. CASE RetryFull(t)
  BY <1>2, FreshStep DEF RetryFull
<1>3. CASE RetryFreed(t)
  BY <1>3 DEF RetryFreed, Sound
<1>4. CASE Produced(t) \/ ProducerDone(t)
  BY <1>4, IdleSteps
<1> QED
  BY <1>1, <1>2, <1>3, <1>4 DEF ProducerStep

LEMMA ConsumerStepSafe ==
  ASSUME TypeInv, TypeInv', Safe, NEW t \in Consumers, ConsumerStep(t)
  PROVE  Safe' /\ Moves(t)
<1> t \in Workers
  BY DEF Workers
<1> QED
  BY IdleSteps, ConsumedStep DEF ConsumerStep

LEMMA StepSafe ==
  ASSUME TypeInv, TypeInv', Safe, Sound', NEW t \in Threads, Step(t)
  PROVE  Safe' /\ Moves(t)
BY QueueStepSafe, ProducerStepSafe, ConsumerStepSafe, ObserverSafe DEF Step

LEMMA SafeInvStep == TypeInv /\ SafeInv /\ [Next]_vars => SafeInv'
<1> SUFFICES ASSUME TypeInv, SafeInv, [Next]_vars, Sound' PROVE Safe'
  BY DEF SafeInv
<1>1. Sound /\ Safe /\ TypeInv'
  BY FaultsStay, TypeInvStep DEF Sound, SafeInv
<1>2. CASE UNCHANGED vars
  <2>1. UNCHANGED <<packet, next, prev, live, num, heap, owner, pc, cur, arg, want>>
    BY <1>2 DEF vars, queueVars, list, pkts, locals
  <2>2. Linked' = Linked
    BY <2>1 DEF Linked, Unlinked
  <2>3. HeapOK' /\ ChainOK' /\ HandOK'
    BY <1>1, <2>1, <2>2 DEF Safe, HeapOK, ChainOK, HandOK, InOrder, Number, InHand
  <2>4. ThreadsOK'
    BY <1>1, <2>1, <2>2 DEF Safe, ThreadsOK, PlaceOK, WantOK, Number
  <2> QED
    BY <2>3, <2>4 DEF Safe
<1>3. ASSUME NEW t \in Threads, Step(t) PROVE Safe'
  BY <1>1, <1>3, StepSafe
<1> QED
  BY <1>2, <1>3 DEF Next

LEMMA SafeInvInit == Init => SafeInv
<1> SUFFICES ASSUME Init PROVE Safe
  BY DEF SafeInv
<1>1. \A t \in Threads : pc[t] \in {"producer", "consumer", "observer"}
  BY DEF Init
<1>2. \A t \in Threads : ~InHand(t) /\ pc[t] \notin Taking \cup Standing \cup HoldsHead
  BY <1>1 DEF InHand, Adding, Taking, Standing, HoldsHead
<1>3. /\ live = {} /\ heap = {} /\ packet[queue_head] = empty_packet
      /\ num[empty_packet] = -1 /\ next[queue_head] = NULL
      /\ \A t \in Threads : cur[t] = NULL /\ arg[t] = NULL
      /\ \A e \in Nodes \ {queue_head} : packet[e] = NULL
  BY DEF Init, QueueInit, Nodes, Cells
<1>4. Linked = {queue_head}
  BY <1>3, InLinked
<1>5. HeapOK /\ HandOK
  BY <1>2, <1>3 DEF HeapOK, HandOK
<1>6. ChainOK
  <2>1. Number(queue_head) = -1
    BY <1>3 DEF Number
  <2> QED
    BY <1>3, <1>4, <2>1 DEF ChainOK, InOrder
<1>7. \A t \in Threads : PlaceOK(t) /\ WantOK(t)
  BY <1>1, <1>2, <1>3 DEF PlaceOK, WantOK, HoldsWanted, NoPacket
<1> QED
  BY <1>5, <1>6, <1>7 DEF Safe, ThreadsOK

-----------------------------------------------------------------------------
(* However producers, consumers and observers interleave, the list is in   *)
(* order as long as no mutex has been stolen, none in freed memory used    *)
(* and no freed packet added again: queue.c:41-95 and 107-132.             *)
THEOREM ListSorted == Spec => []SortedWhileSound
<1>1. SafeInv => SortedWhileSound
  BY DEF SafeInv, Safe, ChainOK, SortedWhileSound
<1> QED
  BY <1>1, TypeInvInit, TypeInvStep, SafeInvInit, SafeInvStep, PTL DEF Spec

(* Under the same condition no producer and no consumer stands on, locks,  *)
(* unlocks or carries anything freed, inside add_paket and get_paket.      *)
THEOREM NoDangling == Spec => []NoDanglingWhileSound
<1>1. TypeInv /\ SafeInv => NoDanglingWhileSound
  <2> SUFFICES ASSUME TypeInv, Safe, NEW t \in Producers \cup Consumers
               PROVE  /\ pc[t] \in {"walk.prev", "walk.next", "dup.prev", "ins.prev",
                                    "ins.cur", "app.prev", "app.cur"} => cur[t] \in Linked
                      /\ pc[t] \in PthreadCalls => want[t] \in Allocated
                      /\ InHand(t) => arg[t] \in heap
    BY DEF SafeInv, NoDanglingWhileSound
  <2>1. t \in Threads /\ t \in Workers
    BY SystemAssumption DEF Workers
  <2>2. PlaceOK(t) /\ (InHand(t) => arg[t] \in heap)
    BY <2>1 DEF Safe, ThreadsOK, HandOK
  <2> QED
    BY <2>1, <2>2, WantAllocated DEF PlaceOK, Standing
<1> QED
  BY <1>1, TypeInvInit, TypeInvStep, SafeInvInit, SafeInvStep, PTL DEF Spec

-----------------------------------------------------------------------------
(* No packet is lost.                                                      *)

Kept(p) == \/ \E e \in Linked : packet[e] = p
           \/ \E u \in Threads : InHand(u) /\ arg[u] = p
           \/ p \in forgotten

Lost(p) == /\ p \in heap
           /\ \A e \in Linked : packet[e] # p
           /\ \A u \in Threads : InHand(u) => arg[u] # p

KeptInv == Sound => /\ \A p \in heap : Kept(p)
                    /\ \A p \in forgotten : Lost(p)

(* Only a producer that retries after QUEUE_FULL forgets a packet.         *)
Forgetting(t) ==
  \/ UNCHANGED forgotten /\ (Renewing(t) => ~InHand(t))
  \/ Renewing(t) /\ InHand(t) /\ forgotten' = forgotten \cup {arg[t]}

LEMMA Forgets ==
  ASSUME TypeInv, TypeInv', Safe, NEW t \in Threads, Step(t)
  PROVE  Forgetting(t)
<1>1. CASE t \in Producers /\ Produce(t)
  BY <1>1, FreshStep DEF Produce, Forgetting
<1>2. CASE t \in Producers /\ RetryFull(t)
  BY <1>2, FreshStep DEF RetryFull, Forgetting
<1>3. CASE ~(t \in Producers /\ (Produce(t) \/ RetryFull(t)))
  <2>1. QueueStep(t) => heap' \subseteq heap
    BY DEF QueueStep, AddLock, AddFull, WalkPrev, WalkNext, DupPrev, InsPrev, AppPrev,
       UnlockCur, LoadIndex, AddStore, GetLock, GetFirst, GetSecond, GetEmpty,
       GetUnlockSecond, GetStore, GetUnlockFirst, GetUnlockHead, Crash, Visit, Reject,
       pkts
  <2>2. CASE QueueStep(t) /\ UNCHANGED counters
    BY <2>1, <2>2 DEF counters, Forgetting, Renewing
  <2>3. CASE t \in Producers /\ ProducerStep(t)
    BY <1>3, <2>3 DEF ProducerStep, RetryFreed, Produced, ProducerDone, pkts, counters,
       Forgetting, Renewing
  <2>4. CASE t \in Consumers /\ ConsumerStep(t)
    BY <2>4 DEF ConsumerStep, Consume, Consumed, NothingConsumed, ConsumerDone, pkts,
       counters, Forgetting, Renewing
  <2>5. CASE t \in Observers /\ ObserverStep(t)
    BY <2>5 DEF ObserverStep, Observe, ObsLock, ObsPrint, ObsMove, ObsPrev, ObsPeek,
       ObsNext, ObsLast, ObserverDone, pkts, counters, Forgetting, Renewing
  <2> QED
    BY <2>2, <2>3, <2>4, <2>5 DEF Step
<1> QED
  BY <1>1, <1>2, <1>3

LEMMA KeptStep ==
  ASSUME TypeInv, TypeInv', Safe, NEW t \in Threads, Moves(t), Forgetting(t),
         \A p \in heap : Kept(p), NEW p \in heap'
  PROVE  Kept(p)'
<1>1. Others(t) /\ forgotten \subseteq forgotten'
  BY UnlinkAt DEF Moves, Resting, Dropping, Renewing, Linking, SameQueue, Forgetting
<1>2. InHand(t)' /\ arg'[t] = p => Kept(p)'
  BY DEF Kept
<1>3. CASE p \notin heap
  BY <1>2, <1>3, UnlinkAt DEF Moves, Resting, Dropping, Renewing, Linking
<1>4. ASSUME NEW e \in Linked, packet[e] = p PROVE Kept(p)'
  <2>1. CASE Linked' = Linked /\ packet'[e] = packet[e]
    BY <1>4, <2>1 DEF Kept
  <2>2. ASSUME NEW new, NEW q, Linking(new, t, q) PROVE Kept(p)'
    BY <1>4, <2>2, LinkAt DEF Kept
  <2>3. CASE Unlinking(t)
    <3>1. CASE e = next[queue_head]
      <4>1. arg'[t] = p /\ pc'[t] \in {"get.unlockSecond", "get.load"}
        BY <1>4, <2>3, <3>1, UnlinkAt
      <4> QED
        BY <1>2, <4>1 DEF InHand
    <3>2. CASE e # next[queue_head]
      BY <1>4, <2>3, <3>2, UnlinkAt DEF Kept
    <3> QED
      BY <3>1, <3>2
  <2> QED
    BY <2>1, <2>2, <2>3 DEF Moves, Resting, Dropping, Renewing, SameQueue
<1>5. ASSUME NEW u \in Threads \ {t}, InHand(u), arg[u] = p
      PROVE  Kept(p)'
  BY <1>1, <1>5 DEF Others, Kept, InHand
<1>6. CASE p \in forgotten
  BY <1>1, <1>6 DEF Kept
<1>7. CASE InHand(t) /\ arg[t] = p
  <2>1. CASE Resting(t)
    BY <1>2, <1>7, <2>1 DEF Resting
  <2>2. CASE Dropping(t)
    BY <1>7, <2>2 DEF Dropping
  <2>3. CASE Renewing(t)
    BY <1>7, <2>3 DEF Forgetting, Kept
  <2>4. ASSUME NEW new, NEW q, Linking(new, t, q) PROVE Kept(p)'
    BY <1>7, <2>4, LinkAt DEF Kept
  <2>5. CASE Unlinking(t)
    BY <1>7, <2>5, UnlinkAt
  <2> QED
    BY <2>1, <2>2, <2>3, <2>4, <2>5 DEF Moves
<1> QED
  BY <1>3, <1>4, <1>5, <1>6, <1>7 DEF Kept

(* A forgotten packet is never found again. *)
LEMMA LostStep ==
  ASSUME TypeInv, TypeInv', Safe, NEW t \in Threads, Moves(t), Forgetting(t),
         \A p \in forgotten : Lost(p), NEW p \in forgotten'
  PROVE  Lost(p)'
<1>1. Others(t)
  BY UnlinkAt DEF Moves, Resting, Dropping, Renewing, Linking, SameQueue
<1>2. \A u \in Threads \ {t} : InHand(u)' => InHand(u) /\ arg'[u] = arg[u]
  BY <1>1 DEF Others, InHand
<1>3. CASE p \in forgotten
  <2>1. Lost(p)
    BY <1>3
  <2>2. CASE Resting(t) \/ Dropping(t)
    BY <1>2, <2>1, <2>2 DEF Resting, Dropping, SameQueue, Lost
  <2>3. CASE Renewing(t)
    BY <1>2, <2>1, <2>3 DEF Renewing, SameQueue, Lost
  <2>4. ASSUME NEW new, NEW q, Linking(new, t, q) PROVE Lost(p)'
    <3>1. InHand(t) /\ ~InHand(t)' /\ UNCHANGED heap
      BY <2>4 DEF Linking
    <3>2. \A e \in Linked' : packet'[e] # p
      BY <2>1, <2>4, <3>1, LinkAt DEF Lost
    <3> QED
      BY <1>2, <2>1, <3>1, <3>2 DEF Lost
  <2>5. CASE Unlinking(t)
    <3> DEFINE first == next[queue_head]
    <3>1. /\ first \in Linked /\ arg'[t] = packet[first]
          /\ Linked' = Linked \ {first} /\ UNCHANGED <<packet, heap>>
      BY <2>5, UnlinkAt
    <3> QED
      BY <1>2, <2>1, <3>1 DEF Lost
  <2> QED
    BY <2>2, <2>3, <2>4, <2>5 DEF Moves
<1>4. CASE p \notin forgotten
  <2>1. Renewing(t) /\ InHand(t) /\ p = arg[t]
    BY <1>4 DEF Forgetting
  <2>2. /\ p \in heap /\ \A e \in Linked : packet[e] # p
        /\ \A u \in Threads \ {t} : InHand(u) => arg[u] # p
    BY <2>1 DEF Safe, HandOK
  <2> QED
    BY <1>2, <2>1, <2>2 DEF Renewing, SameQueue, Lost
<1> QED
  BY <1>3, <1>4

LEMMA KeptInvStep == TypeInv /\ SafeInv /\ KeptInv /\ [Next]_vars => KeptInv'
<1> SUFFICES ASSUME TypeInv, SafeInv, KeptInv, [Next]_vars, Sound'
             PROVE  /\ \A p \in heap' : Kept(p)'
                    /\ \A p \in forgotten' : Lost(p)'
  BY DEF KeptInv
<1>1. /\ Sound /\ Safe /\ TypeInv'
      /\ \A p \in heap : Kept(p)
      /\ \A p \in forgotten : Lost(p)
  BY FaultsStay, TypeInvStep DEF Sound, SafeInv, KeptInv
<1>2. CASE UNCHANGED vars
  <2>1. UNCHANGED <<packet, heap, pc, arg, forgotten>> /\ Linked' = Linked
    BY <1>2 DEF vars, queueVars, counters, list, pkts, locals, Linked, Unlinked
  <2> QED
    BY <1>1, <2>1 DEF Kept, Lost, InHand
<1>3. ASSUME NEW t \in Threads, Step(t)
      PROVE  /\ \A p \in heap' : Kept(p)'
             /\ \A p \in forgotten' : Lost(p)'
  BY <1>1, <1>3, StepSafe, Forgets, KeptStep, LostStep
<1> QED
  BY <1>2, <1>3 DEF Next

LEMMA OnePlaceFollows == TypeInv /\ SafeInv /\ KeptInv => OnePlaceWhileSound
<1> SUFFICES ASSUME TypeInv, Safe, NEW p \in heap, Kept(p), p \in forgotten => Lost(p)
             PROVE  Places(p) = IF p \in forgotten THEN 0 ELSE 1
  BY DEF SafeInv, KeptInv, OnePlaceWhileSound
<1> DEFINE E == {e \in Linked : packet[e] = p}
           T == {t \in Threads : InHand(t) /\ arg[t] = p}
<1>1. Places(p) = Cardinality(E) + Cardinality(T)
  BY DEF Places
<1>2. Cardinality({}) = 0 /\ \A x : Cardinality({x}) = 1
  BY FS_EmptySet, FS_Singleton
<1>3. ASSUME NEW e \in Linked, packet[e] = p PROVE Places(p) = 1
  <2>1. E = {e}
    BY <1>3 DEF Safe, ChainOK, Number
  <2>2. T = {}
    BY <1>3 DEF Safe, HandOK
  <2>3. Cardinality(E) = 1 /\ Cardinality(T) = 0
    BY <1>2, <2>1, <2>2, Zenon
  <2> QED
    BY <1>1, <2>3
<1>4. ASSUME NEW t \in Threads, InHand(t), arg[t] = p PROVE Places(p) = 1
  <2>1. E = {}
    BY <1>4 DEF Safe, HandOK
  <2>2. T = {t}
    BY <1>4 DEF Safe, HandOK
  <2>3. Cardinality(E) = 0 /\ Cardinality(T) = 1
    BY <1>2, <2>1, <2>2, Zenon
  <2> QED
    BY <1>1, <2>3
<1>5. CASE p \in forgotten
  <2>1. E = {} /\ T = {}
    BY <1>5 DEF Lost
  <2>2. Cardinality(E) = 0 /\ Cardinality(T) = 0
    BY <1>2, <2>1, Zenon
  <2> QED
    BY <1>1, <1>5, <2>2
<1>6. CASE p \notin forgotten
  BY <1>3, <1>4, <1>6 DEF Kept
<1> QED
  BY <1>5, <1>6

(* Under the same condition every allocated packet is in the list once or  *)
(* in one thread's hands, but those forgotten at producer.c:40, which are  *)
(* nowhere for good: none is consumed or freed twice, no other is lost.    *)
THEOREM OnePlace == Spec => []OnePlaceWhileSound
<1>1. Init => KeptInv
  BY DEF Init, QueueInit, KeptInv
<1> QED
  BY <1>1, TypeInvInit, TypeInvStep, SafeInvInit, SafeInvStep, KeptInvStep,
     OnePlaceFollows, PTL DEF Spec

-----------------------------------------------------------------------------
(* The queue is a priority queue.                                          *)

LEMMA QueuedSame ==
  ASSUME TypeInv, Safe, NEW t \in Threads, SameQueue(t)
  PROVE  Queued' = Queued
BY DEF SameQueue, Queued

LEMMA QueuedAdd ==
  ASSUME TypeInv, Safe, NEW t \in Threads, NEW new, NEW p, Linking(new, t, p)
  PROVE  \E n \in Nums \ Queued : Queued' = Queued \cup {n}
<1> DEFINE n == num[arg[t]]
<1>1. n \in Nums
  BY DEF Linking, Safe, HandOK, HeapOK
<1>2. /\ Linked' = Linked \cup {new} /\ new # queue_head /\ new \notin Linked
      /\ Number(new)' = n /\ \A e \in Linked : Number(e)' = Number(e)
  BY LinkAt
<1>3. ChainOK'
  BY LinkChain
<1>4. \A e \in Linked : Number(e) # n
  <2> SUFFICES ASSUME NEW e \in Linked, Number(e) = n PROVE FALSE
    OBVIOUS
  <2>1. Number(e)' = Number(new)' /\ e \in Linked' /\ new \in Linked'
    BY <1>2
  <2> QED
    BY <1>2, <1>3, <2>1 DEF ChainOK
<1>5. n \notin Queued
  BY <1>4 DEF Queued
<1>6. Queued' = Queued \cup {n}
  BY <1>2 DEF Queued
<1> QED
  BY <1>1, <1>5, <1>6

LEMMA QueuedGet ==
  ASSUME TypeInv, Safe, NEW t \in Threads, Unlinking(t)
  PROVE  \E n \in Queued : (\A m \in Queued : n <= m) /\ Queued' = Queued \ {n}
<1> DEFINE first == next[queue_head]
           n == Number(first)
<1>1. /\ first \in Linked /\ first # queue_head
      /\ Linked' = Linked \ {first} /\ UNCHANGED <<packet, num>>
  BY UnlinkAt
<1>2. n \in Queued
  BY <1>1 DEF Queued
<1>3. ASSUME NEW e \in Linked \ {queue_head} PROVE n <= Number(e)
  <2>1. Number(queue_head) < Number(e)
    BY LinkedPacket DEF Safe, HeapOK, Number
  <2> QED
    BY <2>1, TypesAt DEF Safe, ChainOK, InOrder
<1>4. \A m \in Queued : n <= m
  BY <1>3 DEF Queued
<1>5. Queued' = {Number(e) : e \in (Linked \ {first}) \ {queue_head}}
  BY <1>1 DEF Queued, Number
<1>6. \A e \in Linked : Number(e) = n => e = first
  BY <1>1 DEF Safe, ChainOK
<1>7. Queued' = Queued \ {n}
  BY <1>5, <1>6 DEF Queued
<1> QED
  BY <1>2, <1>4, <1>7

(* A step is one of PriorityQueue, or leaves the set of numbers alone. *)
LEMMA AbstractStep ==
  TypeInv /\ SafeInv /\ [Next]_vars => [Abstract!Next]_(Abstract!vars)
<1> SUFFICES ASSUME TypeInv, SafeInv, [Next]_vars
             PROVE  [Abstract!Next]_(Abstract!vars)
  OBVIOUS
<1> USE DEF Abstract!Next, Abstract!vars, Abstract!Add, Abstract!Get, Abstract!GiveUp
<1>1. CASE ~Sound
  <2>1. Sound = FALSE /\ Sound' = FALSE
    BY <1>1, FaultsStay DEF Sound
  <2> QED
    BY <2>1
<1>2. CASE Sound /\ ~Sound'
  <2>1. Sound = TRUE /\ Sound' = FALSE
    BY <1>2
  <2> QED
    BY <2>1
<1>3. CASE Sound /\ Sound' /\ Queued' = Queued
  BY <1>3
<1>4. CASE Sound /\ Sound' /\ UNCHANGED vars
  <2>1. Queued' = Queued
    BY <1>4 DEF vars, queueVars, list, pkts, locals, Queued, Number, Linked, Unlinked
  <2> QED
    BY <1>3, <1>4, <2>1
<1>5. ASSUME Sound, Sound', NEW t \in Threads, Step(t)
      PROVE  [Abstract!Next]_(Abstract!vars)
  <2>1. Safe /\ TypeInv' /\ Moves(t)
    BY <1>5, TypeInvStep, StepSafe DEF SafeInv, Next
  <2>2. CASE SameQueue(t)
    BY <1>3, <1>5, <2>1, <2>2, QueuedSame
  <2>3. ASSUME NEW new, NEW p, Linking(new, t, p)
        PROVE  [Abstract!Next]_(Abstract!vars)
    <3>1. \E n \in Nums \ Queued : Queued' = Queued \cup {n}
      BY <2>1, <2>3, QueuedAdd
    <3> QED
      BY <1>5, <3>1
  <2>4. CASE Unlinking(t)
    <3>1. \E n \in Queued : (\A m \in Queued : n <= m) /\ Queued' = Queued \ {n}
      BY <2>1, <2>4, QueuedGet
    <3> QED
      BY <1>5, <3>1
  <2> QED
    BY <2>1, <2>2, <2>3, <2>4 DEF Moves, Resting, Dropping, Renewing
<1> QED
  BY <1>1, <1>2, <1>4, <1>5 DEF Next

(* add_paket and get_paket, however they interleave, put in a number that  *)
(* is not queued and take out the smallest one, each at one point between  *)
(* call and return, as long as Sound holds (queue.h:38-48).                *)
THEOREM Implements == Spec => ImplementsPriorityQueue
<1>1. Init => Abstract!Init
  <2> SUFFICES ASSUME Init PROVE Abstract!Init
    OBVIOUS
  <2>1. Sound = TRUE /\ Linked = {queue_head}
    BY InLinked DEF Init, QueueInit, Sound
  <2>2. Queued = {}
    BY <2>1 DEF Queued
  <2> QED
    BY <2>1, <2>2 DEF Abstract!Init
<1> QED
  BY <1>1, TypeInvInit, TypeInvStep, SafeInvInit, SafeInvStep, AbstractStep, PTL
  DEF Spec, ImplementsPriorityQueue, Abstract!Spec

-----------------------------------------------------------------------------
(* Where soundness is lost.                                                *)

(* What a producer or consumer unlocks is its own, but for the second      *)
(* release of prev.                                                        *)
LEMMA OwnMutex ==
  ASSUME TypeInv, Safe, NEW t \in Workers,
         pc[t] \in {"add.full", "walk.prev", "dup.prev", "ins.prev", "ins.cur", "app.cur",
                    "get.empty", "get.unlockSecond", "get.unlockFirst", "get.unlockHead"}
  PROVE  owner[want[t]] = t
<1>1. PlaceOK(t) /\ WantOK(t)
  BY SystemAssumption DEF Workers, Safe, ThreadsOK
<1>2. CASE pc[t] \in {"add.full", "get.empty", "get.unlockHead"}
  BY <1>1, <1>2 DEF PlaceOK, WantOK, HoldsHead
<1>3. CASE pc[t] \in {"walk.prev", "dup.prev", "ins.prev", "get.unlockSecond"}
  BY <1>1, <1>3 DEF PlaceOK, HoldsWanted
<1>4. CASE pc[t] \in {"ins.cur", "app.cur"}
  BY <1>1, <1>4 DEF PlaceOK, WantOK, Standing
<1>5. CASE pc[t] = "get.unlockFirst"
  BY <1>1, <1>5 DEF PlaceOK, WantOK
<1> QED
  BY <1>2, <1>3, <1>4, <1>5

LEMMA FirstFaultStep ==
  ASSUME TypeInv, Safe, Sound, NEW t \in Threads, Step(t)
  PROVE  faults' \subseteq FirstFaultSites
<1>0. faults = {}
  BY DEF Sound
<1>1. CASE UNCHANGED faults
  BY <1>0, <1>1
<1>2. CASE (Lock(t) \/ Unlock(t)) /\ pc[t] \in FirstFaultSites
  BY <1>0, <1>2 DEF Lock, Unlock
<1>3. CASE t \in Workers /\ QueueStep(t)
  <2>1. pc[t] \in PthreadCalls => want[t] \in Allocated
    BY <1>3, WantAllocated
  <2>2. \/ UNCHANGED faults
        \/ Lock(t) /\ pc[t] \in PthreadCalls
        \/ /\ Unlock(t)
           /\ pc[t] \in {"app.prev", "add.full", "walk.prev", "dup.prev", "ins.prev",
                         "ins.cur", "app.cur", "get.empty", "get.unlockSecond",
                         "get.unlockFirst", "get.unlockHead"}
    BY <1>3 DEF QueueStep, AddLock, AddFull, WalkPrev, WalkNext, DupPrev, InsPrev,
       AppPrev, UnlockCur, LoadIndex, AddStore, GetLock, GetFirst, GetSecond, GetEmpty,
       GetUnlockSecond, GetStore, GetUnlockFirst, GetUnlockHead, Crash, PthreadCalls
  <2>3. CASE Lock(t) /\ pc[t] \in PthreadCalls
    BY <1>0, <2>1, <2>3 DEF Lock
  <2>4. CASE /\ Unlock(t)
             /\ pc[t] \in {"add.full", "walk.prev", "dup.prev", "ins.prev", "ins.cur",
                           "app.cur", "get.empty", "get.unlockSecond",
                           "get.unlockFirst", "get.unlockHead"}
    <3>1. owner[want[t]] = t /\ want[t] \in Allocated
      BY <1>3, <2>1, <2>4, OwnMutex DEF PthreadCalls
    <3> QED
      BY <1>0, <2>4, <3>1 DEF Unlock
  <2>5. CASE Unlock(t) /\ pc[t] = "app.prev"
    BY <1>2, <2>5 DEF FirstFaultSites
  <2> QED
    BY <1>1, <2>2, <2>3, <2>4, <2>5
<1>4. CASE t \notin Workers /\ QueueStep(t)
  <2>1. ThreadTypeOK
    BY TypeParts
  <2>2. pc[t] \notin Adding \cup Getting
    BY <1>4, <2>1, Roles DEF Workers
  <2>3. UNCHANGED faults
    BY <1>4, <2>2 DEF QueueStep, AddLock, AddFull, WalkPrev, WalkNext, DupPrev, InsPrev,
       AppPrev, UnlockCur, LoadIndex, AddStore, GetLock, GetFirst, GetSecond, GetEmpty,
       GetUnlockSecond, GetStore, GetUnlockFirst, GetUnlockHead, Crash, Adding, Getting
  <2> QED
    BY <1>1, <2>3
<1>5. CASE t \in Producers /\ ProducerStep(t)
  <2>1. faults' \subseteq faults \cup {"dup"}
    BY <1>5 DEF ProducerStep, Produce, RetryFull, AddFreshPacket, RetryFreed, Produced,
       ProducerDone
  <2> QED
    BY <1>0, <2>1 DEF FirstFaultSites
<1>6. CASE t \in Consumers /\ ConsumerStep(t)
  BY <1>1, <1>6 DEF ConsumerStep, Consume, Consumed, NothingConsumed, ConsumerDone
<1>7. CASE t \in Observers /\ ObserverStep(t)
  <2>1. \/ UNCHANGED faults
        \/ (Lock(t) \/ Unlock(t)) /\ pc[t] \in Observing
    BY <1>7 DEF ObserverStep, Observe, ObsLock, ObsPrint, ObsMove, ObsPrev, ObsPeek,
       ObsNext, ObsLast, ObserverDone, Observing
  <2> QED
    BY <1>1, <1>2, <1>7, <2>1 DEF FirstFaultSites
<1> QED
  BY <1>3, <1>4, <1>5, <1>6, <1>7 DEF Step

(* What a worker is about to use has not been freed, but for the packet    *)
(* that it prints after add_paket.                                         *)
LEMMA DanglingSites ==
  ASSUME TypeInv, Safe, NEW t \in Threads, Dangling(t)
  PROVE  pc[t] \in FirstFaultSites \cup {"segv"}
<1>1. PlaceOK(t) /\ pc[t] \in Labels(t)
  BY TypesAt DEF Safe, ThreadsOK
<1>2. CASE t \in Workers
  <2>1. cur[t] \in live \cup {queue_head, NULL}
    BY <1>1, <1>2, InLinked DEF PlaceOK
  <2>2. pc[t] \in PthreadCalls => want[t] \in Allocated
    BY <1>2, WantAllocated
  <2>3. InHand(t) => arg[t] \in Allocated
    BY DEF Safe, HandOK, Allocated
  <2>4. pc[t] \notin {"obs.print", "obs.move", "obs.peek"}
    BY <1>1, <1>2 DEF Labels, Workers, Adding, Getting
  <2> SUFFICES ASSUME pc[t] # "added" PROVE Uses(t) \subseteq live \cup Allocated \cup {queue_head, NULL}
    BY DEF FirstFaultSites, Dangling
  <2> QED
    BY <2>1, <2>2, <2>3, <2>4 DEF Uses
<1>3. CASE t \in Observers
  <2>1. CASE pc[t] \in Observing \cup {"segv"}
    BY <1>3, <2>1 DEF FirstFaultSites
  <2>2. CASE pc[t] \in {"observer", "done"}
    <3>1. cur[t] = NULL
      BY <1>1, <2>2 DEF PlaceOK
    <3>2. ~InHand(t) /\ pc[t] \notin PthreadCalls
      BY <2>2 DEF InHand, Adding, PthreadCalls
    <3> QED
      BY <2>2, <3>1, <3>2 DEF Dangling, Uses
  <2> QED
    BY <1>1, <1>3, <2>1, <2>2, SystemAssumption DEF Labels
<1> QED
  BY <1>2, <1>3, SystemAssumption DEF Workers

(* add_paket visits no element in which a pointer it follows is NULL.      *)
LEMMA AddNoSegv ==
  ASSUME TypeInv, Safe, NEW t \in Producers, AddLock(t) \/ WalkNext(t)
  PROVE  pc'[t] # "segv"
<1> t \in Threads
  BY SystemAssumption
<1>0. PlaceOK(t) /\ WantOK(t)
  BY DEF Safe, ThreadsOK
<1>1. CASE AddLock(t)
  <2>1. InHand(t)
    BY <1>1 DEF AddLock, InHand, Adding
  <2>2. Visit(t, queue_head) => Advance(t, queue_head)
    BY <2>1, VisitHead
  <2>3. PICK label, m : Goto(t, label, m) /\ label # "segv"
    BY <1>1, <2>2 DEF AddLock, Advance
  <2> QED
    BY <2>3, GotoAt
<1>2. CASE WalkNext(t)
  <2> DEFINE c == next[cur[t]]
  <2>1. cur[t] \in Linked /\ c # NULL /\ Visit(t, c)
    BY <1>0, <1>2 DEF WalkNext, PlaceOK, WantOK, Standing
  <2>2. c \in Linked /\ c # queue_head
    BY <2>1, LinkedPacket
  <2>3. packet[c] # NULL /\ prev[c] # NULL
    BY <2>2, LinkedPacket
  <2>4. PICK label, m : Goto(t, label, m) /\ label # "segv"
    BY <2>1, <2>3 DEF Visit, InsertBefore
  <2> QED
    BY <2>4, GotoAt
<1> QED
  BY <1>1, <1>2

(* So a worker crashes nowhere else, either. *)
LEMMA WorkerCrash ==
  ASSUME TypeInv, Safe, NEW t \in Workers, Step(t), pc'[t] = "segv"
  PROVE  pc[t] = "added"
<1> t \in Threads
  BY SystemAssumption DEF Workers
<1>1. ~Crash(t)
  BY NoCrash DEF Crash
<1>2. ThreadTypeOK
  BY TypeParts
<1>3. CASE QueueStep(t)
  <2>1. CASE AddLock(t) \/ WalkNext(t)
    <3>1. t \in Producers
      BY <1>2, <2>1, Roles DEF AddLock, WalkNext, Adding
    <3> QED
      BY <2>1, <3>1, AddNoSegv
  <2>2. CASE ~(AddLock(t) \/ WalkNext(t))
    <3>1. PICK label, m : Goto(t, label, m) /\ label # "segv"
      BY <1>1, <1>3, <2>2 DEF QueueStep, AddFull, WalkPrev, DupPrev, InsPrev, AppPrev,
         UnlockCur, LoadIndex, AddStore, GetLock, GetFirst, GetSecond, GetEmpty,
         GetUnlockSecond, GetStore, GetUnlockFirst, GetUnlockHead, Return, Advance,
         Reject, Unlink
    <3> QED
      BY <3>1, GotoAt
  <2> QED
    BY <2>1, <2>2
<1>4. CASE ProducerStep(t) \/ ConsumerStep(t)
  <2> SUFFICES ASSUME ~Produced(t) PROVE FALSE
    BY DEF Produced
  <2>1. PICK label, m : Goto(t, label, m) /\ label # "segv"
    BY <1>4 DEF ProducerStep, ConsumerStep, Produce, RetryFull, AddFreshPacket,
       RetryFreed, ProducerDone, Consume, Consumed, NothingConsumed, ConsumerDone
  <2> QED
    BY <2>1, GotoAt
<1> QED
  BY <1>3, <1>4, SystemAssumption DEF Step, Workers

LEMMA CrashSites ==
  ASSUME TypeInv, TypeInv', Safe, NEW t \in Threads, Step(t), NEW u \in Threads,
         pc'[u] = "segv"
  PROVE  pc[u] \in FirstFaultSites
<1>1. u = t
  <2>1. pc[u] # "segv"
    BY DEF Step, Killed
  <2>2. PICK label, m : Goto(t, label, m)
    BY DEF Step, QueueStep, AddLock, AddFull, WalkPrev, WalkNext, DupPrev, InsPrev,
       AppPrev, UnlockCur, LoadIndex, AddStore, GetLock, GetFirst, GetSecond, GetEmpty,
       GetUnlockSecond, GetStore, GetUnlockFirst, GetUnlockHead, Crash, Return, Segfault,
       Visit, InsertBefore, Advance, Reject, Unlink, ProducerStep, Produce, RetryFull,
       AddFreshPacket, RetryFreed, Produced, ProducerDone, ConsumerStep, Consume,
       Consumed, NothingConsumed, ConsumerDone, ObserverStep, Observe, ObsLock, ObsPrint,
       ObsMove, ObsPrev, ObsPeek, ObsNext, ObsLast, ObserverDone
  <2> QED
    BY <2>1, <2>2, GotoAt
<1>2. CASE t \in Workers
  BY <1>1, <1>2, WorkerCrash DEF FirstFaultSites
<1>3. CASE t \notin Workers
  <2>1. t \in Observers /\ PlaceOK(t) /\ pc[t] \in Labels(t)
    BY <1>3, SystemAssumption, TypesAt DEF Workers, Safe, ThreadsOK
  <2>2. CASE pc[t] \in Observing
    BY <1>1, <2>1, <2>2 DEF FirstFaultSites
  <2>3. CASE pc[t] \in {"observer", "done"}
    <3>1. cur[t] = NULL
      BY <2>1, <2>3 DEF PlaceOK
    <3>2. ~BadPointer(t)
      BY <2>3, <3>1 DEF BadPointer, PthreadCalls
    <3>3. PICK label, m : label \in {"obs.lock", "done"} /\ Goto(t, label, m)
      BY <2>1, <2>3, <3>2, SystemAssumption DEF Step, QueueStep, AddLock, AddFull, WalkPrev,
         WalkNext, DupPrev, InsPrev, AppPrev, UnlockCur, LoadIndex, AddStore, GetLock,
         GetFirst, GetSecond, GetEmpty, GetUnlockSecond, GetStore, GetUnlockFirst,
         GetUnlockHead, Crash, ObserverStep, Observe, ObsLock, ObsPrint, ObsMove, ObsPrev,
         ObsPeek, ObsNext, ObsLast, ObserverDone
    <3> QED
      BY <1>1, <3>3, GotoAt
  <2> QED
    BY <2>1, <2>2, <2>3, SystemAssumption DEF Labels, Step, Killed
<1> QED
  BY <1>2, <1>3

(* The only places at which an execution can leave defined behaviour while *)
(* Sound holds: the second release of prev (queue.c:91), the retry with a  *)
(* freed packet (producer.c:36), the printf of one (producer.c:46), and    *)
(* the observer's unlocked walk (observer.c:25-45).                        *)
THEOREM FaultSites == Spec => FirstFault
<1> DEFINE Here == Sound => /\ faults' \subseteq FirstFaultSites
                            /\ \A t \in Threads : Dangling(t) \/ pc'[t] = "segv"
                                 => pc[t] \in FirstFaultSites \cup {"segv"}
<1>1. TypeInv /\ TypeInv' /\ SafeInv /\ [Next]_vars => [Here]_vars
  <2> SUFFICES ASSUME TypeInv, TypeInv', Safe, Sound, Next PROVE Here
    BY DEF SafeInv
  <2>1. PICK t \in Threads : Step(t)
    BY DEF Next
  <2>2. faults' \subseteq FirstFaultSites
    BY <2>1, FirstFaultStep
  <2>3. ASSUME NEW u \in Threads, Dangling(u) \/ pc'[u] = "segv"
        PROVE  pc[u] \in FirstFaultSites \cup {"segv"}
    BY <2>1, <2>3, DanglingSites, CrashSites
  <2> QED
    BY <2>2, <2>3
<1> QED
  BY <1>1, TypeInvInit, TypeInvStep, SafeInvInit, SafeInvStep, PTL DEF Spec, FirstFault
=============================================================================
