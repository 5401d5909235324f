------------------------- MODULE PacketSystemProofs -------------------------
(***************************************************************************)
(* Proofs about PacketSystem for any number of threads, addresses, packet  *)
(* numbers and any capacity.                                               *)
(*                                                                         *)
(* TypeOK is not inductive: next[cur[t]] is a pointer only if cur[t] is    *)
(* one, so the invariant also says where a thread's local pointer points,  *)
(* and that nothing is linked before the list head.                        *)
(***************************************************************************)
EXTENDS PacketSystem, TLAPS

(* The pcs at which a thread dereferences its local pointer. *)
OnNode == {"walk.prev", "walk.next", "dup.prev", "ins.prev", "ins.cur",
           "app.prev", "app.cur", "obs.print", "obs.move", "obs.prev", "obs.peek",
           "obs.next"}
Taking == {"get.unlockSecond", "get.load", "get.store"}

CurOK ==
  \A t \in Threads :
    /\ pc[t] \in OnNode => cur[t] \in Nodes
    /\ pc[t] \in Taking => cur[t] \in Elements

TypeInv == TypeOK /\ CurOK /\ prev[queue_head] = NULL

(* TypeInv again, by the variables that actions change together. *)
ThreadInv == ThreadTypeOK /\ CurOK
ListInv == ListTypeOK /\ prev[queue_head] = NULL

-----------------------------------------------------------------------------
(* What the helpers of the model do to the types.                          *)

LEMMA TypeParts ==
  TypeInv => /\ ListInv /\ PacketTypeOK /\ ThreadInv /\ CounterTypeOK
             /\ TypeOK /\ ListTypeOK /\ ThreadTypeOK
BY DEF TypeInv, TypeOK, ListInv, ThreadInv

LEMMA TypeJoin ==
  ASSUME ListInv', PacketTypeOK', ThreadInv', CounterTypeOK'
  PROVE  TypeInv'
BY DEF TypeInv, TypeOK, ListInv, ThreadInv

(* A thread's labels are those of the function it runs. *)
LEMMA Roles ==
  ASSUME ThreadTypeOK, NEW t \in Threads
  PROVE  /\ "done" \in Labels(t) /\ "segv" \in Labels(t)
         /\ pc[t] \in Adding =>
              t \in Producers /\ Adding \cup {"producer"} \subseteq Labels(t)
         /\ pc[t] \in Getting =>
              t \in Consumers /\ Getting \cup {"consumer"} \subseteq Labels(t)
         /\ pc[t] \in Observing => Observing \cup {"observer"} \subseteq Labels(t)
<1>1. pc[t] \in Labels(t)
  BY DEF ThreadTypeOK
<1>2. Producers \cap Consumers = {}
  BY SystemAssumption
<1>3. pc[t] \in Adding => t \in Producers
  BY <1>1 DEF Labels, Adding, Getting, Observing
<1>4. pc[t] \in Getting => t \in Consumers /\ t \notin Producers
  BY <1>1, <1>2 DEF Labels, Adding, Getting, Observing
<1>5. pc[t] \in Observing => t \notin Consumers /\ t \notin Producers
  BY <1>1 DEF Labels, Adding, Getting, Observing
<1> QED
  BY <1>3, <1>4, <1>5, Zenon DEF Labels

(* A jump keeps the threads well-typed. *)
LEMMA GotoType ==
  ASSUME ThreadInv, NEW t \in Threads, NEW label \in Labels(t),
         NEW m \in Cells \cup {NULL}, Goto(t, label, m),
         NEW c \in Nodes \cup {NULL}, cur' = [cur EXCEPT ![t] = c],
         label \in OnNode => c \in Nodes, label \in Taking => c \in Elements,
         arg' \in [Threads -> Cells \cup {NULL}]
  PROVE  ThreadInv'
  BY DEF ThreadInv, ThreadTypeOK, CurOK, Goto, AllLabels

LEMMA GotoStayType ==
  ASSUME ThreadInv, NEW t \in Threads, NEW label \in Labels(t),
         NEW m \in Cells \cup {NULL}, Goto(t, label, m), UNCHANGED cur,
         label \in OnNode => cur[t] \in Nodes,
         label \in Taking => cur[t] \in Elements,
         arg' \in [Threads -> Cells \cup {NULL}]
  PROVE  ThreadInv'
  BY DEF ThreadInv, ThreadTypeOK, CurOK, Goto, AllLabels

LEMMA LockType ==
  ASSUME TypeOK, NEW t \in Threads, Lock(t), pc[t] \in PthreadCalls,
         heap' \subseteq Packets, UNCHANGED <<num, queue_index, tmp, counters>>
  PROVE  PacketTypeOK' /\ CounterTypeOK'
  BY DEF TypeOK, ThreadTypeOK, PacketTypeOK, CounterTypeOK, Lock, counters

LEMMA UnlockType ==
  ASSUME TypeOK, NEW t \in Threads, Unlock(t), pc[t] \in PthreadCalls,
         heap' \subseteq Packets, UNCHANGED <<num, queue_index, tmp, counters>>
  PROVE  PacketTypeOK' /\ CounterTypeOK'
  BY DEF TypeOK, ThreadTypeOK, PacketTypeOK, CounterTypeOK, Unlock, counters

LEMMA LinkType ==
  ASSUME ListInv, ThreadTypeOK, NEW t \in Threads, NEW new \in Elements,
         NEW p \in Nodes, NEW n \in Elements \cup {NULL}, Link(new, t, p, n)
  PROVE  ListInv'
  BY AddressAssumption DEF ListInv, ListTypeOK, ThreadTypeOK, Link, Nodes

(* 75-95 and 39-96 of queue.c keep list and threads well-typed. *)
LEMMA AdvanceType ==
  ASSUME TypeInv, NEW t \in Threads, NEW c \in Nodes, Advance(t, c),
         pc[t] \in Adding, cur' = [cur EXCEPT ![t] = c], UNCHANGED arg
  PROVE  ListInv' /\ ThreadInv'
<1> USE DEF ListInv
<1>0. TypeOK /\ ListInv /\ ThreadInv /\ ListTypeOK /\ ThreadTypeOK /\ PacketTypeOK
  BY TypeParts
<1>1. CASE next[c] # NULL
  <2>1. Goto(t, "walk.next", packet[next[c]]) /\ ListInv'
    BY <1>0, <1>1 DEF Advance, list, ListTypeOK
  <2>2. packet[next[c]] \in Cells \cup {NULL}
    BY <1>0, <1>1 DEF ListTypeOK, Nodes
  <2>3. "walk.next" \in Labels(t)
    BY <1>0, Roles DEF Adding
  <2>4. ThreadInv'
    BY <1>0, <2>1, <2>2, <2>3, GotoType DEF ThreadTypeOK, OnNode, Taking
  <2> QED
    BY <1>0, <2>1, <2>4
<1>2. CASE next[c] = NULL
  <2>1. ListInv'
    BY <1>0, <1>2, LinkType DEF Advance
  <2>2. packet[c] \in Cells \cup {NULL}
        /\ (prev[c] # NULL => packet[prev[c]] \in Cells \cup {NULL})
    BY <1>0 DEF ListTypeOK
  <2>3. {"app.prev", "app.cur"} \subseteq Labels(t)
    BY <1>0, Roles DEF Adding
  <2>4. ThreadInv'
    <3>1. CASE prev[c] # NULL
      BY <1>0, <1>2, <3>1, <2>2, <2>3, GotoType DEF Advance, ThreadTypeOK, OnNode, Taking
    <3>2. CASE prev[c] = NULL
      BY <1>0, <1>2, <3>2, <2>2, <2>3, GotoType DEF Advance, ThreadTypeOK, OnNode, Taking
    <3> QED
      BY <1>0, <3>1, <3>2
  <2> QED
    BY <1>0, <2>1, <2>4
<1> QED
  BY <1>0, <1>1, <1>2

LEMMA VisitType ==
  ASSUME TypeInv, NEW t \in Threads, NEW c \in Nodes \cup {NULL}, Visit(t, c),
         pc[t] \in Adding, UNCHANGED arg
  PROVE  ListInv' /\ ThreadInv' /\ heap' \subseteq Packets
<1> USE DEF ListInv
<1>0. TypeOK /\ ListInv /\ ThreadInv /\ ListTypeOK /\ ThreadTypeOK /\ PacketTypeOK
  BY TypeParts
<1>1. cur' = [cur EXCEPT ![t] = c]
  BY <1>0 DEF Visit
<1>2. /\ {"segv", "dup"} \subseteq Labels(t)
      /\ {"add.load", "dup.prev", "ins.prev", "walk.prev"} \subseteq Labels(t)
  BY <1>0, Roles DEF Adding
<1>3. heap' \subseteq Packets
  BY <1>0 DEF Visit, Reject, PacketTypeOK
<1>4. arg' \in [Threads -> Cells \cup {NULL}] /\ t \in DOMAIN pc
  BY <1>0 DEF ThreadTypeOK
<1>5. CASE /\ \/ Goto(t, "add.load", NULL)
              \/ Segfault(t)
              \/ Goto(t, "dup", NULL)
           /\ UNCHANGED list
  <2>1. ListInv'
    BY <1>0, <1>5 DEF list, ListTypeOK
  <2>2. CASE Goto(t, "add.load", NULL)
    BY <1>0, <2>2, <2>1, <1>1, <1>2, <1>3, <1>4, GotoType DEF OnNode, Taking
  <2>3. CASE Segfault(t)
    BY <1>0, <2>3, <2>1, <1>1, <1>2, <1>3, <1>4, GotoType DEF OnNode, Taking, Segfault
  <2>4. CASE Goto(t, "dup", NULL)
    BY <1>0, <2>4, <2>1, <1>1, <1>2, <1>3, <1>4, GotoType DEF OnNode, Taking
  <2> QED
    BY <1>0, <1>5, <2>2, <2>3, <2>4
<1>6. CASE /\ c # NULL /\ prev[c] # NULL /\ UNCHANGED list
           /\ \/ Goto(t, "dup.prev", packet[prev[c]])
              \/ Goto(t, "walk.prev", packet[prev[c]])
  <2>1. ListInv'
    BY <1>0, <1>6 DEF list, ListTypeOK
  <2>2. c \in Nodes /\ packet[prev[c]] \in Cells \cup {NULL}
    BY <1>0, <1>6 DEF ListTypeOK
  <2>3. CASE Goto(t, "dup.prev", packet[prev[c]])
    BY <1>0, <2>3, <2>1, <2>2, <1>1, <1>2, <1>3, <1>4, GotoType DEF Taking
  <2>4. CASE Goto(t, "walk.prev", packet[prev[c]])
    BY <1>0, <2>4, <2>1, <2>2, <1>1, <1>2, <1>3, <1>4, GotoType DEF Taking
  <2> QED
    BY <1>0, <1>6, <2>3, <2>4
<1>7. CASE c # NULL /\ InsertBefore(t, c)
  <2>1. c \in Elements /\ prev[c] \in Nodes
    BY <1>0, <1>7 DEF InsertBefore, ListTypeOK, Nodes
  <2>2. packet[prev[c]] \in Cells \cup {NULL}
    BY <1>0, <2>1 DEF ListTypeOK
  <2>3. ListInv'
    BY <1>0, <1>7, <2>1, LinkType DEF InsertBefore
  <2>4. Goto(t, "ins.prev", packet[prev[c]])
    BY <1>0, <1>7 DEF InsertBefore
  <2>5. c \in Nodes
    BY <1>0, <2>1 DEF Nodes
  <2> QED
    BY <1>0, <2>2, <2>3, <2>4, <2>5, <1>1, <1>2, <1>3, <1>4, GotoType DEF Taking
<1>8. CASE c # NULL /\ Advance(t, c)
  BY <1>0, <1>8, <1>1, <1>3, AdvanceType
<1> QED
  BY <1>0, <1>5, <1>6, <1>7, <1>8 DEF Visit, Reject

(* Three shapes of a step: a jump that touches nothing, a jump that        *)
(* releases a mutex, and a return that releases one.                       *)
LEMMA JumpType ==
  ASSUME TypeInv, NEW t \in Threads, NEW label \in Labels(t),
         NEW m \in Cells \cup {NULL}, Goto(t, label, m),
         UNCHANGED <<list, pkts, owner, queue_index, locals, faults, counters>>,
         label \in OnNode => cur[t] \in Nodes,
         label \in Taking => cur[t] \in Elements
  PROVE  TypeInv'
<1>0. ListInv /\ PacketTypeOK /\ ThreadInv /\ CounterTypeOK /\ ThreadTypeOK
  BY TypeParts
<1>1. ListInv' /\ PacketTypeOK' /\ CounterTypeOK'
  BY <1>0 DEF list, pkts, locals, counters, ListInv, ListTypeOK, PacketTypeOK,
              CounterTypeOK
<1>2. ThreadInv'
  BY <1>0, GotoStayType DEF locals, ThreadTypeOK
<1> QED
  BY <1>1, <1>2, TypeJoin

LEMMA UnlockGotoType ==
  ASSUME TypeInv, NEW t \in Threads, NEW label \in Labels(t),
         NEW m \in Cells \cup {NULL}, Unlock(t), pc[t] \in PthreadCalls,
         Goto(t, label, m),
         UNCHANGED <<list, pkts, queue_index, locals, counters>>,
         label \in OnNode => cur[t] \in Nodes,
         label \in Taking => cur[t] \in Elements
  PROVE  TypeInv'
<1>0. ListInv /\ PacketTypeOK /\ ThreadInv /\ TypeOK /\ ThreadTypeOK
  BY TypeParts
<1>1. ListInv'
  BY <1>0 DEF list, ListInv, ListTypeOK
<1>2. PacketTypeOK' /\ CounterTypeOK'
  BY <1>0, UnlockType DEF pkts, locals, counters, PacketTypeOK
<1>3. ThreadInv'
  BY <1>0, GotoStayType DEF locals, ThreadTypeOK
<1> QED
  BY <1>1, <1>2, <1>3, TypeJoin

LEMMA UnlockReturnType ==
  ASSUME TypeInv, NEW t \in Threads, NEW label \in Labels(t),
         label \notin OnNode \cup Taking, Unlock(t), pc[t] \in PthreadCalls,
         Return(t, label),
         UNCHANGED <<list, pkts, queue_index, arg, tmp, counters>>
  PROVE  TypeInv'
<1>0. ListInv /\ PacketTypeOK /\ ThreadInv /\ TypeOK /\ ThreadTypeOK
  BY TypeParts
<1>1. ListInv'
  BY <1>0 DEF list, ListInv, ListTypeOK
<1>2. PacketTypeOK' /\ CounterTypeOK'
  BY <1>0, UnlockType DEF pkts, counters, PacketTypeOK
<1>3. ThreadInv'
  BY <1>0, GotoType DEF Return, ThreadTypeOK
<1> QED
  BY <1>1, <1>2, <1>3, TypeJoin

-----------------------------------------------------------------------------
(* The steps of add_paket.                                                 *)

LEMMA AddLockType ==
  ASSUME TypeInv, NEW t \in Threads, AddLock(t), UNCHANGED counters
  PROVE  TypeInv'
<1>0. TypeOK /\ ListInv /\ ThreadInv /\ PacketTypeOK /\ ThreadTypeOK
  BY TypeParts
<1>1. /\ pc[t] = "add.lock" /\ pc[t] \in PthreadCalls /\ Lock(t)
      /\ UNCHANGED <<num, queue_index, arg, tmp>>
  BY DEF AddLock, PthreadCalls
<1>2. pc[t] \in Adding /\ "add.full" \in Labels(t)
  BY <1>0, <1>1, Roles DEF Adding
<1>3. CASE Goto(t, "add.full", empty_packet) /\ UNCHANGED <<list, heap, cur>>
  <2>1. ListInv'
    BY <1>0, <1>3 DEF list, ListInv, ListTypeOK
  <2>2. PacketTypeOK' /\ CounterTypeOK'
    BY <1>0, <1>1, <1>3, LockType DEF PacketTypeOK
  <2>3. ThreadInv'
    BY <1>0, <1>1, <1>2, <1>3, GotoStayType DEF OnNode, Taking, Cells, ThreadTypeOK
  <2> QED
    BY <2>1, <2>2, <2>3, TypeJoin
<1>4. CASE Visit(t, queue_head)
  <2>1. ListInv' /\ ThreadInv' /\ heap' \subseteq Packets
    BY <1>1, <1>2, <1>4, VisitType DEF Nodes
  <2>2. PacketTypeOK' /\ CounterTypeOK'
    BY <1>0, <1>1, <2>1, LockType
  <2> QED
    BY <2>1, <2>2, TypeJoin
<1> QED
  BY <1>3, <1>4 DEF AddLock

LEMMA AddFullType ==
  ASSUME TypeInv, NEW t \in Threads, AddFull(t), UNCHANGED counters
  PROVE  TypeInv'
<1>1. pc[t] = "add.full"
  BY DEF AddFull
<1>2. "full" \in Labels(t)
  BY <1>1, TypeParts, Roles DEF Adding
<1> QED
  BY <1>1, <1>2, UnlockReturnType DEF AddFull, PthreadCalls, OnNode, Taking

LEMMA WalkPrevType ==
  ASSUME TypeInv, NEW t \in Threads, WalkPrev(t), UNCHANGED counters
  PROVE  TypeInv'
<1>0. TypeOK /\ ListInv /\ ThreadInv /\ PacketTypeOK /\ ThreadTypeOK /\ ListTypeOK
  BY TypeParts
<1>1. pc[t] = "walk.prev" /\ Unlock(t) /\ Advance(t, cur[t])
      /\ UNCHANGED <<pkts, queue_index, locals>>
  BY DEF WalkPrev
<1>2. pc[t] \in Adding /\ pc[t] \in PthreadCalls /\ cur[t] \in Nodes
  BY <1>0, <1>1 DEF Adding, PthreadCalls, ThreadInv, CurOK, OnNode
<1>3. cur' = [cur EXCEPT ![t] = cur[t]] /\ UNCHANGED arg
  BY <1>0, <1>1 DEF locals, ThreadTypeOK
<1>4. ListInv' /\ ThreadInv'
  BY <1>1, <1>2, <1>3, AdvanceType
<1>5. PacketTypeOK' /\ CounterTypeOK'
  BY <1>0, <1>1, <1>2, UnlockType DEF pkts, locals, PacketTypeOK
<1> QED
  BY <1>4, <1>5, TypeJoin

LEMMA WalkNextType ==
  ASSUME TypeInv, NEW t \in Threads, WalkNext(t), UNCHANGED counters
  PROVE  TypeInv'
<1>0. TypeOK /\ ListInv /\ ThreadInv /\ PacketTypeOK /\ ThreadTypeOK /\ ListTypeOK
  BY TypeParts
<1>1. pc[t] = "walk.next" /\ Lock(t) /\ Visit(t, next[cur[t]])
      /\ UNCHANGED <<num, queue_index, arg, tmp>>
  BY DEF WalkNext
<1>2. pc[t] \in Adding /\ pc[t] \in PthreadCalls /\ cur[t] \in Nodes
  BY <1>0, <1>1 DEF Adding, PthreadCalls, ThreadInv, CurOK, OnNode
<1>3. next[cur[t]] \in Nodes \cup {NULL}
  BY <1>0, <1>2 DEF ListTypeOK, Nodes
<1>4. ListInv' /\ ThreadInv' /\ heap' \subseteq Packets
  BY <1>1, <1>2, <1>3, VisitType
<1>5. PacketTypeOK' /\ CounterTypeOK'
  BY <1>0, <1>1, <1>2, <1>4, LockType
<1> QED
  BY <1>4, <1>5, TypeJoin

LEMMA DupPrevType ==
  ASSUME TypeInv, NEW t \in Threads, DupPrev(t), UNCHANGED counters
  PROVE  TypeInv'
<1>0. TypeOK /\ ListInv /\ ThreadInv /\ PacketTypeOK /\ ThreadTypeOK /\ ListTypeOK
  BY TypeParts
<1>1. pc[t] = "dup.prev" /\ Unlock(t) /\ Reject(t)
      /\ UNCHANGED <<list, num, queue_index, locals>>
  BY DEF DupPrev
<1>2. "dup" \in Labels(t) /\ pc[t] \in PthreadCalls
  BY <1>0, <1>1, Roles DEF Adding, PthreadCalls
<1>3. ListInv'
  BY <1>0, <1>1 DEF list, ListInv, ListTypeOK
<1>4. PacketTypeOK' /\ CounterTypeOK'
  <2>1. heap' \subseteq Packets
    BY <1>0, <1>1 DEF Reject, PacketTypeOK
  <2> QED
    BY <1>0, <1>1, <1>2, <2>1, UnlockType DEF locals
<1>5. ThreadInv'
  BY <1>0, <1>1, <1>2, GotoStayType DEF Reject, locals, ThreadTypeOK, OnNode, Taking
<1> QED
  BY <1>3, <1>4, <1>5, TypeJoin

LEMMA InsPrevAppPrevType ==
  ASSUME TypeInv, NEW t \in Threads, InsPrev(t) \/ AppPrev(t), UNCHANGED counters
  PROVE  TypeInv'
<1>0. TypeOK /\ ListInv /\ ThreadInv /\ PacketTypeOK /\ ThreadTypeOK /\ ListTypeOK
  BY TypeParts
<1>1. pc[t] \in {"ins.prev", "app.prev"}
  BY DEF InsPrev, AppPrev
<1>2. {"ins.cur", "app.cur"} \subseteq Labels(t)
  BY <1>0, <1>1, Roles DEF Adding
<1>3. cur[t] \in Nodes /\ packet[cur[t]] \in Cells \cup {NULL}
  BY <1>0, <1>1 DEF ThreadInv, CurOK, OnNode, ListTypeOK
<1>4. CASE InsPrev(t)
  BY <1>1, <1>2, <1>3, <1>4, UnlockGotoType DEF InsPrev, PthreadCalls, Taking
<1>5. CASE AppPrev(t)
  BY <1>1, <1>2, <1>3, <1>5, UnlockGotoType DEF AppPrev, PthreadCalls, Taking
<1> QED
  BY <1>4, <1>5

LEMMA UnlockCurType ==
  ASSUME TypeInv, NEW t \in Threads, UnlockCur(t), UNCHANGED counters
  PROVE  TypeInv'
<1>0. TypeOK /\ ListInv /\ ThreadInv /\ PacketTypeOK /\ ThreadTypeOK /\ ListTypeOK
  BY TypeParts
<1>1. pc[t] \in {"ins.cur", "app.cur"}
  BY DEF UnlockCur
<1>2. "add.load" \in Labels(t)
  BY <1>0, <1>1, Roles DEF Adding
<1>3. ListInv'
  BY <1>0 DEF UnlockCur, list, ListInv, ListTypeOK
<1>4. PacketTypeOK' /\ CounterTypeOK'
  <2>1. /\ Unlock(t) /\ pc[t] \in PthreadCalls /\ heap' \subseteq Packets
        /\ UNCHANGED <<num, queue_index, tmp, counters>>
    BY <1>0, <1>1 DEF UnlockCur, pkts, PthreadCalls, PacketTypeOK
  <2> QED
    BY <1>0, <2>1, UnlockType
<1>5. ThreadInv'
  BY <1>0, <1>2, GotoType DEF UnlockCur, ThreadTypeOK, OnNode, Taking
<1> QED
  BY <1>3, <1>4, <1>5, TypeJoin

LEMMA LoadIndexType ==
  ASSUME TypeInv, NEW t \in Threads, LoadIndex(t), UNCHANGED counters
  PROVE  TypeInv'
<1>0. TypeOK /\ ListInv /\ ThreadInv /\ PacketTypeOK /\ ThreadTypeOK /\ ListTypeOK
  BY TypeParts
<1>1. ListInv' /\ PacketTypeOK'
  BY <1>0 DEF LoadIndex, list, pkts, ListInv, ListTypeOK, PacketTypeOK
<1>2. CounterTypeOK'
  BY DEF LoadIndex, TypeInv, TypeOK, CounterTypeOK, counters
<1>3. CASE pc[t] = "add.load" /\ Goto(t, "add.store", NULL)
  <2>1. "add.store" \in Labels(t)
    BY <1>0, <1>3, Roles DEF Adding
  <2>2. ThreadInv'
    BY <1>0, <1>3, <2>1, GotoStayType DEF LoadIndex, ThreadTypeOK, OnNode, Taking
  <2> QED
    BY <1>1, <1>2, <2>2, TypeJoin
<1>4. CASE pc[t] = "get.load" /\ Goto(t, "get.store", NULL)
  <2>1. "get.store" \in Labels(t) /\ cur[t] \in Elements
    BY <1>0, <1>4, Roles DEF Getting, ThreadInv, CurOK, Taking
  <2>2. ThreadInv'
    BY <1>0, <1>4, <2>1, GotoStayType DEF LoadIndex, ThreadTypeOK, OnNode
  <2> QED
    BY <1>1, <1>2, <2>2, TypeJoin
<1> QED
  BY <1>3, <1>4 DEF LoadIndex

LEMMA AddStoreType ==
  ASSUME TypeInv, NEW t \in Threads, AddStore(t), UNCHANGED counters
  PROVE  TypeInv'
<1>0. TypeOK /\ ListInv /\ ThreadInv /\ PacketTypeOK /\ ThreadTypeOK /\ ListTypeOK
  BY TypeParts
<1>1. ListInv' /\ PacketTypeOK'
  BY <1>0 DEF AddStore, list, pkts, ListInv, ListTypeOK, PacketTypeOK
<1>2. CounterTypeOK'
  BY DEF AddStore, TypeInv, TypeOK, CounterTypeOK, counters
<1>3. "added" \in Labels(t)
  BY <1>0, Roles DEF AddStore, Adding
<1>4. ThreadInv'
  BY <1>0, <1>3, GotoType DEF AddStore, Return, ThreadTypeOK, OnNode, Taking
<1> QED
  BY <1>1, <1>2, <1>4, TypeJoin

-----------------------------------------------------------------------------
(* The steps of get_paket.                                                 *)

LEMMA UnlinkType ==
  ASSUME TypeInv, NEW t \in Threads, Unlink(t), pc[t] \in Getting
  PROVE  ListInv' /\ ThreadInv'
<1>0. TypeOK /\ ListInv /\ ThreadInv /\ PacketTypeOK /\ ThreadTypeOK /\ ListTypeOK
  BY TypeParts
<1> DEFINE first == next[queue_head]
<1>1. {"get.empty", "get.unlockSecond", "get.load"} \subseteq Labels(t)
  BY <1>0, Roles DEF Getting
<1>2. CASE first = NULL
  <2>1. Goto(t, "get.empty", empty_packet) /\ UNCHANGED <<list, cur, arg>>
    BY <1>2 DEF Unlink
  <2>2. ListInv'
    BY <1>0, <2>1 DEF list, ListInv, ListTypeOK
  <2>3. ThreadInv'
    BY <1>0, <1>1, <2>1, GotoStayType DEF ThreadTypeOK, OnNode, Taking, Cells
  <2> QED
    BY <2>2, <2>3
<1>3. CASE first # NULL
  <2>1. /\ first \in Elements /\ next[first] \in Elements \cup {NULL}
        /\ packet[first] \in Cells \cup {NULL}
    BY <1>0, <1>3 DEF ListTypeOK, Nodes
  <2>2. /\ cur' = [cur EXCEPT ![t] = first]
        /\ arg' = [arg EXCEPT ![t] = packet[first]]
        /\ next' = [next EXCEPT ![queue_head] = next[first]]
        /\ UNCHANGED <<packet, live>>
    BY <1>3 DEF Unlink
  <2>3. arg' \in [Threads -> Cells \cup {NULL}]
    BY <1>0, <2>1, <2>2 DEF ThreadTypeOK
  <2>4. CASE next[first] # NULL
    <3>1. /\ prev' = [prev EXCEPT ![next[first]] = queue_head]
          /\ Goto(t, "get.unlockSecond", packet[next[first]])
      BY <1>3, <2>4 DEF Unlink
    <3>2. packet[next[first]] \in Cells \cup {NULL}
      BY <1>0, <2>1, <2>4 DEF ListTypeOK, Nodes
    <3>3. ListInv'
      BY <1>0, <2>1, <2>2, <2>4, <3>1, AddressAssumption
      DEF ListInv, ListTypeOK, Nodes
    <3>4. ThreadInv'
      BY <1>0, <1>1, <2>1, <2>2, <2>3, <3>1, <3>2, GotoType DEF OnNode, Nodes
    <3> QED
      BY <3>3, <3>4
  <2>5. CASE next[first] = NULL
    <3>1. Goto(t, "get.load", NULL) /\ UNCHANGED prev
      BY <1>3, <2>5 DEF Unlink
    <3>2. ListInv'
      BY <1>0, <2>1, <2>2, <3>1 DEF ListInv, ListTypeOK, Nodes
    <3>3. ThreadInv'
      BY <1>0, <1>1, <2>1, <2>2, <2>3, <3>1, GotoType DEF OnNode, Nodes
    <3> QED
      BY <3>2, <3>3
  <2> QED
    BY <2>4, <2>5
<1> QED
  BY <1>2, <1>3

(* get.lock, get.first and get.second lock a mutex and either go on to the *)
(* next one or unlink the first element.                                   *)
LEMMA GetLocksType ==
  ASSUME TypeInv, NEW t \in Threads, UNCHANGED counters,
         GetLock(t) \/ GetFirst(t) \/ GetSecond(t)
  PROVE  TypeInv'
<1>0. TypeOK /\ ListInv /\ ThreadInv /\ PacketTypeOK /\ ThreadTypeOK /\ ListTypeOK
  BY TypeParts
<1>1. /\ pc[t] \in Getting /\ pc[t] \in PthreadCalls /\ Lock(t)
      /\ UNCHANGED <<pkts, queue_index, tmp>>
  BY DEF GetLock, GetFirst, GetSecond, Getting, PthreadCalls
<1>2. PacketTypeOK' /\ CounterTypeOK'
  BY <1>0, <1>1, LockType DEF pkts, PacketTypeOK
<1>3. {"get.first", "get.second"} \subseteq Labels(t)
  BY <1>0, <1>1, Roles DEF Getting
<1>4. CASE Unlink(t)
  BY <1>1, <1>2, <1>4, UnlinkType, TypeJoin
<1>5. ASSUME NEW e \in Elements, NEW label \in {"get.first", "get.second"},
             Goto(t, label, packet[e]), UNCHANGED <<list, cur, arg>>
      PROVE  TypeInv'
  <2>1. packet[e] \in Cells \cup {NULL}
    BY <1>0 DEF ListTypeOK, Nodes
  <2>2. ListInv'
    BY <1>0, <1>5 DEF list, ListInv, ListTypeOK
  <2>3. ThreadInv'
    BY <1>0, <1>3, <1>5, <2>1, GotoStayType DEF ThreadTypeOK, OnNode, Taking
  <2> QED
    BY <1>2, <2>2, <2>3, TypeJoin
<1>6. /\ next[queue_head] # NULL => next[queue_head] \in Elements
      /\ \A e \in Elements : next[e] # NULL => next[e] \in Elements
  BY <1>0 DEF ListTypeOK, Nodes
<1> QED
  BY <1>4, <1>5, <1>6 DEF GetLock, GetFirst, GetSecond

LEMMA GetEmptyType ==
  ASSUME TypeInv, NEW t \in Threads, GetEmpty(t), UNCHANGED counters
  PROVE  TypeInv'
<1>1. pc[t] = "get.empty"
  BY DEF GetEmpty
<1>2. "empty" \in Labels(t)
  BY <1>1, TypeParts, Roles DEF Getting
<1> QED
  BY <1>1, <1>2, UnlockReturnType DEF GetEmpty, PthreadCalls, OnNode, Taking

LEMMA GetUnlockSecondType ==
  ASSUME TypeInv, NEW t \in Threads, GetUnlockSecond(t), UNCHANGED counters
  PROVE  TypeInv'
<1>0. TypeOK /\ ListInv /\ ThreadInv /\ PacketTypeOK /\ ThreadTypeOK /\ ListTypeOK
  BY TypeParts
<1>1. pc[t] = "get.unlockSecond"
  BY DEF GetUnlockSecond
<1>2. "get.load" \in Labels(t) /\ cur[t] \in Elements
  BY <1>0, <1>1, Roles DEF Getting, ThreadInv, CurOK, Taking
<1> QED
  BY <1>1, <1>2, UnlockGotoType DEF GetUnlockSecond, PthreadCalls, OnNode

LEMMA GetStoreType ==
  ASSUME TypeInv, NEW t \in Threads, GetStore(t), UNCHANGED counters
  PROVE  TypeInv'
<1>0. TypeOK /\ ListInv /\ ThreadInv /\ PacketTypeOK /\ ThreadTypeOK /\ ListTypeOK
  BY TypeParts
<1>1. cur[t] \in Elements
  BY <1>0 DEF GetStore, ThreadInv, CurOK, Taking
<1>2. "get.unlockFirst" \in Labels(t)
  BY <1>0, Roles DEF GetStore, Getting
<1>3. packet[cur[t]] \in Cells \cup {NULL}
  BY <1>0, <1>1 DEF ListTypeOK, Nodes
<1>4. ListInv' /\ PacketTypeOK'
  BY <1>0, <1>1 DEF GetStore, pkts, ListInv, ListTypeOK, PacketTypeOK
<1>5. CounterTypeOK'
  BY DEF GetStore, TypeInv, TypeOK, CounterTypeOK, counters
<1>6. ThreadInv'
  BY <1>0, <1>2, <1>3, GotoType DEF GetStore, ThreadTypeOK, OnNode, Taking
<1> QED
  BY <1>4, <1>5, <1>6, TypeJoin

LEMMA GetUnlockFirstType ==
  ASSUME TypeInv, NEW t \in Threads, GetUnlockFirst(t), UNCHANGED counters
  PROVE  TypeInv'
<1>0. TypeOK /\ ListInv /\ ThreadInv /\ PacketTypeOK /\ ThreadTypeOK /\ ListTypeOK
  BY TypeParts
<1>1. pc[t] = "get.unlockFirst"
  BY DEF GetUnlockFirst
<1>2. "get.unlockHead" \in Labels(t)
  BY <1>0, <1>1, Roles DEF Getting
<1>3. CASE Unlock(t)
  BY <1>1, <1>2, <1>3, UnlockGotoType
  DEF GetUnlockFirst, PthreadCalls, OnNode, Taking, Cells
<1>4. CASE UNCHANGED <<owner, faults>>
  BY <1>2, <1>4, JumpType DEF GetUnlockFirst, OnNode, Taking, Cells
<1> QED
  BY <1>3, <1>4 DEF GetUnlockFirst

LEMMA GetUnlockHeadType ==
  ASSUME TypeInv, NEW t \in Threads, GetUnlockHead(t), UNCHANGED counters
  PROVE  TypeInv'
<1>1. pc[t] = "get.unlockHead"
  BY DEF GetUnlockHead
<1>2. "got" \in Labels(t)
  BY <1>1, TypeParts, Roles DEF Getting
<1> QED
  BY <1>1, <1>2, UnlockReturnType DEF GetUnlockHead, PthreadCalls, OnNode, Taking

LEMMA CrashType ==
  ASSUME TypeInv, NEW t \in Threads, Crash(t), UNCHANGED counters
  PROVE  TypeInv'
<1>1. "segv" \in Labels(t)
  BY TypeParts, Roles
<1> QED
  BY <1>1, JumpType DEF Crash, Segfault, OnNode, Taking

LEMMA QueueStepType ==
  ASSUME TypeInv, NEW t \in Threads, QueueStep(t), UNCHANGED counters
  PROVE  TypeInv'
BY AddLockType, AddFullType, WalkPrevType, WalkNextType, DupPrevType,
   InsPrevAppPrevType, UnlockCurType, LoadIndexType, AddStoreType, GetLocksType,
   GetEmptyType, GetUnlockSecondType, GetStoreType, GetUnlockFirstType,
   GetUnlockHeadType, CrashType
DEF QueueStep

-----------------------------------------------------------------------------
(* The steps of producers, consumers and the observer.                     *)

LEMMA AddFreshPacketType ==
  ASSUME TypeInv, NEW t \in Threads, AddFreshPacket(t), "add.lock" \in Labels(t)
  PROVE  ListInv' /\ PacketTypeOK' /\ ThreadInv'
<1>0. TypeOK /\ ListInv /\ ThreadInv /\ PacketTypeOK /\ ThreadTypeOK /\ ListTypeOK
      /\ CounterTypeOK
  BY TypeParts
<1>1. PICK p \in Packets \ heap, n \in Nums :
        /\ heap' = heap \cup {p}
        /\ num' = [num EXCEPT ![p] = n]
        /\ owner' = [owner EXCEPT ![p] = NULL]
        /\ arg' = [arg EXCEPT ![t] = p]
  BY DEF AddFreshPacket
<1>2. n \in Int
  BY SystemAssumption
<1>3. PacketTypeOK'
  BY <1>0, <1>1, <1>2 DEF PacketTypeOK, Cells
<1>4. arg' \in [Threads -> Cells \cup {NULL}]
  BY <1>0, <1>1 DEF ThreadTypeOK, Cells
<1>5. ThreadInv'
  BY <1>0, <1>4, GotoStayType DEF AddFreshPacket, OnNode, Taking, Cells
<1>6. ListInv'
  BY <1>0 DEF AddFreshPacket, list, ListInv, ListTypeOK
<1> QED
  BY <1>3, <1>5, <1>6

LEMMA ProducerType ==
  ASSUME TypeInv, NEW t \in Producers, ProducerStep(t)
  PROVE  TypeInv'
<1> t \in Threads
  BY SystemAssumption
<1>0. TypeOK /\ ListInv /\ ThreadInv /\ PacketTypeOK /\ ThreadTypeOK /\ ListTypeOK
      /\ CounterTypeOK
  BY TypeParts
<1>1. {"producer", "add.lock", "done", "segv"} \subseteq Labels(t)
  BY DEF Labels, Adding
<1>2. CASE Produce(t)
  <2>1. CounterTypeOK'
    BY <1>0, <1>2, SystemAssumption DEF Produce, AddFreshPacket, CounterTypeOK
  <2>2. ListInv' /\ PacketTypeOK' /\ ThreadInv'
    BY <1>1, <1>2, AddFreshPacketType DEF Produce
  <2> QED
    BY <2>1, <2>2, TypeJoin
<1>3. CASE RetryFull(t)
  <2>1. CounterTypeOK'
    BY <1>0, <1>3 DEF RetryFull, AddFreshPacket, CounterTypeOK, ThreadTypeOK
  <2>2. ListInv' /\ PacketTypeOK' /\ ThreadInv'
    BY <1>1, <1>3, AddFreshPacketType DEF RetryFull
  <2> QED
    BY <2>1, <2>2, TypeJoin
<1>4. CASE RetryFreed(t)
  <2>1. ListInv' /\ CounterTypeOK'
    BY <1>0, <1>4
    DEF RetryFreed, list, locals, counters, ListInv, ListTypeOK, CounterTypeOK
  <2>2. PacketTypeOK'
    BY <1>0, <1>4, SystemAssumption DEF RetryFreed, PacketTypeOK
  <2>3. ThreadInv'
    BY <1>0, <1>1, <1>4, GotoStayType
    DEF RetryFreed, locals, ThreadTypeOK, OnNode, Taking, Cells
  <2> QED
    BY <2>1, <2>2, <2>3, TypeJoin
<1>5. CASE Produced(t)
  <2>1. ListInv' /\ CounterTypeOK' /\ PacketTypeOK'
    BY <1>0, <1>5
    DEF Produced, list, pkts, counters, ListInv, ListTypeOK, CounterTypeOK, PacketTypeOK
  <2>2. arg' \in [Threads -> Cells \cup {NULL}]
    BY <1>0, <1>5 DEF Produced, ThreadTypeOK
  <2>3. ThreadInv'
    BY <1>0, <1>1, <1>5, <2>2, GotoStayType DEF Produced, Segfault, OnNode, Taking
  <2> QED
    BY <2>1, <2>3, TypeJoin
<1>6. CASE ProducerDone(t)
  BY <1>1, <1>6, JumpType DEF ProducerDone, OnNode, Taking
<1> QED
  BY <1>2, <1>3, <1>4, <1>5, <1>6 DEF ProducerStep

LEMMA ConsumerType ==
  ASSUME TypeInv, NEW t \in Consumers, ConsumerStep(t)
  PROVE  TypeInv'
<1> t \in Threads
  BY SystemAssumption
<1>0. TypeOK /\ ListInv /\ ThreadInv /\ PacketTypeOK /\ ThreadTypeOK /\ ListTypeOK
      /\ CounterTypeOK
  BY TypeParts
<1>1. {"consumer", "get.lock", "done"} \subseteq Labels(t)
  BY SystemAssumption DEF Labels, Getting
<1>2. CASE Consume(t)
  <2>1. ListInv' /\ CounterTypeOK' /\ PacketTypeOK'
    BY <1>0, <1>2, SystemAssumption
    DEF Consume, list, pkts, locals, ListInv, ListTypeOK, CounterTypeOK, PacketTypeOK
  <2>2. ThreadInv'
    BY <1>0, <1>1, <1>2, GotoStayType
    DEF Consume, locals, ThreadTypeOK, OnNode, Taking, Cells
  <2> QED
    BY <2>1, <2>2, TypeJoin
<1>3. CASE Consumed(t)
  <2>1. ListInv' /\ CounterTypeOK' /\ PacketTypeOK'
    BY <1>0, <1>3
    DEF Consumed, list, counters, ListInv, ListTypeOK, CounterTypeOK, PacketTypeOK
  <2>2. arg' \in [Threads -> Cells \cup {NULL}]
    BY <1>0, <1>3 DEF Consumed, ThreadTypeOK
  <2>3. ThreadInv'
    BY <1>0, <1>1, <1>3, <2>2, GotoStayType DEF Consumed, OnNode, Taking
  <2> QED
    BY <2>1, <2>3, TypeJoin
<1>4. CASE NothingConsumed(t)
  BY <1>1, <1>4, JumpType DEF NothingConsumed, OnNode, Taking
<1>5. CASE ConsumerDone(t)
  BY <1>1, <1>5, JumpType DEF ConsumerDone, OnNode, Taking
<1> QED
  BY <1>2, <1>3, <1>4, <1>5 DEF ConsumerStep

LEMMA ObserverType ==
  ASSUME TypeInv, NEW t \in Observers, ObserverStep(t)
  PROVE  TypeInv'
<1> t \in Threads
  BY SystemAssumption
<1>0. TypeOK /\ ListInv /\ ThreadInv /\ PacketTypeOK /\ ThreadTypeOK /\ ListTypeOK
      /\ CounterTypeOK
  BY TypeParts
<1>1. Observing \cup {"observer", "done", "segv"} \subseteq Labels(t)
  BY SystemAssumption DEF Labels
<1>2. pc[t] \in OnNode => cur[t] \in Nodes
  BY <1>0 DEF ThreadInv, CurOK
<1>3. \A e \in Nodes : /\ packet[e] \in Cells \cup {NULL}
                       /\ next[e] # NULL => next[e] \in Elements /\ next[e] \in Nodes
                       /\ prev[e] # NULL => prev[e] \in Nodes
  BY <1>0 DEF ListTypeOK, Nodes
<1>4. CASE Observe(t)
  BY <1>1, <1>4, JumpType DEF Observe, Observing, OnNode, Taking, Cells
<1>5. CASE ObsLock(t)
  <2>1. ListInv'
    BY <1>0, <1>5 DEF ObsLock, list, ListInv, ListTypeOK
  <2>2. PacketTypeOK' /\ CounterTypeOK'
    BY <1>0, <1>5, LockType DEF ObsLock, pkts, PacketTypeOK, PthreadCalls
  <2>3. ThreadInv'
    BY <1>0, <1>1, <1>5, GotoType
    DEF ObsLock, Observing, ThreadTypeOK, Nodes, Taking
  <2> QED
    BY <2>1, <2>2, <2>3, TypeJoin
<1>6. CASE ObsPrint(t)
  <2>1. cur[t] \in Nodes /\ packet[cur[t]] \in Cells \cup {NULL}
    BY <1>2, <1>3, <1>6 DEF ObsPrint, OnNode
  <2>2. PICK label \in {"segv", "obs.last", "obs.move"}, m \in Cells \cup {NULL} :
          Goto(t, label, m)
    BY <1>6, <2>1 DEF ObsPrint, Segfault
  <2> QED
    BY <1>1, <1>6, <2>1, <2>2, JumpType DEF ObsPrint, Observing, OnNode, Taking
<1>7. CASE ObsMove(t)
  <2>1. cur[t] \in Nodes
    BY <1>2, <1>7 DEF ObsMove, OnNode
  <2>2. ListInv' /\ PacketTypeOK' /\ CounterTypeOK'
    BY <1>0, <1>7 DEF ObsMove, list, pkts, counters, ListInv, ListTypeOK,
                      PacketTypeOK, CounterTypeOK
  <2>3. CASE Segfault(t) /\ UNCHANGED cur
    BY <1>0, <1>1, <1>7, <2>2, <2>3, GotoStayType, TypeJoin
    DEF ObsMove, Segfault, ThreadTypeOK, OnNode, Taking
  <2>4. CASE LET n == next[cur[t]] IN
             /\ n # NULL /\ prev[n] # NULL
             /\ cur' = [cur EXCEPT ![t] = n]
             /\ Goto(t, "obs.prev", packet[prev[n]])
    <3> DEFINE n == next[cur[t]]
    <3>1. n \in Nodes /\ packet[prev[n]] \in Cells \cup {NULL}
      BY <1>3, <2>1, <2>4
    <3>2. ThreadInv'
      BY <1>0, <1>1, <1>7, <2>4, <3>1, GotoType
      DEF ObsMove, Observing, ThreadTypeOK, Taking
    <3> QED
      BY <2>2, <3>2, TypeJoin
  <2> QED
    BY <1>7, <2>3, <2>4 DEF ObsMove
<1>8. CASE ObsPrev(t)
  <2>1. cur[t] \in Nodes /\ pc[t] \in PthreadCalls
    BY <1>2, <1>8 DEF ObsPrev, OnNode, PthreadCalls
  <2> QED
    BY <1>1, <1>8, <2>1, UnlockGotoType DEF ObsPrev, Observing, Taking
<1>9. CASE ObsPeek(t)
  <2>1. cur[t] \in Nodes
    BY <1>2, <1>9 DEF ObsPeek, OnNode
  <2>2. PICK label \in {"obs.next", "obs.print"}, m \in Cells \cup {NULL} :
          Goto(t, label, m)
    BY <1>3, <1>9, <2>1 DEF ObsPeek
  <2> QED
    BY <1>1, <1>9, <2>1, <2>2, JumpType DEF ObsPeek, Observing, OnNode, Taking
<1>10. CASE ObsNext(t)
  <2>1. ListInv'
    BY <1>0, <1>10 DEF ObsNext, list, ListInv, ListTypeOK
  <2>2. PacketTypeOK' /\ CounterTypeOK'
    <3>1. /\ Lock(t) /\ pc[t] \in PthreadCalls /\ heap' \subseteq Packets
          /\ UNCHANGED <<num, queue_index, tmp, counters>>
      BY <1>0, <1>10 DEF ObsNext, pkts, locals, PacketTypeOK, PthreadCalls
    <3> QED
      BY <1>0, <3>1, LockType
  <2>3. ThreadInv'
    BY <1>0, <1>1, <1>2, <1>10, GotoStayType
    DEF ObsNext, Observing, locals, ThreadTypeOK, OnNode, Taking
  <2> QED
    BY <2>1, <2>2, <2>3, TypeJoin
<1>11. CASE ObsLast(t)
  BY <1>1, <1>11, UnlockReturnType DEF ObsLast, PthreadCalls, OnNode, Taking
<1>12. CASE ObserverDone(t)
  BY <1>1, <1>12, JumpType DEF ObserverDone, OnNode, Taking
<1> QED
  BY <1>4, <1>5, <1>6, <1>7, <1>8, <1>9, <1>10, <1>11, <1>12 DEF ObserverStep

-----------------------------------------------------------------------------
LEMMA TypeInvInit == Init => TypeInv
<1> SUFFICES ASSUME Init PROVE TypeInv
  OBVIOUS
<1> USE AddressAssumption, SystemAssumption
<1>1. ListTypeOK /\ prev[queue_head] = NULL
  BY DEF Init, QueueInit, ListTypeOK, Nodes, Cells
<1>2. PacketTypeOK
  BY DEF Init, QueueInit, PacketTypeOK
<1>3. \A t \in Threads : /\ pc[t] \in {"producer", "consumer", "observer"}
                          /\ pc[t] \in Labels(t)
  BY DEF Init, Labels
<1>4. pc \in [Threads -> AllLabels]
  BY <1>3 DEF Init, AllLabels
<1>5. ThreadTypeOK
  BY <1>3, <1>4 DEF Init, QueueInit, ThreadTypeOK
<1>6. CounterTypeOK
  BY DEF Init, QueueInit, CounterTypeOK
<1>7. CurOK
  BY <1>3 DEF CurOK, OnNode, Taking
<1> QED
  BY <1>1, <1>2, <1>5, <1>6, <1>7 DEF TypeInv, TypeOK

LEMMA TypeInvStep == TypeInv /\ [Next]_vars => TypeInv'
<1> SUFFICES ASSUME TypeInv, [Next]_vars PROVE TypeInv'
  OBVIOUS
<1>1. CASE UNCHANGED vars
  BY <1>1 DEF vars, queueVars, list, pkts, locals, counters, TypeInv, TypeOK,
              ListTypeOK, PacketTypeOK, ThreadTypeOK, CounterTypeOK, CurOK
<1>2. ASSUME NEW t \in Threads, Step(t) PROVE TypeInv'
  BY <1>2, QueueStepType, ProducerType, ConsumerType, ObserverType DEF Step
<1> QED
  BY <1>1, <1>2 DEF Next

(* Whatever has been stolen or freed before, pointers point to memory that *)
(* malloc can return, each thread stays in its function, and no counter    *)
(* passes MAX_PACKETS.                                                     *)
THEOREM TypeCorrect == Spec => []TypeOK
<1>1. TypeInv => TypeOK
  BY DEF TypeInv
<1> QED
  BY <1>1, TypeInvInit, TypeInvStep, PTL DEF Spec

-----------------------------------------------------------------------------
(* The capacity.  A producer that add_paket has admitted relies on a check *)
(* it made under the head's mutex, which it has given up since.  What it   *)
(* may rely on is that everybody else only counts down: also a store of a  *)
(* value loaded long ago leaves the counter below QMAX.                    *)

Admitted == {"walk.prev", "walk.next", "ins.prev", "ins.cur", "app.prev",
             "app.cur", "dup.prev", "add.load", "add.store"}

OneProducer == \A t, u \in Producers : t = u

IndexInv ==
  /\ queue_index <= QMAX
  /\ \A t \in Threads :
       /\ tmp[t] <= QMAX
       /\ pc[t] \in Admitted => queue_index < QMAX
       /\ pc[t] = "add.store" => tmp[t] < QMAX

(* A step that leaves counter and loaded values alone, and admits a thread *)
(* only where there is room.                                               *)
SameIndex(t) ==
  /\ UNCHANGED <<queue_index, tmp>>
  /\ \A u \in Threads \ {t} : pc'[u] = pc[u]
  /\ pc'[t] # "add.store"
  /\ pc'[t] \in Admitted => pc[t] \in Admitted \/ queue_index < QMAX

LEMMA SameIndexInv ==
  ASSUME IndexInv, NEW t \in Threads, SameIndex(t)
  PROVE  IndexInv'
  BY DEF IndexInv, SameIndex

LEMMA GotoSame ==
  ASSUME ThreadTypeOK, NEW t \in Threads, NEW label, NEW m, Goto(t, label, m)
  PROVE  pc'[t] = label /\ \A u \in Threads \ {t} : pc'[u] = pc[u]
  BY DEF ThreadTypeOK, Goto

(* Where add_paket goes from a node: never to the store of the counter.    *)
LEMMA VisitSame ==
  ASSUME ThreadTypeOK, NEW t \in Threads, NEW c, Visit(t, c)
  PROVE  /\ pc'[t] # "add.store"
         /\ \A u \in Threads \ {t} : pc'[u] = pc[u]
<1>1. PICK label, m : Goto(t, label, m) /\ label # "add.store"
  BY DEF Visit, InsertBefore, Advance, Reject, Segfault
<1> QED
  BY <1>1, GotoSame

LEMMA AdvanceSame ==
  ASSUME ThreadTypeOK, NEW t \in Threads, NEW c, Advance(t, c)
  PROVE  /\ pc'[t] # "add.store"
         /\ \A u \in Threads \ {t} : pc'[u] = pc[u]
<1>1. PICK label, m : Goto(t, label, m) /\ label # "add.store"
  BY DEF Advance
<1> QED
  BY <1>1, GotoSame

LEMMA QueueStepIndex ==
  ASSUME IndexInv, TypeInv, OneProducer, NEW t \in Threads, QueueStep(t)
  PROVE  IndexInv'
<1>0. ThreadTypeOK /\ CounterTypeOK
  BY TypeParts
<1>1. CASE AddLock(t)
  <2>1. CASE Goto(t, "add.full", empty_packet)
    BY <1>0, <1>1, <2>1, GotoSame, SameIndexInv DEF AddLock, SameIndex, Admitted
  <2>2. CASE queue_index < QMAX /\ Visit(t, queue_head)
    BY <1>0, <1>1, <2>2, VisitSame, SameIndexInv DEF AddLock, SameIndex
  <2> QED
    BY <1>1, <2>1, <2>2 DEF AddLock
<1>2. CASE WalkNext(t)
  BY <1>0, <1>2, VisitSame, SameIndexInv DEF WalkNext, SameIndex, Admitted
<1>3. CASE WalkPrev(t)
  BY <1>0, <1>3, AdvanceSame, SameIndexInv DEF WalkPrev, SameIndex, Admitted, locals
<1>4. CASE DupPrev(t) \/ InsPrev(t) \/ AppPrev(t) \/ UnlockCur(t)
  <2>1. PICK label, m : Goto(t, label, m) /\ label # "add.store"
    BY <1>4 DEF DupPrev, Reject, InsPrev, AppPrev, UnlockCur
  <2>2. pc[t] \in Admitted /\ UNCHANGED <<queue_index, tmp>>
    BY <1>4 DEF DupPrev, InsPrev, AppPrev, UnlockCur, locals, Admitted
  <2> QED
    BY <1>0, <2>1, <2>2, GotoSame, SameIndexInv DEF SameIndex
<1>5. CASE \/ AddFull(t) \/ GetLock(t) \/ GetFirst(t) \/ GetSecond(t) \/ GetEmpty(t)
           \/ GetUnlockSecond(t) \/ GetUnlockFirst(t) \/ GetUnlockHead(t)
           \/ Crash(t)
  <2>1. PICK label, m : Goto(t, label, m) /\ label \notin Admitted
    BY <1>5 DEF AddFull, GetLock, GetFirst, GetSecond, GetEmpty, GetUnlockSecond,
                GetUnlockFirst, GetUnlockHead, Crash, Segfault, Return, Unlink,
                Admitted
  <2>2. UNCHANGED <<queue_index, tmp>>
    BY <1>5 DEF AddFull, GetLock, GetFirst, GetSecond, GetEmpty, GetUnlockSecond,
                GetUnlockFirst, GetUnlockHead, Crash, locals
  <2> QED
    BY <1>0, <2>1, <2>2, GotoSame, SameIndexInv DEF SameIndex, Admitted
<1>6. CASE LoadIndex(t)
  BY <1>0, <1>6
  DEF LoadIndex, Goto, IndexInv, Admitted, ThreadTypeOK, CounterTypeOK
<1>7. CASE AddStore(t)
  <2>1. \A u \in Threads : pc[u] \in Admitted => u = t
    <3>1. ASSUME NEW u \in Threads, pc[u] \in Admitted PROVE u \in Producers
      BY <1>0, <3>1, Roles DEF Admitted, Adding
    <3>2. pc[t] \in Admitted
      BY <1>7 DEF AddStore, Admitted
    <3> QED
      BY <3>1, <3>2 DEF OneProducer
  <2>2. /\ tmp[t] \in Int /\ tmp[t] < QMAX
        /\ queue_index' = tmp[t] + 1
        /\ tmp' = [tmp EXCEPT ![t] = 0]
        /\ Goto(t, "added", NULL)
    BY <1>0, <1>7 DEF AddStore, Return, IndexInv, CounterTypeOK
  <2>3. queue_index' <= QMAX
    BY <2>2, CapacityAssumption
  <2>4. \A u \in Threads : tmp'[u] <= QMAX
    BY <1>0, <2>2, CapacityAssumption DEF IndexInv, CounterTypeOK
  <2>5. \A u \in Threads : pc'[u] \notin Admitted /\ pc'[u] # "add.store"
    BY <1>0, <2>1, <2>2, GotoSame DEF Admitted
  <2> QED
    BY <2>3, <2>4, <2>5 DEF IndexInv
<1>8. CASE GetStore(t)
  <2>1. /\ tmp[t] \in Int /\ tmp[t] <= QMAX
        /\ queue_index' = tmp[t] - 1
        /\ tmp' = [tmp EXCEPT ![t] = 0]
        /\ Goto(t, "get.unlockFirst", packet[cur[t]])
    BY <1>0, <1>8 DEF GetStore, IndexInv, CounterTypeOK
  <2>2. queue_index' < QMAX /\ queue_index' \in Int
    BY <2>1, CapacityAssumption
  <2>3. \A u \in Threads : /\ tmp'[u] <= QMAX
                           /\ u # t => tmp'[u] = tmp[u]
    BY <1>0, <2>1, CapacityAssumption DEF IndexInv, CounterTypeOK
  <2>4. /\ pc'[t] # "add.store"
        /\ \A u \in Threads \ {t} : pc'[u] = pc[u]
    BY <1>0, <2>1, GotoSame
  <2> QED
    BY <2>2, <2>3, <2>4, CapacityAssumption DEF IndexInv
<1> QED
  BY <1>1, <1>2, <1>3, <1>4, <1>5, <1>6, <1>7, <1>8 DEF QueueStep

(* The loops of the threads neither touch the counter nor admit anybody.   *)
LEMMA LoopIndex ==
  ASSUME IndexInv, TypeInv, NEW t \in Threads,
         ProducerStep(t) \/ ConsumerStep(t) \/ ObserverStep(t)
  PROVE  IndexInv'
<1>0. ThreadTypeOK
  BY TypeParts
<1>1. CASE ProducerStep(t)
  <2>1. PICK label, m : Goto(t, label, m) /\ label \notin Admitted
    BY <1>1 DEF ProducerStep, Produce, RetryFull, AddFreshPacket, RetryFreed,
                Produced, ProducerDone, Segfault, Admitted
  <2>2. UNCHANGED <<queue_index, tmp>>
    BY <1>1 DEF ProducerStep, Produce, RetryFull, AddFreshPacket, RetryFreed,
                Produced, ProducerDone, locals
  <2> QED
    BY <1>0, <2>1, <2>2, GotoSame, SameIndexInv DEF SameIndex, Admitted
<1>2. CASE ConsumerStep(t)
  <2>1. PICK label, m : Goto(t, label, m) /\ label \notin Admitted
    BY <1>2 DEF ConsumerStep, Consume, Consumed, NothingConsumed, ConsumerDone,
                Admitted
  <2>2. UNCHANGED <<queue_index, tmp>>
    BY <1>2 DEF ConsumerStep, Consume, Consumed, NothingConsumed, ConsumerDone,
                locals
  <2> QED
    BY <1>0, <2>1, <2>2, GotoSame, SameIndexInv DEF SameIndex, Admitted
<1>3. CASE ObserverStep(t)
  <2>1. PICK label, m : Goto(t, label, m) /\ label \notin Admitted
    BY <1>3 DEF ObserverStep, Observe, ObsLock, ObsPrint, ObsMove, ObsPrev,
                ObsPeek, ObsNext, ObsLast, ObserverDone, Return, Segfault, Admitted
  <2>2. UNCHANGED <<queue_index, tmp>>
    BY <1>3 DEF ObserverStep, Observe, ObsLock, ObsPrint, ObsMove, ObsPrev,
                ObsPeek, ObsNext, ObsLast, ObserverDone, locals
  <2> QED
    BY <1>0, <2>1, <2>2, GotoSame, SameIndexInv DEF SameIndex, Admitted
<1> QED
  BY <1>1, <1>2, <1>3

LEMMA IndexInvStep ==
  OneProducer /\ IndexInv /\ TypeInv /\ [Next]_vars => IndexInv'
<1> SUFFICES ASSUME OneProducer, IndexInv, TypeInv, [Next]_vars PROVE IndexInv'
  OBVIOUS
<1>1. CASE UNCHANGED vars
  BY <1>1 DEF vars, queueVars, locals, IndexInv
<1>2. ASSUME NEW t \in Threads, Step(t) PROVE IndexInv'
  BY <1>2, QueueStepIndex, LoopIndex DEF Step
<1> QED
  BY <1>1, <1>2 DEF Next

(* With one producer, and any number of consumers and observers,           *)
(* queue_index never passes QMAX, whatever updates of it are lost and      *)
(* whatever mutexes are stolen.                                            *)
THEOREM IndexCorrect == Spec => []IndexWithinCapacity
<1>1. CASE OneProducer
  <2>1. Init => IndexInv
    BY CapacityAssumption DEF Init, QueueInit, IndexInv, Admitted
  <2>2. IndexInv => IndexWithinCapacity
    BY DEF IndexInv, IndexWithinCapacity
  <2>3. IndexInv /\ TypeInv /\ [Next]_vars => IndexInv'
    BY <1>1, IndexInvStep
  <2> QED
    BY <2>1, <2>2, <2>3, TypeInvInit, TypeInvStep, PTL DEF Spec
<1>2. CASE ~OneProducer
  <2>1. IndexWithinCapacity
    BY <1>2 DEF OneProducer, IndexWithinCapacity
  <2> QED
    BY <2>1, PTL
<1> QED
  BY <1>1, <1>2
=============================================================================
