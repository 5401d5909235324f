----------------------------- MODULE PacketQueue -----------------------------
(***************************************************************************)
(* queue.c of Praktikum 3: a sorted, doubly linked list of packets that    *)
(* threads traverse hand over hand, each element being locked by the mutex *)
(* inside the packet it points to.                                         *)
(*                                                                         *)
(* GRAIN.  One action is one pthread call together with the plain memory   *)
(* accesses that follow it, up to the next pthread call.  The argument of  *)
(* the call a thread is about to make has been evaluated by then and is    *)
(* kept in want[t].  Accesses that no mutex protects (queue_index++ and    *)
(* queue_index--) are actions of their own, a load and a store.  Accesses  *)
(* fused with a call touch nodes the caller holds the mutex of, unless     *)
(* "faults" says that a mutex has been stolen.                             *)
(*                                                                         *)
(* A thread's pc names the call it is about to make:                       *)
(*   add.lock  31   add.full  34   walk.prev 73   walk.next 77             *)
(*   ins.prev  67   ins.cur   68   app.prev  91   app.cur   93             *)
(*   dup.prev  43   add.load, add.store 100                                *)
(*   get.lock  105  get.first 107  get.second 110 get.empty 116            *)
(*   get.unlockSecond 129          get.load, get.store 133                 *)
(*   get.unlockFirst 137           get.unlockHead 138                      *)
(* and the return values are the pcs added, full, dup, got and empty.      *)
(***************************************************************************)
EXTENDS Integers, FiniteSets

CONSTANTS
  Threads,       (* the threads of the process                              *)
  Elements,      (* addresses malloc can return for a queue_element_t       *)
  Packets,       (* addresses malloc can return for a packet_t              *)
  queue_head,    (* the address of the static list head                     *)
  empty_packet,  (* the address of the head's static packet                 *)
  NULL,          (* the null pointer; also "no thread" in owner             *)
  QMAX           (* the capacity of the queue                               *)

ASSUME AddressAssumption ==
  /\ queue_head \notin Elements
  /\ empty_packet \notin Packets
  /\ NULL \notin Threads \cup Elements \cup Packets \cup {queue_head, empty_packet}

ASSUME CapacityAssumption == QMAX \in Nat

Nodes == Elements \cup {queue_head}
Cells == Packets \cup {empty_packet}

VARIABLES
  packet, next, prev,   (* the fields of a queue_element_t                  *)
  live,                 (* the elements malloc has given out, not yet freed *)
  num,                  (* packet_t.num                                     *)
  owner,                (* packet_t.mutex: the thread that locked it        *)
  heap,                 (* the packets malloc has given out, not yet freed  *)
  queue_index,          (* the static counter of queue.c                    *)
  pc,                   (* what a thread does next                          *)
  cur,                  (* its local "current" (add) or "first" (get)       *)
  arg,                  (* its packet: argument of add, result of get       *)
  want,                 (* the mutex its next pthread call names            *)
  tmp,                  (* the value of queue_index it has loaded           *)
  faults                (* history: where a mutex was stolen or lay in freed *)
                        (* memory ("dup": a freed packet was added again)   *)

list   == <<packet, next, prev, live>>
pkts   == <<num, heap>>
locals == <<cur, arg, tmp>>
queueVars == <<list, pkts, owner, queue_index, pc, locals, want, faults>>

QueueInit ==
  /\ packet = [e \in Nodes |-> IF e = queue_head THEN empty_packet ELSE NULL]
  /\ next = [e \in Nodes |-> NULL]
  /\ prev = [e \in Nodes |-> NULL]
  /\ live = {}
  /\ num = [p \in Cells |-> IF p = empty_packet THEN -1 ELSE 0]
  /\ owner = [p \in Cells |-> NULL]
  /\ heap = {}
  /\ queue_index = 0
  /\ cur = [t \in Threads |-> NULL]
  /\ arg = [t \in Threads |-> NULL]
  /\ want = [t \in Threads |-> NULL]
  /\ tmp = [t \in Threads |-> 0]
  /\ faults = {}

-----------------------------------------------------------------------------
(* Control flow, mutexes and memory.                                       *)

Goto(t, label, mutex) ==
  /\ pc' = [pc EXCEPT ![t] = label]
  /\ want' = [want EXCEPT ![t] = mutex]

(* Back to the caller; locals die with the frame. *)
Return(t, result) ==
  /\ Goto(t, result, NULL)
  /\ cur' = [cur EXCEPT ![t] = NULL]

(* A null pointer has been dereferenced: the process is killed. *)
Segfault(t) == Goto(t, "segv", NULL)

Killed == \E t \in Threads : pc[t] = "segv"

(* The packets whose mutexes may be used. *)
Allocated == heap \cup {empty_packet}

(* pthread_mutex_lock of a default mutex: blocks, on its own lock too.     *)
(* That the mutex lies in a freed packet is recorded.                      *)
Lock(t) ==
  /\ want[t] # NULL
  /\ owner[want[t]] = NULL
  /\ owner' = [owner EXCEPT ![want[t]] = t]
  /\ faults' = IF want[t] \in Allocated THEN faults ELSE faults \cup {pc[t]}

(* pthread_mutex_unlock of a default mutex never asks who holds it: a free *)
(* one stays free, and one that another thread holds is stolen from it,    *)
(* which is recorded, as is a mutex in a freed packet.                     *)
Unlock(t) ==
  /\ want[t] # NULL
  /\ owner' = [owner EXCEPT ![want[t]] = NULL]
  /\ faults' = IF want[t] \in Allocated /\ owner[want[t]] \in {t, NULL}
               THEN faults ELSE faults \cup {pc[t]}

PthreadCalls ==
  {"add.lock", "add.full", "walk.prev", "walk.next", "ins.prev", "ins.cur",
   "app.prev", "app.cur", "dup.prev", "get.lock", "get.first", "get.second",
   "get.empty", "get.unlockSecond", "get.unlockFirst", "get.unlockHead",
   "obs.lock", "obs.next", "obs.prev", "obs.last"}

(* A call on &x->packet->mutex with a packet that is NULL, a step that     *)
(* follows a pointer read from a freed element, or 134 for an element that *)
(* another consumer has taken, too.  Freed memory either keeps its content *)
(* until malloc gives it out again, or the thread crashes here.            *)
BadPointer(t) ==
  \/ pc[t] \in PthreadCalls /\ want[t] = NULL
  \/ pc[t] = "get.store" /\ packet[cur[t]] = NULL
  \/ cur[t] \notin live \cup {queue_head, NULL}

Crash(t) ==
  /\ BadPointer(t)
  /\ Segfault(t)
  /\ UNCHANGED <<list, pkts, owner, queue_index, locals, faults>>

-----------------------------------------------------------------------------
(* add_paket                                                               *)

(* Mutant: current->prev = new (65) is forgotten. *)
LinkOneWay(new, t, p, n) ==
  /\ live' = live \cup {new}
  /\ packet' = [packet EXCEPT ![new] = arg[t]]
  /\ next' = [next EXCEPT ![new] = n, ![p] = new]
  /\ prev' = [prev EXCEPT ![new] = p]

(* new is linked behind node p, before node n (NULL at the end). *)
Link(new, t, p, n) ==
  /\ live' = live \cup {new}
  /\ packet' = [packet EXCEPT ![new] = arg[t]]
  /\ next' = [next EXCEPT ![new] = n, ![p] = new]
  /\ prev' = IF n = NULL THEN [prev EXCEPT ![new] = p]
             ELSE [prev EXCEPT ![new] = p, ![n] = new]

(* 75-95: on to the next element, or the packet goes to the end. *)
Advance(t, c) ==
  \/ /\ next[c] # NULL
     /\ Goto(t, "walk.next", packet[next[c]])
     /\ UNCHANGED list
  \/ /\ next[c] = NULL
     /\ \E new \in Elements \ live : Link(new, t, c, NULL)
     /\ IF prev[c] # NULL THEN Goto(t, "app.prev", packet[prev[c]])
                          ELSE Goto(t, "app.cur", packet[c])

(* Mutant: the packet goes behind current instead of before it. *)
InsertBehind(t, c) ==
  /\ prev[c] # NULL
  /\ \E new \in Elements \ live : Link(new, t, c, next[c])
  /\ Goto(t, "ins.prev", packet[prev[c]])

(* 54-67 *)
InsertBefore(t, c) ==
  /\ prev[c] # NULL
  /\ \E new \in Elements \ live : Link(new, t, prev[c], c)
  /\ Goto(t, "ins.prev", packet[prev[c]])

(* Mutants: the packet is not freed (48); current's is freed in its place. *)
RejectLeaks(t) ==
  /\ Goto(t, "dup", NULL)
  /\ UNCHANGED heap
RejectFreesQueued(t) ==
  /\ heap' = heap \ {packet[cur[t]]}
  /\ Goto(t, "dup", NULL)

(* 45-51: unlocks and destroys a private copy of a mutex nobody holds,     *)
(* frees the packet of the caller, and leaves current locked.              *)
Reject(t) ==
  /\ heap' = heap \ {arg[t]}
  /\ Goto(t, "dup", NULL)

(* 39-96: one turn of the loop with current = c. *)
Visit(t, c) ==
  /\ cur' = [cur EXCEPT ![t] = c]
  /\ \/ /\ c = NULL             \* the loop ends, nothing was inserted
        /\ Goto(t, "add.load", NULL)
        /\ UNCHANGED <<list, heap>>
     \/ /\ c # NULL           \* 41: current->packet, 62: current->prev
        /\ packet[c] # NULL => num[arg[t]] < num[packet[c]] /\ prev[c] = NULL
        /\ Segfault(t)
        /\ UNCHANGED <<list, heap>>
     \/ /\ c # NULL /\ packet[c] # NULL
        /\ \/ /\ num[arg[t]] = num[packet[c]]
              /\ IF prev[c] # NULL
                 THEN Goto(t, "dup.prev", packet[prev[c]]) /\ UNCHANGED heap
                 ELSE Reject(t)
              /\ UNCHANGED list
           \/ /\ num[arg[t]] < num[packet[c]]
              /\ InsertBefore(t, c)
              /\ UNCHANGED heap
           \/ /\ num[arg[t]] > num[packet[c]]
              /\ IF prev[c] # NULL
                 THEN Goto(t, "walk.prev", packet[prev[c]]) /\ UNCHANGED list
                 ELSE Advance(t, c)
              /\ UNCHANGED heap

(* Mutants: > for >= (32); no lock (31). *)
AddLockOffByOne(t) ==
  /\ pc[t] = "add.lock"
  /\ Lock(t)
  /\ \/ /\ queue_index > QMAX
        /\ Goto(t, "add.full", empty_packet)
        /\ UNCHANGED <<list, heap, cur>>
     \/ /\ queue_index <= QMAX
        /\ Visit(t, queue_head)
  /\ UNCHANGED <<num, queue_index, arg, tmp>>
AddUnlocked(t) ==
  /\ pc[t] = "add.lock"
  /\ queue_index < QMAX
  /\ Visit(t, queue_head)
  /\ UNCHANGED <<num, owner, queue_index, arg, tmp, faults>>

AddLock(t) ==
  /\ pc[t] = "add.lock"
  /\ Lock(t)
  /\ \/ /\ queue_index >= QMAX
        /\ Goto(t, "add.full", empty_packet)
        /\ UNCHANGED <<list, heap, cur>>
     \/ /\ queue_index < QMAX
        /\ Visit(t, queue_head)
  /\ UNCHANGED <<num, queue_index, arg, tmp>>

AddFull(t) ==
  /\ pc[t] = "add.full"
  /\ Unlock(t)
  /\ Return(t, "full")
  /\ UNCHANGED <<list, pkts, queue_index, arg, tmp>>

(* Mutant: prev stays locked (73). *)
WalkPrevLocked(t) ==
  /\ pc[t] = "walk.prev"
  /\ Advance(t, cur[t])
  /\ UNCHANGED <<pkts, owner, queue_index, locals, faults>>

WalkPrev(t) ==
  /\ pc[t] = "walk.prev"
  /\ Unlock(t)
  /\ Advance(t, cur[t])
  /\ UNCHANGED <<pkts, queue_index, locals>>

WalkNext(t) ==
  /\ pc[t] = "walk.next"
  /\ Lock(t)
  /\ Visit(t, next[cur[t]])
  /\ UNCHANGED <<num, queue_index, arg, tmp>>

DupPrev(t) ==
  /\ pc[t] = "dup.prev"
  /\ Unlock(t)
  /\ Reject(t)
  /\ UNCHANGED <<list, num, queue_index, locals>>

InsPrev(t) ==
  /\ pc[t] = "ins.prev"
  /\ Unlock(t)
  /\ Goto(t, "ins.cur", packet[cur[t]])
  /\ UNCHANGED <<list, pkts, queue_index, locals>>

(* 90-92: prev was released at 73 already. *)
AppPrev(t) ==
  /\ pc[t] = "app.prev"
  /\ Unlock(t)
  /\ Goto(t, "app.cur", packet[cur[t]])
  /\ UNCHANGED <<list, pkts, queue_index, locals>>

(* 68 and 93; current is not used after the loop. *)
UnlockCur(t) ==
  /\ pc[t] \in {"ins.cur", "app.cur"}
  /\ Unlock(t)
  /\ Goto(t, "add.load", NULL)
  /\ cur' = [cur EXCEPT ![t] = NULL]
  /\ UNCHANGED <<list, pkts, queue_index, arg, tmp>>

(* queue_index++ and queue_index-- load the counter before they store it. *)
LoadIndex(t) ==
  /\ \/ pc[t] = "add.load" /\ Goto(t, "add.store", NULL)
     \/ pc[t] = "get.load" /\ Goto(t, "get.store", NULL)
  /\ tmp' = [tmp EXCEPT ![t] = queue_index]
  /\ UNCHANGED <<list, pkts, owner, queue_index, cur, arg, faults>>

AddStore(t) ==
  /\ pc[t] = "add.store"
  /\ queue_index' = tmp[t] + 1
  /\ tmp' = [tmp EXCEPT ![t] = 0]
  /\ Return(t, "added")
  /\ UNCHANGED <<list, pkts, owner, arg, faults>>

-----------------------------------------------------------------------------
(* get_paket                                                               *)

(* 113-132: the first element leaves the list, its packet is the result. *)
Unlink(t) ==
  LET first == next[queue_head] IN
  \/ /\ first = NULL
     /\ Goto(t, "get.empty", empty_packet)
     /\ UNCHANGED <<list, cur, arg>>
  \/ /\ first # NULL
     /\ cur' = [cur EXCEPT ![t] = first]
     /\ arg' = [arg EXCEPT ![t] = packet[first]]
     /\ next' = [next EXCEPT ![queue_head] = next[first]]
     /\ \/ /\ next[first] # NULL
           /\ prev' = [prev EXCEPT ![next[first]] = queue_head]
           /\ Goto(t, "get.unlockSecond", packet[next[first]])
        \/ /\ next[first] = NULL
           /\ Goto(t, "get.load", NULL)
           /\ UNCHANGED prev
     /\ UNCHANGED <<packet, live>>

(* Mutant: the first two elements are not locked (107, 110). *)
GetLockHeadOnly(t) ==
  /\ pc[t] = "get.lock"
  /\ Lock(t)
  /\ Unlink(t)
  /\ UNCHANGED <<pkts, queue_index, tmp>>

GetLock(t) ==
  /\ pc[t] = "get.lock"
  /\ Lock(t)
  /\ \/ /\ next[queue_head] # NULL
        /\ Goto(t, "get.first", packet[next[queue_head]])
        /\ UNCHANGED <<list, cur, arg>>
     \/ /\ next[queue_head] = NULL
        /\ Unlink(t)
  /\ UNCHANGED <<pkts, queue_index, tmp>>

GetFirst(t) ==
  LET first == next[queue_head] IN
  /\ pc[t] = "get.first"
  /\ Lock(t)
  /\ \/ /\ first # NULL /\ next[first] # NULL
        /\ Goto(t, "get.second", packet[next[first]])
        /\ UNCHANGED <<list, cur, arg>>
     \/ /\ first # NULL => next[first] = NULL
        /\ Unlink(t)
  /\ UNCHANGED <<pkts, queue_index, tmp>>

GetSecond(t) ==
  /\ pc[t] = "get.second"
  /\ Lock(t)
  /\ Unlink(t)
  /\ UNCHANGED <<pkts, queue_index, tmp>>

(* Mutant: the head stays locked (116). *)
GetEmptyLocked(t) ==
  /\ pc[t] = "get.empty"
  /\ Return(t, "empty")
  /\ UNCHANGED <<list, pkts, owner, queue_index, arg, tmp, faults>>

GetEmpty(t) ==
  /\ pc[t] = "get.empty"
  /\ Unlock(t)
  /\ Return(t, "empty")
  /\ UNCHANGED <<list, pkts, queue_index, arg, tmp>>

GetUnlockSecond(t) ==
  /\ pc[t] = "get.unlockSecond"
  /\ Unlock(t)
  /\ Goto(t, "get.load", NULL)
  /\ UNCHANGED <<list, pkts, queue_index, locals>>

(* 133-136: counts down, copies the mutex and frees the element. *)
GetStore(t) ==
  LET first == cur[t] IN
  /\ pc[t] = "get.store"
  /\ queue_index' = tmp[t] - 1
  /\ tmp' = [tmp EXCEPT ![t] = 0]
  /\ packet[first] # NULL
  /\ packet' = [packet EXCEPT ![first] = NULL]
  /\ live' = live \ {first}
  /\ cur' = [cur EXCEPT ![t] = NULL]
  /\ Goto(t, "get.unlockFirst", packet[first])
  /\ UNCHANGED <<next, prev, pkts, owner, arg, faults>>

(* 137 unlocks the copy: with a mutex type that is a handle this releases  *)
(* the mutex itself, with one that is a struct it does not.                *)
GetUnlockFirst(t) ==
  /\ pc[t] = "get.unlockFirst"
  /\ Unlock(t) \/ (want[t] # NULL /\ UNCHANGED <<owner, faults>>)
  /\ Goto(t, "get.unlockHead", empty_packet)
  /\ UNCHANGED <<list, pkts, queue_index, locals>>

GetUnlockHead(t) ==
  /\ pc[t] = "get.unlockHead"
  /\ Unlock(t)
  /\ Return(t, "got")
  /\ UNCHANGED <<list, pkts, queue_index, arg, tmp>>

-----------------------------------------------------------------------------
QueueStep(t) ==
  \/ AddLock(t) \/ AddFull(t) \/ WalkPrev(t) \/ WalkNext(t) \/ DupPrev(t)
  \/ InsPrev(t) \/ AppPrev(t) \/ UnlockCur(t) \/ LoadIndex(t) \/ AddStore(t)
  \/ GetLock(t) \/ GetFirst(t) \/ GetSecond(t) \/ GetEmpty(t)
  \/ GetUnlockSecond(t) \/ GetStore(t) \/ GetUnlockFirst(t) \/ GetUnlockHead(t)
  \/ Crash(t)
=============================================================================
