----------------------------- MODULE PacketSystem -----------------------------
(***************************************************************************)
(* The program of Praktikum 3: main starts producers, consumers and an     *)
(* observer, which share the queue of queue.c, and joins them.             *)
(*                                                                         *)
(* The counters p_counter and c_counter are read and written inside the    *)
(* critical sections of mp and mc, which hold nothing else: one action per *)
(* section.  The observer reads c_counter without a mutex.  Sleeping is    *)
(* not modelled: a thread may be delayed anywhere.                         *)
(***************************************************************************)
EXTENDS PacketQueue

CONSTANTS
  Producers, Consumers, Observers,  (* what each thread runs                *)
  Nums,                             (* rand() % 100                         *)
  Garbage,                          (* what the num of a freed packet reads *)
  MAX_PACKETS

ASSUME SystemAssumption ==
  /\ Threads = Producers \cup Consumers \cup Observers
  /\ Producers \cap Consumers = {}
  /\ Producers \cap Observers = {}
  /\ Consumers \cap Observers = {}
  /\ Nums \subseteq Nat
  /\ Garbage \subseteq Int
  /\ MAX_PACKETS \in Nat

VARIABLES
  p_counter, c_counter,
  forgotten             (* history: the packets leaked at producer.c:40     *)

counters == <<p_counter, c_counter, forgotten>>
vars == <<queueVars, counters>>

Init ==
  /\ QueueInit
  /\ pc = [t \in Threads |-> IF t \in Producers THEN "producer"
                             ELSE IF t \in Consumers THEN "consumer"
                             ELSE "observer"]
  /\ p_counter = 0
  /\ c_counter = 0
  /\ forgotten = {}

-----------------------------------------------------------------------------
(* producer.c                                                              *)

(* A fresh packet with a random number and an unlocked mutex, which        *)
(* add_paket is called with.                                               *)
AddFreshPacket(t) ==
  /\ \E p \in Packets \ heap, n \in Nums :
       /\ heap' = heap \cup {p}
       /\ num' = [num EXCEPT ![p] = n]
       /\ owner' = [owner EXCEPT ![p] = NULL]
       /\ arg' = [arg EXCEPT ![t] = p]
  /\ Goto(t, "add.lock", empty_packet)
  /\ UNCHANGED <<list, queue_index, cur, tmp, faults>>

Produce(t) ==
  /\ pc[t] = "producer" /\ p_counter < MAX_PACKETS
  /\ p_counter' = p_counter + 1
  /\ AddFreshPacket(t)
  /\ UNCHANGED <<c_counter, forgotten>>

(* QUEUE_FULL: the packet is allocated anew and the old one forgotten.     *)
(* The model stops here when it has run out of Packets.                    *)
RetryFull(t) ==
  /\ pc[t] = "full"
  /\ forgotten' = forgotten \cup {arg[t]}
  /\ AddFreshPacket(t)
  /\ UNCHANGED <<p_counter, c_counter>>

(* ALREADY_IN_QUEUE: add_paket is called again with the packet it freed. *)
RetryFreed(t) ==
  /\ pc[t] = "dup"
  /\ faults' = faults \cup {"dup"}
  /\ IF arg[t] \in heap THEN UNCHANGED num
     ELSE \E g \in Garbage : num' = [num EXCEPT ![arg[t]] = g]
  /\ Goto(t, "add.lock", empty_packet)
  /\ UNCHANGED <<list, heap, owner, queue_index, locals, counters>>

(* Prints packet_ptr->num (46), which a consumer may have freed since the  *)
(* mutexes were released: either the number is printed, or the thread      *)
(* crashes here.                                                           *)
Produced(t) ==
  /\ pc[t] = "added"
  /\ \/ Goto(t, "producer", NULL)
     \/ arg[t] \notin Allocated /\ Segfault(t)
  /\ arg' = [arg EXCEPT ![t] = NULL]
  /\ UNCHANGED <<list, pkts, owner, queue_index, cur, tmp, faults, counters>>

ProducerDone(t) ==
  /\ pc[t] = "producer" /\ p_counter >= MAX_PACKETS
  /\ Goto(t, "done", NULL)
  /\ UNCHANGED <<list, pkts, owner, queue_index, locals, faults, counters>>

-----------------------------------------------------------------------------
(* consumer.c                                                              *)

(* Mutant: the loop condition (16) is forgotten. *)
ConsumeForever(t) ==
  /\ pc[t] = "consumer"
  /\ c_counter' = c_counter + 1
  /\ Goto(t, "get.lock", empty_packet)
  /\ UNCHANGED <<list, pkts, owner, queue_index, locals, faults>>
  /\ UNCHANGED <<p_counter, forgotten>>

(* An attempt is counted before it is made. *)
Consume(t) ==
  /\ pc[t] = "consumer" /\ c_counter < MAX_PACKETS
  /\ c_counter' = c_counter + 1
  /\ Goto(t, "get.lock", empty_packet)
  /\ UNCHANGED <<list, pkts, owner, queue_index, locals, faults>>
  /\ UNCHANGED <<p_counter, forgotten>>

(* Mutant: the packet is not freed (39). *)
ConsumedLeaks(t) ==
  /\ pc[t] = "got"
  /\ arg' = [arg EXCEPT ![t] = NULL]
  /\ Goto(t, "consumer", NULL)
  /\ UNCHANGED <<list, pkts, owner, queue_index, cur, tmp, faults, counters>>

Consumed(t) ==
  /\ pc[t] = "got"
  /\ heap' = heap \ {arg[t]}
  /\ arg' = [arg EXCEPT ![t] = NULL]
  /\ Goto(t, "consumer", NULL)
  /\ UNCHANGED <<list, num, owner, queue_index, cur, tmp, faults, counters>>

NothingConsumed(t) ==
  /\ pc[t] = "empty"
  /\ Goto(t, "consumer", NULL)
  /\ UNCHANGED <<list, pkts, owner, queue_index, locals, faults, counters>>

ConsumerDone(t) ==
  /\ pc[t] = "consumer" /\ c_counter >= MAX_PACKETS
  /\ Goto(t, "done", NULL)
  /\ UNCHANGED <<list, pkts, owner, queue_index, locals, faults, counters>>

-----------------------------------------------------------------------------
(* observer.c.  The pcs obs.lock 25, obs.next 45, obs.prev 42, obs.last 36 *)
(* name a pthread call, obs.print 33-35, obs.move 40-42 and obs.peek 44-45 *)
(* plain reads, of an element whose mutex the observer may not hold and    *)
(* which may have been freed.                                              *)

Observe(t) ==
  /\ pc[t] = "observer" /\ c_counter < MAX_PACKETS
  /\ Goto(t, "obs.lock", empty_packet)
  /\ UNCHANGED <<list, pkts, owner, queue_index, locals, faults, counters>>

ObsLock(t) ==
  /\ pc[t] = "obs.lock"
  /\ Lock(t)
  /\ cur' = [cur EXCEPT ![t] = queue_head]
  /\ Goto(t, "obs.print", NULL)
  /\ UNCHANGED <<list, pkts, queue_index, arg, tmp, counters>>

ObsPrint(t) ==
  LET c == cur[t] IN
  /\ pc[t] = "obs.print"
  /\ \/ packet[c] \notin Allocated /\ Segfault(t)
     \/ packet[c] # NULL /\ next[c] = NULL /\ Goto(t, "obs.last", packet[c])
     \/ packet[c] # NULL /\ next[c] # NULL /\ Goto(t, "obs.move", NULL)
  /\ UNCHANGED <<list, pkts, owner, queue_index, locals, faults, counters>>

(* By now another thread may have removed what followed. *)
ObsMove(t) ==
  LET n == next[cur[t]] IN
  /\ pc[t] = "obs.move"
  /\ \/ /\ n # NULL => prev[n] = NULL
        /\ Segfault(t)
        /\ UNCHANGED cur
     \/ /\ n # NULL /\ prev[n] # NULL
        /\ cur' = [cur EXCEPT ![t] = n]
        /\ Goto(t, "obs.prev", packet[prev[n]])
  /\ UNCHANGED <<list, pkts, owner, queue_index, arg, tmp, faults, counters>>

ObsPrev(t) ==
  /\ pc[t] = "obs.prev"
  /\ Unlock(t)
  /\ Goto(t, "obs.peek", NULL)
  /\ UNCHANGED <<list, pkts, queue_index, locals, counters>>

ObsPeek(t) ==
  LET n == next[cur[t]] IN
  /\ pc[t] = "obs.peek"
  /\ IF n # NULL THEN Goto(t, "obs.next", packet[n])
                 ELSE Goto(t, "obs.print", NULL)
  /\ UNCHANGED <<list, pkts, owner, queue_index, locals, faults, counters>>

ObsNext(t) ==
  /\ pc[t] = "obs.next"
  /\ Lock(t)
  /\ Goto(t, "obs.print", NULL)
  /\ UNCHANGED <<list, pkts, queue_index, locals, counters>>

ObsLast(t) ==
  /\ pc[t] = "obs.last"
  /\ Unlock(t)
  /\ Return(t, "observer")
  /\ UNCHANGED <<list, pkts, queue_index, arg, tmp, counters>>

(* Prints "Ende". *)
ObserverDone(t) ==
  /\ pc[t] = "observer" /\ c_counter >= MAX_PACKETS
  /\ Goto(t, "done", NULL)
  /\ UNCHANGED <<list, pkts, owner, queue_index, locals, faults, counters>>

-----------------------------------------------------------------------------
ProducerStep(t) == Produce(t) \/ RetryFull(t) \/ RetryFreed(t) \/ Produced(t)
                   \/ ProducerDone(t)

ConsumerStep(t) == Consume(t) \/ Consumed(t) \/ NothingConsumed(t)
                   \/ ConsumerDone(t)

ObserverStep(t) == Observe(t) \/ ObsLock(t) \/ ObsPrint(t) \/ ObsMove(t)
                   \/ ObsPrev(t) \/ ObsPeek(t) \/ ObsNext(t) \/ ObsLast(t) \/ ObserverDone(t)

Step(t) ==
  /\ ~Killed
  /\ \/ QueueStep(t) /\ UNCHANGED counters
     \/ t \in Producers /\ ProducerStep(t)
     \/ t \in Consumers /\ ConsumerStep(t)
     \/ t \in Observers /\ ObserverStep(t)

(* main has joined every thread. *)
AllDone == \A t \in Threads : pc[t] = "done"

Next == \E t \in Threads : Step(t)

(* The scheduler runs every thread that can run.  Nothing is assumed about *)
(* who gets a mutex that several threads wait for.                         *)
Fairness == \A t \in Threads : WF_vars(Step(t))

Spec == Init /\ [][Next]_vars

FairSpec == Spec /\ Fairness

(* What is said to fail must fail although every mutex is handed out fairly. *)
StrongFairness == \A t \in Threads : SF_vars(Step(t))

StrongSpec == Spec /\ StrongFairness

-----------------------------------------------------------------------------
(* Properties                                                              *)

Adding == {"add.lock", "add.full", "walk.prev", "walk.next", "ins.prev",
           "ins.cur", "app.prev", "app.cur", "add.load", "add.store",
           "dup.prev", "added", "full", "dup"}
Getting == {"get.lock", "get.first", "get.second", "get.empty",
            "get.unlockSecond", "get.load", "get.store", "get.unlockFirst",
            "get.unlockHead", "got", "empty"}
Observing == {"obs.lock", "obs.print", "obs.move", "obs.prev", "obs.peek",
              "obs.next", "obs.last"}

(* Each thread executes its own function only. *)
Labels(t) ==
  {"done", "segv"} \cup
  IF t \in Producers THEN {"producer"} \cup Adding
  ELSE IF t \in Consumers THEN {"consumer"} \cup Getting
  ELSE {"observer"} \cup Observing

AllLabels == UNION {Labels(t) : t \in Threads}

ListTypeOK ==
  /\ packet \in [Nodes -> Cells \cup {NULL}]
  /\ next \in [Nodes -> Elements \cup {NULL}]
  /\ prev \in [Nodes -> Nodes \cup {NULL}]
  /\ live \subseteq Elements

PacketTypeOK ==
  /\ num \in [Cells -> Int]
  /\ owner \in [Cells -> Threads \cup {NULL}]
  /\ heap \subseteq Packets

ThreadTypeOK ==
  /\ pc \in [Threads -> AllLabels]
  /\ \A t \in Threads : pc[t] \in Labels(t)
  /\ cur \in [Threads -> Nodes \cup {NULL}]
  /\ arg \in [Threads -> Cells \cup {NULL}]
  /\ want \in [Threads -> Cells \cup {NULL}]

CounterTypeOK ==
  /\ queue_index \in Int
  /\ tmp \in [Threads -> Int]
  /\ p_counter \in 0 .. MAX_PACKETS
  /\ c_counter \in 0 .. MAX_PACKETS
  /\ faults \subseteq PthreadCalls \cup {"dup"}
  /\ forgotten \subseteq Cells \cup {NULL}

(* Pointers point to memory malloc can return, and no counter runs past    *)
(* the number of packets, whatever has been stolen or freed before.        *)
TypeOK == ListTypeOK /\ PacketTypeOK /\ ThreadTypeOK /\ CounterTypeOK

(* No mutex has been taken from its holder, none in freed memory used, and *)
(* no freed packet added again.  It does not end with a read of freed      *)
(* memory by the observer or by the printf of producer.c:46.               *)
Sound == faults = {}

(* The elements of the list: those allocated, but for the one that a       *)
(* consumer has unlinked and not yet freed.                                *)
Unlinked == {cur[t] : t \in {u \in Threads :
                       pc[u] \in {"get.unlockSecond", "get.load", "get.store"}}}
Linked == {queue_head} \cup (live \ Unlinked)

Number(e) == num[packet[e]]
Queued == {Number(e) : e \in Linked \ {queue_head}}

(* "Adds a packet to the queue in the correct order" (queue.h:38): along   *)
(* next every element leads to the one with the next larger number, and    *)
(* prev leads back.  No element is lost from the chain.                    *)
InOrder ==
  \A e \in Linked :
    /\ next[e] # NULL => /\ next[e] \in Linked /\ prev[next[e]] = e
                         /\ Number(e) < Number(next[e])
    /\ \A f \in Linked :
         Number(e) < Number(f) => next[e] # NULL /\ Number(next[e]) <= Number(f)

(* However producers, consumers and observers interleave, and whatever     *)
(* freed memory the observer and the producers' printf have read, the list *)
(* is in order as long as no mutex has been stolen (queue.c:91), no freed  *)
(* packet has been added again (producer.c:36) and the observer has used   *)
(* no mutex that is not its own (observer.c:36, 42, 45).                   *)
SortedWhileSound == Sound => InOrder

(* Hand-over-hand locking keeps add_paket and get_paket off freed memory:  *)
(* the element a producer stands on is in the list, the mutexes it waits   *)
(* for or releases lie in allocated packets, and so does the packet in     *)
(* its hands, until add_paket has linked it.  (After that, producer.c:46   *)
(* prints the number of a packet that a consumer may have freed.)          *)
InHand(t) ==
  pc[t] \in (Adding \ {"ins.prev", "ins.cur", "app.prev", "app.cur",
                       "add.load", "add.store", "added", "dup"})
            \cup {"get.unlockSecond", "get.load", "get.store",
                  "get.unlockFirst", "get.unlockHead", "got"}

NoDanglingWhileSound ==
  Sound => \A t \in Producers \cup Consumers :
    /\ pc[t] \in {"walk.prev", "walk.next", "dup.prev", "ins.prev", "ins.cur",
                  "app.prev", "app.cur"} => cur[t] \in Linked
    /\ pc[t] \in PthreadCalls => want[t] \in Allocated
    /\ InHand(t) => arg[t] \in heap

(* Every allocated packet is in exactly one place: in the list, or in the  *)
(* hands of one producer or one consumer; only what a producer forgets     *)
(* when the queue is full (producer.c:40) is nowhere, and stays nowhere.   *)
(* So no packet is consumed twice or freed twice, and no other is lost.    *)
Places(p) ==
  Cardinality({e \in Linked : packet[e] = p})
    + Cardinality({t \in Threads : InHand(t) /\ arg[t] = p})

OnePlaceWhileSound ==
  Sound => \A p \in heap : Places(p) = IF p \in forgotten THEN 0 ELSE 1

(* The memory that t uses in its next step, or has in its hands. *)
Uses(t) ==
  {cur[t]}
  \cup (IF pc[t] \in PthreadCalls THEN {want[t]} ELSE {})
  \cup (IF InHand(t) \/ pc[t] = "added" THEN {arg[t]} ELSE {})
  \cup (IF pc[t] = "obs.print" THEN {packet[cur[t]]} ELSE {})
  \cup (IF pc[t] \in {"obs.move", "obs.peek"} THEN {next[cur[t]]} ELSE {})
  \cup (IF pc[t] = "obs.move" /\ next[cur[t]] # NULL
        THEN {prev[next[cur[t]]]} ELSE {})

Dangling(t) == ~(Uses(t) \subseteq live \cup Allocated \cup {queue_head, NULL})

(* Where an execution leaves defined behaviour while Sound still holds:    *)
(* the second release of prev (queue.c:91), the retry with a freed packet  *)
(* (producer.c:36), the printf of a freed packet (producer.c:46), and the  *)
(* observer's use of elements it has not locked.  Nowhere else is a mutex  *)
(* released that another thread holds, freed memory used, or the program   *)
(* killed.  (The copies of a mutex that queue.c:46 and 137 unlock, every   *)
(* time, are undefined, too; here they have one of the two effects that an *)
(* implementation gives them, and are not counted.)                        *)
FirstFaultSites ==
  {"app.prev", "dup", "added"} \cup IF Observers = {} THEN {} ELSE Observing
FirstFault ==
  [][Sound => /\ faults' \subseteq FirstFaultSites
              /\ \A t \in Threads : Dangling(t) \/ pc'[t] = "segv"
                                   => pc[t] \in FirstFaultSites \cup {"segv"}]_vars

(* The queue does what PriorityQueue promises. *)
Abstract == INSTANCE PriorityQueue
  WITH Numbers <- Nums \cup Garbage,
       queued <- IF Sound THEN Queued ELSE {},
       sound <- Sound
ImplementsPriorityQueue == Abstract!Spec

Blocked(t) ==
  /\ pc[t] \in {"add.lock", "walk.next", "get.lock", "get.first",
                "get.second", "obs.lock", "obs.next"}
  /\ want[t] # NULL
  /\ owner[want[t]] # NULL

(* Mutexes are always taken in list order, so producers and consumers      *)
(* never wait for each other in a circle, with or without an observer.     *)
NoCircleWhileSound ==
  Sound => \A T \in (SUBSET (Producers \cup Consumers)) \ {{}} :
             \E t \in T : ~(Blocked(t) /\ owner[want[t]] \in T)

(* So somebody can go on until all are done.  Checked without the observer,*)
(* who may wait for ever for the mutex of a packet that has been freed.    *)
NoDeadlockWhileSound ==
  Sound /\ ~AllDone => \E t \in Threads : pc[t] # "done" /\ ~Blocked(t)

(* With one producer the counter never passes the capacity, although it is *)
(* checked under the head's mutex and incremented under none.              *)
IndexWithinCapacity ==
  (\A t, u \in Producers : t = u) => queue_index <= QMAX

(* Every thread comes to its end and main returns, unless Sound ends       *)
(* before or the printf of a freed packet kills the program.  (Without the *)
(* observer, who may crash or wait for ever on what has been freed.)       *)
Termination == <>(AllDone \/ Killed \/ ~Sound)

(* What comments of the code say, and the code does not do. *)

(* observer.h:19: prints "Ende" if all packets have been consumed. *)
EndeMeansAllConsumed ==
  \A t \in Observers : pc[t] = "done" => p_counter = MAX_PACKETS /\ heap = {}

(* observer.h:19, the other way round: once all packets have been consumed *)
(* the observer gets as far as printing "Ende". *)
AllConsumed ==
  /\ \A t \in Producers \cup Consumers : pc[t] = "done"
  /\ p_counter = MAX_PACKETS /\ heap = {}
AllConsumedLeadsToEnde ==
  [](AllConsumed => <>(\A t \in Observers : pc[t] = "done"))

(* producer.h:25: terminates after all packets (unless it is killed). *)
ProducersTerminate == <>(Killed \/ \A t \in Producers : pc[t] = "done")

(* queue.h:38: adds a packet to the queue in the correct order. *)
AlwaysInOrder == (\A e \in Linked : packet[e] # NULL) => InOrder
=============================================================================
