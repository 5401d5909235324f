---------------------------- MODULE PriorityQueue ----------------------------
(***************************************************************************)
(* What queue.h promises of the packet queue, with no memory, lock or      *)
(* thread in sight: add_paket puts one new packet number into the queue,   *)
(* get_paket "returns and removes packet with smallest number".            *)
(*                                                                         *)
(* The promise is conditional.  C gives a program no meaning once it has   *)
(* released a mutex another thread holds or used memory it has freed, so   *)
(* the queue may be broken, once and for all, at any step (GiveUp).        *)
(***************************************************************************)
EXTENDS Integers

CONSTANT Numbers  \* the numbers a packet can carry

VARIABLES queued,   \* the numbers of the packets in the queue
          sound     \* the execution has not left what C defines

vars == <<queued, sound>>

Init == queued = {} /\ sound = TRUE

(* add_paket: a number that is not queued yet goes in. *)
Add == /\ sound = TRUE /\ sound' = TRUE
       /\ \E n \in Numbers \ queued : queued' = queued \cup {n}

(* get_paket: the smallest number, and nothing else, goes out. *)
Get == /\ sound = TRUE /\ sound' = TRUE
       /\ \E n \in queued : /\ \A m \in queued : n <= m
                            /\ queued' = queued \ {n}

GiveUp == sound = TRUE /\ sound' = FALSE /\ queued' = {}

Next == Add \/ Get \/ GiveUp

Spec == Init /\ [][Next]_vars
=============================================================================
