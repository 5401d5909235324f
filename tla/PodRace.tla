------------------------------- MODULE PodRace --------------------------------
(***************************************************************************)
(* The pod race of Praktikum 2, Aufgabe 2 (main.c): main starts a thread   *)
(* for every pod, waits for all of them, sorts the pods by their times and *)
(* prints the result, unless a pod has crashed.                            *)
(*                                                                         *)
(* A pod's pc: "new", "lap" (line 27), "crash" (31), "sleep" (38), "done", *)
(* or "failed" if pthread_create failed.  Main's: "create", "join",        *)
(* "test" (108), "sort", "print" (113), "end", or "segv".                  *)
(***************************************************************************)
EXTENDS Integers

CONSTANTS
  RUNDEN,        (* laps                                                    *)
  ANZAHL_RACER,  (* pods                                                    *)
  CRASH_FACTOR,  (* a lap time up to this one is a crash                    *)
  Zeiten         (* what rand() % 1000 may return                           *)

ASSUME RaceAssumption ==
  /\ RUNDEN \in Nat \ {0}
  /\ ANZAHL_RACER \in Nat \ {0}
  /\ CRASH_FACTOR \in Nat
  /\ Zeiten \subseteq 0 .. 999

Pods == 0 .. ANZAHL_RACER - 1

Pod_Racer == [name : Pods, rennzeit : Nat]

VARIABLES
  crashed,              (* volatile, but under no mutex                     *)
  racer,                (* the array; its structs move when it is sorted    *)
  pc, runde,            (* the pods: where they are, and the i of line 26   *)
  main, k,              (* main, and the i of its two loops                 *)
  i, j, swapped,        (* the locals of sort                               *)
  printed,              (* the result has been printed                      *)
  reported,             (* history: the pods that have printed "CRASHED"    *)
  flown,                (* history: the time each pod has flown             *)
  late                  (* history: the laps it has begun after a crash     *)

pods    == <<pc, runde>>
sorting == <<i, j, swapped>>
history == <<reported, flown, late>>
vars    == <<crashed, racer, pods, main, k, sorting, printed, history>>

Init ==
  /\ crashed = FALSE
  /\ racer = [p \in Pods |-> [name |-> p, rennzeit |-> 0]]
  /\ pc = [p \in Pods |-> "new"] /\ runde = [p \in Pods |-> 0]
  /\ main = "create" /\ k = 0
  /\ i = 0 /\ j = 0 /\ swapped = FALSE
  /\ printed = FALSE
  /\ reported = {}
  /\ flown = [p \in Pods |-> 0] /\ late = [p \in Pods |-> 0]

-----------------------------------------------------------------------------
(* The pods: fliegen.  rand() and srand() share a generator among all      *)
(* threads; nothing is assumed about the numbers it yields.                *)

Goto(p, label) == pc' = [pc EXCEPT ![p] = label]

(* Lines 26-30: the lap time is drawn and crashed is tested ... *)
DecideCrash(p) ==
  /\ pc[p] = "lap"
  /\ ~crashed /\ \E zeit \in Zeiten : zeit <= CRASH_FACTOR
  /\ Goto(p, "crash")
  /\ UNCHANGED <<crashed, racer, runde, history>>

(* ... and 31-33: set, in a step of its own. *)
Crash(p) ==
  /\ pc[p] = "crash"
  /\ crashed' = TRUE
  /\ reported' = reported \cup {p}
  /\ Goto(p, "done")
  /\ UNCHANGED <<racer, runde, flown, late>>

(* Lines 26-38: a time that is no crash, or comes too late to be one.      *)
AddTime(p) ==
  /\ pc[p] = "lap"
  /\ \E zeit \in Zeiten :
       /\ zeit > CRASH_FACTOR \/ crashed
       /\ racer' = [racer EXCEPT ![p].rennzeit = @ + zeit]
       /\ flown' = [flown EXCEPT ![p] = @ + zeit]
  /\ late' = IF crashed THEN [late EXCEPT ![p] = @ + 1] ELSE late
  /\ Goto(p, "sleep")
  /\ UNCHANGED <<crashed, runde, reported>>

(* Mutants of Wake: one lap too many; no look at crashed. *)
WakeOneMore(p) ==
  /\ pc[p] = "sleep"
  /\ IF crashed
     THEN Goto(p, "done") /\ UNCHANGED runde
     ELSE /\ runde' = [runde EXCEPT ![p] = @ + 1]
          /\ Goto(p, IF runde[p] = RUNDEN THEN "done" ELSE "lap")
  /\ UNCHANGED <<crashed, racer, history>>

WakeUntested(p) ==
  /\ pc[p] = "sleep"
  /\ runde' = [runde EXCEPT ![p] = @ + 1]
  /\ Goto(p, IF runde[p] + 1 = RUNDEN THEN "done" ELSE "lap")
  /\ UNCHANGED <<crashed, racer, history>>

(* Lines 38-49: after its sleep a pod leaves if somebody has crashed. *)
Wake(p) ==
  /\ pc[p] = "sleep"
  /\ IF crashed
     THEN Goto(p, "done") /\ UNCHANGED runde
     ELSE /\ runde' = [runde EXCEPT ![p] = @ + 1]
          /\ Goto(p, IF runde[p] + 1 = RUNDEN THEN "done" ELSE "lap")
  /\ UNCHANGED <<crashed, racer, history>>

Fliegen(p) ==
  /\ main # "segv"
  /\ DecideCrash(p) \/ Crash(p) \/ AddTime(p) \/ Wake(p)
  /\ UNCHANGED <<main, k, sorting, printed>>

-----------------------------------------------------------------------------
(* Main *)

(* One turn of a loop over the pods, after which main goes on at label. *)
NextPod(label) ==
  IF k + 1 = ANZAHL_RACER
  THEN main' = label /\ k' = 0
  ELSE k' = k + 1 /\ UNCHANGED main

(* Line 54; "Fehlerbehandlung..." is all there is when it fails. *)
CreatePod ==
  /\ main = "create"
  /\ Goto(k, "lap") \/ Goto(k, "failed")
  /\ NextPod("join")
  /\ UNCHANGED <<crashed, racer, runde, sorting, printed, history>>

(* Mutant of JoinPod: only one pod is waited for. *)
JoinFirst ==
  /\ main = "join"
  /\ pc[k] = "done"
  /\ main' = "test"
  /\ UNCHANGED <<crashed, racer, pods, k, sorting, printed, history>>

(* Line 61. *)
JoinPod ==
  /\ main = "join"
  /\ pc[k] = "done"
  /\ NextPod("test")
  /\ UNCHANGED <<crashed, racer, pods, sorting, printed, history>>

(* Line 61 for a thread that does not exist: it returns an error nobody    *)
(* looks at, or takes the program down.                                    *)
JoinNobody ==
  /\ main = "join"
  /\ pc[k] = "failed"
  /\ NextPod("test") \/ (main' = "segv" /\ UNCHANGED k)
  /\ UNCHANGED <<crashed, racer, pods, sorting, printed, history>>

(* Lines 108-112. *)
TestCrashed ==
  /\ main = "test"
  /\ main' = IF crashed THEN "end" ELSE "sort"
  /\ i' = 0 /\ j' = 0 /\ swapped' = FALSE
  /\ UNCHANGED <<crashed, racer, pods, k, printed, history>>

(* Mutant of Swap: the pods stay where they are. *)
SwapTimes(x) ==
  racer' = [racer EXCEPT ![x].rennzeit = racer[x + 1].rennzeit,
                         ![x + 1].rennzeit = racer[x].rennzeit]

Swap(x) == racer' = [racer EXCEPT ![x] = racer[x + 1], ![x + 1] = racer[x]]

(* Mutant of Compare: >= for >. *)
CompareNotStrict ==
  /\ main = "sort" /\ j < ANZAHL_RACER - i - 1
  /\ IF racer[j].rennzeit >= racer[j + 1].rennzeit
     THEN Swap(j) /\ swapped' = TRUE
     ELSE UNCHANGED <<racer, swapped>>
  /\ j' = j + 1
  /\ UNCHANGED <<crashed, pods, main, k, i, printed, history>>

(* Lines 77-82. *)
Compare ==
  /\ main = "sort" /\ j < ANZAHL_RACER - i - 1
  /\ IF racer[j].rennzeit > racer[j + 1].rennzeit
     THEN Swap(j) /\ swapped' = TRUE
     ELSE UNCHANGED <<racer, swapped>>
  /\ j' = j + 1
  /\ UNCHANGED <<crashed, pods, main, k, i, printed, history>>

(* Mutant of EndPass: neither i nor swapped changes between two passes. *)
EndPassAgain ==
  /\ main = "sort" /\ j = ANZAHL_RACER - i - 1
  /\ main' = IF swapped THEN "sort" ELSE "print"
  /\ j' = 0
  /\ UNCHANGED <<crashed, racer, pods, k, i, swapped, printed, history>>

(* Lines 75-76 and 83-86: another pass, or nothing is left to swap. *)
EndPass ==
  /\ main = "sort" /\ j = ANZAHL_RACER - i - 1
  /\ IF swapped /\ i + 1 < ANZAHL_RACER - 1
     THEN i' = i + 1 /\ UNCHANGED main
     ELSE main' = "print" /\ UNCHANGED i
  /\ j' = 0 /\ swapped' = FALSE
  /\ UNCHANGED <<crashed, racer, pods, k, printed, history>>

(* Lines 113-115. *)
PrintErgebnis ==
  /\ main = "print"
  /\ printed' = TRUE
  /\ main' = "end"
  /\ UNCHANGED <<crashed, racer, pods, k, sorting, history>>

Main ==
  \/ CreatePod \/ JoinPod \/ JoinNobody
  \/ TestCrashed \/ Compare \/ EndPass \/ PrintErgebnis

Next == Main \/ \E p \in Pods : Fliegen(p)

Spec == Init /\ [][Next]_vars

(* A thread that can go on is scheduled some time, and sleeps end. *)
FairSpec ==
  /\ Spec
  /\ WF_vars(Main)
  /\ \A p \in Pods : WF_vars(Fliegen(p))

-----------------------------------------------------------------------------
(* Properties *)

TypeOK ==
  /\ crashed \in BOOLEAN /\ printed \in BOOLEAN /\ swapped \in BOOLEAN
  /\ racer \in [Pods -> Pod_Racer]
  /\ pc \in [Pods -> {"new", "lap", "crash", "sleep", "done", "failed"}]
  /\ runde \in [Pods -> 0 .. RUNDEN]
  /\ main \in {"create", "join", "test", "sort", "print", "end", "segv"}
  /\ k \in Pods /\ i \in Nat /\ j \in Nat
  /\ reported \subseteq Pods
  /\ flown \in [Pods -> Nat] /\ late \in [Pods -> Nat]

(* Several pods may crash, since crashed is tested and set in two steps    *)
(* (main.c:30-31), and flag and pods are read at the very end (108):       *)
(* there is a result exactly if nobody has reported a crash, and it is     *)
(* printed when all pods have come to rest.                                *)
ResultUnlessCrashed ==
  /\ printed => reported = {} /\ \A p \in Pods : pc[p] \in {"done", "failed"}
  /\ main = "end" /\ ~printed => reported # {}

(* The result names every pod once, with the time it has flown, and every  *)
(* pod that could be started has flown all its laps (main.c:65-69, 89).    *)
ResultComplete ==
  printed =>
    /\ \A p \in Pods : \E x \in Pods :
         racer[x] = [name |-> p, rennzeit |-> flown[p]]
    /\ \A p \in Pods : pc[p] = "failed" \/ runde[p] = RUNDEN

(* The result is ranked by time, and pods with equal times keep the order  *)
(* in which they started (main.c:72-87: the comparison is strict).         *)
Before(r, s) ==
  \/ r.rennzeit < s.rennzeit
  \/ r.rennzeit = s.rennzeit /\ r.name < s.name

ResultRanked ==
  printed => \A x, y \in Pods : x < y => Before(racer[x], racer[y])

(* A pod looks at crashed between two laps (main.c:41): it begins no more  *)
(* than one lap after a crash.                                             *)
OneLateLap == \A p \in Pods : late[p] <= 1

(* Everybody gets home: main returns, with or without a result, or is      *)
(* taken down by the join of a thread that was never created.              *)
RaceEnds == <>(main \in {"end", "segv"})
=============================================================================
