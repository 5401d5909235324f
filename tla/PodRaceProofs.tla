---------------------------- MODULE PodRaceProofs -----------------------------
(***************************************************************************)
(* Proofs about PodRace for any number of pods and laps and any lap times. *)
(*                                                                         *)
(* Control says where pods and main can be relative to each other, Account *)
(* that the structs carry the true times, Sorting is the invariant of the  *)
(* two loops of sort.  Together with TypeOK they are inductive.            *)
(***************************************************************************)
EXTENDS PodRace, TLAPS

Resting == {"done", "failed"}

(* main moves to "test" only past pods that rest, so that nobody writes to *)
(* the structs it sorts.                                                   *)
Control ==
  /\ crashed <=> reported # {}
  /\ main = "create" => \A p \in Pods : p >= k <=> pc[p] = "new"
  /\ main = "join" => \A p \in Pods : p < k => pc[p] \in Resting
  /\ main \in {"test", "sort", "print", "end"} => \A p \in Pods : pc[p] \in Resting
  /\ main # "create" => \A p \in Pods : pc[p] # "new"
  /\ main \in {"sort", "print"} => ~crashed
  /\ printed => main = "end" /\ ~crashed
  /\ main = "end" /\ ~printed => crashed

Laps ==
  \A p \in Pods :
    /\ pc[p] \in {"new", "lap", "crash", "sleep"} => runde[p] < RUNDEN
    /\ pc[p] = "done" => crashed \/ runde[p] = RUNDEN
    /\ pc[p] \notin {"sleep", "done"} => late[p] = 0
    /\ ~crashed => late[p] = 0
    /\ late[p] <= 1

Struct(p) == [name |-> p, rennzeit |-> flown[p]]

Account ==
  /\ main \in {"create", "join", "test", "segv"} =>
       \A p \in Pods : racer[p] = Struct(p)
  /\ \A p \in Pods : \E x \in Pods : racer[x] = Struct(p)

(* Equal times are in the order of the names: the sort is stable. *)
Stable ==
  \A x, y \in Pods :
    x < y /\ racer[x].rennzeit = racer[y].rennzeit => racer[x].name < racer[y].name

(* The last i places are final, place j holds the last of the first j + 1, *)
(* and these are ranked unless something has been swapped.                 *)
LoopInv ==
  /\ i <= ANZAHL_RACER - 1 /\ j <= ANZAHL_RACER - i - 1
  /\ \A x, y \in Pods :
       x < y /\ y > ANZAHL_RACER - 1 - i => Before(racer[x], racer[y])
  /\ \A x, y \in Pods : x < y /\ y = j => Before(racer[x], racer[y])
  /\ ~swapped =>
       \A x, y \in Pods : x < y /\ y <= j => Before(racer[x], racer[y])

Ranked == \A x, y \in Pods : x < y => Before(racer[x], racer[y])

Sorting ==
  /\ main = "sort" => Stable /\ LoopInv
  /\ main = "print" \/ printed => Ranked

Inv == TypeOK /\ Control /\ Laps /\ Account /\ Sorting

-----------------------------------------------------------------------------
(* Types *)

(* One turn of a loop over the pods stays on the pods. *)
LEMMA NextPodType ==
  ASSUME TypeOK, NEW label, NextPod(label)
  PROVE  k' \in Pods /\ main' \in {main, label}
BY RaceAssumption DEF TypeOK, NextPod, Pods

LEMMA PodType ==
  ASSUME TypeOK, Laps, NEW p \in Pods, Fliegen(p)
  PROVE  TypeOK'
<1> USE RaceAssumption DEF TypeOK, Goto, history, pods, sorting
<1>1. CASE DecideCrash(p)
  BY <1>1 DEF DecideCrash, Fliegen
<1>2. CASE Crash(p)
  BY <1>2 DEF Crash, Fliegen
<1>3. CASE AddTime(p)
  <2>1. PICK zeit \in Zeiten :
          /\ racer' = [racer EXCEPT ![p].rennzeit = @ + zeit]
          /\ flown' = [flown EXCEPT ![p] = @ + zeit]
    BY <1>3 DEF AddTime
  <2>2. zeit \in Nat
    OBVIOUS
  <2>3. racer' \in [Pods -> Pod_Racer]
    BY <2>1, <2>2 DEF Pod_Racer
  <2>4. flown' \in [Pods -> Nat]
    BY <2>1, <2>2
  <2>5. late' \in [Pods -> Nat]
    BY <1>3 DEF AddTime
  <2> QED
    BY <1>3, <2>3, <2>4, <2>5 DEF AddTime, Fliegen
<1>4. CASE Wake(p)
  <2>1. pc[p] = "sleep" /\ runde[p] + 1 \in 0 .. RUNDEN
    BY <1>4 DEF Wake, Laps
  <2> QED
    BY <1>4, <2>1 DEF Wake, Fliegen
<1> QED
  BY <1>1, <1>2, <1>3, <1>4 DEF Fliegen

(* Exchanging two structs keeps the array an array of structs. *)
LEMMA SwapType ==
  ASSUME TypeOK, NEW x \in Pods, x + 1 \in Pods, Swap(x)
  PROVE  racer' \in [Pods -> Pod_Racer]
BY DEF TypeOK, Swap

LEMMA MainType ==
  ASSUME TypeOK, Main
  PROVE  TypeOK'
<1> USE RaceAssumption DEF TypeOK, history, pods, sorting
<1>1. CASE CreatePod
  <2>1. k' \in Pods /\ main' \in {main, "join"}
    BY <1>1, NextPodType DEF CreatePod
  <2> QED
    BY <1>1, <2>1 DEF CreatePod, Goto
<1>2. CASE JoinPod
  <2>1. k' \in Pods /\ main' \in {main, "test"}
    BY <1>2, NextPodType DEF JoinPod
  <2> QED
    BY <1>2, <2>1 DEF JoinPod
<1>3. CASE JoinNobody
  <2>1. k' \in Pods /\ main' \in {main, "test", "segv"}
    BY <1>3, NextPodType DEF JoinNobody
  <2> QED
    BY <1>3, <2>1 DEF JoinNobody
<1>4. CASE TestCrashed
  BY <1>4 DEF TestCrashed
<1>5. CASE Compare
  <2>1. j \in Pods /\ j + 1 \in Pods
    BY <1>5 DEF Compare, Pods
  <2>2. racer' \in [Pods -> Pod_Racer] /\ swapped' \in BOOLEAN
    BY <1>5, <2>1, SwapType DEF Compare
  <2> QED
    BY <1>5, <2>2 DEF Compare
<1>6. CASE EndPass
  <2>1. j' = 0 /\ swapped' = FALSE /\ UNCHANGED <<crashed, racer, pods, k, printed, history>>
    BY <1>6 DEF EndPass
  <2>2. (i' = i + 1 /\ main' = main) \/ (main' = "print" /\ i' = i)
    BY <1>6 DEF EndPass
  <2>3. i' \in Nat /\ j' \in Nat /\ main' \in {main, "print"} /\ swapped' \in BOOLEAN
    <3>1. i \in Nat /\ i + 1 \in Nat
      OBVIOUS
    <3> QED
      BY <2>1, <2>2, <3>1
  <2> QED
    BY <2>1, <2>3
<1>7. CASE PrintErgebnis
  BY <1>7 DEF PrintErgebnis
<1> QED
  BY <1>1, <1>2, <1>3, <1>4, <1>5, <1>6, <1>7 DEF Main

-----------------------------------------------------------------------------
(* Control and laps *)

(* A pod that flies is not at rest, so main is still creating or joining. *)
LEMMA FlyingEarly ==
  ASSUME TypeOK, Control, NEW p \in Pods, Fliegen(p)
  PROVE  /\ main \in {"create", "join"} /\ ~printed
         /\ pc[p] \notin Resting \cup {"new"}
         /\ UNCHANGED <<main, k, printed>>
         /\ \A q \in Pods : q # p => pc'[q] = pc[q]
         /\ pc'[p] # "new"
BY DEF TypeOK, Control, Resting, Fliegen, DecideCrash, Crash, AddTime, Wake, Goto, sorting

LEMMA PodControl ==
  ASSUME TypeOK, Control, NEW p \in Pods, Fliegen(p)
  PROVE  Control'
<1>1. crashed' <=> reported' # {}
  <2>1. CASE Crash(p)
    BY <2>1 DEF Crash
  <2>2. CASE ~Crash(p)
    BY <2>2 DEF Fliegen, DecideCrash, AddTime, Wake, Control, history
  <2> QED
    BY <2>1, <2>2
<1>2. ASSUME main = "create", NEW q \in Pods
      PROVE  q >= k <=> pc'[q] = "new"
  BY <1>2, FlyingEarly DEF Control
<1>3. ASSUME main = "join", NEW q \in Pods, q < k
      PROVE  pc'[q] \in Resting
  BY <1>3, FlyingEarly DEF Control
<1>4. ASSUME main # "create", NEW q \in Pods
      PROVE  pc'[q] # "new"
  BY <1>4, FlyingEarly DEF Control
<1> QED
  BY <1>1, <1>2, <1>3, <1>4, FlyingEarly DEF Control

LEMMA MainControl ==
  ASSUME TypeOK, Control, Main
  PROVE  Control'
<1> USE DEF TypeOK, Control, history, pods, sorting
<1>0. ANZAHL_RACER \in Nat \ {0} /\ \A p \in Pods : p \in 0 .. ANZAHL_RACER - 1
  BY RaceAssumption DEF Pods
<1>1. CASE CreatePod
  <2>1. k \in Pods /\ pc' \in [Pods -> {"new", "lap", "crash", "sleep", "done", "failed"}]
    BY <1>1 DEF CreatePod, Goto
  <2>2. \A p \in Pods : IF p = k THEN pc'[p] # "new" ELSE pc'[p] = pc[p]
    BY <1>1 DEF CreatePod, Goto
  <2>3. CASE k + 1 = ANZAHL_RACER
    <3>1. main' = "join" /\ k' = 0
      BY <1>1, <2>3 DEF CreatePod, NextPod
    <3>2. \A p \in Pods : pc'[p] # "new"
      BY <1>0, <1>1, <2>1, <2>2, <2>3 DEF CreatePod
    <3> QED
      BY <1>0, <1>1, <3>1, <3>2 DEF CreatePod
  <2>4. CASE k + 1 # ANZAHL_RACER
    <3>1. main' = "create" /\ k' = k + 1
      BY <1>1, <2>4 DEF CreatePod, NextPod
    <3>2. \A p \in Pods : p >= k' <=> pc'[p] = "new"
      BY <1>0, <1>1, <2>1, <2>2, <3>1 DEF CreatePod
    <3> QED
      BY <1>1, <3>1, <3>2 DEF CreatePod
  <2> QED
    BY <2>3, <2>4
<1>2. ASSUME main = "join", pc[k] \in Resting, NextPod("test"),
             UNCHANGED <<crashed, racer, pods, sorting, printed, history>>
      PROVE  Control'
  <2>1. CASE k + 1 = ANZAHL_RACER
    <3>1. \A p \in Pods : pc[p] \in Resting
      BY <1>0, <1>2, <2>1
    <3> QED
      BY <1>2, <2>1, <3>1 DEF NextPod
  <2>2. CASE k + 1 # ANZAHL_RACER
    <3>1. \A p \in Pods : p < k + 1 => pc[p] \in Resting
      BY <1>0, <1>2
    <3> QED
      BY <1>2, <2>2, <3>1 DEF NextPod
  <2> QED
    BY <2>1, <2>2
<1>3. CASE JoinPod \/ JoinNobody
  <2>1. CASE NextPod("test")
    BY <1>2, <1>3, <2>1 DEF JoinPod, JoinNobody, Resting
  <2>2. CASE ~NextPod("test")
    BY <1>3, <2>2 DEF JoinPod, JoinNobody
  <2> QED
    BY <2>1, <2>2
<1>4. CASE TestCrashed
  BY <1>4 DEF TestCrashed
<1>5. CASE Compare
  BY <1>5 DEF Compare
<1>6. CASE EndPass
  BY <1>6 DEF EndPass
<1>7. CASE PrintErgebnis
  BY <1>7 DEF PrintErgebnis
<1> QED
  BY <1>1, <1>3, <1>4, <1>5, <1>6, <1>7 DEF Main

LEMMA PodLaps ==
  ASSUME TypeOK, Laps, Control, NEW p \in Pods, Fliegen(p)
  PROVE  Laps'
<1> USE RaceAssumption DEF TypeOK, Laps, Goto, history
<1>1. CASE DecideCrash(p)
  BY <1>1 DEF DecideCrash
<1>2. CASE Crash(p)
  BY <1>2 DEF Crash
<1>3. CASE AddTime(p)
  BY <1>3 DEF AddTime
<1>4. CASE Wake(p)
  <2>1. CASE crashed
    BY <1>4, <2>1 DEF Wake
  <2>2. CASE ~crashed
    <3>1. pc[p] = "sleep" /\ runde[p] \in Nat /\ runde[p] < RUNDEN /\ RUNDEN \in Nat
      BY <1>4 DEF Wake
    <3>2. /\ runde' = [runde EXCEPT ![p] = @ + 1]
          /\ pc' = [pc EXCEPT ![p] = IF runde[p] + 1 = RUNDEN THEN "done" ELSE "lap"]
          /\ UNCHANGED <<crashed, late>>
      BY <1>4, <2>2 DEF Wake
    <3>3. \A q \in Pods : q # p => pc'[q] = pc[q] /\ runde'[q] = runde[q]
      BY <3>2
    <3>4. /\ runde'[p] = runde[p] + 1
          /\ pc'[p] = IF runde'[p] = RUNDEN THEN "done" ELSE "lap"
      BY <3>2
    <3>5. pc'[p] # "done" => runde'[p] < RUNDEN
      BY <3>1, <3>4
    <3> QED
      BY <2>2, <3>2, <3>3, <3>4, <3>5
  <2> QED
    BY <2>1, <2>2
<1> QED
  BY <1>1, <1>2, <1>3, <1>4 DEF Fliegen

LEMMA MainLaps ==
  ASSUME TypeOK, Control, Laps, Main
  PROVE  Laps'
<1> USE DEF TypeOK, Laps, history, pods
<1>1. CASE CreatePod
  <2>1. k \in Pods /\ pc[k] = "new"
    BY <1>1, RaceAssumption DEF CreatePod, Control, Pods
  <2> QED
    BY <1>1, <2>1 DEF CreatePod, Goto
<1>2. CASE ~CreatePod
  BY <1>2 DEF Main, JoinPod, JoinNobody, TestCrashed, Compare, EndPass, PrintErgebnis
<1> QED
  BY <1>1, <1>2

-----------------------------------------------------------------------------
(* The account of the times *)

LEMMA PodAccount ==
  ASSUME TypeOK, Control, Account, NEW p \in Pods, Fliegen(p)
  PROVE  Account'
<1>1. /\ main \in {"create", "join"} /\ main' = main
      /\ \A q \in Pods : racer[q] = Struct(q)
  BY FlyingEarly DEF Account
<1>2. \A q \in Pods : racer'[q] = Struct(q)'
  <2>1. CASE AddTime(p)
    <3>1. PICK zeit \in Zeiten :
            /\ racer' = [racer EXCEPT ![p].rennzeit = @ + zeit]
            /\ flown' = [flown EXCEPT ![p] = @ + zeit]
      BY <2>1 DEF AddTime
    <3> QED
      BY <1>1, <3>1 DEF Struct, TypeOK, Pod_Racer
  <2>2. CASE ~AddTime(p)
    BY <2>2, <1>1 DEF Fliegen, DecideCrash, Crash, Wake, Struct, history
  <2> QED
    BY <2>1, <2>2
<1> QED
  BY <1>1, <1>2 DEF Account

LEMMA MainAccount ==
  ASSUME TypeOK, Account, Main
  PROVE  Account'
<1>1. CASE Compare
  <2>1. j \in Pods /\ j + 1 \in Pods /\ main = "sort" /\ main' = main /\ flown' = flown
    BY <1>1, RaceAssumption DEF Compare, TypeOK, Pods, history
  <2>2. ASSUME NEW p \in Pods
        PROVE  \E x \in Pods : racer'[x] = Struct(p)
    <3>1. PICK x \in Pods : racer[x] = Struct(p)
      BY DEF Account
    <3>2. CASE racer' = racer
      BY <3>1, <3>2
    <3>3. CASE Swap(j)
      <4>1. DOMAIN racer = Pods /\ j # j + 1
        BY <2>1 DEF TypeOK, Pods
      <4>2. CASE x = j
        BY <3>1, <3>3, <4>1, <4>2, <2>1 DEF Swap
      <4>3. CASE x = j + 1
        BY <3>1, <3>3, <4>1, <4>3, <2>1 DEF Swap
      <4>4. CASE x # j /\ x # j + 1
        BY <3>1, <3>3, <4>1, <4>4, <2>1 DEF Swap
      <4> QED
        BY <4>2, <4>3, <4>4
    <3> QED
      BY <1>1, <3>2, <3>3 DEF Compare
  <2> QED
    BY <2>1, <2>2 DEF Account, Struct
<1>2. CASE ~Compare
  <2>1. UNCHANGED <<racer, flown>>
    BY <1>2 DEF Main, CreatePod, JoinPod, JoinNobody, TestCrashed, EndPass,
                PrintErgebnis, history
  <2>2. main' \in {"create", "join", "test", "segv"} =>
          main \in {"create", "join", "test", "segv"}
    BY <1>2 DEF Main, CreatePod, JoinPod, JoinNobody, TestCrashed, EndPass,
                PrintErgebnis, NextPod
  <2> QED
    BY <2>1, <2>2 DEF Account, Struct
<1> QED
  BY <1>1, <1>2

-----------------------------------------------------------------------------
(* The sort *)

LEMMA BeforeTransitive ==
  ASSUME NEW r \in Pod_Racer, NEW s \in Pod_Racer, NEW t \in Pod_Racer,
         Before(r, s), Before(s, t)
  PROVE  Before(r, t)
<1>1. /\ r.rennzeit \in Nat /\ s.rennzeit \in Nat /\ t.rennzeit \in Nat
      /\ r.name \in Int /\ s.name \in Int /\ t.name \in Int
  BY DEF Pod_Racer, Pods
<1> QED
  BY <1>1 DEF Before

(* What Compare does to two places of the array, and to no other. *)
LEMMA CompareEffect ==
  ASSUME TypeOK, Stable, LoopInv, Compare
  PROVE  /\ j \in Pods /\ j + 1 \in Pods /\ j' = j + 1
         /\ \A x \in Pods : x # j /\ x # j + 1 => racer'[x] = racer[x]
         /\ Before(racer'[j], racer'[j + 1])
         /\ \/ racer' = racer /\ swapped' = swapped
            \/ /\ racer'[j] = racer[j + 1] /\ racer'[j + 1] = racer[j]
               /\ racer'[j].rennzeit # racer'[j + 1].rennzeit
               /\ swapped'
<1>1. j \in Pods /\ j + 1 \in Pods /\ j < j + 1
  BY RaceAssumption DEF Compare, TypeOK, Pods
<1>2. /\ racer[j].rennzeit \in Nat /\ racer[j + 1].rennzeit \in Nat
  BY <1>1 DEF TypeOK, Pod_Racer
<1>3. CASE racer[j].rennzeit > racer[j + 1].rennzeit
  <2>1. racer' = [racer EXCEPT ![j] = racer[j + 1], ![j + 1] = racer[j]] /\ swapped'
    BY <1>3 DEF Compare, Swap
  <2>2. racer'[j] = racer[j + 1] /\ racer'[j + 1] = racer[j]
    BY <1>1, <2>1 DEF TypeOK, Pods
  <2>3. \A x \in Pods : x # j /\ x # j + 1 => racer'[x] = racer[x]
    BY <1>1, <2>1 DEF TypeOK
  <2>4. racer[j + 1].rennzeit < racer[j].rennzeit
    BY <1>2, <1>3
  <2>5. Before(racer'[j], racer'[j + 1]) /\ racer'[j].rennzeit # racer'[j + 1].rennzeit
    BY <1>2, <2>2, <2>4 DEF Before
  <2> QED
    BY <1>1, <2>1, <2>2, <2>3, <2>5 DEF Compare
<1>4. CASE ~(racer[j].rennzeit > racer[j + 1].rennzeit)
  <2>1. racer' = racer /\ swapped' = swapped
    BY <1>4 DEF Compare
  <2>2. Before(racer[j], racer[j + 1])
    BY <1>1, <1>2, <1>4 DEF Before, Stable
  <2> QED
    BY <1>1, <2>1, <2>2 DEF Compare
<1> QED
  BY <1>3, <1>4

LEMMA CompareSorting ==
  ASSUME TypeOK, TypeOK', Stable, LoopInv, Compare
  PROVE  Stable' /\ LoopInv'
<1> DEFINE Last == ANZAHL_RACER - 1 - i
<1>1. /\ j \in Pods /\ j + 1 \in Pods /\ j' = j + 1
      /\ \A x \in Pods : x # j /\ x # j + 1 => racer'[x] = racer[x]
      /\ Before(racer'[j], racer'[j + 1])
      /\ \/ racer' = racer /\ swapped' = swapped
         \/ /\ racer'[j] = racer[j + 1] /\ racer'[j + 1] = racer[j]
            /\ racer'[j].rennzeit # racer'[j + 1].rennzeit
            /\ swapped'
  BY CompareEffect
<1>2. i' = i /\ i \in Nat /\ j + 1 <= Last /\ ANZAHL_RACER \in Nat /\ \A x \in Pods : x \in Nat
  BY RaceAssumption DEF Compare, TypeOK, Pods
<1>3. Stable'
  BY <1>1, <1>2 DEF Stable
<1>4. ASSUME NEW x \in Pods, NEW y \in Pods, x < y, y > Last
      PROVE  Before(racer'[x], racer'[y])
  <2>1. racer'[y] = racer[y] /\ j < y /\ j + 1 < y
    BY <1>1, <1>2, <1>4
  <2>2. \A z \in Pods : z < y => Before(racer[z], racer[y])
    BY <1>4 DEF LoopInv
  <2> QED
    BY <1>1, <1>4, <2>1, <2>2
<1>5. ASSUME NEW x \in Pods, x < j + 1
      PROVE  Before(racer'[x], racer'[j + 1])
  <2>1. CASE x = j
    BY <1>1, <2>1
  <2>2. CASE x # j
    <3>1. x < j /\ racer'[x] = racer[x] /\ Before(racer[x], racer[j])
      BY <1>1, <1>2, <1>5, <2>2 DEF LoopInv
    <3>2. CASE racer' = racer
      <4>1. racer[x] \in Pod_Racer /\ racer[j] \in Pod_Racer /\ racer[j + 1] \in Pod_Racer
        BY <1>1 DEF TypeOK
      <4> QED
        BY <1>1, <3>1, <3>2, <4>1, BeforeTransitive
    <3> QED
      BY <1>1, <3>1, <3>2
  <2> QED
    BY <2>1, <2>2
<1>6. ASSUME ~swapped', NEW x \in Pods, NEW y \in Pods, x < y, y <= j + 1
      PROVE  Before(racer'[x], racer'[y])
  <2>1. racer' = racer /\ ~swapped
    BY <1>1, <1>6
  <2>2. CASE y = j + 1
    BY <1>5, <1>6, <2>2
  <2>3. CASE y # j + 1
    BY <1>1, <1>2, <1>6, <2>1, <2>3 DEF LoopInv
  <2> QED
    BY <2>2, <2>3
<1>7. i' <= ANZAHL_RACER - 1 /\ j' <= ANZAHL_RACER - i' - 1
  BY <1>1, <1>2 DEF LoopInv
<1> QED
  BY <1>1, <1>2, <1>3, <1>4, <1>5, <1>6, <1>7 DEF LoopInv

(* At the end of a pass one more place is final; if nothing was swapped,   *)
(* or two places are all that was left, every place is.                    *)
LEMMA EndPassSorting ==
  ASSUME TypeOK, Stable, LoopInv, EndPass
  PROVE  IF main' = "print" THEN Ranked' ELSE Stable' /\ LoopInv'
<1>1. /\ racer' = racer /\ j = ANZAHL_RACER - i - 1 /\ j' = 0 /\ ~swapped'
      /\ i \in Nat /\ ANZAHL_RACER \in Nat /\ \A x \in Pods : x \in Nat
  BY RaceAssumption DEF EndPass, TypeOK, Pods
<1>2. CASE swapped /\ i + 1 < ANZAHL_RACER - 1
  <2>1. i' = i + 1 /\ main' # "print"
    BY <1>2 DEF EndPass
  <2>2. ASSUME NEW x \in Pods, NEW y \in Pods, x < y, y > ANZAHL_RACER - 1 - i'
        PROVE  Before(racer'[x], racer'[y])
    <3>1. y = j \/ y > ANZAHL_RACER - 1 - i
      BY <1>1, <2>1, <2>2
    <3> QED
      BY <1>1, <2>2, <3>1 DEF LoopInv
  <2> QED
    BY <1>1, <1>2, <2>1, <2>2 DEF LoopInv, Stable
<1>3. CASE ~(swapped /\ i + 1 < ANZAHL_RACER - 1)
  <2>1. main' = "print"
    BY <1>3 DEF EndPass
  <2>2. ASSUME NEW x \in Pods, NEW y \in Pods, x < y
        PROVE  Before(racer[x], racer[y])
    <3>1. CASE y > ANZAHL_RACER - 1 - i
      BY <2>2, <3>1 DEF LoopInv
    <3>2. CASE y <= j /\ ~swapped
      BY <2>2, <3>2 DEF LoopInv
    <3>3. CASE y <= j /\ swapped
      <4>1. y = j
        BY <1>1, <1>3, <2>2, <3>3
      <4> QED
        BY <2>2, <4>1 DEF LoopInv
    <3> QED
      BY <1>1, <3>1, <3>2, <3>3
  <2> QED
    BY <1>1, <2>1, <2>2 DEF Ranked
<1> QED
  BY <1>2, <1>3

LEMMA MainSorting ==
  ASSUME TypeOK, TypeOK', Control, Account, Sorting, Main
  PROVE  Sorting'
<1>1. CASE TestCrashed
  <2>1. racer' = racer /\ ~printed' /\ main' # "print"
    BY <1>1 DEF TestCrashed, Control
  <2>2. \A p \in Pods : racer[p].name = p
    <3>1. \A p \in Pods : racer[p] = Struct(p)
      BY <1>1 DEF TestCrashed, Account
    <3>2. \A p \in Pods : Struct(p).name = p
      BY DEF Struct
    <3> QED
      BY <3>1, <3>2
  <2>3. Stable'
    BY <2>1, <2>2 DEF Stable
  <2>4. i' = 0 /\ j' = 0 /\ ANZAHL_RACER \in Nat \ {0} /\ \A x \in Pods : x \in 0 .. ANZAHL_RACER - 1
    BY <1>1, RaceAssumption DEF TestCrashed, Pods
  <2>5. LoopInv'
    BY <2>4 DEF LoopInv
  <2> QED
    BY <2>1, <2>3, <2>5 DEF Sorting
<1>2. CASE Compare
  BY <1>2, CompareSorting DEF Sorting, Compare, Control
<1>3. CASE EndPass
  BY <1>3, EndPassSorting DEF Sorting, EndPass, Control
<1>4. CASE PrintErgebnis
  BY <1>4 DEF PrintErgebnis, Sorting, Ranked
<1>5. CASE CreatePod \/ JoinPod \/ JoinNobody
  <2>1. main' \notin {"sort", "print"} /\ ~printed'
    BY <1>5 DEF CreatePod, JoinPod, JoinNobody, NextPod, Control
  <2> QED
    BY <2>1 DEF Sorting
<1> QED
  BY <1>1, <1>2, <1>3, <1>4, <1>5 DEF Main

LEMMA PodSorting ==
  ASSUME TypeOK, Control, NEW p \in Pods, Fliegen(p)
  PROVE  Sorting'
BY FlyingEarly DEF Sorting

-----------------------------------------------------------------------------
(* The theorems *)

LEMMA InitInv == Init => Inv
<1> SUFFICES ASSUME Init PROVE Inv
  OBVIOUS
<1> USE RaceAssumption DEF Init, Pods
<1>1. TypeOK
  <2>1. 0 \in Pods /\ 0 \in 0 .. RUNDEN
    OBVIOUS
  <2>2. racer \in [Pods -> Pod_Racer]
    BY DEF Pod_Racer
  <2>3. /\ runde \in [Pods -> 0 .. RUNDEN]
        /\ flown \in [Pods -> Nat] /\ late \in [Pods -> Nat]
    BY <2>1
  <2>4. /\ pc \in [Pods -> {"new", "lap", "crash", "sleep", "done", "failed"}]
        /\ main \in {"create", "join", "test", "sort", "print", "end", "segv"}
    OBVIOUS
  <2>5. /\ crashed \in BOOLEAN /\ printed \in BOOLEAN /\ swapped \in BOOLEAN
        /\ reported \subseteq Pods
    OBVIOUS
  <2>6. k \in Pods /\ i \in Nat /\ j \in Nat
    BY <2>1
  <2> QED
    BY <2>2, <2>3, <2>4, <2>5, <2>6, Zenon DEF TypeOK
<1>2. Control
  BY DEF Control
<1>3. Laps
  BY DEF Laps
<1>4. Account
  BY DEF Account, Struct
<1>5. Sorting
  BY DEF Sorting
<1> QED
  BY <1>1, <1>2, <1>3, <1>4, <1>5 DEF Inv

LEMMA InvStep == Inv /\ [Next]_vars => Inv'
<1> SUFFICES ASSUME Inv, [Next]_vars PROVE Inv'
  OBVIOUS
<1> USE DEF Inv
<1>1. CASE Main
  <2>1. TypeOK'
    BY <1>1, MainType
  <2> QED
    BY <1>1, <2>1, MainControl, MainLaps, MainAccount, MainSorting
<1>2. ASSUME NEW p \in Pods, Fliegen(p)
      PROVE  Inv'
  BY <1>2, PodType, PodControl, PodLaps, PodAccount, PodSorting
<1>3. CASE UNCHANGED vars
  BY <1>3 DEF vars, pods, sorting, history, TypeOK, Control, Laps, Account, Struct,
              Sorting, Stable, LoopInv, Ranked
<1> QED
  BY <1>1, <1>2, <1>3 DEF Next

LEMMA InvAlways == Spec => []Inv
<1> QED
  BY InitInv, InvStep, PTL DEF Spec

(* The types of main.c, and no pod counts more laps than there are. *)
THEOREM RaceTypeCorrect == Spec => []TypeOK
<1>1. Inv => TypeOK
  BY DEF Inv
<1> QED
  BY <1>1, InvAlways, PTL

(* Whatever the interleaving of tests and assignments of crashed: there is *)
(* a result exactly if nobody has crashed, and nobody flies any more then. *)
THEOREM ResultOrCrash == Spec => []ResultUnlessCrashed
<1>1. Inv => ResultUnlessCrashed
  BY DEF Inv, Control, Resting, ResultUnlessCrashed
<1> QED
  BY <1>1, InvAlways, PTL

(* The sort loses and invents no pod and separates none from its time. *)
THEOREM NobodyMissing == Spec => []ResultComplete
<1>1. Inv => ResultComplete
  BY DEF Inv, Control, Resting, Laps, Account, Struct, ResultComplete
<1> QED
  BY <1>1, InvAlways, PTL

(* The bubble sort with its early exit sorts, and is stable. *)
THEOREM SortIsStable == Spec => []ResultRanked
<1>1. Inv => ResultRanked
  BY DEF Inv, Sorting, Ranked, ResultRanked
<1> QED
  BY <1>1, InvAlways, PTL

(* A pod begins at most one lap after a crash. *)
THEOREM StopsAfterCrash == Spec => []OneLateLap
<1>1. Inv => OneLateLap
  BY DEF Inv, Laps, OneLateLap
<1> QED
  BY <1>1, InvAlways, PTL
=============================================================================
