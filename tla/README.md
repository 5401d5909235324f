# Formal model of the operating-systems exercises (WS 24/25)

The repository holds four small C programs, and what CMake generated to build two
of them. This directory models them in TLA+,
checks the models with TLC and proves theorems about them with TLAPS.
Sources are cited as file:line; *queue.c* and its neighbours are those of
`src/Praktikum 3`.

## Inventory

| Program | State | Operations | What is hard |
|---|---|---|---|
| **Praktikum 3** – producers, consumers, observer around a sorted queue (`queue.c`, `producer.c`, `consumer.c`, `observer.c`, `main.c`) | a doubly linked list with a static head, a mutex inside every *packet*, the counters `queue_index`, `p_counter`, `c_counter` | `add_paket`, `get_paket`, `create_queue_element`, `consume_queue_element`, `print_queue_status` | hand-over-hand locking from two ends, retries, freed memory, an unprotected counter, an observer that reads without locks |
| **Praktikum 2 Aufg 2** – pod race (`main.c`) | `crashed` (volatile, no mutex), lap times | `fliegen` in five threads, `sort`, `printErgebnis` | check-then-act on `crashed`, results only without a crash, the sort |
| **Praktikum 2 Aufg 1** – HAW shell (`main.c`) | the processes, the working directory | the command loop, fork/exec/wait | zombies of background jobs, a child that must not stay in the loop, fork that fails |
| **CMakeCCompilerId.c** – compiled by CMake before Praktikum 2, never run | none: a cascade of `#if`s | the strings CMake looks for in the executable | the order of the cases, the digits of version numbers, macros in any combination |
| **Praktikum_4** – caesar kernel module (`caesar.c`) | two buffers, two mutexes, the device registrations | `encrypt`, `decrypt`, `dev_open/read/write/release`, `caesar_init/exit` | char arithmetic at the ends of the alphabet, exclusive open, concurrent writes to one buffer, a failing init |

What makes each component correct:

* *Queue*: every number is queued at most once, the list is sorted, the smallest
  packet leaves first, no packet is lost or handed out twice, no thread in it touches
  a freed element or packet, nobody waits in a circle, the capacity is respected.
* *Producer, consumer, observer*: they end; "Ende" is printed when, and only when,
  everything has been consumed.
* *Pod race*: no result after a crash, a complete and ranked result otherwise, the
  race stops soon after a crash, main returns.
* *Shell*: exactly one process reads commands, every line it gets is handled once and
  in order, foreground programs are waited for and no others, failed starts leave no
  second shell behind.
* *Compiler identification*: version numbers can be read back, under any compiler.
* *Caesar*: decrypt undoes encrypt for every shift in 1..26; one opener per device,
  its buffer valid while it is open.

## Plan

1. `PacketQueue`, `PriorityQueue`, `PacketSystem` with their runs; `TypeOK` and
   `IndexWithinCapacity` proved. **Done.**
2. `Caesar` (the cipher) and `CaesarDevice` (the kernel module) with their run; the
   cipher's rotation and round trip and all safety properties of the device
   proved. **Done.**
3. `PodRace` (the pods and main with its bubble sort); all its safety properties
   proved. **Done.**
4. `HawShell` (fork, exec, wait, a bounded process table); all its safety properties
   proved. **Done.**
   `CompilerId`, definitions and theorems only. **Done** but for the tables of
   compilers and platforms.
5. The queue's other safety properties, by one inductive invariant: who holds which
   mutex at which pc, the list as a chain in which `next[e]` is the least element
   above `e`, each allocated packet in one place; on top of it the refinement
   `PacketSystem => PriorityQueue`, the sites where defined behaviour ends, and
   that nobody waits in a circle. **Done.**
6. Left: abstract specifications of the device and of the shell, with their
   refinements.

Every module declares its parameters as CONSTANTS with named assumptions, keeps
one action per step, and uses no RECURSIVE operator.

## Praktikum 3

`PriorityQueue` is the promise of `queue.h`: a set of numbers, `Add` puts one in,
`Get` takes the smallest out, and `GiveUp` admits that C promises nothing any
more once an execution has left defined behaviour.

`PacketQueue` is `queue.c`. The state is the memory of the program: the fields
`packet`, `next`, `prev` of the queue elements, `num` and the mutex (`owner`) of
the packets, what malloc has given out (`live`, `heap`), `queue_index`, and per
thread a program counter and its locals. Its grain is one action per pthread
call together with the plain accesses that follow it: these touch only nodes the
thread has locked, so no other thread can tell the difference, as long as no
mutex has been stolen. Where a counter is touched without a mutex
(`queue_index++`, `queue_index--`) load and store are separate actions. The
argument of a call is computed before the call blocks and is kept in `want`, so
that a thread can wait for a mutex in a packet that is freed meanwhile.

A default mutex is modelled as the platform implements it: locking one's own
blocks, unlocking never asks for the owner. What is undefined happens in the model
all the same, with the outcomes a build can produce, and three kinds of it are
remembered in `faults` with their place: a mutex released that *another* thread
holds, a mutex locked or unlocked in a freed packet, and a freed packet added again.
`Sound == faults = {}` says that none of these has happened yet: they are what can
spoil the list. A *read* of freed memory spoils nothing but what the reader does
next, and does not end `Sound`: the observer's plain reads and the `printf` of
`producer.c:46`, which prints the number of a packet that a consumer may have freed
since the mutexes were given up. Freed memory keeps its content until malloc gives it
out again, or crashes the thread that uses it (`Crash`, `ObsPrint`, `Produced`), and
with it the program (`Killed`); the number in a freed packet that is added again reads
as any member of `Garbage`.

`queue.c:46` and `queue.c:137` unlock a *copy* of a mutex, on every call that gets
there. That is undefined, too, but it is the same each time and has two effects: where
a mutex is a handle (the winpthreads the project is built with) it releases the
original, where it is a struct it does not. The action of line 137 allows both, and
at line 46 nobody holds the original. Neither is counted as a fault: everything
below holds with either effect. The static head's mutex is initialised with
`PTHREAD_MUTEX_DEFAULT`; it is taken as an unlocked default mutex.

`PacketSystem` adds `producer.c`, `consumer.c`, `observer.c` and `main.c`: the
loops with their counters, both retries of `create_queue_element`, the observer's
plain reads in three steps (`obs.print`, `obs.move`, `obs.peek`), so that another
thread can get in between. Sleeping is a thread that is not scheduled. The packet a
producer forgets when the queue is full (`producer.c:40`) stays allocated for ever and
is remembered in `forgotten`; when the set `Packets` is used up malloc has nothing
left, and the model stops there.

### Properties

* `TypeOK` – also *after* undefined operations pointers point to memory malloc can
  return and the counters stay bounded.
* `SortedWhileSound` – `next` always leads to the element with the next larger
  number and `prev` back; no element is lost from the chain.
* `NoDanglingWhileSound` – the element a producer stands on is in the list, and what
  producers and consumers wait for, release or carry has not been freed; a producer
  carries its packet until it has linked it.
* `OnePlaceWhileSound` – every allocated packet is in exactly one place, once in the
  list or in one thread's hands; what has been forgotten at `producer.c:40` is in none,
  and it is all that is lost.
* `NoCircleWhileSound` – no set of producers and consumers waits for mutexes that
  only members of the set hold, with or without an observer.
* `NoDeadlockWhileSound` – some thread can always go on (without the observer, which
  may wait for ever for the mutex of a packet that has been freed).
* `FirstFault` – while `Sound` holds, another thread's mutex is released, a freed
  element, packet or mutex used, and the program killed nowhere but at `queue.c:91`
  (the second release of `prev`), `producer.c:36` (the retry with a freed packet),
  `producer.c:46` (the `printf`) and, if there is an observer, in
  `print_queue_status`. `Uses` lists what memory each step touches.
* `ImplementsPriorityQueue` – refinement, with the numbers in the list for `queued`.
* `IndexWithinCapacity` – with one producer (as shipped) `queue_index` never
  passes `QMAX`, in spite of its lost updates.
* `Termination` – all threads end, unless `Sound` ends before or the `printf` kills
  the program.

All of these but `TypeOK` and `IndexWithinCapacity` are about the program as long as it
is `Sound`. That is not because the rest is uninteresting: the runs below show what
follows when it is not.

### Runs

| Run | Instance | Shows |
|---|---|---|
| `prodcons` | 1 producer, 1 consumer, 3 packets, numbers 1..3 | all safety properties and the refinement; 832,000 states up to symmetry |
| `full` | the shipped threads: 1 producer, 1 consumer, the observer; capacity 1, 3 rounds of the producer, memory for 2 packets | the observer's unlocked reads and unlocks, QUEUE_FULL and its retry, `IndexWithinCapacity`, `NoCircleWhileSound` and the other safety properties; 937,000 states up to symmetry |
| `live` | 2 producers, 1 consumer, 2 packets, `FairSpec` | `Termination`, and the safety properties with producers that follow each other; 424,000 states |
| `order` | as `prodcons` | violated: a packet is appended behind a consumed element and lost (`queue.c:91`) |
| `stuck` | 2 packets, `StrongSpec` | violated: a duplicate number stops the producer for ever (`queue.c:41-51`, `producer.c:36`) |
| `ende` | the shipped threads | violated: "Ende" before anything is consumed (`consumer.c:17`) |
| `hang` | 1 packet, `StrongSpec` | violated: the observer dies on a freed element, "Ende" is never printed (`observer.c:40-45`) |

*Bounds.* Locking involves an element and its two neighbours: a list of three
elements behind the head already has a first, a middle and a last one, which are
the cases `add_paket` distinguishes. `live` has two because liveness is checked
without symmetry; the safety properties hold with two producers, a consumer and
three packets with two numbers, too (3.7 million states up to symmetry, checked once and
not kept as a run). In `full` the retry finds memory once the queued packet
has been consumed, and takes one of the two packets for good, so an execution has one
retry, with adds and removals before and after it; with memory for three packets, hence up
to two retries, the same properties hold, too (3.7 million states, checked once). Three numbers are
enough for a new packet to go before, between, behind or onto queued ones.
`MAX_PACKETS` bounds both counters as in the code; `QMAX` is above it as shipped
(25 > 20), or 1 to make the queue full. `Garbage` holds a queued number, the
head's -1 and a smaller one. Addresses are symmetric, since malloc may return any
free one, and so are threads that run the same function; the runs with liveness
use no symmetry. Deadlock checking is off because the program ends, and because
it really can get stuck; `NoDeadlockWhileSound` says when it cannot.

*Fairness.* `FairSpec` has weak fairness of every thread: the scheduler runs
whoever can run, and nothing is assumed about who gets a contended mutex. That
is enough for `Termination`, since there are finitely many calls. A liveness
property is refuted under `StrongSpec` only, where every mutex is handed out
fairly: the counterexamples do not rest on starvation.

## Praktikum_4

`Caesar` is the cipher, one character at a time: `Encrypt` and `Decrypt` are one
turn of the loops in `encrypt` and `decrypt`, with sums computed as int and
stored as an eight-bit signed char. The reference beside them is a rotation of a
circle of 53 symbols (A to Z, the space, a to z), which is what the cases and
constants of the code amount to. `ShiftAssumption` restricts `translate_shift`,
which the code does not check, to 1..26: for other shifts `96 + translate_shift`
or `91 - translate_shift` is not a letter and there is no way back.

`CaesarDevice` is the kernel module. Its state is the driver's (the two mutexes,
`enc_buf` and `dec_buf`), the kernel's heap (`allocated`, `mem`), the open files
(`minor`), and a call per task. Tasks may share a file, as threads and children
do, so that two writes to one buffer can overlap. One action is one step of a
call that another task can tell apart: `dev_open` takes the mutex and then
allocates, `dev_write` copies and then translates a character per step,
`dev_release` frees and then unlocks. What is external is taken as the kernel
does it: `release` is called for the last reference only and after all calls on
the file; `copy_from_user` may stop anywhere and fills up with NULs; `kmalloc`
may fail, and a task that then uses the buffer is killed while its file stays
open until somebody closes it. The steps of `caesar_init` are actions that may
each fail; files may be opened as soon as the major number is registered, also
before `caesar_init` has returned. The module is unloaded only while no file is
open. `caesar_exit` destroys a class that it has already unregistered
(`caesar.c:234-235`), which is undefined: either that is noticed and everything is
removed (`gone`), or unloading dies there, the major number stays and nobody can open
or unload the module again (`dying`). After a failed `caesar_init` nothing more is said.

* `OneOpener` - the mutex of a device is held exactly while one file is open on
  it, is being opened or is being closed: EBUSY means in use, and what has been
  closed can be opened again.
* `OwnBuffer` - the buffer of an open device is allocated and its own, and nothing
  else is allocated.
* `Translated` - the buffer holds what was written, rotated forwards (encrypt) or
  backwards (decrypt), unless two writes have overlapped on the device or a copy
  was incomplete.

| Run | Instance | Shows |
|---|---|---|
| `device` | 2 tasks, 2 files, both devices and a minor number nobody serves, buffers of 2 chars | all of the above; 274,000 states |
| `init` | the same | violated: a failing `caesar_init` leaves the device `encrypt` registered (`caesar.c:221`) |

*Bounds.* Two files are enough to have both devices open, or one open and one
refused; two tasks to share a file or to meet in open and release; two blocks to
have a freed one given out again. The text holds the two characters that become
the space at shift 1, one for each direction; all other characters and shifts
are covered by the theorems about `Caesar`.

## Praktikum 2

`PodRace` is `main.c` of Aufgabe 2. A pod's steps are those another thread can
tell apart: the test of `crashed` (with the lap time drawn before it), its
assignment, the addition of the lap time, and what follows the sleep. Main creates
and joins one thread per step and sorts one comparison per step. `pthread_create`
may fail; main does not look and joins a thread that does not exist, which either
returns an error or takes the program down (`segv`). The numbers `rand` yields are
arbitrary: `srand` and `rand` share one generator among all threads, and
`thread_id` may not be stored yet when `srand` reads it (`main.c:24`), so nothing
is assumed about them. Three history variables say what is only visible in the
output or nowhere: who has reported a crash, what each pod has flown, and how many
laps it has begun after a crash.

* `ResultUnlessCrashed` - there is a result exactly if no pod has reported a crash,
  and it is printed when all pods have come to rest.
* `ResultComplete` - the result names every pod once, with the time it has flown,
  in all its laps unless its thread could not be created.
* `ResultRanked` - by time, and pods with equal times in the order they started.
* `OneLateLap` - a pod begins at most one lap after a crash.
* `RaceEnds` - main returns, or is taken down as above.

`HawShell` is `main.c` of Aufgabe 1. A child is a copy of the shell and runs the
shell's own code until `execlp` succeeds, so the actions of the loop are actions of
*any* process; that only the shell performs most of them is a theorem
(`ChildrenNeverRead`) and not part of the model. A line is a sequence of tokens, of
which `trimString`, the test for `&`, the cut of the `&` and `fgets` with its bound
are modelled; `prog &` with a blank makes the child look for "prog ", which is not
found, and what does not fit into the buffer stays in the process' stdio buffer (`rest`,
which fork copies) and is read as the next command. At the
end of the input `fgets` leaves the command empty and the loop goes on for ever. The
kernel is external: processes that end stay in the process table until they are
waited for or the shell is gone; `fork` fails if the table (`Pids`) is full and, with
`ForkMayFail`, at any other time; a program ends when it likes, if ever.

Standard input is the terminal, as `main.c:61` says ("von Tastatur"): each read gets one
line, and there is no offset to move back. It is shared by all processes. A program
that was started, in the background too, may read lines that were typed for the shell
(`ProgramReads`); which line goes to whom is open. A child whose exec has failed drops
its copy of the stdio buffer when it exits. With a *file* as standard input exit would
move the shared offset back, and the shell would read lines a second time; that case
is not modelled.

* `OneReader` - a child that is back in the shell's code after a failed exec reads
  no command and starts no process.
* `ForegroundWaited` - while the shell reads commands only background processes
  exist.
* `LinesInOrder` - every line that no program has read is handled once and in order,
  as long as the lines fit.
* `CwdIsLastCd` - the shell is in the directory of the last path it has read that
  exists.
* `CommandsGoOn` - if every foreground program ends the shell gets through its
  input or leaves.

| Run | Instance | Shows |
|---|---|---|
| `podrace` | 4 pods, 2 laps, times 20, 21, 22 (20 crashes), `FairSpec` | all of the pod race; 1.4 million states |
| `shell` | all scripts of 3 lines out of 10 kinds, or with a line that is too long, room for 2 children, a fork that may fail, `FairSpec` | all of the shell; 37,000 states |
| `fork` | the same, but fork fails only when the table is full | violated: when `fork` fails the shell ends, where `main.c:35` says it repeats its loop |

*Bounds.* Two laps are enough for a crash in the first or the last lap and one
between; four pods for several passes of the sort, an early exit, ties and two
crashes. Two children fill the process table with a background program and a
foreground one, or with two background ones so that the third line fails; there are
two directories that exist and a path to none, in any order; the
buffer holds four tokens so that a line of six does not fit.

*Fairness.* In the race every thread that can go on is scheduled some time, and
sleeps end. In the shell the shell's own code (also in a child) is scheduled;
nothing is assumed about programs, and `CommandsGoOn` names the one thing it
needs, that foreground programs end. Deadlock checking is off because both
programs end, and because a foreground program may never do so.

`CompilerId` is the part of `CMakeCCompilerId.c` that computes something: which
architecture is named (first case that applies), the eight digits of version
numbers (`DEC`, or `HEX` for three compilers), which strings are declared and which
main refers to. The
macros a compiler defines are constants. It has no behaviour, so no run, only
theorems. It is generated code and stands last in importance.

## Proofs

`PacketSystemProofs` proves, for any sets of threads, addresses and numbers and
any `QMAX` and `MAX_PACKETS` that satisfy `AddressAssumption`,
`CapacityAssumption` and `SystemAssumption`:

* `TypeCorrect: Spec => []TypeOK`. `TypeOK` is not inductive: `packet[prev[c]]` is
  a packet only if `prev[c]` is an element, so `TypeInv` adds where each thread's
  local pointer points at each pc (`CurOK`) and that the head has no
  predecessor. One lemma per action, on lemmas about the helpers (`GotoType`,
  `LockType`, `LinkType`, `VisitType`, `UnlinkType`).

* `IndexCorrect: Spec => []IndexWithinCapacity`. The check of `queue_index` and its
  increment are far apart and share no mutex. `IndexInv` says what makes it work
  with one producer: while it is on its way from the check to the increment the
  counter is below `QMAX`, since everybody else only stores values that were at
  most `QMAX` when loaded, minus one.

`PacketListProofs` (which extends it) proves, under the same assumptions, so for any
number of producers, consumers and *observers*, `ListSorted`, `NoDangling`,
`OnePlace`, `Implements` and `FaultSites`: the properties of the runs `prodcons` and
`full` except deadlock. They rest on one inductive invariant, `SafeInv == Sound =>
Safe`; once `Sound` has ended it says nothing, as do the properties.

* `HeapOK` and `ChainOK` describe the list without a path: every element but the head
  has a packet of its own, numbers differ, `prev` is the inverse of `next`, and (the
  conjunct the property `InOrder` also has) nothing lies between a number and that of
  the next element. An element is in the list (`Linked`) if it is live and no consumer
  has just taken it out, so that both link and unlink are changes of a set.
* `HandOK`: a packet in a thread's hand is in nobody else's and not in the list.
* `ThreadsOK` has two parts per thread. `PlaceOK`: the mutexes it owns at each pc, and
  how its number compares with that of the element it stands on. `WantOK`: that the
  mutex it has named (`want`) is still the one of the neighbour it was computed from.
  The second is what hand-over-hand locking is for: nobody can unlink, free or insert
  at an element without owning the mutexes of its neighbours.

What a step means to the other threads comes in five kinds (`Moves`): list and hands
unchanged, a packet dropped, a packet made, an element linked, one unlinked. Each
action is shown to be of a kind, and each kind to keep `PlaceOK` and `WantOK` of the
others; so the number of cases is that of the actions plus that of the kinds, not the
product. `OnePlace` needs `KeptInv` beside it (an allocated packet is nowhere exactly if
it has been forgotten), and
`Implements` maps every action to `Add`, `Get`, `GiveUp` or a stutter: a link puts a
new number in because the producer still stands between its neighbours, an unlink
takes the smallest out because the first element is the least above the head.
`FaultSites` asks for each lock and release whether the invariant gives its thread
the mutex and the mutex an allocated packet (`FirstFaultStep`), for each pc what it
uses (`DanglingSites`), and for each step that ends the program where it is
(`CrashSites`).

`PacketDeadlockProofs` proves `NoCircle` for any threads and `NoDeadlock` without
observers. `SafeInv` says what a thread owns at least; `HeldInv` adds the converse,
that an owned mutex is one its owner will still release. From both: who waits for the
mutex of an element waits *above* all it owns, since producers and consumers alike lock
in the order of the numbers (`WaitsUpwards`; the second releases at `queue.c:91` make
this an argument about which pc owns what). In a circle, the one who waits
for the highest element would be waited for higher up. That there is a highest one
needs `FiniteList`; no bound on the number of packets is assumed.

`CaesarProofs` proves, for every char and every shift in 1..26,
`EncryptRotates`, `DecryptRotatesBack` and, from these two and the composition of
rotations, `RoundTrip`: decrypt undoes encrypt and the other way round.

`CaesarDeviceProofs` proves, for any sets of tasks, files, blocks and minor
numbers and any size of the buffers (`DeviceAssumption`, `ShiftAssumption`):

* `DeviceTypeCorrect: Spec => []TypeOK` and `ExclusiveOpen: Spec => []OneOpener`,
  from the invariant `Inv`. It adds to the two that nobody else is in a call on a
  file while it is opened or closed (`Alone`), and that nothing is open before
  anything is registered (`Closed`), which is why `mutex_init` unlocks nobody.
* `BuffersOwned: Spec => []OwnBuffer`, relative to `Inv`: a step changes whether a
  device is in use for at most one device (the lemmas `Use...`, one per action).
* `BuffersTranslated: Spec => []Translated`, relative to both and to the theorems about
  the cipher. `Content` adds to `Translated` that nothing is known of a buffer that is
  not in use, that a loop which has not begun is at 0, and that at most one loop runs
  on a device that is not in `raced`; without it a loop could translate a char twice. `OwnBuffer`
  is needed for the other device: a copy into one buffer, or its being freed, does not
  touch the other.

`PodRaceProofs` proves, for any number of pods and laps, any `CRASH_FACTOR` and any
times (`RaceAssumption`):

* `RaceTypeCorrect`, `StopsAfterCrash`: a pod that has begun a lap after a crash is
  asleep or done, and finds `crashed` set when it wakes up.
* `ResultOrCrash`: `crashed` is set exactly if somebody has reported, and the pods
  joined so far are at rest.
* `NobodyMissing`: until they are sorted, pods stand at their place with the time
  they have flown; a swap permutes the array.
* `SortIsStable`: the invariant of the bubble sort. Behind `n - i` everything is in
  its final place, `racer[j]` is the largest of those passed, neighbours that were
  passed without a swap are in order, and equal times have never overtaken.

`HawShellProofs` proves, for any set of processes, programs, directories and scripts
(`ShellAssumption`):

* `ChildrenNeverRead` and `WaitsForForeground`. The invariant behind
  them says that only the shell is ever in its loop, and that what is in the process
  table is a background process or the child being waited for.
* `TypeCorrect`: `Trim` and the two parts of a line that is too long are lines.
* `InOrder`: `OrderInv` says that what is left of the input is the end of the script
  whoever has read the rest, and that nothing is left of a line in the shell's buffer
  as long as every line has fitted. `WhoReads` says which steps touch any of this: the
  shell's own reads, and those of programs.
* `InLastCd`: `CwdIsLastCd` is not inductive, since between reading a path and
  changing to it the shell is one behind; `CwdInv` says by what.

`CompilerIdProofs` proves, whatever macros are defined, `VersionReadsBack`: the eight
digits of a component stand for its number, by `DecReadsBack` (below 10^8) or, where
the compiler is one of those that use it, by `HexReadsBack` (below 16^8); and
`Arm64EC`, that a compiler for ARM64EC is not taken for one for x64.

Only model-checked: `Termination`, `RaceEnds` and `CommandsGoOn`, since liveness under
fairness is out of the prover's reach, and the six disagreements with comments of the
code, which are shown by counterexamples. Every other property of a run is a theorem.

## Not modelled

Praktikum 3: `init_queue` (its semaphore is never used), `run_queue` (returns at
once), output other than "Ende". Praktikum_4: reads beyond the buffer,
return values as such, another driver that is given the major number between the two
`unregister_chrdev` of `caesar_exit`, `testcaecar.c` (one fixed sequence of calls by one process, which
`CaesarDevice` covers with any sequence of calls by any task; the rest of the file is
commented out). Praktikum 2: the seed of `rand` and the sequence it yields, the
output that a forked child inherits in its stdio buffer (a child whose exec fails prints
it a second time), a file as standard input of the shell, signals, and the status
that is printed unassigned for a background process
(`main.c:44`, it reaches a printf only). The tables of compilers and platforms in
`CMakeCCompilerId.c` (names in, names out) and the other files CMake generated.
