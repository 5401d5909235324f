-------------------------- MODULE CaesarDeviceProofs --------------------------
(***************************************************************************)
(* Proofs about CaesarDevice, for any number of tasks, files and blocks    *)
(* and any size of the buffers.                                            *)
(*                                                                         *)
(* OneOpener and OwnBuffer are not inductive alone: that nobody frees the  *)
(* buffer or unlocks the mutex of an open file rests on the kernel calling *)
(* release for the last reference only (Alone), and that mutex_init meets  *)
(* no opener, on its being called before anything is registered (Closed).  *)
(* Translated needs both, and Content: who has written how far, and what   *)
(* is known of a buffer that nobody has written to yet.                    *)
(***************************************************************************)
EXTENDS CaesarDevice, CaesarProofs, TLAPS

(* While a file is opened or closed nobody else is in a call on it. *)
Alone ==
  \A t, u \in Tasks :
    t # u /\ file[t] # NULL /\ file[t] = file[u] => pc[t] \in Writing /\ pc[u] \in Writing

(* Nothing is open before anything has been registered. *)
Closed ==
  module = "out" => registered = {} /\ \A f \in Files : minor[f] = NULL

Inv == TypeOK /\ OneOpener /\ Alone /\ Closed

-----------------------------------------------------------------------------
(* The loop of write stores chars. *)
LEMMA TranslateType ==
  ASSUME NEW m, NEW c \in Char
  PROVE  Translate(m, c) \in Char
<1>1. \A n \in Int : ToChar(n) \in Char
  BY DEF ToChar, Char
<1>2. c \in Int /\ translate_shift \in Int
  BY ShiftAssumption DEF Char
<1>3. Encrypt(c) \in Char
  BY <1>1, <1>2 DEF Encrypt, Space, Upper, Lower, Char
<1>4. Decrypt(c) \in Char
  BY <1>1, <1>2 DEF Decrypt, Space, Upper, Lower, Char
<1> QED
  BY <1>3, <1>4 DEF Translate

(* What the calls of the tasks keep, whatever becomes of the files. *)
CallTypeOK ==
  /\ pc \in [Tasks -> Labels]
  /\ file \in [Tasks -> Files \cup {NULL}]
  /\ text \in [Tasks -> Buffers \cup {NULL}]
  /\ \A t \in Tasks : pc[t] \in Writing => text[t] \in Buffers
  /\ len \in [Tasks -> 0 .. BUFFER_SIZE]
  /\ i \in [Tasks -> 0 .. BUFFER_SIZE]

(* A call that returns, or ends in an oops, leaves its task without a file *)
(* and the other tasks alone.                                              *)
LEMMA ReturnCall ==
  ASSUME CallTypeOK, NEW t \in Tasks, Return(t) \/ Oops(t)
  PROVE  /\ CallTypeOK'
         /\ pc'[t] \in {"user", "killed"} /\ file'[t] = NULL
         /\ \A u \in Tasks \ {t} : pc'[u] = pc[u] /\ file'[u] = file[u]
  BY DeviceAssumption DEF CallTypeOK, Return, Oops, Labels, Writing

(* One that is entered names its file. *)
LEMMA EnterCall ==
  ASSUME CallTypeOK, NEW t \in Tasks, NEW f \in Files, NEW label \in Labels \ Writing,
         Enter(t, f, label), UNCHANGED <<text, len, i>>
  PROVE  /\ CallTypeOK'
         /\ pc'[t] = label /\ file'[t] = f
         /\ \A u \in Tasks \ {t} : pc'[u] = pc[u] /\ file'[u] = file[u]
  BY DEF CallTypeOK, Enter, Labels, Writing

(* The rest of TypeOK: the variables of driver and kernel, and what ties a *)
(* call to its file.                                                       *)
DriverTypeOK ==
  /\ module \in {"out", "class", "encrypt", "decrypt", "in", "failed", "gone", "dying"}
  /\ registered \subseteq {"chrdev", "class", "encrypt", "decrypt"}
  /\ locked \in [Devices -> BOOLEAN]
  /\ buf \in [Devices -> Blocks \cup {NULL}]
  /\ allocated \subseteq Blocks
  /\ mem \in [Blocks -> Buffers]
  /\ minor \in [Files -> Minors \cup {NULL}]

FileOK ==
  \A t \in Tasks : IF pc[t] \in {"user", "killed"} THEN file[t] = NULL
                   ELSE file[t] # NULL /\ minor[file[t]] \in Devices

LEMMA TypeParts == TypeOK <=> CallTypeOK /\ DriverTypeOK /\ FileOK
BY DEF TypeOK, CallTypeOK, DriverTypeOK, FileOK

LEMMA InvJoin ==
  ASSUME CallTypeOK', DriverTypeOK', FileOK', OneOpener', Alone', Closed'
  PROVE  Inv'
BY DEF Inv, TypeOK, CallTypeOK, DriverTypeOK, FileOK

-----------------------------------------------------------------------------
(* The invariant, action by action.                                        *)

LEMMA InvInit == Init => Inv
<1> SUFFICES ASSUME Init PROVE Inv
  OBVIOUS
<1>1. TypeOK
  <2>1. \A g \in Garbage : g \in Buffers
    BY DeviceAssumption
  <2> QED
    BY <2>1, DeviceAssumption DEF Init, TypeOK, Labels, Writing
<1>2. OneOpener
  BY DeviceAssumption DEF Init, OneOpener, Devices
<1> QED
  BY <1>1, <1>2 DEF Init, Inv, Alone, Closed

LEMMA InitStep ==
  ASSUME Inv, InitChrdev \/ InitClass \/ InitEncrypt \/ InitDecrypt \/ Exit
  PROVE  Inv'
<1> USE DEF InitChrdev, InitClass, InitEncrypt, InitDecrypt, Exit
<1>0. CallTypeOK /\ DriverTypeOK /\ FileOK
  BY TypeParts DEF Inv
<1>1. UNCHANGED <<buf, allocated, mem, minor, pc, file, text, len, i>>
  BY DEF driver, call
<1>2. CallTypeOK' /\ FileOK' /\ Alone'
  BY <1>0, <1>1 DEF Inv, CallTypeOK, FileOK, Alone
<1>3. DriverTypeOK'
  <2>1. locked' \in [Devices -> BOOLEAN]
    BY <1>0 DEF DriverTypeOK, driver
  <2> QED
    BY <1>0, <1>1, <2>1 DEF DriverTypeOK, Register, Fail
<1>4. OneOpener'
  <2>1. CASE InitChrdev
    <3>1. \A f \in Files : minor[f] = NULL
      BY <2>1 DEF Inv, Closed
    <3>2. NULL \notin Devices
      BY DeviceAssumption
    <3> QED
      BY <1>1, <2>1, <3>1, <3>2 DEF OneOpener
  <2>2. CASE ~InitChrdev
    BY <1>1, <2>2 DEF Inv, OneOpener, driver
  <2> QED
    BY <2>1, <2>2
<1>5. Closed'
  BY DEF Closed, Register, Fail
<1> QED
  BY <1>2, <1>3, <1>4, <1>5, InvJoin

LEMMA OpenStep ==
  ASSUME Inv, NEW t \in Tasks, NEW f \in Files, NEW m \in Minors, Open(t, f, m)
  PROVE  Inv'
<1>0. CallTypeOK /\ DriverTypeOK /\ FileOK /\ OneOpener /\ Alone
  BY TypeParts DEF Inv
<1>1. pc[t] = "user" /\ minor[f] = NULL /\ module # "out"
      /\ UNCHANGED <<kernel, buf, allocated, mem, history>>
  BY DEF Open, Inv, Closed
<1>2. \A u \in Tasks : file[u] # f
  BY <1>0, <1>1, DeviceAssumption DEF FileOK
<1>3. CASE UNCHANGED <<locked, minor, call>>
  BY <1>0, <1>1, <1>3, InvJoin DEF CallTypeOK, DriverTypeOK, FileOK, OneOpener,
                          Alone, Closed, call, kernel
<1>4. CASE m \in Devices /\ ~locked[m] /\ Enter(t, f, "open.alloc")
  <2>1. /\ locked' = [locked EXCEPT ![m] = TRUE]
        /\ minor' = [minor EXCEPT ![f] = m]
        /\ UNCHANGED <<text, len, i>>
    BY <1>0, <1>4 DEF Open
  <2>2. /\ CallTypeOK'
        /\ pc'[t] = "open.alloc" /\ file'[t] = f
        /\ \A u \in Tasks \ {t} : pc'[u] = pc[u] /\ file'[u] = file[u]
    BY <1>0, <1>4, <2>1, EnterCall DEF Labels, Writing
  <2>3. DriverTypeOK'
    BY <1>0, <1>1, <2>1 DEF DriverTypeOK, kernel
  <2>4. FileOK'
    BY <1>0, <1>2, <1>4, <2>1, <2>2, DeviceAssumption
    DEF FileOK, CallTypeOK, DriverTypeOK
  <2>5. OneOpener'
    BY <1>0, <1>1, <1>4, <2>1, DeviceAssumption DEF OneOpener, DriverTypeOK
  <2>6. Alone' /\ Closed'
    BY <1>0, <1>1, <1>2, <2>2 DEF Alone, Closed, kernel
  <2> QED
    BY <2>2, <2>3, <2>4, <2>5, <2>6, InvJoin
<1>5. CASE m \notin Devices /\ minor' = [minor EXCEPT ![f] = m] /\ Return(t)
           /\ UNCHANGED locked
  <2>1. /\ CallTypeOK'
        /\ pc'[t] \in {"user", "killed"} /\ file'[t] = NULL
        /\ \A u \in Tasks \ {t} : pc'[u] = pc[u] /\ file'[u] = file[u]
    BY <1>0, <1>5, ReturnCall
  <2>2. DriverTypeOK'
    BY <1>0, <1>1, <1>5 DEF DriverTypeOK, kernel
  <2>3. FileOK'
    BY <1>0, <1>2, <1>5, <2>1 DEF FileOK, CallTypeOK, DriverTypeOK
  <2>4. OneOpener'
    BY <1>0, <1>1, <1>5, DeviceAssumption DEF OneOpener, DriverTypeOK
  <2>5. Alone' /\ Closed'
    BY <1>0, <1>1, <2>1 DEF Alone, Closed, kernel
  <2> QED
    BY <2>1, <2>2, <2>3, <2>4, <2>5, InvJoin
<1> QED
  BY <1>1, <1>3, <1>4, <1>5 DEF Open

(* A step of t that leaves driver mutexes and files alone, and ends the    *)
(* call of t or goes on with it.                                           *)
LEMMA CallStep ==
  ASSUME Inv, NEW t \in Tasks, CallTypeOK', DriverTypeOK',
         UNCHANGED <<kernel, locked, minor>>,
         \A u \in Tasks \ {t} : pc'[u] = pc[u] /\ file'[u] = file[u],
         \/ pc'[t] \in {"user", "killed"} /\ file'[t] = NULL
         \/ /\ pc'[t] \in Writing
            /\ file'[t] # NULL /\ minor[file'[t]] \in Devices
            /\ \A u \in Tasks \ {t} : file[u] = file'[t] => pc[u] \in Writing
  PROVE  Inv'
<1>0. FileOK /\ OneOpener /\ Alone /\ Closed
  BY TypeParts DEF Inv
<1>1. FileOK'
  BY <1>0 DEF FileOK, Writing
<1>2. Alone'
  BY <1>0 DEF Alone
<1>3. OneOpener' /\ Closed'
  BY <1>0 DEF OneOpener, Closed, kernel
<1> QED
  BY <1>1, <1>2, <1>3, InvJoin

LEMMA OpenAllocStep ==
  ASSUME Inv, NEW t \in Tasks, OpenAlloc(t)
  PROVE  Inv'
<1>0. CallTypeOK /\ DriverTypeOK /\ FileOK
  BY TypeParts DEF Inv
<1>1. minor[file[t]] \in Devices
  BY <1>0 DEF OpenAlloc, FileOK
<1>2. DriverTypeOK'
  BY <1>0, <1>1 DEF OpenAlloc, DriverTypeOK, kernel
<1>3. Return(t) /\ UNCHANGED <<kernel, locked, minor>>
  BY DEF OpenAlloc
<1> QED
  BY <1>0, <1>2, <1>3, ReturnCall, CallStep

LEMMA ReadStep ==
  ASSUME Inv, NEW t \in Tasks, NEW f \in Files, Read(t, f)
  PROVE  Inv'
<1>0. CallTypeOK /\ DriverTypeOK /\ FileOK
  BY TypeParts DEF Inv
<1>1. UNCHANGED <<kernel, driver, mem, minor>>
  BY DEF Read
<1>2. DriverTypeOK'
  BY <1>0, <1>1 DEF DriverTypeOK, kernel, driver
<1>3. CASE Oops(t)
  BY <1>0, <1>1, <1>2, <1>3, ReturnCall, CallStep DEF driver
<1>4. CASE UNCHANGED call
  BY <1>0, <1>1, <1>2, <1>4, InvJoin
  DEF Inv, CallTypeOK, FileOK, OneOpener, Alone, Closed, call, driver, kernel
<1> QED
  BY <1>3, <1>4 DEF Read

LEMMA WriteStep ==
  ASSUME Inv, NEW t \in Tasks, NEW f \in Files, NEW s \in Texts,
         NEW n \in 0 .. BUFFER_SIZE + 1, Write(t, f, s, n)
  PROVE  Inv'
<1>0. CallTypeOK /\ DriverTypeOK /\ FileOK
  BY TypeParts DEF Inv
<1>1. UNCHANGED <<kernel, driver, mem, minor>>
  BY DEF Write
<1>2. DriverTypeOK'
  BY <1>0, <1>1 DEF DriverTypeOK, kernel, driver
<1>3. CASE UNCHANGED call
  BY <1>0, <1>1, <1>2, <1>3, InvJoin
  DEF Inv, CallTypeOK, FileOK, OneOpener, Alone, Closed, call, driver, kernel
<1>4. CASE /\ n <= BUFFER_SIZE /\ minor[f] \in Devices
           /\ Enter(t, f, "write.copy")
           /\ text' = [text EXCEPT ![t] = s]
           /\ len' = [len EXCEPT ![t] = n]
           /\ UNCHANGED i
  <2>1. s \in Buffers /\ n \in 0 .. BUFFER_SIZE
    BY <1>4, DeviceAssumption
  <2>2. CallTypeOK'
    BY <1>0, <1>4, <2>1 DEF CallTypeOK, Enter, Labels, Writing
  <2>3. /\ pc'[t] = "write.copy" /\ file'[t] = f
        /\ \A u \in Tasks \ {t} : pc'[u] = pc[u] /\ file'[u] = file[u]
    BY <1>0, <1>4 DEF CallTypeOK, Enter
  <2>4. \A u \in Tasks : file[u] = f => pc[u] \in Writing
    BY DEF Write, Usable
  <2>5. f # NULL
    BY DeviceAssumption
  <2> QED
    BY <1>1, <1>2, <1>4, <2>2, <2>3, <2>4, <2>5, CallStep DEF Writing, driver
<1> QED
  BY <1>3, <1>4 DEF Write

LEMMA WriteCopyStep ==
  ASSUME Inv, NEW t \in Tasks, WriteCopy(t)
  PROVE  Inv'
<1>0. CallTypeOK /\ DriverTypeOK /\ FileOK /\ Alone
  BY TypeParts DEF Inv
<1> DEFINE b == buf[minor[file[t]]]
<1>1. pc[t] = "write.copy" /\ UNCHANGED <<kernel, locked, buf, allocated, minor>>
  BY DEF WriteCopy, driver
<1>2. file[t] # NULL /\ minor[file[t]] \in Devices /\ text[t] \in Buffers
  BY <1>0, <1>1 DEF FileOK, CallTypeOK, Writing
<1>3. b \in Blocks \cup {NULL}
  BY <1>0, <1>2 DEF DriverTypeOK
<1>4. DriverTypeOK'
  <2>1. CASE UNCHANGED mem
    BY <1>0, <1>1, <2>1 DEF DriverTypeOK, kernel
  <2>2. ASSUME NEW n \in 0 .. len[t], b # NULL,
               mem' = [mem EXCEPT ![b] = Copied(t, n, mem[b])]
        PROVE  DriverTypeOK'
    <3>1. mem[b] \in Buffers
      BY <1>0, <1>3, <2>2 DEF DriverTypeOK
    <3>2. Copied(t, n, mem[b]) \in Buffers
      <4>1. 0 \in Char
        BY DEF Char
      <4> DEFINE old == mem[b]
                 s == text[t]
      <4>2. old \in Buffers /\ s \in Buffers
        BY <1>2, <3>1
      <4> HIDE DEF old, s
      <4>3. \A j \in 1 .. BUFFER_SIZE :
              (IF j <= n THEN s[j] ELSE IF j <= len[t] THEN 0 ELSE old[j]) \in Char
        BY <4>1, <4>2 DEF Buffers
      <4>4. [j \in 1 .. BUFFER_SIZE |->
               IF j <= n THEN s[j] ELSE IF j <= len[t] THEN 0 ELSE old[j]] \in Buffers
        BY <4>3, Zenon DEF Buffers
      <4> QED
        BY <4>4 DEF Copied, s, old
    <3>3. mem' \in [Blocks -> Buffers]
      BY <1>0, <2>2, <3>2 DEF DriverTypeOK
    <3> QED
      BY <1>0, <1>1, <3>3 DEF DriverTypeOK, kernel
  <2> QED
    BY <2>1, <2>2 DEF WriteCopy
<1>5. CASE Oops(t) \/ Return(t)
  BY <1>0, <1>1, <1>4, <1>5, ReturnCall, CallStep
<1>6. CASE /\ pc' = [pc EXCEPT ![t] = "write.loop"]
           /\ UNCHANGED <<file, text, len, i>>
  <2>1. CallTypeOK'
    BY <1>0, <1>1, <1>6 DEF CallTypeOK, Labels, Writing
  <2>2. /\ pc'[t] = "write.loop" /\ file'[t] = file[t]
        /\ \A u \in Tasks \ {t} : pc'[u] = pc[u] /\ file'[u] = file[u]
    BY <1>0, <1>6 DEF CallTypeOK
  <2>3. \A u \in Tasks \ {t} : file[u] = file[t] => pc[u] \in Writing
    BY <1>0, <1>2 DEF Alone
  <2> QED
    BY <1>1, <1>2, <1>4, <2>1, <2>2, <2>3, CallStep DEF Writing
<1> QED
  BY <1>5, <1>6 DEF WriteCopy

LEMMA WriteLoopStep ==
  ASSUME Inv, NEW t \in Tasks, WriteLoop(t)
  PROVE  Inv'
<1>0. CallTypeOK /\ DriverTypeOK /\ FileOK /\ Alone
  BY TypeParts DEF Inv
<1> DEFINE m == minor[file[t]]
           j == i[t] + 1
<1>1. pc[t] = "write.loop" /\ UNCHANGED <<kernel, locked, buf, allocated, minor>>
  BY DEF WriteLoop, driver
<1>2. file[t] # NULL /\ m \in Devices
  BY <1>0, <1>1 DEF FileOK
<1>3. CASE Return(t) /\ UNCHANGED mem
  <2>1. DriverTypeOK'
    BY <1>0, <1>1, <1>3 DEF DriverTypeOK, kernel
  <2> QED
    BY <1>0, <1>1, <1>3, <2>1, ReturnCall, CallStep
<1>4. CASE /\ j <= len[t]
           /\ mem' = [mem EXCEPT ![buf[m]][j] = Translate(m, @)]
           /\ i' = [i EXCEPT ![t] = j]
           /\ UNCHANGED <<pc, file, text, len>>
  <2>1. j \in 1 .. BUFFER_SIZE
    BY <1>0, <1>4, DeviceAssumption DEF CallTypeOK
  <2>2. mem' \in [Blocks -> Buffers]
    <3>1. CASE buf[m] \in Blocks
      <4>1. mem[buf[m]] \in Buffers /\ mem[buf[m]][j] \in Char
        BY <1>0, <2>1, <3>1 DEF DriverTypeOK, Buffers
      <4>2. Translate(m, mem[buf[m]][j]) \in Char
        BY <4>1, TranslateType
      <4>3. [mem[buf[m]] EXCEPT ![j] = Translate(m, mem[buf[m]][j])] \in Buffers
        BY <4>1, <4>2 DEF Buffers
      <4> QED
        BY <1>0, <1>4, <4>3 DEF DriverTypeOK
    <3>2. CASE buf[m] \notin Blocks
      BY <1>0, <1>4, <3>2 DEF DriverTypeOK
    <3> QED
      BY <3>1, <3>2
  <2>3. DriverTypeOK'
    BY <1>0, <1>1, <2>2 DEF DriverTypeOK, kernel
  <2>4. CallTypeOK'
    BY <1>0, <1>4, <2>1 DEF CallTypeOK
  <2>5. \A u \in Tasks \ {t} : file[u] = file[t] => pc[u] \in Writing
    BY <1>0, <1>2 DEF Alone
  <2> QED
    BY <1>1, <1>2, <1>4, <2>3, <2>4, <2>5, CallStep DEF Writing
<1> QED
  BY <1>3, <1>4 DEF WriteLoop

LEMMA ReleaseFreeStep ==
  ASSUME Inv, NEW t \in Tasks, NEW f \in Files, ReleaseFree(t, f)
  PROVE  Inv'
<1>0. CallTypeOK /\ DriverTypeOK /\ FileOK /\ OneOpener /\ Alone /\ Closed
  BY TypeParts DEF Inv
<1>1. /\ UNCHANGED <<kernel, locked, buf>>
      /\ \A u \in Tasks : file[u] # f
      /\ pc[t] = "user" /\ minor[f] # NULL
  BY DEF ReleaseFree, Usable
<1>2. CASE minor[f] \in Devices
  <2>1. /\ Enter(t, f, "release.unlock")
        /\ UNCHANGED <<minor, text, len, i>>
        /\ allocated' \subseteq allocated
        /\ \/ UNCHANGED mem
           \/ \E g \in Garbage : mem' = [mem EXCEPT ![buf[minor[f]]] = g]
    BY <1>2 DEF ReleaseFree
  <2>2. /\ CallTypeOK'
        /\ pc'[t] = "release.unlock" /\ file'[t] = f
        /\ \A u \in Tasks \ {t} : pc'[u] = pc[u] /\ file'[u] = file[u]
    BY <1>0, <2>1, EnterCall DEF Labels, Writing
  <2>3. DriverTypeOK'
    <3>1. \A g \in Garbage : g \in Buffers
      BY DeviceAssumption
    <3>2. mem' \in [Blocks -> Buffers]
      BY <1>0, <2>1, <3>1 DEF DriverTypeOK
    <3> QED
      BY <1>0, <1>1, <2>1, <3>2 DEF DriverTypeOK, kernel
  <2>4. FileOK' /\ Alone'
    BY <1>0, <1>1, <1>2, <2>1, <2>2, DeviceAssumption DEF FileOK, Alone
  <2>5. OneOpener' /\ Closed'
    BY <1>0, <1>1, <2>1 DEF OneOpener, Closed, kernel
  <2> QED
    BY <2>2, <2>3, <2>4, <2>5, InvJoin
<1>3. CASE minor[f] \notin Devices
  <2>1. /\ minor' = [minor EXCEPT ![f] = NULL]
        /\ Return(t) /\ UNCHANGED <<allocated, mem>>
    BY <1>3 DEF ReleaseFree
  <2>2. /\ CallTypeOK'
        /\ pc'[t] \in {"user", "killed"} /\ file'[t] = NULL
        /\ \A u \in Tasks \ {t} : pc'[u] = pc[u] /\ file'[u] = file[u]
    BY <1>0, <2>1, ReturnCall
  <2>3. DriverTypeOK' /\ Closed'
    BY <1>0, <1>1, <2>1 DEF DriverTypeOK, Closed, kernel
  <2>4. FileOK'
    BY <1>0, <1>1, <2>1, <2>2 DEF FileOK, CallTypeOK, DriverTypeOK
  <2>5. OneOpener' /\ Alone'
    BY <1>0, <1>1, <1>3, <2>1, <2>2, DeviceAssumption DEF OneOpener, Alone, DriverTypeOK
  <2> QED
    BY <2>2, <2>3, <2>4, <2>5, InvJoin
<1> QED
  BY <1>2, <1>3

LEMMA ReleaseUnlockStep ==
  ASSUME Inv, NEW t \in Tasks, ReleaseUnlock(t)
  PROVE  Inv'
<1>0. CallTypeOK /\ DriverTypeOK /\ FileOK /\ OneOpener /\ Alone /\ Closed
  BY TypeParts DEF Inv
<1> DEFINE f == file[t]
<1>1. /\ pc[t] = "release.unlock"
      /\ locked' = [locked EXCEPT ![minor[f]] = FALSE]
      /\ minor' = [minor EXCEPT ![f] = NULL]
      /\ Return(t)
      /\ UNCHANGED <<kernel, buf, allocated, mem>>
  BY DEF ReleaseUnlock
<1>2. f \in Files /\ minor[f] \in Devices /\ f # NULL
  BY <1>0, <1>1 DEF FileOK, CallTypeOK
<1>3. \A u \in Tasks \ {t} : file[u] # f
  BY <1>0, <1>1, <1>2 DEF Alone, Writing
<1>4. /\ CallTypeOK'
      /\ pc'[t] \in {"user", "killed"} /\ file'[t] = NULL
      /\ \A u \in Tasks \ {t} : pc'[u] = pc[u] /\ file'[u] = file[u]
  BY <1>0, <1>1, ReturnCall
<1>5. DriverTypeOK' /\ Closed'
  BY <1>0, <1>1, <1>2 DEF DriverTypeOK, Closed, kernel
<1>6. FileOK' /\ Alone'
  <2> HIDE DEF f
  <2>1. \A g \in Files \ {f} : minor'[g] = minor[g]
    BY <1>0, <1>1 DEF DriverTypeOK
  <2> QED
    BY <1>0, <1>3, <1>4, <2>1 DEF FileOK, Alone, CallTypeOK
<1>7. OneOpener'
  <2> HIDE DEF f
  <2> QED
    BY <1>0, <1>1, <1>2, DeviceAssumption DEF OneOpener, DriverTypeOK
<1> QED
  BY <1>4, <1>5, <1>6, <1>7, InvJoin

LEMMA InvStep == Inv /\ [Next]_vars => Inv'
<1> SUFFICES ASSUME Inv, [Next]_vars PROVE Inv'
  OBVIOUS
<1>1. CASE UNCHANGED vars
  BY <1>1 DEF Inv, TypeOK, OneOpener, Alone, Closed, vars, kernel, driver, call
<1>2. ASSUME NEW t \in Tasks, Step(t) PROVE Inv'
  BY <1>2, OpenAllocStep, WriteCopyStep, WriteLoopStep, ReleaseUnlockStep, OpenStep,
     ReadStep, WriteStep, ReleaseFreeStep DEF Step
<1> QED
  BY <1>1, <1>2, InitStep DEF Next

(* Pointers, chars and minor numbers stay what they are, and every call in *)
(* the driver is on an open file of one of its devices.                    *)
THEOREM DeviceTypeCorrect == Spec => []TypeOK
<1>1. Inv => TypeOK
  BY DEF Inv
<1> QED
  BY <1>1, InvInit, InvStep, PTL DEF Spec

(* However opens, closes, failing opens and killed tasks interleave, and   *)
(* also while caesar_init is still running: the mutex of a device is held  *)
(* exactly while one file is open on it.                                   *)
THEOREM ExclusiveOpen == Spec => []OneOpener
<1>1. Inv => OneOpener
  BY DEF Inv
<1> QED
  BY <1>1, InvInit, InvStep, PTL DEF Spec

-----------------------------------------------------------------------------
(* The buffers.  A step changes at most one device's being in use.         *)

LEMMA OwnBufferDef ==
  OwnBuffer <=>
    /\ \A b : b \in allocated <=>
               b # NULL /\ \E m \in Devices : InUse(m) /\ buf[m] = b
    /\ \A m, n \in Devices :
         InUse(m) /\ InUse(n) /\ m # n /\ buf[m] # NULL => buf[m] # buf[n]
BY DEF OwnBuffer

(* A task in the middle of an open or a close keeps its device to itself.  *)
LEMMA SoleCall ==
  ASSUME Inv, NEW t \in Tasks, pc[t] \in {"open.alloc", "release.unlock"}
  PROVE  /\ file[t] \in Files /\ minor[file[t]] \in Devices /\ file[t] # NULL
         /\ locked[minor[file[t]]] /\ ~InUse(minor[file[t]])
         /\ \A u \in Tasks \ {t} : file[u] # NULL =>
              file[u] # file[t] /\ minor[file[u]] # minor[file[t]]
<1>0. CallTypeOK /\ FileOK /\ OneOpener /\ Alone
  BY TypeParts DEF Inv
<1>1. file[t] \in Files /\ minor[file[t]] \in Devices /\ file[t] # NULL
  BY <1>0 DEF CallTypeOK, FileOK
<1>2. locked[minor[file[t]]]
  BY <1>0, <1>1 DEF OneOpener
<1>3. \A u \in Tasks \ {t} : file[u] # NULL => file[u] # file[t] /\ file[u] \in Files
  BY <1>0, <1>1 DEF Alone, CallTypeOK, Writing
<1>4. \A u \in Tasks \ {t} : file[u] # NULL => minor[file[u]] # minor[file[t]]
  BY <1>0, <1>1, <1>3 DEF OneOpener
<1> QED
  BY <1>1, <1>2, <1>3, <1>4 DEF InUse

(* A step in which the task neither opens nor closes. *)
LEMMA SameUse ==
  ASSUME NEW t \in Tasks, UNCHANGED <<locked, minor>>,
         \A u \in Tasks \ {t} : pc'[u] = pc[u] /\ file'[u] = file[u],
         pc[t] \notin {"open.alloc", "release.unlock"},
         pc'[t] \notin {"open.alloc", "release.unlock"}
  PROVE  \A m : InUse(m)' <=> InUse(m)
BY DEF InUse

LEMMA OwnInit == Init => OwnBuffer
BY DEF Init, OwnBuffer, InUse

LEMMA UseInit ==
  ASSUME Inv, InitChrdev \/ InitClass \/ InitEncrypt \/ InitDecrypt \/ Exit
  PROVE  /\ UNCHANGED <<buf, allocated, mem, minor, call, history>>
         /\ \A m : InUse(m)' <=> InUse(m)
<1> USE DEF InitChrdev, InitClass, InitEncrypt, InitDecrypt, Exit
<1>0. DriverTypeOK /\ OneOpener /\ Closed
  BY TypeParts DEF Inv
<1>1. UNCHANGED <<buf, allocated, mem, minor, call, history>>
  BY DEF driver
<1>2. UNCHANGED locked
  <2>1. CASE InitChrdev
    <3>1. \A m \in Devices : ~locked[m]
      BY <1>0, <2>1, DeviceAssumption DEF Closed, OneOpener
    <3> QED
      BY <1>0, <2>1, <3>1 DEF DriverTypeOK
  <2>2. CASE ~InitChrdev
    BY <2>2 DEF driver
  <2> QED
    BY <2>1, <2>2
<1>3. \A m : InUse(m)' <=> InUse(m)
  BY <1>1, <1>2 DEF InUse, call
<1> QED
  BY <1>1, <1>3

LEMMA OwnInitStep ==
  ASSUME Inv, OwnBuffer, InitChrdev \/ InitClass \/ InitEncrypt \/ InitDecrypt \/ Exit
  PROVE  OwnBuffer'
BY UseInit DEF OwnBuffer

LEMMA UseOpen ==
  ASSUME Inv, NEW t \in Tasks, NEW f \in Files, NEW m \in Minors, Open(t, f, m)
  PROVE  /\ UNCHANGED <<buf, allocated, mem, history>>
         /\ pc[t] = "user" /\ pc'[t] \in {"user", "killed", "open.alloc"}
         /\ \A u \in Tasks \ {t} : pc'[u] = pc[u] /\ file'[u] = file[u]
         /\ \A u \in Tasks : file[u] # NULL => minor'[file[u]] = minor[file[u]]
         /\ \A d \in Devices : InUse(d)' <=> InUse(d)
<1>0. CallTypeOK /\ DriverTypeOK /\ FileOK
  BY TypeParts DEF Inv
<1>1. pc[t] = "user" /\ minor[f] = NULL /\ UNCHANGED <<buf, allocated, mem, history>>
  BY DEF Open
<1>2. \A u \in Tasks : file[u] # f
  BY <1>0, <1>1, DeviceAssumption DEF FileOK
<1>3. CASE UNCHANGED <<locked, minor, call>>
  BY <1>1, <1>3 DEF InUse, call
<1>4. CASE m \in Devices /\ ~locked[m] /\ Enter(t, f, "open.alloc")
  <2>1. /\ locked' = [locked EXCEPT ![m] = TRUE]
        /\ minor' = [minor EXCEPT ![f] = m]
        /\ UNCHANGED <<text, len, i>>
    BY <1>0, <1>4 DEF Open
  <2>2. /\ pc'[t] = "open.alloc" /\ file'[t] = f
        /\ \A u \in Tasks \ {t} : pc'[u] = pc[u] /\ file'[u] = file[u]
    BY <1>0, <1>4, <2>1, EnterCall DEF Labels, Writing
  <2>3. \A g \in Files \ {f} : minor'[g] = minor[g]
    BY <1>0, <2>1 DEF DriverTypeOK
  <2>4. ~InUse(m) /\ ~InUse(m)'
    BY <1>0, <1>4, <2>1, <2>2, DeviceAssumption DEF InUse, DriverTypeOK
  <2>5. \A u \in Tasks : file[u] # NULL => file[u] \in Files \ {f}
    BY <1>0, <1>2 DEF CallTypeOK
  <2>6. \A d \in Devices \ {m} : InUse(d)' <=> InUse(d)
    <3>1. \A d \in Devices \ {m} : locked'[d] = locked[d]
      BY <1>0, <2>1 DEF DriverTypeOK
    <3>2. minor'[f] = m /\ file[t] = NULL
      BY <1>0, <1>1, <2>1 DEF DriverTypeOK, FileOK
    <3> QED
      BY <2>2, <2>3, <2>5, <3>1, <3>2 DEF InUse
  <2> QED
    BY <1>1, <2>2, <2>3, <2>4, <2>5, <2>6
<1>5. CASE m \notin Devices /\ minor' = [minor EXCEPT ![f] = m] /\ Return(t)
           /\ UNCHANGED locked
  <2>1. /\ pc'[t] \in {"user", "killed"} /\ file'[t] = NULL
        /\ \A u \in Tasks \ {t} : pc'[u] = pc[u] /\ file'[u] = file[u]
    BY <1>0, <1>5, ReturnCall
  <2>2. \A u \in Tasks : file[u] # NULL => minor'[file[u]] = minor[file[u]]
    BY <1>0, <1>2, <1>5 DEF CallTypeOK, DriverTypeOK
  <2>3. \A d \in Devices : InUse(d)' <=> InUse(d)
    BY <1>1, <1>5, <2>1, <2>2 DEF InUse
  <2> QED
    BY <1>1, <2>1, <2>2, <2>3
<1> QED
  BY <1>1, <1>3, <1>4, <1>5 DEF Open

LEMMA OwnOpen ==
  ASSUME Inv, OwnBuffer, NEW t \in Tasks, NEW f \in Files, NEW m \in Minors,
         Open(t, f, m)
  PROVE  OwnBuffer'
BY UseOpen DEF OwnBuffer

LEMMA UseOpenAlloc ==
  ASSUME Inv, NEW t \in Tasks, OpenAlloc(t), NEW m, m = minor[file[t]]
  PROVE  /\ m \in Devices /\ ~InUse(m) /\ InUse(m)'
         /\ \A d \in Devices \ {m} : InUse(d)' <=> InUse(d)
<1>0. CallTypeOK
  BY TypeParts DEF Inv
<1>1. /\ pc[t] = "open.alloc" /\ Return(t) /\ UNCHANGED <<locked, minor>>
  BY DEF OpenAlloc
<1>2. /\ m \in Devices /\ locked[m] /\ ~InUse(m)
      /\ \A u \in Tasks \ {t} : file[u] # NULL => minor[file[u]] # m
  BY <1>1, SoleCall
<1>3. /\ pc'[t] \in {"user", "killed"} /\ file'[t] = NULL
      /\ \A u \in Tasks \ {t} : pc'[u] = pc[u] /\ file'[u] = file[u]
  BY <1>0, <1>1, ReturnCall
<1>4. InUse(m)'
  <2>1. locked'[m]
    BY <1>1, <1>2
  <2>2. \A u \in Tasks : file'[u] # NULL => minor'[file'[u]] # m
    BY <1>1, <1>2, <1>3
  <2> QED
    BY <2>1, <2>2 DEF InUse
<1>5. \A d \in Devices \ {m} : InUse(d)' <=> InUse(d)
  BY <1>1, <1>3 DEF InUse
<1> QED
  BY <1>2, <1>4, <1>5

LEMMA OwnOpenAlloc ==
  ASSUME Inv, OwnBuffer, NEW t \in Tasks, OpenAlloc(t)
  PROVE  OwnBuffer'
<1>0. DriverTypeOK
  BY TypeParts DEF Inv
<1>1. PICK m : m = minor[file[t]]
  OBVIOUS
<1>2. m \in Devices /\ ~InUse(m) /\ InUse(m)'
  BY <1>1, UseOpenAlloc
<1>3. \A d \in Devices \ {m} : InUse(d)' <=> InUse(d)
  BY <1>1, UseOpenAlloc
<1>4. PICK b \in (Blocks \ allocated) \cup {NULL} :
        /\ buf' = [buf EXCEPT ![m] = b]
        /\ allocated' = IF b = NULL THEN allocated ELSE allocated \cup {b}
  BY <1>1, DeviceAssumption DEF OpenAlloc
<1>5. buf'[m] = b /\ \A d \in Devices \ {m} : buf'[d] = buf[d]
  BY <1>0, <1>2, <1>4 DEF DriverTypeOK
<1>6. \A d \in Devices : InUse(d) /\ buf[d] # NULL => buf[d] \in allocated
  BY OwnBufferDef
<1>7. \A c : c \in allocated' <=>
              c # NULL /\ \E d \in Devices : InUse(d)' /\ buf'[d] = c
  <2>1. \A c : (\E d \in Devices : InUse(d)' /\ buf'[d] = c) <=>
                c = b \/ \E d \in Devices : InUse(d) /\ buf[d] = c
    BY <1>2, <1>3, <1>5
  <2>2. \A c : c \in allocated' <=> c \in allocated \/ (c = b /\ c # NULL)
    BY <1>4
  <2>3. \A c : c \in allocated <=>
                c # NULL /\ \E d \in Devices : InUse(d) /\ buf[d] = c
    BY OwnBufferDef
  <2> QED
    BY <2>1, <2>2, <2>3, Zenon
<1>8. \A d, e \in Devices : InUse(d)' /\ InUse(e)' /\ d # e /\ buf'[d] # NULL
                              => buf'[d] # buf'[e]
  BY <1>2, <1>3, <1>4, <1>5, <1>6, OwnBufferDef
<1> QED
  BY <1>7, <1>8 DEF OwnBuffer

LEMMA UseReleaseFree ==
  ASSUME Inv, NEW t \in Tasks, NEW f \in Files, ReleaseFree(t, f), NEW m, m = minor[f]
  PROVE  /\ UNCHANGED <<locked, buf>>
         /\ pc[t] = "user" /\ pc'[t] \in {"user", "killed", "release.unlock"}
         /\ \A u \in Tasks \ {t} : pc'[u] = pc[u] /\ file'[u] = file[u]
         /\ \A u \in Tasks : file[u] # NULL =>
              minor[file[u]] # m \/ m \notin Devices
         /\ \A u \in Tasks : file[u] # NULL => minor'[file[u]] = minor[file[u]]
         /\ \A d \in Devices \ {m} : InUse(d)' <=> InUse(d)
         /\ m \in Devices => InUse(m) /\ ~InUse(m)'
<1>0. CallTypeOK /\ DriverTypeOK /\ FileOK /\ OneOpener
  BY TypeParts DEF Inv
<1>1. /\ UNCHANGED <<locked, buf>>
      /\ \A u \in Tasks : file[u] # f
      /\ pc[t] = "user" /\ m # NULL
  BY DEF ReleaseFree, Usable
<1>2. CASE m \in Devices
  <2>1. Enter(t, f, "release.unlock") /\ UNCHANGED <<minor, text, len, i>>
    BY <1>2 DEF ReleaseFree
  <2>2. /\ pc'[t] = "release.unlock" /\ file'[t] = f
        /\ \A u \in Tasks \ {t} : pc'[u] = pc[u] /\ file'[u] = file[u]
    BY <1>0, <2>1, EnterCall DEF Labels, Writing
  <2>3. \A u \in Tasks : file[u] # NULL => minor[file[u]] # m
    BY <1>0, <1>1, <1>2 DEF OneOpener, CallTypeOK
  <2>4. InUse(m) /\ ~InUse(m)'
    <3>1. locked[m] /\ f # NULL
      BY <1>0, <1>2, DeviceAssumption DEF OneOpener
    <3> QED
      BY <1>1, <2>1, <2>2, <2>3, <3>1 DEF InUse
  <2>5. \A d \in Devices \ {m} : InUse(d)' <=> InUse(d)
    <3>1. file[t] = NULL
      BY <1>0, <1>1 DEF FileOK
    <3> QED
      BY <1>1, <2>1, <2>2, <3>1 DEF InUse
  <2> QED
    BY <1>1, <2>1, <2>2, <2>3, <2>4, <2>5
<1>3. CASE m \notin Devices
  <2>1. minor' = [minor EXCEPT ![f] = NULL] /\ Return(t)
    BY <1>3 DEF ReleaseFree
  <2>2. /\ pc'[t] \in {"user", "killed"} /\ file'[t] = NULL
        /\ \A u \in Tasks \ {t} : pc'[u] = pc[u] /\ file'[u] = file[u]
    BY <1>0, <2>1, ReturnCall
  <2>3. \A u \in Tasks : file[u] # NULL => minor'[file[u]] = minor[file[u]]
    BY <1>0, <1>1, <2>1 DEF CallTypeOK, DriverTypeOK
  <2>4. \A d \in Devices : InUse(d)' <=> InUse(d)
    BY <1>1, <2>2, <2>3 DEF InUse
  <2> QED
    BY <1>1, <1>3, <2>2, <2>3, <2>4
<1> QED
  BY <1>2, <1>3

LEMMA OwnReleaseFree ==
  ASSUME Inv, OwnBuffer, NEW t \in Tasks, NEW f \in Files, ReleaseFree(t, f)
  PROVE  OwnBuffer'
<1>1. PICK m : m = minor[f]
  OBVIOUS
<1>2. /\ UNCHANGED buf
      /\ \A d \in Devices \ {m} : InUse(d)' <=> InUse(d)
      /\ m \in Devices => InUse(m) /\ ~InUse(m)'
  BY <1>1, UseReleaseFree
<1>3. CASE m \in Devices
  <2>1. allocated' = allocated \ {buf[m]}
    BY <1>1, <1>3 DEF ReleaseFree
  <2>2. \A c : c \in allocated' <=>
                c # NULL /\ \E d \in Devices : InUse(d)' /\ buf'[d] = c
    <3>1. \A c : (\E d \in Devices : InUse(d)' /\ buf'[d] = c) <=>
                  \E d \in Devices \ {m} : InUse(d) /\ buf[d] = c
      BY <1>2, <1>3
    <3>2. \A c : c \in allocated' <=> c \in allocated /\ c # buf[m]
      BY <2>1
    <3>3. \A c : c \in allocated <=>
                  c # NULL /\ \E d \in Devices : InUse(d) /\ buf[d] = c
      BY OwnBufferDef
    <3>4. \A d \in Devices \ {m} : InUse(d) /\ buf[d] # NULL => buf[d] # buf[m]
      BY <1>2, <1>3, OwnBufferDef
    <3> QED
      BY <1>3, <3>1, <3>2, <3>3, <3>4, Zenon
  <2>3. \A d, e \in Devices : InUse(d)' /\ InUse(e)' /\ d # e /\ buf'[d] # NULL
                                => buf'[d] # buf'[e]
    BY <1>2, <1>3, OwnBufferDef
  <2> QED
    BY <2>2, <2>3 DEF OwnBuffer
<1>4. CASE m \notin Devices
  <2>1. UNCHANGED allocated
    BY <1>1, <1>4 DEF ReleaseFree
  <2> QED
    BY <1>2, <1>4, <2>1 DEF OwnBuffer
<1> QED
  BY <1>3, <1>4

LEMMA UseReleaseUnlock ==
  ASSUME Inv, NEW t \in Tasks, ReleaseUnlock(t)
  PROVE  /\ UNCHANGED <<buf, allocated, mem, history>>
         /\ pc[t] = "release.unlock" /\ pc'[t] \in {"user", "killed"}
         /\ \A u \in Tasks \ {t} : pc'[u] = pc[u] /\ file'[u] = file[u]
         /\ \A u \in Tasks \ {t} : file[u] # NULL => minor'[file[u]] = minor[file[u]]
         /\ \A d \in Devices : InUse(d)' <=> InUse(d)
<1>0. CallTypeOK /\ DriverTypeOK
  BY TypeParts DEF Inv
<1>b. PICK f : f = file[t]
  OBVIOUS
<1>a. PICK m : m = minor[f]
  OBVIOUS
<1>1. /\ pc[t] = "release.unlock"
      /\ locked' = [locked EXCEPT ![m] = FALSE]
      /\ minor' = [minor EXCEPT ![f] = NULL]
      /\ Return(t)
      /\ UNCHANGED <<buf, allocated, mem, history>>
  BY <1>b, <1>a DEF ReleaseUnlock
<1>2. /\ f \in Files /\ m \in Devices /\ f # NULL /\ ~InUse(m)
      /\ \A u \in Tasks \ {t} : file[u] # NULL => file[u] # f /\ minor[file[u]] # m
  BY <1>1, <1>b, <1>a, SoleCall
<1>3. /\ pc'[t] \in {"user", "killed"} /\ file'[t] = NULL
      /\ \A u \in Tasks \ {t} : pc'[u] = pc[u] /\ file'[u] = file[u]
  BY <1>0, <1>1, ReturnCall
<1>4. ~InUse(m)' /\ \A d \in Devices \ {m} : locked'[d] = locked[d]
  BY <1>0, <1>1, <1>2 DEF InUse, DriverTypeOK
<1>5. \A u \in Tasks \ {t} : file[u] # NULL => minor'[file[u]] = minor[file[u]]
  BY <1>0, <1>1, <1>2 DEF CallTypeOK, DriverTypeOK
<1>6. \A d \in Devices \ {m} : InUse(d)' <=> InUse(d)
  BY <1>3, <1>4, <1>b, <1>a, <1>5 DEF InUse
<1>7. \A d \in Devices : InUse(d)' <=> InUse(d)
  BY <1>2, <1>4, <1>6
<1> QED
  BY <1>1, <1>3, <1>5, <1>7

LEMMA OwnReleaseUnlock ==
  ASSUME Inv, OwnBuffer, NEW t \in Tasks, ReleaseUnlock(t)
  PROVE  OwnBuffer'
BY UseReleaseUnlock DEF OwnBuffer

(* A call that reads or writes. *)
LEMMA UseCall ==
  ASSUME Inv, NEW t \in Tasks,
         \/ WriteCopy(t) \/ WriteLoop(t)
         \/ \E f \in Files : \/ Read(t, f)
                            \/ \E s \in Texts, n \in 0 .. BUFFER_SIZE + 1 : Write(t, f, s, n)
  PROVE  /\ UNCHANGED <<buf, allocated, minor>>
         /\ \A u \in Tasks \ {t} : pc'[u] = pc[u] /\ file'[u] = file[u]
         /\ \A m : InUse(m)' <=> InUse(m)
<1>0. CallTypeOK
  BY TypeParts DEF Inv
<1>1. CASE WriteCopy(t) \/ WriteLoop(t)
  <2>1. /\ UNCHANGED <<locked, buf, allocated, minor>>
        /\ pc[t] \in Writing
        /\ \/ UNCHANGED <<pc, file>>
           \/ pc' = [pc EXCEPT ![t] = "write.loop"] /\ UNCHANGED file
           \/ Oops(t) \/ Return(t)
    BY <1>1 DEF WriteCopy, WriteLoop, driver, Writing
  <2> QED
    BY <1>0, <2>1, ReturnCall, SameUse DEF Writing, CallTypeOK
<1>2. ASSUME NEW f \in Files,
             Read(t, f) \/ \E s \in Texts, n \in 0 .. BUFFER_SIZE + 1 : Write(t, f, s, n)
      PROVE  /\ UNCHANGED <<buf, allocated, minor>>
             /\ \A u \in Tasks \ {t} : pc'[u] = pc[u] /\ file'[u] = file[u]
             /\ \A m : InUse(m)' <=> InUse(m)
  <2>1. /\ UNCHANGED <<locked, buf, allocated, minor>>
        /\ pc[t] = "user"
        /\ \/ UNCHANGED <<pc, file>>
           \/ Enter(t, f, "write.copy")
           \/ Oops(t)
    BY <1>2 DEF Read, Write, Usable, driver, call
  <2> QED
    BY <1>0, <2>1, ReturnCall, SameUse DEF Enter, CallTypeOK
<1> QED
  BY <1>1, <1>2

LEMMA OwnStep == Inv /\ OwnBuffer /\ [Next]_vars => OwnBuffer'
<1> SUFFICES ASSUME Inv, OwnBuffer, [Next]_vars PROVE OwnBuffer'
  OBVIOUS
<1>1. CASE UNCHANGED vars
  BY <1>1 DEF OwnBuffer, InUse, vars, driver, call
<1>2. ASSUME NEW t \in Tasks, Step(t) PROVE OwnBuffer'
  <2>1. ASSUME \/ WriteCopy(t) \/ WriteLoop(t)
               \/ \E f \in Files :
                    \/ Read(t, f)
                    \/ \E s \in Texts, n \in 0 .. BUFFER_SIZE + 1 : Write(t, f, s, n)
        PROVE  OwnBuffer'
    BY <2>1, UseCall DEF OwnBuffer
  <2> QED
    BY <1>2, <2>1, OwnOpen, OwnOpenAlloc, OwnReleaseFree, OwnReleaseUnlock DEF Step
<1> QED
  BY <1>1, <1>2, OwnInitStep DEF Next

(* No use after free, no double free and no leak, for any number of tasks  *)
(* that share any number of files: the buffer of an open device is         *)
(* allocated and its own, and nothing else is allocated.                   *)
THEOREM BuffersOwned == Spec => []OwnBuffer
<1>1. Inv /\ OwnBuffer /\ [Next]_vars => OwnBuffer'
  BY OwnStep
<1> QED
  BY <1>1, InvInit, InvStep, OwnInit, PTL DEF Spec

-----------------------------------------------------------------------------
(* What the buffers contain.                                               *)

Loop(t, m) == pc[t] = "write.loop" /\ minor[file[t]] = m

Holds(m) ==
  \A j \in 1 .. BUFFER_SIZE : written[m][j] # Unknown =>
    mem[buf[m]][j] = IF Pending(m, j) THEN written[m][j]
                     ELSE Rotate(written[m][j], Shift(m))

(* Nothing is known of a buffer that is not in use, and where no writes    *)
(* have overlapped there is one loop at most.  Without the first a device  *)
(* would be opened with what its last opener wrote, without the second a   *)
(* loop would not find the chars as they were written.                     *)
Good(m) ==
  /\ ~InUse(m) => \A j \in 1 .. BUFFER_SIZE : written[m][j] = Unknown
  /\ m \notin raced => \A t, u \in Tasks : Loop(t, m) /\ Loop(u, m) => t = u
  /\ m \notin raced /\ InUse(m) /\ buf[m] # NULL => Holds(m)

(* A loop starts at the beginning.                                         *)
FromStart == \A t \in Tasks : pc[t] # "write.loop" => i[t] = 0

Known == written \in [Devices -> [1 .. BUFFER_SIZE -> Char \cup {Unknown}]]

Content == Known /\ FromStart /\ \A m \in Devices : Good(m)

(* A device that a step does not concern. *)
LEMMA Unconcerned ==
  ASSUME NEW m \in Devices, Good(m), InUse(m)' <=> InUse(m),
         buf'[m] = buf[m], written'[m] = written[m], m \in raced' <=> m \in raced,
         \A u \in Tasks : Loop(u, m)' <=> Loop(u, m),
         \A u \in Tasks : Loop(u, m) => i'[u] = i[u] /\ len'[u] = len[u],
         InUse(m) /\ buf[m] # NULL => mem'[buf[m]] = mem[buf[m]]
  PROVE  Good(m)'
<1>1. ASSUME NEW j \in 1 .. BUFFER_SIZE
      PROVE  Pending(m, j)' <=> Pending(m, j)
  BY DEF Pending, Loop
<1>2. InUse(m) /\ buf[m] # NULL /\ Holds(m) => Holds(m)'
  BY <1>1 DEF Holds, Shift
<1> QED
  BY <1>2 DEF Good

(* Nor has a step anything to do with the loops that leaves the loops of   *)
(* the others and their files alone.                                       *)
LEMMA OtherLoops ==
  ASSUME Inv, NEW t \in Tasks, pc[t] # "write.loop", pc'[t] # "write.loop",
         \A u \in Tasks \ {t} : pc'[u] = pc[u] /\ file'[u] = file[u],
         \A u \in Tasks \ {t} : file[u] # NULL => minor'[file[u]] = minor[file[u]]
  PROVE  \A u \in Tasks, m \in Devices : Loop(u, m)' <=> Loop(u, m)
<1>1. \A u \in Tasks : pc[u] = "write.loop" => file[u] # NULL
  BY TypeParts DEF Inv, FileOK
<1> QED
  BY <1>1 DEF Loop

(* How a call of t changes the progress of the tasks. *)
LEMMA Progress ==
  ASSUME CallTypeOK, FromStart, NEW t \in Tasks, pc[t] # "write.loop",
         \/ Return(t) \/ Oops(t) \/ UNCHANGED <<pc, i, len>>
         \/ \E f \in Files, label \in Labels \ {"write.loop"} :
              Enter(t, f, label) /\ UNCHANGED i /\ \A u \in Tasks \ {t} : len'[u] = len[u]
  PROVE  /\ FromStart' /\ pc'[t] # "write.loop"
         /\ \A u \in Tasks \ {t} : i'[u] = i[u] /\ len'[u] = len[u]
<1>1. i[t] = 0
  BY DEF FromStart
<1>2. CASE Return(t) \/ Oops(t)
  BY <1>1, <1>2 DEF Return, Oops, FromStart, CallTypeOK
<1>3. CASE UNCHANGED <<pc, i, len>>
  BY <1>3 DEF FromStart
<1>4. ASSUME NEW f \in Files, NEW label \in Labels \ {"write.loop"},
             Enter(t, f, label), UNCHANGED i, \A u \in Tasks \ {t} : len'[u] = len[u]
      PROVE  /\ FromStart' /\ pc'[t] # "write.loop"
             /\ \A u \in Tasks \ {t} : i'[u] = i[u] /\ len'[u] = len[u]
  BY <1>1, <1>4 DEF Enter, FromStart, CallTypeOK
<1> QED
  BY <1>2, <1>3, <1>4

LEMMA ContentInit == Init => Content
<1> SUFFICES ASSUME Init PROVE Content
  OBVIOUS
<1>1. Known
  BY DEF Init, Known
<1>2. FromStart
  BY DEF Init, FromStart
<1>3. ASSUME NEW m \in Devices PROVE Good(m)
  BY DEF Init, Good, Loop, InUse
<1> QED
  BY <1>1, <1>2, <1>3 DEF Content

(* The steps that leave all buffers as they are. *)
LEMMA Untouched ==
  ASSUME Inv, Content, NEW t \in Tasks, pc[t] # "write.loop", pc'[t] # "write.loop",
         UNCHANGED <<buf, mem, history>>, FromStart',
         \A u \in Tasks \ {t} : /\ pc'[u] = pc[u] /\ file'[u] = file[u]
                                /\ i'[u] = i[u] /\ len'[u] = len[u],
         \A u \in Tasks \ {t} : file[u] # NULL => minor'[file[u]] = minor[file[u]],
         \A d \in Devices : InUse(d)' <=> InUse(d)
  PROVE  Content'
<1>1. \A u \in Tasks, m \in Devices : Loop(u, m)' <=> Loop(u, m)
  BY OtherLoops
<1>2. \A u \in Tasks, m \in Devices : Loop(u, m) => i'[u] = i[u] /\ len'[u] = len[u]
  BY DEF Loop
<1>3. UNCHANGED <<written, raced>>
  BY DEF history
<1>4. ASSUME NEW m \in Devices PROVE Good(m)'
  <2>1. Good(m)
    BY DEF Content
  <2> QED
    BY <1>1, <1>2, <1>3, <2>1, Unconcerned
<1> QED
  BY <1>3, <1>4 DEF Content, Known

LEMMA ContentOpen ==
  ASSUME Inv, Content, NEW t \in Tasks, NEW f \in Files, NEW m \in Minors, Open(t, f, m)
  PROVE  Content'
<1>0. CallTypeOK /\ FromStart
  BY TypeParts DEF Inv, Content
<1>1. /\ UNCHANGED <<buf, allocated, mem, history>>
      /\ pc[t] = "user"
      /\ \A u \in Tasks \ {t} : pc'[u] = pc[u] /\ file'[u] = file[u]
      /\ \A u \in Tasks : file[u] # NULL => minor'[file[u]] = minor[file[u]]
      /\ \A d \in Devices : InUse(d)' <=> InUse(d)
  BY UseOpen
<1>2. \/ Return(t) \/ UNCHANGED <<pc, i, len>>
      \/ Enter(t, f, "open.alloc") /\ UNCHANGED i /\ UNCHANGED len
  BY DEF Open, call
<1>3. /\ FromStart' /\ pc'[t] # "write.loop"
      /\ \A u \in Tasks \ {t} : i'[u] = i[u] /\ len'[u] = len[u]
  BY <1>0, <1>1, <1>2, Progress DEF Labels
<1> QED
  BY <1>1, <1>3, Untouched

LEMMA ContentCall ==
  ASSUME Inv, Content, NEW t \in Tasks, NEW f \in Files,
         Read(t, f) \/ \E s \in Texts, n \in 0 .. BUFFER_SIZE + 1 : Write(t, f, s, n)
  PROVE  Content'
<1>0. CallTypeOK /\ FromStart
  BY TypeParts DEF Inv, Content
<1>1. /\ UNCHANGED <<buf, minor>>
      /\ \A u \in Tasks \ {t} : pc'[u] = pc[u] /\ file'[u] = file[u]
      /\ \A m : InUse(m)' <=> InUse(m)
  BY UseCall
<1>2. pc[t] = "user" /\ UNCHANGED <<mem, history>>
  BY DEF Read, Write, Usable
<1>3. \/ Oops(t) \/ UNCHANGED <<pc, i, len>>
      \/ /\ Enter(t, f, "write.copy") /\ UNCHANGED i
         /\ \A u \in Tasks \ {t} : len'[u] = len[u]
  <2>1. ASSUME NEW n, len' = [len EXCEPT ![t] = n]
        PROVE  \A u \in Tasks \ {t} : len'[u] = len[u]
    BY <1>0, <2>1 DEF CallTypeOK
  <2> QED
    BY <2>1 DEF Read, Write, call
<1>4. /\ FromStart' /\ pc'[t] # "write.loop"
      /\ \A u \in Tasks \ {t} : i'[u] = i[u] /\ len'[u] = len[u]
  BY <1>0, <1>2, <1>3, Progress DEF Labels
<1> QED
  BY <1>1, <1>2, <1>4, Untouched

LEMMA ContentReleaseUnlock ==
  ASSUME Inv, Content, NEW t \in Tasks, ReleaseUnlock(t)
  PROVE  Content'
<1>0. CallTypeOK /\ FromStart
  BY TypeParts DEF Inv, Content
<1>1. /\ UNCHANGED <<buf, mem, history>>
      /\ pc[t] = "release.unlock"
      /\ \A u \in Tasks \ {t} : pc'[u] = pc[u] /\ file'[u] = file[u]
      /\ \A u \in Tasks \ {t} : file[u] # NULL => minor'[file[u]] = minor[file[u]]
      /\ \A d \in Devices : InUse(d)' <=> InUse(d)
  BY UseReleaseUnlock
<1>2. Return(t)
  BY DEF ReleaseUnlock
<1>3. /\ FromStart' /\ pc'[t] # "write.loop"
      /\ \A u \in Tasks \ {t} : i'[u] = i[u] /\ len'[u] = len[u]
  BY <1>0, <1>1, <1>2, Progress
<1> QED
  BY <1>1, <1>3, Untouched

(* A device that has just got its buffer promises nothing about it. *)
LEMMA ContentOpenAlloc ==
  ASSUME Inv, Content, NEW t \in Tasks, OpenAlloc(t)
  PROVE  Content'
<1>0. CallTypeOK /\ DriverTypeOK /\ FromStart
  BY TypeParts DEF Inv, Content
<1>1. PICK m : m = minor[file[t]]
  OBVIOUS
<1>2. /\ m \in Devices /\ ~InUse(m)
      /\ \A d \in Devices \ {m} : InUse(d)' <=> InUse(d)
  BY <1>1, UseOpenAlloc
<1>3. /\ pc[t] = "open.alloc" /\ Return(t) /\ UNCHANGED <<minor, mem, written, raced>>
      /\ \A d \in Devices \ {m} : buf'[d] = buf[d]
  BY <1>0, <1>1 DEF OpenAlloc, DriverTypeOK, history
<1>4. \A u \in Tasks \ {t} : pc'[u] = pc[u] /\ file'[u] = file[u]
  BY <1>0, <1>3, ReturnCall
<1>5. /\ FromStart' /\ pc'[t] # "write.loop"
      /\ \A u \in Tasks \ {t} : i'[u] = i[u] /\ len'[u] = len[u]
  BY <1>0, <1>3, Progress
<1>6. \A u \in Tasks, d \in Devices : Loop(u, d)' <=> Loop(u, d)
  BY <1>3, <1>4, <1>5, OtherLoops
<1>7. \A u \in Tasks, d \in Devices : Loop(u, d) => i'[u] = i[u] /\ len'[u] = len[u]
  BY <1>3, <1>5 DEF Loop
<1>8. ASSUME NEW d \in Devices \ {m} PROVE Good(d)'
  <2>1. Good(d)
    BY DEF Content
  <2> QED
    BY <1>2, <1>3, <1>6, <1>7, <2>1, Unconcerned
<1>9. Good(m)'
  <2>1. Good(m)
    BY <1>2 DEF Content
  <2>2. \A j \in 1 .. BUFFER_SIZE : written'[m][j] = Unknown
    BY <1>2, <1>3, <2>1 DEF Good
  <2>3. Holds(m)'
    BY <2>2 DEF Holds
  <2> QED
    BY <1>2, <1>3, <1>6, <2>1, <2>2, <2>3 DEF Good
<1> QED
  BY <1>3, <1>5, <1>8, <1>9 DEF Content, Known

LEMMA ContentReleaseFree ==
  ASSUME Inv, OwnBuffer, Content, NEW t \in Tasks, NEW f \in Files, ReleaseFree(t, f)
  PROVE  Content'
<1>0. CallTypeOK /\ DriverTypeOK /\ FromStart
  BY TypeParts DEF Inv, Content
<1>1. PICK m : m = minor[f]
  OBVIOUS
<1>2. /\ UNCHANGED buf
      /\ pc[t] = "user"
      /\ \A u \in Tasks \ {t} : pc'[u] = pc[u] /\ file'[u] = file[u]
      /\ \A u \in Tasks : file[u] # NULL => minor[file[u]] # m \/ m \notin Devices
      /\ \A u \in Tasks : file[u] # NULL => minor'[file[u]] = minor[file[u]]
      /\ \A d \in Devices \ {m} : InUse(d)' <=> InUse(d)
      /\ m \in Devices => InUse(m) /\ ~InUse(m)'
  BY <1>1, UseReleaseFree
<1>3. Return(t) \/ (Enter(t, f, "release.unlock") /\ UNCHANGED i /\ UNCHANGED len)
  BY DEF ReleaseFree
<1>4. /\ FromStart' /\ pc'[t] # "write.loop"
      /\ \A u \in Tasks \ {t} : i'[u] = i[u] /\ len'[u] = len[u]
  BY <1>0, <1>2, <1>3, Progress DEF Labels
<1>5. CASE m \notin Devices
  <2>1. UNCHANGED <<mem, history>>
    BY <1>1, <1>5 DEF ReleaseFree
  <2> QED
    BY <1>2, <1>4, <1>5, <2>1, Untouched
<1>6. CASE m \in Devices
  <2>1. \A u \in Tasks, d \in Devices : Loop(u, d)' <=> Loop(u, d)
    BY <1>2, <1>4, OtherLoops
  <2>2. \A u \in Tasks, d \in Devices : Loop(u, d) => i'[u] = i[u] /\ len'[u] = len[u]
    BY <1>2, <1>4 DEF Loop
  <2>3. /\ raced' = raced \ {m}
        /\ written' = [written EXCEPT ![m] = [j \in 1 .. BUFFER_SIZE |-> Unknown]]
    BY <1>1, <1>6 DEF ReleaseFree, Forget
  <2>4. Known' /\ \A d \in Devices \ {m} : written'[d] = written[d]
    BY <2>3 DEF Known, Content
  <2>5. \A b \in Blocks \ {buf[m]} : mem'[b] = mem[b]
    BY <1>0, <1>1, <1>6 DEF ReleaseFree, DriverTypeOK
  <2>6. ASSUME NEW d \in Devices \ {m} PROVE Good(d)'
    <3>1. InUse(d) /\ buf[d] # NULL => buf[d] \in Blocks \ {buf[m]}
      BY <1>0, <1>2, <1>6, OwnBufferDef DEF DriverTypeOK
    <3>2. InUse(d) /\ buf[d] # NULL => mem'[buf[d]] = mem[buf[d]]
      BY <2>5, <3>1
    <3>3. Good(d)
      BY DEF Content
    <3>4. buf'[d] = buf[d] /\ written'[d] = written[d] /\ (d \in raced' <=> d \in raced)
      BY <1>2, <2>3, <2>4
    <3> QED
      BY <1>2, <2>1, <2>2, <3>2, <3>3, <3>4, Unconcerned
  <2>7. Good(m)'
    <3>1. \A j \in 1 .. BUFFER_SIZE : written'[m][j] = Unknown
      BY <1>6, <2>3 DEF Known, Content
    <3>2. \A u \in Tasks : pc[u] = "write.loop" => file[u] # NULL
      BY TypeParts DEF Inv, FileOK
    <3>3. \A u \in Tasks : ~Loop(u, m)
      BY <1>2, <1>6, <3>2 DEF Loop
    <3>4. \A u \in Tasks : ~Loop(u, m)'
      BY <1>6, <2>1, <3>3
    <3> QED
      BY <1>2, <1>6, <3>1, <3>4 DEF Good
  <2> QED
    BY <1>4, <1>6, <2>4, <2>6, <2>7 DEF Content
<1> QED
  BY <1>5, <1>6

-----------------------------------------------------------------------------
(* The steps of a write.                                                   *)

(* A task in a write has its device in use. *)
LEMMA InWrite ==
  ASSUME Inv, NEW t \in Tasks, pc[t] \in Writing, NEW m, m = minor[file[t]]
  PROVE  /\ file[t] \in Files /\ file[t] # NULL /\ m \in Devices /\ InUse(m)
         /\ \A u \in Tasks : file[u] # NULL /\ minor[file[u]] = m => file[u] = file[t]
<1>0. CallTypeOK /\ FileOK /\ OneOpener /\ Alone
  BY TypeParts DEF Inv
<1>1. file[t] \in Files /\ file[t] # NULL /\ m \in Devices
  BY <1>0 DEF CallTypeOK, FileOK, Writing
<1>2. \A u \in Tasks : file[u] # NULL /\ minor[file[u]] = m => file[u] = file[t]
  BY <1>0, <1>1 DEF OneOpener, CallTypeOK
<1>3. \A u \in Tasks : file[u] # NULL /\ minor[file[u]] = m => pc[u] \in Writing
  BY <1>0, <1>1, <1>2 DEF Alone
<1>4. locked[m]
  BY <1>0, <1>1 DEF OneOpener
<1> QED
  BY <1>1, <1>2, <1>3, <1>4 DEF InUse, Writing

(* The other device is not concerned: its buffer is another block, and its *)
(* loops are those of other tasks.                                         *)
LEMMA OtherDevice ==
  ASSUME Inv, OwnBuffer, Content, NEW t \in Tasks, pc[t] \in Writing,
         NEW m, m = minor[file[t]],
         UNCHANGED <<buf, minor>>,
         \A u \in Tasks \ {t} : /\ pc'[u] = pc[u] /\ file'[u] = file[u]
                                /\ i'[u] = i[u] /\ len'[u] = len[u],
         pc'[t] # "write.loop" \/ file'[t] = file[t],
         \A d \in Devices : InUse(d)' <=> InUse(d),
         \A b \in Blocks \ {buf[m]} : mem'[b] = mem[b],
         NEW d \in Devices \ {m},
         written'[d] = written[d], d \in raced' <=> d \in raced
  PROVE  Good(d)'
<1>1. DriverTypeOK
  BY TypeParts DEF Inv
<1>2. m \in Devices /\ InUse(m)
  BY InWrite
<1>3. InUse(d) /\ buf[d] # NULL => mem'[buf[d]] = mem[buf[d]]
  BY <1>1, <1>2, OwnBufferDef DEF DriverTypeOK
<1>4. ~Loop(t, d) /\ ~Loop(t, d)'
  BY DEF Loop
<1>5. \A u \in Tasks : Loop(u, d)' <=> Loop(u, d)
  BY <1>4 DEF Loop
<1>6. \A u \in Tasks : Loop(u, d) => i'[u] = i[u] /\ len'[u] = len[u]
  BY <1>4
<1>7. Good(d)
  BY DEF Content
<1> QED
  BY <1>3, <1>5, <1>6, <1>7, Unconcerned

(* What a loop has still to do. *)
LEMMA PendingLoop ==
  ASSUME NEW m, NEW j
  PROVE  Pending(m, j) <=> \E t \in Tasks : Loop(t, m) /\ i[t] < j /\ j <= len[t]
BY DEF Pending, Loop

LEMMA ContentWriteCopy ==
  ASSUME Inv, OwnBuffer, Content, NEW t \in Tasks, WriteCopy(t)
  PROVE  Content'
<1>0. CallTypeOK /\ DriverTypeOK /\ FileOK /\ FromStart /\ Known
  BY TypeParts DEF Inv, Content
<1>1. PICK m : m = minor[file[t]]
  OBVIOUS
<1>2. pc[t] = "write.copy" /\ UNCHANGED <<buf, minor>>
  BY DEF WriteCopy, driver
<1>3. /\ file[t] \in Files /\ file[t] # NULL /\ m \in Devices /\ InUse(m)
      /\ \A u \in Tasks : file[u] # NULL /\ minor[file[u]] = m => file[u] = file[t]
  BY <1>1, <1>2, InWrite DEF Writing
<1>4. /\ \A u \in Tasks \ {t} : pc'[u] = pc[u] /\ file'[u] = file[u]
      /\ \A d \in Devices : InUse(d)' <=> InUse(d)
  BY UseCall
<1>5. CASE buf[m] = NULL /\ Oops(t) /\ UNCHANGED <<mem, history>>
  <2>1. /\ FromStart' /\ pc'[t] # "write.loop"
        /\ \A u \in Tasks \ {t} : i'[u] = i[u] /\ len'[u] = len[u]
    BY <1>0, <1>2, <1>5, Progress
  <2> QED
    BY <1>2, <1>4, <1>5, <2>1, Untouched
<1>6. ASSUME NEW n \in 0 .. len[t], buf[m] # NULL,
             mem' = [mem EXCEPT ![buf[m]] = Copied(t, n, mem[buf[m]])],
             \/ /\ n = len[t]
                /\ pc' = [pc EXCEPT ![t] = "write.loop"]
                /\ written' = [written EXCEPT ![m] = Copied(t, n, written[m])]
                /\ UNCHANGED <<file, text, len, i>>
             \/ /\ n < len[t]
                /\ Return(t)
                /\ written' = [written EXCEPT ![m] =
                     [j \in 1 .. BUFFER_SIZE |->
                        IF j <= len[t] THEN Unknown ELSE written[m][j]]],
             raced' = IF \E u \in Tasks \ {t} : file[u] = file[t] /\ pc[u] = "write.loop"
                      THEN raced \cup {m} ELSE raced
      PROVE  Content'
  <2>1. buf[m] \in Blocks /\ len[t] \in 0 .. BUFFER_SIZE
    BY <1>0, <1>3, <1>6 DEF DriverTypeOK, CallTypeOK
  <2>2. /\ mem'[buf[m]] = Copied(t, n, mem[buf[m]])
        /\ \A b \in Blocks \ {buf[m]} : mem'[b] = mem[b]
    BY <1>0, <1>6, <2>1 DEF DriverTypeOK
  <2>3. /\ FromStart'
        /\ \A u \in Tasks \ {t} : i'[u] = i[u] /\ len'[u] = len[u]
    <3>1. CASE Return(t)
      BY <1>0, <1>2, <3>1, Progress
    <3>2. CASE pc' = [pc EXCEPT ![t] = "write.loop"] /\ UNCHANGED <<file, text, len, i>>
      BY <1>0, <3>2 DEF FromStart, CallTypeOK
    <3> QED
      BY <1>6, <3>1, <3>2
  <2>4. pc'[t] # "write.loop" \/ file'[t] = file[t]
    BY <1>0, <1>6 DEF Return, CallTypeOK
  <2>5. /\ \A d \in Devices \ {m} : written'[d] = written[d]
        /\ \A d \in Devices \ {m} : d \in raced' <=> d \in raced
    BY <1>0, <1>3, <1>6 DEF Known
  <2>6. \A d \in Devices \ {m} : Good(d)'
    BY <1>1, <1>2, <1>4, <2>2, <2>3, <2>4, <2>5, OtherDevice DEF Writing
  <2>7. written'[m] \in [1 .. BUFFER_SIZE -> Char \cup {Unknown}]
    <3> DEFINE old == written[m]
               s == text[t]
               end == len[t]
    <3>1. old \in [1 .. BUFFER_SIZE -> Char \cup {Unknown}] /\ s \in Buffers
      BY <1>0, <1>2, <1>3 DEF Known, CallTypeOK, Writing
    <3>2. 0 \in Char
      BY DEF Char
    <3>3. \/ written'[m] = Copied(t, n, old)
          \/ written'[m] = [j \in 1 .. BUFFER_SIZE |->
                              IF j <= end THEN Unknown ELSE old[j]]
      BY <1>0, <1>3, <1>6 DEF Known
    <3>4. \/ written'[m] = [j \in 1 .. BUFFER_SIZE |->
                              IF j <= n THEN s[j] ELSE IF j <= end THEN 0 ELSE old[j]]
          \/ written'[m] = [j \in 1 .. BUFFER_SIZE |->
                              IF j <= end THEN Unknown ELSE old[j]]
      BY <3>3 DEF Copied
    <3> HIDE DEF old, s, end
    <3>5. \A j \in 1 .. BUFFER_SIZE :
            (IF j <= n THEN s[j] ELSE IF j <= end THEN 0 ELSE old[j]) \in Char \cup {Unknown}
      BY <3>1, <3>2 DEF Buffers
    <3>6. \A j \in 1 .. BUFFER_SIZE :
            (IF j <= end THEN Unknown ELSE old[j]) \in Char \cup {Unknown}
      BY <3>1
    <3> QED
      BY <3>4, <3>5, <3>6, Zenon
  <2>8. Known'
    <3>1. written' = [written EXCEPT ![m] = written'[m]]
      BY <1>0, <1>3, <1>6 DEF Known
    <3> QED
      BY <1>0, <2>7, <3>1, Zenon DEF Known
  <2>9. Good(m)'
    <3>1. Good(m)
      BY <1>3 DEF Content
    <3>2. InUse(m)'
      BY <1>3, <1>4
    <3>3. SUFFICES ASSUME m \notin raced'
                   PROVE  /\ \A u, v \in Tasks : Loop(u, m)' /\ Loop(v, m)' => u = v
                          /\ Holds(m)'
      BY <3>2 DEF Good
    <3>4. \A u \in Tasks \ {t} : ~Loop(u, m) /\ ~Loop(u, m)'
      <4>1. \A u \in Tasks \ {t} : file[u] = file[t] => pc[u] # "write.loop"
        BY <1>6, <3>3
      <4>2. \A u \in Tasks : pc[u] = "write.loop" => file[u] # NULL
        BY <1>0 DEF FileOK
      <4> QED
        BY <1>2, <1>3, <1>4, <4>1, <4>2 DEF Loop
    <3>5. m \notin raced /\ Holds(m)
      BY <1>3, <1>6, <3>1, <3>3 DEF Good
    <3>6. ~Loop(t, m)
      BY <1>2 DEF Loop
    <3>7. \A j : ~Pending(m, j)
      BY <3>4, <3>6, PendingLoop
    <3>8. CASE n = len[t] /\ pc' = [pc EXCEPT ![t] = "write.loop"]
               /\ written' = [written EXCEPT ![m] = Copied(t, n, written[m])]
               /\ UNCHANGED <<file, text, len, i>>
      <4>1. Loop(t, m)' /\ i'[t] = 0 /\ len'[t] = len[t]
        BY <1>0, <1>1, <1>2, <3>8 DEF Loop, CallTypeOK, FromStart
      <4>2. ASSUME NEW j \in 1 .. BUFFER_SIZE PROVE Pending(m, j)' <=> j <= len[t]
        BY <3>4, <4>1 DEF Pending, Loop
      <4>3. written'[m] = Copied(t, n, written[m])
        BY <1>0, <1>3, <3>8 DEF Known
      <4>4. ASSUME NEW j \in 1 .. BUFFER_SIZE, written'[m][j] # Unknown
            PROVE  mem'[buf[m]][j] = IF Pending(m, j)' THEN written'[m][j]
                                     ELSE Rotate(written'[m][j], Shift(m))
        <5>1. CASE j <= len[t]
          BY <2>2, <3>8, <4>2, <4>3, <5>1 DEF Copied
        <5>2. CASE ~(j <= len[t])
          <6>1. mem'[buf[m]][j] = mem[buf[m]][j] /\ written'[m][j] = written[m][j]
            BY <2>1, <2>2, <3>8, <4>3, <5>2 DEF Copied
          <6> QED
            BY <3>5, <3>7, <4>2, <4>4, <5>2, <6>1 DEF Holds
        <5> QED
          BY <5>1, <5>2
      <4> QED
        BY <1>2, <3>4, <4>4 DEF Holds, Shift
    <3>9. CASE /\ n < len[t]
               /\ Return(t)
               /\ written' = [written EXCEPT ![m] =
                     [j \in 1 .. BUFFER_SIZE |->
                        IF j <= len[t] THEN Unknown ELSE written[m][j]]]
      <4>1. ~Loop(t, m)'
        BY <1>0, <3>9, ReturnCall DEF Loop
      <4>2. \A j : ~Pending(m, j)'
        BY <3>4, <4>1 DEF Pending, Loop
      <4>3. written'[m] = [j \in 1 .. BUFFER_SIZE |->
                             IF j <= len[t] THEN Unknown ELSE written[m][j]]
        BY <1>0, <1>3, <3>9 DEF Known
      <4>4. ASSUME NEW j \in 1 .. BUFFER_SIZE, written'[m][j] # Unknown
            PROVE  mem'[buf[m]][j] = Rotate(written'[m][j], Shift(m))
        <5>1. ~(j <= len[t]) /\ written'[m][j] = written[m][j]
          BY <4>3, <4>4
        <5>2. mem'[buf[m]][j] = mem[buf[m]][j]
          BY <2>1, <2>2, <5>1 DEF Copied
        <5> QED
          BY <3>5, <3>7, <4>4, <5>1, <5>2 DEF Holds
      <4> QED
        BY <1>2, <3>4, <4>1, <4>2, <4>4 DEF Holds, Shift
    <3> QED
      BY <1>6, <3>8, <3>9
  <2> QED
    BY <1>3, <2>3, <2>6, <2>8, <2>9 DEF Content
<1> QED
  BY <1>1, <1>5, <1>6 DEF WriteCopy

(* One turn of the loop is a rotation. *)
LEMMA TranslateRotates ==
  ASSUME NEW m \in Devices, NEW c \in Char
  PROVE  Translate(m, c) = Rotate(c, Shift(m))
BY EncryptRotates, DecryptRotatesBack DEF Translate, Shift

LEMMA ContentWriteLoop ==
  ASSUME Inv, OwnBuffer, Content, NEW t \in Tasks, WriteLoop(t)
  PROVE  Content'
<1>0. CallTypeOK /\ DriverTypeOK /\ FileOK /\ FromStart /\ Known
  BY TypeParts DEF Inv, Content
<1>1. PICK m : m = minor[file[t]]
  OBVIOUS
<1>2. pc[t] = "write.loop" /\ UNCHANGED <<buf, minor, written, raced>>
  BY DEF WriteLoop, driver, history
<1>3. /\ file[t] \in Files /\ file[t] # NULL /\ m \in Devices /\ InUse(m)
  BY <1>1, <1>2, InWrite DEF Writing
<1>4. /\ \A u \in Tasks \ {t} : pc'[u] = pc[u] /\ file'[u] = file[u]
      /\ \A d \in Devices : InUse(d)' <=> InUse(d)
  BY UseCall
<1>5. Loop(t, m) /\ Good(m) /\ Known'
  BY <1>0, <1>1, <1>2, <1>3 DEF Loop, Content, Known
<1>6. m \notin raced => \A u \in Tasks \ {t} : ~Loop(u, m) /\ ~Loop(u, m)'
  BY <1>2, <1>4, <1>5 DEF Good, Loop
<1>7. CASE i[t] + 1 > len[t] /\ Return(t) /\ UNCHANGED mem
  <2>1. /\ FromStart' /\ pc'[t] = "user"
        /\ \A u \in Tasks \ {t} : i'[u] = i[u] /\ len'[u] = len[u]
    BY <1>0, <1>7 DEF Return, FromStart, CallTypeOK
  <2>2. \A d \in Devices \ {m} : Good(d)'
    BY <1>1, <1>2, <1>4, <1>7, <2>1, OtherDevice DEF Writing
  <2>3. ~Loop(t, m)'
    BY <2>1 DEF Loop
  <2>4. ASSUME m \notin raced, NEW j \in 1 .. BUFFER_SIZE
        PROVE  ~Pending(m, j) /\ ~Pending(m, j)'
    <3>1. ~(i[t] < j /\ j <= len[t])
      BY <1>0, <1>7 DEF CallTypeOK
    <3> QED
      BY <1>6, <2>3, <2>4, <3>1 DEF Pending, Loop
  <2>5. m \notin raced /\ Holds(m) => Holds(m)'
    BY <1>2, <1>7, <2>4 DEF Holds, Shift
  <2>6. Good(m)'
    BY <1>2, <1>3, <1>4, <1>5, <1>6, <2>3, <2>5 DEF Good
  <2> QED
    BY <1>5, <2>1, <2>2, <2>6 DEF Content
<1>8. ASSUME NEW j, j = i[t] + 1, j <= len[t],
             mem' = [mem EXCEPT ![buf[m]][j] = Translate(m, @)],
             i' = [i EXCEPT ![t] = j],
             UNCHANGED <<pc, file, text, len>>
      PROVE  Content'
  <2>1. j \in 1 .. BUFFER_SIZE /\ i'[t] = j
    BY <1>0, <1>8, DeviceAssumption DEF CallTypeOK
  <2>2. /\ FromStart'
        /\ \A u \in Tasks \ {t} : i'[u] = i[u] /\ len'[u] = len[u]
    BY <1>0, <1>2, <1>8 DEF FromStart, CallTypeOK
  <2>3. \A b \in Blocks \ {buf[m]} : mem'[b] = mem[b]
    BY <1>0, <1>8 DEF DriverTypeOK
  <2>4. \A d \in Devices \ {m} : Good(d)'
    BY <1>1, <1>2, <1>4, <1>8, <2>2, <2>3, OtherDevice DEF Writing
  <2>5. \A u \in Tasks : Loop(u, m)' <=> Loop(u, m)
    BY <1>2, <1>8 DEF Loop
  <2>6. ASSUME m \notin raced, buf[m] # NULL, Holds(m)
        PROVE  Holds(m)'
    <3>1. buf[m] \in Blocks
      BY <1>0, <1>3, <2>6 DEF DriverTypeOK
    <3>2. /\ mem'[buf[m]][j] = Translate(m, mem[buf[m]][j])
          /\ \A k \in (1 .. BUFFER_SIZE) \ {j} : mem'[buf[m]][k] = mem[buf[m]][k]
      BY <1>0, <1>8, <2>1, <3>1 DEF DriverTypeOK, Buffers
    <3>3. mem[buf[m]][j] \in Char
      BY <1>0, <2>1, <3>1 DEF DriverTypeOK, Buffers
    <3>4. ASSUME NEW k \in 1 .. BUFFER_SIZE
          PROVE  /\ Pending(m, k) <=> i[t] < k /\ k <= len[t]
                 /\ Pending(m, k)' <=> j < k /\ k <= len[t]
      BY <1>5, <1>6, <1>8, <2>1, <2>5, <2>6 DEF Pending, Loop
    <3>5. i[t] \in Nat /\ len[t] \in Nat
      BY <1>0, DeviceAssumption DEF CallTypeOK
    <3>6. Pending(m, j) /\ ~Pending(m, j)'
      BY <1>8, <2>1, <3>4, <3>5
    <3>7. \A k \in (1 .. BUFFER_SIZE) \ {j} : Pending(m, k)' <=> Pending(m, k)
      BY <1>8, <3>4, <3>5
    <3>8. ASSUME NEW k \in 1 .. BUFFER_SIZE, written[m][k] # Unknown
          PROVE  mem'[buf[m]][k] = IF Pending(m, k)' THEN written[m][k]
                                   ELSE Rotate(written[m][k], Shift(m))
      <4>1. CASE k = j
        <5>1. mem[buf[m]][j] = written[m][j]
          BY <2>6, <3>6, <3>8, <4>1 DEF Holds
        <5> QED
          BY <1>3, <3>2, <3>3, <3>6, <4>1, <5>1, TranslateRotates
      <4>2. CASE k # j
        BY <2>6, <3>2, <3>7, <3>8, <4>2 DEF Holds
      <4> QED
        BY <4>1, <4>2
    <3> QED
      BY <1>2, <3>8 DEF Holds, Shift
  <2>7. Good(m)'
    BY <1>2, <1>3, <1>4, <1>5, <2>5, <2>6 DEF Good
  <2> QED
    BY <1>5, <2>2, <2>4, <2>7 DEF Content
<1> QED
  BY <1>1, <1>7, <1>8 DEF WriteLoop

LEMMA ContentStep == Inv /\ OwnBuffer /\ Content /\ [Next]_vars => Content'
<1> SUFFICES ASSUME Inv, OwnBuffer, Content, [Next]_vars PROVE Content'
  OBVIOUS
<1>1. ASSUME UNCHANGED <<buf, allocated, mem, minor, call, history>>,
             \A m : InUse(m)' <=> InUse(m)
      PROVE  Content'
  <2>1. UNCHANGED <<buf, mem, minor, pc, file, len, i, written, raced>>
    BY <1>1 DEF call, history
  <2>2. \A u \in Tasks, m \in Devices : Loop(u, m)' <=> Loop(u, m)
    BY <2>1 DEF Loop
  <2>3. ASSUME NEW m \in Devices PROVE Good(m)'
    BY <1>1, <2>1, <2>2, Unconcerned DEF Content
  <2> QED
    BY <2>1, <2>3 DEF Content, Known, FromStart
<1>2. CASE UNCHANGED vars
  <2>1. UNCHANGED <<buf, allocated, mem, minor, call, history>>
    BY <1>2 DEF vars, driver
  <2>2. \A m : InUse(m)' <=> InUse(m)
    BY <1>2 DEF vars, driver, call, InUse
  <2> QED
    BY <1>1, <2>1, <2>2
<1>3. CASE InitChrdev \/ InitClass \/ InitEncrypt \/ InitDecrypt \/ Exit
  BY <1>1, <1>3, UseInit
<1>4. ASSUME NEW t \in Tasks, Step(t) PROVE Content'
  BY <1>4, ContentOpen, ContentCall, ContentOpenAlloc, ContentReleaseFree,
     ContentReleaseUnlock, ContentWriteCopy, ContentWriteLoop DEF Step
<1> QED
  BY <1>2, <1>3, <1>4 DEF Next

(* Whatever tasks open, write, read and close in whatever order: as long   *)
(* as no two of them write to a device at once, its buffer holds what they *)
(* have written, rotated by the shift, and during a write the rest of it   *)
(* still as it was written.                                                *)
THEOREM BuffersTranslated == Spec => []Translated
<1>1. Content => Translated
  BY DEF Content, Good, Holds, Translated
<1>2. Inv /\ OwnBuffer /\ Content /\ [Next]_vars => Content'
  BY ContentStep
<1> QED
  BY <1>1, <1>2, InvInit, InvStep, OwnInit, OwnStep, ContentInit, PTL DEF Spec
=============================================================================
