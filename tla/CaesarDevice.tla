----------------------------- MODULE CaesarDevice -----------------------------
(***************************************************************************)
(* The kernel module caesar.c of Praktikum_4: two character devices that   *)
(* translate what is written to them, each with a mutex that lets one      *)
(* opener in, and a buffer that lives from open to the last close.         *)
(*                                                                         *)
(* An open file may be used by several tasks (threads, or a process and    *)
(* its children).  The kernel calls release when the last reference to it  *)
(* has gone and no call on it is running.                                  *)
(*                                                                         *)
(* A task's pc names what it does next in the driver: open.alloc 109/118,  *)
(* write.copy 151/160, write.loop 47/75, release.unlock 179/184; in user   *)
(* space it is "user", and "killed" after an oops.                         *)
(***************************************************************************)
EXTENDS Caesar

CONSTANTS
  Tasks,
  Files,         (* open file descriptions                                  *)
  Blocks,        (* what kmalloc can return                                 *)
  Minors,        (* the minor numbers that are opened; 0 and 1 are served   *)
  NULL,
  BUFFER_SIZE,
  Texts,         (* what tasks write                                        *)
  Garbage        (* what a fresh block may contain                          *)

M_ENCRYPT == 0
M_DECRYPT == 1
Devices == {M_ENCRYPT, M_DECRYPT}
Buffers == [1 .. BUFFER_SIZE -> Char]

ASSUME DeviceAssumption ==
  /\ NULL \notin Files \cup Blocks \cup Minors
  /\ Devices \subseteq Minors
  /\ BUFFER_SIZE \in Nat
  /\ Texts \subseteq Buffers
  /\ Garbage \subseteq Buffers

VARIABLES
  module,       (* how far caesar_init has come; "in" or "failed" after it; *)
                (* "gone" or "dying" after caesar_exit                      *)
  registered,   (* what it has registered                                   *)
  locked,       (* encrypt_mutex, decrypt_mutex                             *)
  buf,          (* enc_buf, dec_buf                                         *)
  allocated,    (* the blocks kmalloc has given out                         *)
  mem,          (* their content                                            *)
  minor,        (* of the file, NULL while it is not open                   *)
  pc, file, text, len, i,     (* a task's call                              *)
  written,      (* history: per device, the chars its writes have brought   *)
  raced         (* history: the devices on which two writes have overlapped *)

kernel  == <<module, registered>>
driver  == <<locked, buf, allocated>>
call    == <<pc, file, text, len, i>>
history == <<written, raced>>
vars    == <<kernel, driver, mem, minor, call, history>>

Unknown == 128      \* is not a char

Init ==
  /\ module = "out" /\ registered = {}
  /\ locked = [m \in Devices |-> FALSE]
  /\ buf = [m \in Devices |-> NULL]
  /\ allocated = {}
  /\ mem \in [Blocks -> Garbage]
  /\ minor = [f \in Files |-> NULL]
  /\ pc = [t \in Tasks |-> "user"]
  /\ file = [t \in Tasks |-> NULL]
  /\ text = [t \in Tasks |-> NULL]
  /\ len = [t \in Tasks |-> 0]
  /\ i = [t \in Tasks |-> 0]
  /\ written = [m \in Devices |-> [j \in 1 .. BUFFER_SIZE |-> Unknown]]
  /\ raced = {}

-----------------------------------------------------------------------------
(* caesar_init and caesar_exit                                             *)

Register(what, after) ==
  /\ registered' = registered \cup {what}
  /\ module' = after

(* A failing step takes back what it knows to take back. *)
Fail(what) ==
  /\ registered' = registered \ what
  /\ module' = "failed"

(* 192-198: mutexes first, then the major number. *)
InitChrdev ==
  /\ module = "out"
  /\ locked' = [m \in Devices |-> FALSE]
  /\ Register("chrdev", "class") \/ Fail({})
  /\ UNCHANGED <<buf, allocated, mem, minor, call, history>>

(* Mutant: the mutexes are initialised only now, where open may hold them. *)
InitClassLate ==
  /\ module = "class"
  /\ Register("class", "encrypt") \/ Fail({"chrdev"})
  /\ locked' = [m \in Devices |-> FALSE]
  /\ UNCHANGED <<buf, allocated, mem, minor, call, history>>

InitClass ==
  /\ module = "class"
  /\ Register("class", "encrypt") \/ Fail({"chrdev"})
  /\ UNCHANGED <<driver, mem, minor, call, history>>

InitEncrypt ==
  /\ module = "encrypt"
  /\ Register("encrypt", "decrypt") \/ Fail({"class", "chrdev"})
  /\ UNCHANGED <<driver, mem, minor, call, history>>

(* 221-222: the class and the number go, the device encrypt stays. *)
InitDecrypt ==
  /\ module = "decrypt"
  /\ Register("decrypt", "in") \/ Fail({"class", "chrdev"})
  /\ UNCHANGED <<driver, mem, minor, call, history>>

(* The kernel lets nobody unload a module that is in use.  After           *)
(* class_unregister (234) the class has been freed, and class_destroy      *)
(* (235) is told to free it again.  Either that is noticed and the number  *)
(* goes as well; or the kernel dies there, and the module stays behind.    *)
(* The second unregister_chrdev (237) finds nothing to unregister.         *)
Exit ==
  /\ module = "in"
  /\ \A f \in Files : minor[f] = NULL
  /\ \/ /\ module' = "gone"
        /\ registered' = registered \ {"encrypt", "decrypt", "class", "chrdev"}
     \/ /\ module' = "dying"
        /\ registered' = registered \ {"encrypt", "decrypt", "class"}
  /\ UNCHANGED <<driver, mem, minor, call, history>>

-----------------------------------------------------------------------------
(* dev_open                                                                *)

(* A call returns.  Its result concerns the caller only. *)
Return(t) ==
  /\ pc' = [pc EXCEPT ![t] = "user"]
  /\ file' = [file EXCEPT ![t] = NULL]
  /\ text' = [text EXCEPT ![t] = NULL]
  /\ len' = [len EXCEPT ![t] = 0]
  /\ i' = [i EXCEPT ![t] = 0]

(* A call of t on file f goes on at label. *)
Enter(t, f, label) ==
  /\ pc' = [pc EXCEPT ![t] = label]
  /\ file' = [file EXCEPT ![t] = f]

(* The kernel dies on a buffer that kmalloc did not give (109, 118). *)
Oops(t) ==
  /\ pc' = [pc EXCEPT ![t] = "killed"]
  /\ file' = [file EXCEPT ![t] = NULL]
  /\ text' = [text EXCEPT ![t] = NULL]
  /\ len' = [len EXCEPT ![t] = 0]
  /\ UNCHANGED i

(* The kernel opens nothing of a module that is being unloaded. *)
Open(t, f, m) ==
  /\ pc[t] = "user" /\ minor[f] = NULL
  /\ "chrdev" \in registered /\ module # "dying"
  /\ \/ /\ m \in Devices /\ locked[m]
        /\ UNCHANGED <<locked, minor, call>>      \* -EBUSY
     \/ /\ m \in Devices /\ ~locked[m]
        /\ locked' = [locked EXCEPT ![m] = TRUE]
        /\ minor' = [minor EXCEPT ![f] = m]
        /\ Enter(t, f, "open.alloc")
        /\ UNCHANGED <<text, len, i>>
     \/ /\ m \notin Devices
        /\ minor' = [minor EXCEPT ![f] = m]
        /\ Return(t)
        /\ UNCHANGED locked
  /\ UNCHANGED <<kernel, buf, allocated, mem, history>>

(* Mutant: a buffer that the last opener has freed is taken over. *)
OpenAllocOnce(t) ==
  LET m == minor[file[t]] IN
  /\ pc[t] = "open.alloc"
  /\ IF buf[m] # NULL THEN UNCHANGED <<buf, allocated>>
     ELSE \E b \in Blocks \ allocated :
            buf' = [buf EXCEPT ![m] = b] /\ allocated' = allocated \cup {b}
  /\ Return(t)
  /\ UNCHANGED <<kernel, locked, mem, minor, history>>

(* The result of kmalloc is not looked at. *)
OpenAlloc(t) ==
  LET m == minor[file[t]] IN
  /\ pc[t] = "open.alloc"
  /\ \/ /\ buf' = [buf EXCEPT ![m] = NULL]
        /\ UNCHANGED allocated
     \/ \E b \in Blocks \ allocated :
          /\ buf' = [buf EXCEPT ![m] = b]
          /\ allocated' = allocated \cup {b}
  /\ Return(t)
  /\ UNCHANGED <<kernel, locked, mem, minor, history>>

-----------------------------------------------------------------------------
(* dev_read and dev_write                                                  *)

Writing == {"write.copy", "write.loop"}

(* t may call into the driver on f: it has been opened, is not being       *)
(* closed, and the driver's code is still there.                           *)
Usable(t, f) ==
  /\ pc[t] = "user" /\ minor[f] # NULL /\ module # "failed"
  /\ \A u \in Tasks : file[u] = f => pc[u] \in Writing

(* What is read is the content of the buffer; the offset is ignored, and   *)
(* the driver's state does not change.                                     *)
Read(t, f) ==
  /\ Usable(t, f)
  /\ IF minor[f] \in Devices /\ buf[minor[f]] = NULL THEN Oops(t)
     ELSE UNCHANGED call
  /\ UNCHANGED <<kernel, driver, mem, minor, history>>

(* Mutant: the length is not checked (146). *)
WriteUnchecked(t, f, s, n) ==
  /\ Usable(t, f) /\ minor[f] \in Devices
  /\ Enter(t, f, "write.copy")
  /\ text' = [text EXCEPT ![t] = s]
  /\ len' = [len EXCEPT ![t] = n]
  /\ UNCHANGED <<i, kernel, driver, mem, minor, history>>

Write(t, f, s, n) ==
  /\ Usable(t, f)
  /\ \/ n > BUFFER_SIZE /\ UNCHANGED call       \* -EFAULT
     \/ n <= BUFFER_SIZE /\ minor[f] \notin Devices /\ UNCHANGED call
     \/ /\ n <= BUFFER_SIZE /\ minor[f] \in Devices
        /\ Enter(t, f, "write.copy")
        /\ text' = [text EXCEPT ![t] = s]
        /\ len' = [len EXCEPT ![t] = n]
        /\ UNCHANGED i
  /\ UNCHANGED <<kernel, driver, mem, minor, history>>

(* copy_from_user gets n of the chars, and fills up with NULs. *)
Copied(t, n, old) ==
  [j \in 1 .. BUFFER_SIZE |-> IF j <= n THEN text[t][j]
                              ELSE IF j <= len[t] THEN 0 ELSE old[j]]

(* An incomplete copy leaves the chars it got untranslated. *)
WriteCopy(t) ==
  LET m == minor[file[t]]  b == buf[m] IN
  /\ pc[t] = "write.copy"
  /\ \/ b = NULL /\ Oops(t) /\ UNCHANGED <<mem, history>>
     \/ /\ b # NULL
        /\ \E n \in 0 .. len[t] :
             /\ mem' = [mem EXCEPT ![b] = Copied(t, n, mem[b])]
             /\ \/ /\ n = len[t]
                   /\ pc' = [pc EXCEPT ![t] = "write.loop"]
                   /\ written' = [written EXCEPT ![m] = Copied(t, n, written[m])]
                   /\ UNCHANGED <<file, text, len, i>>
                \/ /\ n < len[t]
                   /\ Return(t)
                   /\ written' = [written EXCEPT ![m] =
                        [j \in 1 .. BUFFER_SIZE |->
                           IF j <= len[t] THEN Unknown ELSE written[m][j]]]
        /\ raced' = IF \E u \in Tasks \ {t} : file[u] = file[t] /\ pc[u] = "write.loop"
                    THEN raced \cup {m} ELSE raced
  /\ UNCHANGED <<kernel, driver, minor>>

Translate(m, c) == IF m = M_ENCRYPT THEN Encrypt(c) ELSE Decrypt(c)

(* One turn of the loop in encrypt or decrypt. *)
WriteLoop(t) ==
  LET m == minor[file[t]]  j == i[t] + 1 IN
  /\ pc[t] = "write.loop"
  /\ \/ /\ j <= len[t]
        /\ mem' = [mem EXCEPT ![buf[m]][j] = Translate(m, @)]
        /\ i' = [i EXCEPT ![t] = j]
        /\ UNCHANGED <<pc, file, text, len>>
     \/ /\ j > len[t]
        /\ Return(t)
        /\ UNCHANGED mem
  /\ UNCHANGED <<kernel, driver, minor, history>>

-----------------------------------------------------------------------------
(* dev_release                                                             *)

(* Of the history only what concerns an open device is kept. *)
Forget(m) ==
  /\ written' = [written EXCEPT ![m] = [j \in 1 .. BUFFER_SIZE |-> Unknown]]
  /\ raced' = raced \ {m}

(* kfree leaves the pointer as it is.  What the block contains afterwards  *)
(* is what it contains when kmalloc gives it out again.                    *)
ReleaseFree(t, f) ==
  /\ Usable(t, f)
  /\ \A u \in Tasks : file[u] # f
  /\ \/ /\ minor[f] \in Devices
        /\ allocated' = allocated \ {buf[minor[f]]}
        /\ IF buf[minor[f]] = NULL THEN UNCHANGED mem
           ELSE \E g \in Garbage : mem' = [mem EXCEPT ![buf[minor[f]]] = g]
        /\ Enter(t, f, "release.unlock")
        /\ Forget(minor[f])
        /\ UNCHANGED <<minor, text, len, i>>
     \/ /\ minor[f] \notin Devices
        /\ minor' = [minor EXCEPT ![f] = NULL]
        /\ Return(t)
        /\ UNCHANGED <<allocated, mem, history>>
  /\ UNCHANGED <<kernel, locked, buf>>

ReleaseUnlock(t) ==
  LET f == file[t] IN
  /\ pc[t] = "release.unlock"
  /\ locked' = [locked EXCEPT ![minor[f]] = FALSE]
  /\ minor' = [minor EXCEPT ![f] = NULL]
  /\ Return(t)
  /\ UNCHANGED <<kernel, buf, allocated, mem, history>>

-----------------------------------------------------------------------------
Step(t) ==
  \/ OpenAlloc(t) \/ WriteCopy(t) \/ WriteLoop(t) \/ ReleaseUnlock(t)
  \/ \E f \in Files :
       \/ \E m \in Minors : Open(t, f, m)
       \/ Read(t, f)
       \/ \E s \in Texts, n \in 0 .. BUFFER_SIZE + 1 : Write(t, f, s, n)
       \/ ReleaseFree(t, f)

(* Nothing is said of what happens once the code of a module whose         *)
(* caesar_init has failed is taken from under an open file.                *)
Next ==
  \/ InitChrdev \/ InitClass \/ InitEncrypt \/ InitDecrypt \/ Exit
  \/ module # "failed" /\ \E t \in Tasks : Step(t)

Spec == Init /\ [][Next]_vars

-----------------------------------------------------------------------------
(* Properties                                                              *)

Labels == {"user", "open.alloc", "write.copy", "write.loop", "release.unlock", "killed"}

(* Pointers, chars and minor numbers stay what they are, and a call is on  *)
(* an open file of a device that is served.                                *)
TypeOK ==
  /\ module \in {"out", "class", "encrypt", "decrypt", "in", "failed", "gone", "dying"}
  /\ registered \subseteq {"chrdev", "class", "encrypt", "decrypt"}
  /\ locked \in [Devices -> BOOLEAN]
  /\ buf \in [Devices -> Blocks \cup {NULL}]
  /\ allocated \subseteq Blocks
  /\ mem \in [Blocks -> Buffers]
  /\ minor \in [Files -> Minors \cup {NULL}]
  /\ pc \in [Tasks -> Labels]
  /\ file \in [Tasks -> Files \cup {NULL}]
  /\ \A t \in Tasks : IF pc[t] \in {"user", "killed"} THEN file[t] = NULL
                      ELSE file[t] # NULL /\ minor[file[t]] \in Devices
  /\ text \in [Tasks -> Buffers \cup {NULL}]
  /\ \A t \in Tasks : pc[t] \in Writing => text[t] \in Buffers
  /\ len \in [Tasks -> 0 .. BUFFER_SIZE]
  /\ i \in [Tasks -> 0 .. BUFFER_SIZE]

(* The mutex of a device is held exactly while one file is open on it,     *)
(* being opened or being closed: two openers never share a buffer, EBUSY   *)
(* is returned only if the device is in use, and a closed device can be    *)
(* opened again, even if a task has been killed in it.                     *)
OneOpener ==
  \A m \in Devices :
    /\ \A f, g \in Files : minor[f] = m /\ minor[g] = m => f = g
    /\ locked[m] <=> \E f \in Files : minor[f] = m

(* A device that is open and has got past kmalloc, and not yet to kfree.   *)
InUse(m) ==
  /\ locked[m]
  /\ \A t \in Tasks : file[t] # NULL /\ minor[file[t]] = m =>
       pc[t] \notin {"open.alloc", "release.unlock"}

(* The buffer of an open device is allocated and its own, and nothing else *)
(* is allocated: no use after free, no double free, no leak.               *)
OwnBuffer ==
  /\ allocated = {buf[m] : m \in {d \in Devices : InUse(d)}} \ {NULL}
  /\ \A m, n \in Devices :
       InUse(m) /\ InUse(n) /\ m # n /\ buf[m] # NULL => buf[m] # buf[n]

(* Unless two tasks have written to a device at once, or a copy has been   *)
(* incomplete, its buffer holds what was written, rotated by the shift:    *)
(* forwards in encrypt, backwards in decrypt; of the write under way, what *)
(* the loop has not reached yet as it was.                                 *)
Pending(m, j) ==
  \E t \in Tasks : /\ pc[t] = "write.loop" /\ minor[file[t]] = m
                   /\ i[t] < j /\ j <= len[t]

Shift(m) == IF m = M_ENCRYPT THEN translate_shift ELSE -translate_shift

Translated ==
  \A m \in Devices \ raced : InUse(m) /\ buf[m] # NULL =>
    \A j \in 1 .. BUFFER_SIZE : written[m][j] # Unknown =>
      mem[buf[m]][j] = IF Pending(m, j) THEN written[m][j]
                       ELSE Rotate(written[m][j], Shift(m))

(* What a comment of the code says: "Clean up if there is an error"        *)
(* (caesar.c:202, 211, 220).                                               *)
FailedInitCleansUp == module = "failed" => registered = {}
=============================================================================
