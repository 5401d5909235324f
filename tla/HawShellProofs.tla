---------------------------- MODULE HawShellProofs ----------------------------
(***************************************************************************)
(* Proofs about HawShell for any process table, any scripts and programs:  *)
(* who runs the shell's code, who may be in the table when, and that lines *)
(* are handled in order, however commands and children interleave and      *)
(* whatever programs read of them.                                         *)
(***************************************************************************)
EXTENDS HawShell, TLAPS, SequenceTheorems, FiniteSetTheorems

ProcessesOK ==
  /\ pc \in [Procs -> Labels]
  /\ pc[Shell] \notin {"free", "exec", "program", "zombie"}
  /\ DOMAIN command = Procs
  /\ child \in [Procs -> Pids \cup {NoPid}]

(* While the shell waits there may be one foreground process, the one it   *)
(* waits for; at any other time there is none.                             *)
TableInv ==
  /\ pc[Shell] \in {"prompt", "dispatch", "failed"} =>
       \A c \in Pids : pc[c] # "free" => InBackground(command[c])
  /\ pc[Shell] = "wait" =>
       /\ child[Shell] \in Pids
       /\ \A c \in Pids \ {child[Shell]} :
            pc[c] # "free" => InBackground(command[c])

Inv == ProcessesOK /\ OneReader /\ TableInv

(* What every step of a child amounts to for these: its place in the table *)
(* is not taken by another process, and only after the shell has gone it   *)
(* may get free.                                                           *)
ChildMoves(c) ==
  /\ pc' \in [Procs -> Labels]
  /\ \A q \in Procs \ {c} : pc'[q] = pc[q]
  /\ pc'[c] \in {"failed", "program", "zombie", "free"}
  /\ pc[c] # "free"
  /\ pc'[c] = "free" => pc[Shell] = "gone"
  /\ UNCHANGED <<command, child>>

LEMMA ChildStep ==
  ASSUME Inv, NEW c \in Pids, Hawsh(c) \/ ProgramReads(c) \/ ProgramEnds(c)
  PROVE  ChildMoves(c)
<1> USE ShellAssumption DEF Inv, ProcessesOK, Procs, Labels
<1>1. pc[c] \notin {"prompt", "dispatch", "wait", "gone"}
  BY DEF OneReader
<1>2. CASE Exec(c)
  BY <1>2 DEF Exec, Goto, ChildMoves
<1>3. CASE Leave(c)
  BY <1>3 DEF Leave, Exit, ChildMoves
<1>4. CASE ProgramEnds(c)
  BY <1>4 DEF ProgramEnds, Exit, ChildMoves
<1>5. CASE ProgramReads(c)
  BY <1>5 DEF ProgramReads, ChildMoves
<1> QED
  BY <1>1, <1>2, <1>3, <1>4, <1>5
     DEF Hawsh, ReadCommand, Quit, Answer, ChangeDir, Fork, ForkFails, Wait

LEMMA ChildInv ==
  ASSUME Inv, NEW c \in Pids, ChildMoves(c)
  PROVE  Inv'
<1>1. c # Shell /\ Pids \subseteq Procs /\ Shell \in Procs
  BY ShellAssumption DEF Procs
<1>2. pc'[Shell] = pc[Shell]
  BY <1>1 DEF ChildMoves
<1>3. ProcessesOK'
  BY <1>2 DEF Inv, ProcessesOK, ChildMoves
<1>4. OneReader'
  BY <1>1 DEF Inv, OneReader, ChildMoves
<1>5. TableInv'
  BY <1>1, <1>2 DEF Inv, TableInv, ChildMoves, InBackground
<1> QED
  BY <1>3, <1>4, <1>5 DEF Inv

(* The shell's own steps. *)
LEMMA ShellInv ==
  ASSUME Inv, Hawsh(Shell)
  PROVE  Inv'
<1> USE ShellAssumption DEF Inv, ProcessesOK, Procs, OneReader
<1>1. CASE ReadCommand(Shell)
  <2>1. /\ pc[Shell] = "prompt" /\ pc' = [pc EXCEPT ![Shell] = "dispatch"]
        /\ \A c \in Pids : command'[c] = command[c]
        /\ DOMAIN command' = Procs /\ child' = child
    BY <1>1 DEF ReadCommand, Goto
  <2> QED
    BY <2>1 DEF Labels, TableInv
<1>2. CASE Quit(Shell)
  BY <1>2 DEF Quit, Exit, Labels, TableInv
<1>3. CASE Answer(Shell) \/ ChangeDir(Shell)
  BY <1>3 DEF Answer, ChangeDir, Goto, Labels, TableInv
<1>4. CASE Leave(Shell)
  BY <1>4 DEF Leave, Exit, Labels, TableInv
<1>5. CASE Fork(Shell)
  <2>1. PICK c \in Pids :
          /\ pc[c] = "free"
          /\ pc' = [pc EXCEPT ![Shell] = IF InBackground(command[Shell]) THEN "prompt" ELSE "wait",
                              ![c] = "exec"]
          /\ command' = [command EXCEPT ![c] = command[Shell]]
          /\ child' = [child EXCEPT ![Shell] = c, ![c] = NoPid]
    BY <1>5 DEF Fork
  <2>2. pc[Shell] = "dispatch"
    BY <1>5 DEF Fork
  <2>3. ProcessesOK' /\ OneReader'
    BY <2>1 DEF Labels
  <2>4. command'[c] = command[Shell] /\ \A q \in Pids \ {c} : command'[q] = command[q]
    BY <2>1
  <2>5. /\ pc'[Shell] = IF InBackground(command[Shell]) THEN "prompt" ELSE "wait"
        /\ \A q \in Pids \ {c} : pc'[q] = pc[q]
        /\ child'[Shell] = c
    BY <2>1
  <2>6. \A q \in Pids \ {c} : pc'[q] # "free" => InBackground(command'[q])
    BY <2>2, <2>4, <2>5 DEF TableInv
  <2>7. InBackground(command[Shell]) => InBackground(command'[c])
    BY <2>4
  <2> QED
    BY <2>3, <2>5, <2>6, <2>7 DEF TableInv
<1>6. CASE ForkFails(Shell)
  BY <1>6 DEF ForkFails, Goto, Labels, TableInv
<1>7. CASE Wait(Shell)
  <2>1. /\ pc[Shell] = "wait" /\ child[Shell] \in Pids
        /\ pc' = [pc EXCEPT ![Shell] = "prompt", ![child[Shell]] = "free"]
        /\ UNCHANGED <<command, child>>
    BY <1>7 DEF Wait, TableInv
  <2> QED
    BY <2>1 DEF Labels, TableInv
<1>8. CASE Exec(Shell)
  BY <1>8 DEF Exec
<1> QED
  BY <1>1, <1>2, <1>3, <1>4, <1>5, <1>6, <1>7, <1>8 DEF Hawsh

LEMMA InvStep == Inv /\ [Next]_vars => Inv'
<1> SUFFICES ASSUME Inv, [Next]_vars PROVE Inv'
  OBVIOUS
<1>1. ASSUME NEW c \in Pids, Hawsh(c) \/ ProgramReads(c) \/ ProgramEnds(c)
      PROVE  Inv'
  BY <1>1, ChildStep, ChildInv
<1>2. CASE Hawsh(Shell)
  BY <1>2, ShellInv
<1>3. CASE ProgramReads(Shell) \/ ProgramEnds(Shell)
  BY <1>3 DEF ProgramReads, ProgramEnds, Inv, ProcessesOK
<1>4. CASE UNCHANGED vars
  BY <1>4 DEF vars, Inv, ProcessesOK, OneReader, TableInv
<1> QED
  BY <1>1, <1>2, <1>3, <1>4 DEF Next, Procs

LEMMA InvAlways == Spec => []Inv
<1>1. Init => Inv
  BY ShellAssumption DEF Init, Inv, ProcessesOK, OneReader, TableInv, Procs, Labels
<1> QED
  BY <1>1, InvStep, PTL DEF Spec

(* A child never gets into the loop that reads commands, whatever it was   *)
(* told to execute.                                                        *)
THEOREM ChildrenNeverRead == Spec => []OneReader
<1>1. Inv => OneReader
  BY DEF Inv
<1> QED
  BY <1>1, InvAlways, PTL

(* The shell reads on only when its foreground process is gone. *)
THEOREM WaitsForForeground == Spec => []ForegroundWaited
<1>1. Inv => ForegroundWaited
  BY DEF Inv, TableInv, ForegroundWaited
<1> QED
  BY <1>1, InvAlways, PTL

-----------------------------------------------------------------------------
(* What a command is.                                                      *)

LEMMA Largest ==
  ASSUME NEW n \in Nat, NEW S \in SUBSET (1 .. n), S # {}
  PROVE  \E k \in S : \A m \in S : m <= k
<1> DEFINE Above(k) == (k + 1) .. n
           T == {Above(k) : k \in S}
<1>1. IsFiniteSet(1 .. n)
  BY FS_Interval
<1>2. \A k \in S : Above(k) \subseteq 1 .. n /\ IsFiniteSet(Above(k))
  BY <1>1, FS_Subset
<1>3. T \subseteq FiniteSubsetsOf(1 .. n) /\ T # {}
  BY <1>2 DEF FiniteSubsetsOf
<1>4. PICK x \in T : \A y \in T : <<y, x>> \notin StrictSubsetOrdering(1 .. n)
  BY <1>3, FS_StrictSubsetOrderingWellFounded, WFMin
<1>5. PICK k \in S : x = Above(k)
  BY <1>4
<1>6. ASSUME NEW m \in S, ~(m <= k) PROVE FALSE
  <2>1. m \in Above(k) /\ m \notin Above(m) /\ Above(m) \subseteq Above(k)
    BY <1>6
  <2>2. <<Above(m), Above(k)>> \in StrictSubsetOrdering(1 .. n)
    BY <2>1, <1>2 DEF StrictSubsetOrdering
  <2> QED
    BY <1>4, <1>5, <2>2
<1> QED
  BY <1>6

(* trimString leaves a prefix. *)
LEMMA TrimType ==
  ASSUME NEW s \in Seq(Tokens)
  PROVE  Trim(s) \in Seq(Tokens)
<1> DEFINE last == CHOOSE n \in Letters(s) : \A m \in Letters(s) : m <= n
           end == IF Letters(s) = {} THEN 0 ELSE last
<1>1. Len(s) \in Nat /\ Letters(s) \subseteq 1 .. Len(s)
  BY LenProperties DEF Letters
<1>2. Letters(s) # {} => last \in Letters(s)
  BY <1>1, Largest
<1>3. end \in 0 .. Len(s)
  BY <1>1, <1>2
<1> HIDE DEF end
<1>4. \A i \in 1 .. end : s[i] \in Tokens
  BY <1>3, ElementOfSeq, <1>1
<1>5. SubSeq(s, 1, end) \in Seq(Tokens)
  BY <1>1, <1>3, <1>4, SubSeqProperties
<1> QED
  BY <1>5 DEF Trim, end

(* Both parts of a line that does not fit are lines. *)
LEMMA Parts ==
  ASSUME NEW line \in Seq(Tokens)
  PROVE  /\ Chunk(line) \in 0 .. Len(line)
         /\ SubSeq(line, 1, Chunk(line)) \in Seq(Tokens)
         /\ SubSeq(line, Chunk(line) + 1, Len(line)) \in Seq(Tokens)
<1>1. Len(line) \in Nat /\ BUFFER \in Nat \ {0, 1}
  BY LenProperties, ShellAssumption
<1>2. Chunk(line) \in 0 .. Len(line)
  BY <1>1 DEF Chunk
<1>3. \A i \in 1 .. Len(line) : line[i] \in Tokens
  BY ElementOfSeq
<1>4. SubSeq(line, 1, Chunk(line)) \in Seq(Tokens)
  BY <1>1, <1>2, <1>3, SubSeqProperties
<1>5. SubSeq(line, Chunk(line) + 1, Len(line)) \in Seq(Tokens)
  BY <1>1, <1>2, <1>3, SubSeqProperties
<1> QED
  BY <1>2, <1>4, <1>5

(* Who changes what: only the shell reads for itself, changes its          *)
(* directory or forks, and only a program reads what it was not typed.     *)
LEMMA WhoReads ==
  ASSUME Inv, [Next]_vars
  PROVE  \/ ReadCommand(Shell)
         \/ ChangeDir(Shell)
         \/ Fork(Shell)
         \/ \E c \in Pids : Exec(c) \/ ProgramReads(c)
         \/ UNCHANGED <<input, command, cwd, rest, handled, script>>
<1> USE DEF Quit, Answer, Leave, ForkFails, Wait, ProgramEnds
<1>1. ASSUME NEW c \in Pids, Hawsh(c) \/ ProgramReads(c) \/ ProgramEnds(c)
      PROVE  \/ Exec(c) \/ ProgramReads(c)
             \/ UNCHANGED <<input, command, cwd, rest, handled, script>>
  BY <1>1 DEF Hawsh, ReadCommand, ChangeDir, Fork, Inv, OneReader
<1>2. CASE Hawsh(Shell) \/ ProgramReads(Shell) \/ ProgramEnds(Shell)
  BY <1>2 DEF Hawsh, Exec, ProgramReads, Inv, ProcessesOK
<1>3. CASE UNCHANGED vars
  BY <1>3 DEF vars
<1> QED
  BY <1>1, <1>2, <1>3 DEF Next, Procs

(* What one read of the shell takes: nothing at the end of the input, or   *)
(* a piece of a line, the rest of which it keeps.                          *)
LEMMA OneRead ==
  ASSUME TypeOK, ReadCommand(Shell), rest[Shell] # <<>> \/ input # <<>>
  PROVE  \E line \in Seq(Tokens) :
           LET read == Trim(SubSeq(line, 1, Chunk(line)))
           IN  /\ line = IF rest[Shell] # <<>> THEN rest[Shell] ELSE Head(input)
               /\ read \in Seq(Tokens)
               /\ command' = [command EXCEPT ![Shell] = read]
               /\ handled' = Append(handled, read)
               /\ SubSeq(line, Chunk(line) + 1, Len(line)) \in Seq(Tokens)
               /\ rest' = [rest EXCEPT ![Shell] = SubSeq(line, Chunk(line) + 1, Len(line))]
               /\ input' = IF rest[Shell] # <<>> THEN input ELSE Tail(input)
<1> DEFINE line == IF rest[Shell] # <<>> THEN rest[Shell] ELSE Head(input)
           read == Trim(SubSeq(line, 1, Chunk(line)))
<1>1. line \in Seq(Tokens)
  BY HeadTailProperties DEF TypeOK, Procs
<1>2. read \in Seq(Tokens)
  BY <1>1, Parts, TrimType
<1>3. SubSeq(line, Chunk(line) + 1, Len(line)) \in Seq(Tokens)
  BY <1>1, Parts
<1>4. /\ command' = [command EXCEPT ![Shell] = read]
      /\ handled' = Append(handled, read)
      /\ rest' = [rest EXCEPT ![Shell] = SubSeq(line, Chunk(line) + 1, Len(line))]
      /\ input' = IF rest[Shell] # <<>> THEN input ELSE Tail(input)
  BY DEF ReadCommand
<1> HIDE DEF line
<1>5. line = IF rest[Shell] # <<>> THEN rest[Shell] ELSE Head(input)
  BY DEF line
<1> QED
  BY <1>1, <1>2, <1>3, <1>4, <1>5

LEMMA TypeStep ==
  ASSUME TypeOK, Inv, [Next]_vars
  PROVE  TypeOK'
<1> USE DEF Procs
<1>1. Inv'
  BY InvStep
<1>2. /\ pc' \in [Procs -> Labels] /\ pc'[Shell] \notin {"free", "program", "zombie"}
      /\ child' \in [Procs -> Pids \cup {NoPid}]
  BY <1>1 DEF Inv, ProcessesOK
<1>3. <<>> \in Seq(Tokens)
  BY EmptySeq
<1>4. CASE ReadCommand(Shell)
  <2>1. cwd' = cwd
    BY <1>4 DEF ReadCommand
  <2>2. CASE rest[Shell] = <<>> /\ input = <<>>
    <3>1. /\ command' = [command EXCEPT ![Shell] = <<>>]
          /\ UNCHANGED <<input, rest, handled>>
      BY <1>4, <2>2 DEF ReadCommand
    <3> QED
      BY <1>2, <1>3, <2>1, <3>1 DEF TypeOK
  <2>3. CASE rest[Shell] # <<>> \/ input # <<>>
    <3>1. PICK line \in Seq(Tokens), read \in Seq(Tokens), more \in Seq(Tokens) :
            /\ command' = [command EXCEPT ![Shell] = read]
            /\ handled' = Append(handled, read)
            /\ rest' = [rest EXCEPT ![Shell] = more]
            /\ input' = IF rest[Shell] # <<>> THEN input ELSE Tail(input)
      BY <1>4, <2>3, OneRead
    <3>2. handled' \in Seq(Seq(Tokens))
      BY <3>1, AppendProperties DEF TypeOK
    <3>3. input' \in Seq(Seq(Tokens))
      BY <2>3, <3>1, HeadTailProperties DEF TypeOK
    <3>4. command' \in [Procs -> Seq(Tokens)] /\ rest' \in [Procs -> Seq(Tokens)]
      BY <3>1 DEF TypeOK
    <3> QED
      BY <1>2, <2>1, <3>2, <3>3, <3>4 DEF TypeOK
  <2> QED
    BY <2>2, <2>3
<1>5. CASE ChangeDir(Shell)
  BY <1>2, <1>5 DEF ChangeDir, TypeOK
<1>6. CASE Fork(Shell)
  BY <1>2, <1>6 DEF Fork, TypeOK
<1>7. ASSUME NEW c \in Pids, Exec(c)
      PROVE  TypeOK'
  BY <1>2, <1>3, <1>7 DEF Exec, TypeOK
<1>8. ASSUME NEW c \in Pids, ProgramReads(c)
      PROVE  TypeOK'
  <2>1. Tail(input) \in Seq(Seq(Tokens))
    BY <1>8, HeadTailProperties DEF ProgramReads, TypeOK
  <2> QED
    BY <1>2, <1>8, <2>1 DEF ProgramReads, TypeOK
<1>9. CASE UNCHANGED <<input, command, cwd, rest, handled, script>>
  BY <1>2, <1>9 DEF TypeOK
<1> QED
  BY <1>4, <1>5, <1>6, <1>7, <1>8, <1>9, WhoReads

LEMMA ScriptInit == Init => script \in Seq(Seq(Tokens))
<1> SUFFICES ASSUME Init PROVE script \in Seq(Seq(Tokens))
  OBVIOUS
<1>1. script \in Seq(Seq(Tokens) \ {<<>>})
  BY ShellAssumption DEF Init
<1>2. \A i \in 1 .. Len(script) : script[i] \in Seq(Tokens)
  BY <1>1, ElementOfSeq
<1>3. Len(script) \in Nat /\ script = [i \in 1 .. Len(script) |-> script[i]]
  BY <1>1, LenProperties
<1> QED
  BY <1>2, <1>3, IsASeq

LEMMA TypeInit == Init => TypeOK
<1> SUFFICES ASSUME Init PROVE TypeOK
  OBVIOUS
<1>1. input \in Seq(Seq(Tokens)) /\ <<>> \in Seq(Tokens)
  BY ScriptInit, EmptySeq DEF Init
<1> QED
  BY <1>1, ShellAssumption DEF Init, TypeOK, Procs, Labels

(* Lines, commands and directories stay what they are taken for. *)
THEOREM TypeCorrect == Spec => []TypeOK
BY TypeInit, TypeStep, InvAlways, PTL DEF Spec

-----------------------------------------------------------------------------
(* The order of the lines.                                                 *)

Taken == Len(script) - Len(input)
ShortSoFar == \A n \in 1 .. Taken : Len(script[n]) < BUFFER

(* What is left of the input is the end of the script, whoever has read    *)
(* the rest; as long as every line has fitted, nothing is left of any.     *)
OrderInv ==
  /\ script \in Seq(Seq(Tokens))
  /\ Len(input) <= Len(script)
  /\ \A n \in 1 .. Len(input) : input[n] = script[Taken + n]
  /\ ShortSoFar =>
       /\ Len(handled) = Taken
       /\ \A n \in 1 .. Len(handled) : handled[n] = Trim(script[n])
       /\ rest[Shell] = <<>>

LEMMA OrderFollows ==
  ASSUME TypeOK, OrderInv
  PROVE  LinesInOrder
<1>1. Len(script) \in Nat /\ Len(input) \in Nat
  BY LenProperties DEF TypeOK, OrderInv
<1>2. CASE ShortSoFar
  <2>1. /\ Len(handled) = Len(script) - Len(input)
        /\ \A n \in 1 .. Len(handled) : handled[n] = Trim(script[n])
        /\ \A n \in 1 .. Len(input) : input[n] = script[Len(handled) + n]
    BY <1>2 DEF OrderInv, Taken
  <2> QED
    BY <1>1, <2>1 DEF LinesInOrder
<1>3. CASE ~ShortSoFar
  BY <1>3 DEF LinesInOrder, ShortSoFar, Taken
<1> QED
  BY <1>2, <1>3

(* The shell takes a line that has been typed for it. *)
LEMMA OrderRead ==
  ASSUME TypeOK, OrderInv, ReadCommand(Shell), rest[Shell] = <<>>, input # <<>>
  PROVE  OrderInv'
<1>1. script' = script
  BY DEF ReadCommand
<1>2. PICK line \in Seq(Tokens) :
        LET read == Trim(SubSeq(line, 1, Chunk(line)))
        IN  /\ line = Head(input)
            /\ read \in Seq(Tokens)
            /\ handled' = Append(handled, read)
            /\ rest' = [rest EXCEPT ![Shell] = SubSeq(line, Chunk(line) + 1, Len(line))]
            /\ input' = Tail(input)
  BY OneRead
<1>3. /\ Len(input) \in Nat \ {0} /\ Len(handled) \in Nat /\ Len(script) \in Nat
      /\ line = input[1]
      /\ Len(input') = Len(input) - 1
      /\ \A n \in 1 .. Len(input') : input'[n] = input[n + 1]
  BY <1>2, LenProperties, HeadTailProperties, EmptySeq DEF TypeOK, OrderInv
<1>4. Taken \in Nat /\ Taken' = Taken + 1 /\ line = script[Taken + 1]
  BY <1>1, <1>3 DEF OrderInv, Taken
<1>5. \A n \in 1 .. Len(input') : input'[n] = script[Taken' + n]
  <2> TAKE n \in 1 .. Len(input')
  <2>1. input'[n] = input[n + 1] /\ n + 1 \in 1 .. Len(input)
    BY <1>3
  <2>2. input[n + 1] = script[Taken + (n + 1)]
    BY <2>1 DEF OrderInv
  <2>3. Taken + (n + 1) = Taken' + n
    BY <1>4
  <2> QED
    BY <2>1, <2>2, <2>3
<1>6. ASSUME ShortSoFar'
      PROVE  /\ Len(handled') = Taken'
             /\ \A n \in 1 .. Len(handled') : handled'[n] = Trim(script[n])
             /\ rest'[Shell] = <<>>
  <2>1. \A n \in 1 .. Taken + 1 : Len(script[n]) < BUFFER
    BY <1>1, <1>4, <1>6 DEF ShortSoFar
  <2>2. ShortSoFar /\ Len(line) < BUFFER
    BY <1>4, <2>1 DEF ShortSoFar
  <2>3. Chunk(line) = Len(line) /\ Len(line) \in Nat
    BY <2>2, LenProperties DEF Chunk
  <2>4. SubSeq(line, 1, Chunk(line)) = line
    BY <2>3, SubSeqFull
  <2>5. SubSeq(line, Chunk(line) + 1, Len(line)) = <<>>
    BY <2>3, SubSeqEmpty
  <2>6. /\ Len(handled') = Len(handled) + 1
        /\ \A n \in 1 .. Len(handled) : handled'[n] = handled[n]
        /\ handled'[Len(handled) + 1] = Trim(line)
    <3>1. handled' = Append(handled, Trim(line)) /\ Trim(line) \in Seq(Tokens)
      BY <1>2, <2>4
    <3> QED
      BY <3>1, AppendProperties DEF TypeOK
  <2>7. /\ Len(handled) = Taken
        /\ \A n \in 1 .. Len(handled) : handled[n] = Trim(script[n])
    BY <2>2 DEF OrderInv
  <2>8. ASSUME NEW n \in 1 .. Len(handled') PROVE handled'[n] = Trim(script[n])
    <3>1. n \in 1 .. Len(handled) \/ n = Len(handled) + 1
      BY <1>3, <2>6
    <3> QED
      BY <1>4, <2>6, <2>7, <3>1
  <2>9. rest'[Shell] = <<>>
    BY <1>2, <2>5 DEF TypeOK, Procs
  <2> QED
    BY <1>4, <2>6, <2>7, <2>8, <2>9
<1>7. script' \in Seq(Seq(Tokens)) /\ Len(input') <= Len(script')
  BY <1>1, <1>3 DEF OrderInv
<1> QED
  BY <1>1, <1>5, <1>6, <1>7 DEF OrderInv

(* A program takes one: the script is the same as far as it was read. *)
LEMMA OrderProgram ==
  ASSUME TypeOK, OrderInv, NEW c \in Pids, ProgramReads(c)
  PROVE  OrderInv'
<1> DEFINE before == SubSeq(script, 1, Taken)
<1>1. /\ input # <<>> /\ input' = Tail(input) /\ script' = before \o Tail(input)
      /\ UNCHANGED <<rest, handled>>
  BY DEF ProgramReads, Taken
<1>2. /\ Len(input) \in Nat \ {0} /\ Len(script) \in Nat /\ Taken \in 0 .. Len(script)
      /\ Tail(input) \in Seq(Seq(Tokens)) /\ Len(Tail(input)) = Len(input) - 1
  BY <1>1, LenProperties, HeadTailProperties, EmptySeq DEF TypeOK, OrderInv, Taken
<1>3. \A n \in 1 .. Taken : script[n] \in Seq(Tokens)
  BY <1>2, ElementOfSeq DEF OrderInv
<1>4. /\ before \in Seq(Seq(Tokens)) /\ Len(before) = Taken
      /\ \A n \in 1 .. Taken : before[n] = script[n]
  BY <1>2, <1>3, SubSeqProperties DEF OrderInv
<1> HIDE DEF before
<1>5. /\ script' \in Seq(Seq(Tokens)) /\ Len(script') = Taken + Len(input')
      /\ \A n \in 1 .. Taken + Len(input') :
           script'[n] = IF n <= Taken THEN before[n] ELSE Tail(input)[n - Taken]
  BY <1>1, <1>2, <1>4, ConcatProperties
<1>6. Taken' = Taken /\ Len(input') <= Len(script')
  BY <1>1, <1>2, <1>5 DEF Taken
<1>7. \A n \in 1 .. Taken : script'[n] = script[n]
  BY <1>1, <1>2, <1>4, <1>5
<1>8. \A n \in 1 .. Len(input') : input'[n] = script'[Taken' + n]
  BY <1>1, <1>2, <1>5, <1>6
<1>9. ShortSoFar' => ShortSoFar
  BY <1>6, <1>7 DEF ShortSoFar
<1> QED
  BY <1>1, <1>5, <1>6, <1>7, <1>8, <1>9 DEF OrderInv

LEMMA OrderStep ==
  ASSUME TypeOK, Inv, OrderInv, [Next]_vars
  PROVE  OrderInv'
<1>1. CASE UNCHANGED <<input, handled, script>> /\ rest'[Shell] = rest[Shell]
  BY <1>1 DEF OrderInv, Taken, ShortSoFar
<1>2. CASE ReadCommand(Shell)
  <2>1. CASE rest[Shell] = <<>> /\ input = <<>>
    BY <1>1, <1>2, <2>1 DEF ReadCommand
  <2>2. CASE rest[Shell] # <<>>
    <3>1. input' = input /\ script' = script
      BY <1>2, <2>2 DEF ReadCommand
    <3>2. ~ShortSoFar
      BY <2>2 DEF OrderInv
    <3> QED
      BY <3>1, <3>2 DEF OrderInv, Taken, ShortSoFar
  <2> QED
    BY <1>2, <2>1, <2>2, OrderRead
<1>3. CASE ChangeDir(Shell)
  BY <1>1, <1>3 DEF ChangeDir
<1>4. CASE Fork(Shell)
  BY <1>1, <1>4, ShellAssumption DEF Fork, TypeOK, Procs
<1>5. ASSUME NEW c \in Pids, Exec(c)
      PROVE  OrderInv'
  BY <1>1, <1>5, ShellAssumption DEF Exec, TypeOK, Procs
<1>6. CASE UNCHANGED <<input, command, cwd, rest, handled, script>>
  BY <1>1, <1>6
<1> QED
  BY <1>2, <1>3, <1>4, <1>5, <1>6, OrderProgram, WhoReads

(* However the shell's commands and its children interleave, every line    *)
(* that no program reads is handled once and in its place, until one does  *)
(* not fit into the buffer.                                                *)
THEOREM InOrder == Spec => []LinesInOrder
<1>1. Init => OrderInv
  <2> SUFFICES ASSUME Init PROVE OrderInv
    OBVIOUS
  <2>1. script \in Seq(Seq(Tokens)) /\ Len(script) \in Nat
    BY ScriptInit, LenProperties
  <2> QED
    BY <2>1 DEF Init, OrderInv, Taken, Procs
<1> QED
  BY <1>1, OrderStep, OrderFollows, TypeInit, TypeStep, InvAlways, PTL DEF Spec

-----------------------------------------------------------------------------
(* The shell's directory.                                                  *)

Cd(s) == IsPath(s) /\ s \in Directories

(* Between reading a path and changing to it the shell is one behind.      *)
CwdInv ==
  /\ pc[Shell] = "dispatch" =>
       LastCd = IF Cd(command[Shell]) THEN command[Shell] ELSE cwd[Shell]
  /\ pc[Shell] \notin {"dispatch", "gone"} => cwd[Shell] = LastCd

(* One more command changes the last path, if it is one. *)
LEMMA OneMore ==
  ASSUME handled \in Seq(Seq(Tokens)), NEW s \in Seq(Tokens),
         handled' = Append(handled, s)
  PROVE  LastCd' = IF Cd(s) THEN s ELSE LastCd
<1> DEFINE N == Len(handled)
<1>1. N \in Nat
  BY LenProperties
<1>2. /\ Len(handled') = N + 1 /\ handled'[N + 1] = s
      /\ \A n \in 1 .. N : handled'[n] = handled[n]
  BY AppendProperties
<1> DEFINE cds == {n \in 1 .. N : Cd(handled[n])}
           more == {n \in 1 .. N + 1 : Cd(handled'[n])}
<1>3. LastCd = IF cds = {} THEN Home
               ELSE handled[CHOOSE n \in cds : \A m \in cds : m <= n]
  BY DEF LastCd, Cd
<1>4. LastCd' = IF more = {} THEN Home
                ELSE handled'[CHOOSE n \in more : \A m \in more : m <= n]
  BY <1>2 DEF LastCd, Cd
<1>5. CASE Cd(s)
  <2>1. N + 1 \in more /\ \A m \in more : m <= N + 1 /\ m \in Nat
    BY <1>1, <1>2, <1>5
  <2>2. (CHOOSE n \in more : \A m \in more : m <= n) = N + 1
    <3>1. PICK n \in more : n = (CHOOSE k \in more : \A m \in more : m <= k)
                            /\ \A m \in more : m <= n
      BY <2>1
    <3> QED
      BY <2>1, <3>1, <1>1
  <2> QED
    BY <1>2, <1>5, <1>4, <2>1, <2>2
<1>6. CASE ~Cd(s)
  <2>1. more = cds
    BY <1>1, <1>2, <1>6
  <2>2. CASE cds = {}
    BY <1>6, <1>3, <1>4, <2>1, <2>2
  <2>3. CASE cds # {}
    <3>1. \E k \in cds : \A m \in cds : m <= k
      BY <1>1, <2>3, Largest
    <3>2. (CHOOSE k \in cds : \A m \in cds : m <= k) \in 1 .. N
      BY <3>1
    <3> QED
      BY <1>2, <1>6, <1>3, <1>4, <2>1, <2>3, <3>2
  <2> QED
    BY <2>2, <2>3
<1> QED
  BY <1>5, <1>6

LEMMA CwdStep ==
  ASSUME TypeOK, Inv, CwdInv, [Next]_vars
  PROVE  CwdInv'
<1> USE DEF TypeOK, Procs
<1>1. CASE ReadCommand(Shell)
  <2>1. pc[Shell] = "prompt" /\ pc'[Shell] = "dispatch" /\ cwd' = cwd
    BY <1>1 DEF ReadCommand, Goto
  <2>2. cwd[Shell] = LastCd
    BY <2>1 DEF CwdInv
  <2>3. CASE rest[Shell] = <<>> /\ input = <<>>
    <3>1. command'[Shell] = <<>> /\ handled' = handled
      BY <1>1, <2>3 DEF ReadCommand
    <3>2. ~Cd(command'[Shell])
      BY <3>1 DEF Cd, IsPath
    <3>3. LastCd' = LastCd
      BY <3>1 DEF LastCd
    <3> QED
      BY <2>1, <2>2, <3>2, <3>3 DEF CwdInv, Cd
  <2>4. CASE rest[Shell] # <<>> \/ input # <<>>
    <3>1. PICK s \in Seq(Tokens) : command'[Shell] = s /\ handled' = Append(handled, s)
      BY <1>1, <2>4, OneRead
    <3>2. LastCd' = IF Cd(s) THEN s ELSE LastCd
      BY <3>1, OneMore
    <3> QED
      BY <2>1, <2>2, <3>1, <3>2 DEF CwdInv, Cd
  <2> QED
    BY <2>3, <2>4
<1>2. ASSUME handled' = handled
      PROVE  LastCd' = LastCd
  BY <1>2 DEF LastCd
<1>3. CASE ChangeDir(Shell)
  <2>1. pc[Shell] = "dispatch" /\ pc'[Shell] = "prompt" /\ IsPath(command[Shell])
    BY <1>3 DEF ChangeDir, Goto
  <2>2. cwd'[Shell] = IF Cd(command[Shell]) THEN command[Shell] ELSE cwd[Shell]
    BY <1>3, <2>1 DEF ChangeDir, Cd
  <2>3. LastCd' = LastCd
    BY <1>2, <1>3 DEF ChangeDir
  <2> QED
    BY <2>1, <2>2, <2>3 DEF CwdInv
<1>4. CASE ~ReadCommand(Shell) /\ ~ChangeDir(Shell)
  <2>1. /\ handled' = handled /\ cwd'[Shell] = cwd[Shell] /\ command'[Shell] = command[Shell]
    BY <1>4, WhoReads, ShellAssumption DEF Fork, Exec, ProgramReads
  <2>2. \/ pc'[Shell] = pc[Shell]
        \/ pc'[Shell] = "gone"
        \/ pc[Shell] = "dispatch" /\ pc'[Shell] # "dispatch" /\ ~IsPath(command[Shell])
        \/ pc[Shell] \notin {"dispatch", "gone"} /\ pc'[Shell] # "dispatch"
    <3>1. ASSUME NEW c \in Pids, Hawsh(c) \/ ProgramReads(c) \/ ProgramEnds(c)
          PROVE  pc'[Shell] = pc[Shell]
      BY <3>1, ChildStep, ShellAssumption DEF ChildMoves
    <3>2. CASE Hawsh(Shell)
      <4>1. pc \in [Procs -> Labels] /\ Shell \in Procs
        OBVIOUS
      <4>2. CASE Quit(Shell) \/ Leave(Shell)
        BY <4>1, <4>2 DEF Quit, Leave, Exit
      <4>3. CASE Answer(Shell) \/ ForkFails(Shell) \/ Exec(Shell)
        BY <4>1, <4>3 DEF Answer, ForkFails, Exec, StartsProcess, IsPath, Goto
      <4>4. CASE Wait(Shell)
        BY <4>1, <4>4, ShellAssumption DEF Wait
      <4>5. CASE Fork(Shell)
        BY <4>1, <4>5, ShellAssumption DEF Fork, StartsProcess
      <4> QED
        BY <1>4, <3>2, <4>2, <4>3, <4>4, <4>5 DEF Hawsh
    <3>3. CASE ProgramReads(Shell) \/ ProgramEnds(Shell)
      BY <3>3 DEF ProgramReads, ProgramEnds
    <3>4. CASE UNCHANGED vars
      BY <3>4 DEF vars
    <3> QED
      BY <3>1, <3>2, <3>3, <3>4 DEF Next
  <2>3. LastCd' = LastCd
    BY <1>2, <2>1
  <2> QED
    BY <2>1, <2>2, <2>3 DEF CwdInv, Cd
<1> QED
  BY <1>1, <1>3, <1>4, WhoReads

(* Outside of a command the shell is where the last path that exists has   *)
(* put it.                                                                 *)
THEOREM InLastCd == Spec => []CwdIsLastCd
<1>1. Init => CwdInv
  BY DEF Init, CwdInv, LastCd, Procs
<1>2. CwdInv => CwdIsLastCd
  BY DEF CwdInv, CwdIsLastCd
<1> QED
  BY <1>1, <1>2, CwdStep, TypeInit, TypeStep, InvAlways, PTL DEF Spec
=============================================================================
