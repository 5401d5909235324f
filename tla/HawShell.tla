------------------------------- MODULE HawShell -------------------------------
(***************************************************************************)
(* The HAW shell of Praktikum 2, Aufgabe 1 (main.c): it reads lines, runs  *)
(* some commands itself and starts a process for the others.  A child runs *)
(* the same code as the shell until execlp succeeds, so every action of    *)
(* the shell is an action of any process.                                  *)
(*                                                                         *)
(* A process' pc: "prompt" (line 58), "dispatch" (63), "wait" (42), "exec" *)
(* (46), "failed" (startProcess has returned -1), "program" (exec has      *)
(* succeeded), "zombie", "gone" (the shell has ended) or "free" (no such   *)
(* process).  Lines are sequences of tokens, "newline" among them.         *)
(*                                                                         *)
(* Standard input is the terminal ("von Tastatur", 61): it hands out one   *)
(* line per read, to whichever process reads, and no offset can be moved   *)
(* back.  All processes share it; what fgets has left of a long line lies  *)
(* in the stdio buffer of one process, and of the copies fork makes of it. *)
(***************************************************************************)
EXTENDS Integers, Sequences

CONSTANTS
  Shell,         (* the process main runs in                                *)
  Pids,          (* what fork can return: the room in the process table     *)
  NoPid,
  Tokens,
  Programs,      (* the names execlp finds                                  *)
  Directories,   (* the paths chdir accepts                                 *)
  Home,          (* the directory the shell is started in                   *)
  BUFFER,        (* the size of command: 256                                *)
  Scripts,       (* what is typed: sequences of lines, newline included     *)
  ForkMayFail    (* fork may fail although the process table has room       *)

Blanks == {"blank", "newline"}

ASSUME ShellAssumption ==
  /\ Shell \notin Pids /\ NoPid \notin Pids
  /\ BUFFER \in Nat \ {0, 1}
  /\ Scripts \subseteq Seq(Seq(Tokens) \ {<<>>})
  /\ ForkMayFail \in BOOLEAN

Procs == Pids \cup {Shell}

VARIABLES
  input,                (* the lines nobody has read yet                    *)
  pc, command, cwd,     (* per process                                      *)
  rest,                 (* what is left of a line in its stdio buffer       *)
  child,                (* the pid a process has forked last                *)
  script,               (* history: the lines typed, but for those that a   *)
                        (* program has read                                 *)
  handled               (* history: the commands read                       *)

vars == <<input, pc, command, cwd, rest, child, script, handled>>

Init ==
  /\ script \in Scripts /\ input = script
  /\ pc = [p \in Procs |-> IF p = Shell THEN "prompt" ELSE "free"]
  /\ command = [p \in Procs |-> <<>>]
  /\ cwd = [p \in Procs |-> Home]
  /\ rest = [p \in Procs |-> <<>>]
  /\ child = [p \in Procs |-> NoPid]
  /\ handled = <<>>

-----------------------------------------------------------------------------
(* Strings *)

Letters(s) == {n \in 1 .. Len(s) : s[n] \notin Blanks}

(* trimString: up to the last token that is neither blank nor newline. *)
Trim(s) ==
  SubSeq(s, 1, IF Letters(s) = {} THEN 0
               ELSE CHOOSE n \in Letters(s) : \A m \in Letters(s) : m <= n)

InBackground(s) == s # <<>> /\ s[Len(s)] = "&"

(* Lines 46-48: the last character, if it is an &, is cut off. *)
ProgramName(s) == IF InBackground(s) THEN SubSeq(s, 1, Len(s) - 1) ELSE s

-----------------------------------------------------------------------------
(* What the kernel does *)

Goto(p, label) == pc' = [pc EXCEPT ![p] = label]

(* A child that ends stays in the process table until it is waited for;    *)
(* when the shell ends init waits for what it leaves behind.               *)
Exit(p) ==
  pc' = [q \in Procs |->
           IF q = p THEN IF p = Shell THEN "gone"
                         ELSE IF pc[Shell] = "gone" THEN "free" ELSE "zombie"
           ELSE IF p = Shell /\ pc[q] = "zombie" THEN "free"
           ELSE pc[q]]

-----------------------------------------------------------------------------
(* The loop of hawsh *)

(* Mutant of Chunk: room for the terminating 0 is forgotten twice. *)
ChunkTooShort(line) == IF Len(line) < BUFFER - 1 THEN Len(line) ELSE BUFFER - 2

(* fgets takes a line, or as much of it as fits. *)
Chunk(line) == IF Len(line) < BUFFER THEN Len(line) ELSE BUFFER - 1

(* Lines 57-62.  At the end of the input nothing is read, and the command  *)
(* is the empty one of line 59.                                            *)
ReadCommand(p) ==
  /\ pc[p] = "prompt"
  /\ Goto(p, "dispatch")
  /\ \/ /\ rest[p] = <<>> /\ input = <<>>
        /\ command' = [command EXCEPT ![p] = <<>>]
        /\ UNCHANGED <<input, rest, handled>>
     \/ /\ rest[p] # <<>> \/ input # <<>>
        /\ LET line == IF rest[p] # <<>> THEN rest[p] ELSE Head(input)
               read == Trim(SubSeq(line, 1, Chunk(line)))
           IN  /\ command' = [command EXCEPT ![p] = read]
               /\ handled' = Append(handled, read)
               /\ rest' = [rest EXCEPT ![p] = SubSeq(line, Chunk(line) + 1, Len(line))]
        /\ input' = IF rest[p] # <<>> THEN input ELSE Tail(input)
  /\ UNCHANGED <<cwd, child, script>>

(* Lines 63-65, 86-89. *)
Quit(p) ==
  /\ pc[p] = "dispatch" /\ command[p] = <<"quit">>
  /\ Exit(p)
  /\ UNCHANGED <<input, command, cwd, rest, child, script, handled>>

(* Lines 66-70 and 79-81: something is printed. *)
Answer(p) ==
  /\ pc[p] = "dispatch" /\ command[p] \in {<<"version">>, <<"help">>, <<>>}
  /\ Goto(p, "prompt")
  /\ UNCHANGED <<input, command, cwd, rest, child, script, handled>>

IsPath(s) == s # <<>> /\ s[1] = "/"

(* Mutant of ChangeDir: the result of chdir is taken for granted. *)
ChangeDirAnyway(p) ==
  /\ pc[p] = "dispatch" /\ IsPath(command[p])
  /\ cwd' = [cwd EXCEPT ![p] = command[p]]
  /\ Goto(p, "prompt")
  /\ UNCHANGED <<input, command, rest, child, script, handled>>

(* Lines 71-72; nobody asks whether chdir has succeeded. *)
ChangeDir(p) ==
  /\ pc[p] = "dispatch" /\ IsPath(command[p])
  /\ cwd' = IF command[p] \in Directories THEN [cwd EXCEPT ![p] = command[p]] ELSE cwd
  /\ Goto(p, "prompt")
  /\ UNCHANGED <<input, command, rest, child, script, handled>>

(* Line 73. *)
StartsProcess(s) ==
  ~IsPath(s) /\ s \notin {<<"quit">>, <<"version">>, <<"help">>, <<>>}

(* Lines 74-77, 86-88: whoever gets -1 from startProcess leaves hawsh and  *)
(* main: a child whose exec failed, but also the shell itself.  What exit  *)
(* finds in the child's stdio buffer is dropped: a terminal takes nothing  *)
(* back.                                                                   *)
Leave(p) ==
  /\ pc[p] = "failed"
  /\ Exit(p)
  /\ UNCHANGED <<input, command, cwd, rest, child, script, handled>>

-----------------------------------------------------------------------------
(* startProcess *)

(* Mutant of Fork: every command is waited for. *)
ForkAlwaysWaits(p) ==
  /\ pc[p] = "dispatch" /\ StartsProcess(command[p])
  /\ \E c \in Pids :
       /\ pc[c] = "free"
       /\ pc' = [pc EXCEPT ![p] = "wait", ![c] = "exec"]
       /\ command' = [command EXCEPT ![c] = command[p]]
       /\ cwd' = [cwd EXCEPT ![c] = cwd[p]]
       /\ rest' = [rest EXCEPT ![c] = rest[p]]
       /\ child' = [child EXCEPT ![p] = c, ![c] = NoPid]
  /\ UNCHANGED <<input, script, handled>>

(* Lines 31, 38-44: the child is a copy of the process. *)
Fork(p) ==
  /\ pc[p] = "dispatch" /\ StartsProcess(command[p])
  /\ \E c \in Pids :
       /\ pc[c] = "free"
       /\ pc' = [pc EXCEPT ![p] = IF InBackground(command[p]) THEN "prompt" ELSE "wait",
                           ![c] = "exec"]
       /\ command' = [command EXCEPT ![c] = command[p]]
       /\ cwd' = [cwd EXCEPT ![c] = cwd[p]]
       /\ rest' = [rest EXCEPT ![c] = rest[p]]
       /\ child' = [child EXCEPT ![p] = c, ![c] = NoPid]
  /\ UNCHANGED <<input, script, handled>>

(* Lines 32-36: the process table is full, or fork fails for another       *)
(* reason.                                                                 *)
ForkFails(p) ==
  /\ pc[p] = "dispatch" /\ StartsProcess(command[p])
  /\ ForkMayFail \/ \A c \in Pids : pc[c] # "free"
  /\ Goto(p, "failed")
  /\ UNCHANGED <<input, command, cwd, rest, child, script, handled>>

(* Mutant of Wait: any child will do. *)
WaitAny(p) ==
  /\ pc[p] = "wait"
  /\ \E c \in Pids :
       /\ pc[c] = "zombie"
       /\ pc' = [pc EXCEPT ![p] = "prompt", ![c] = "free"]
  /\ UNCHANGED <<input, command, cwd, rest, child, script, handled>>

(* Line 42. *)
Wait(p) ==
  /\ pc[p] = "wait" /\ pc[child[p]] = "zombie"
  /\ pc' = [pc EXCEPT ![p] = "prompt", ![child[p]] = "free"]
  /\ UNCHANGED <<input, command, cwd, rest, child, script, handled>>

(* Mutant of Exec: a failed exec goes on as a successful startProcess. *)
ExecReturnsZero(c) ==
  /\ pc[c] = "exec"
  /\ \/ /\ ProgramName(command[c]) \in Programs
        /\ Goto(c, "program")
        /\ rest' = [rest EXCEPT ![c] = <<>>]
     \/ /\ ProgramName(command[c]) \notin Programs
        /\ Goto(c, "prompt")
        /\ UNCHANGED rest
  /\ UNCHANGED <<input, command, cwd, child, script, handled>>

(* Lines 46-50; command keeps the line the process was started with, and   *)
(* the stdio buffer is gone.                                               *)
Exec(c) ==
  /\ pc[c] = "exec"
  /\ \/ /\ ProgramName(command[c]) \in Programs
        /\ Goto(c, "program")
        /\ rest' = [rest EXCEPT ![c] = <<>>]
     \/ /\ ProgramName(command[c]) \notin Programs
        /\ Goto(c, "failed")
        /\ UNCHANGED rest
  /\ UNCHANGED <<input, command, cwd, child, script, handled>>

(* Line 49: the program has inherited standard input, and reads a line     *)
(* that was typed for the shell or for itself.                             *)
ProgramReads(c) ==
  /\ pc[c] = "program" /\ input # <<>>
  /\ input' = Tail(input)
  /\ script' = SubSeq(script, 1, Len(script) - Len(input)) \o Tail(input)
  /\ UNCHANGED <<pc, command, cwd, rest, child, handled>>

(* A program ends when it likes, if ever. *)
ProgramEnds(c) ==
  /\ pc[c] = "program"
  /\ Exit(c)
  /\ UNCHANGED <<input, command, cwd, rest, child, script, handled>>

-----------------------------------------------------------------------------

Hawsh(p) ==
  \/ ReadCommand(p) \/ Quit(p) \/ Answer(p) \/ ChangeDir(p) \/ Leave(p)
  \/ Fork(p) \/ ForkFails(p) \/ Wait(p) \/ Exec(p)

Next == \E p \in Procs : Hawsh(p) \/ ProgramReads(p) \/ ProgramEnds(p)

Spec == Init /\ [][Next]_vars

(* The shell's own code is scheduled; nothing is said about the programs.  *)
FairSpec == Spec /\ \A p \in Procs : WF_vars(Hawsh(p))

-----------------------------------------------------------------------------
(* Properties *)

Labels == {"prompt", "dispatch", "wait", "exec", "failed", "program", "zombie",
           "gone", "free"}

TypeOK ==
  /\ input \in Seq(Seq(Tokens)) /\ handled \in Seq(Seq(Tokens))
  /\ pc \in [Procs -> Labels] /\ pc[Shell] \notin {"free", "program", "zombie"}
  /\ command \in [Procs -> Seq(Tokens)]
  /\ cwd \in [Procs -> Directories \cup {Home}]
  /\ rest \in [Procs -> Seq(Tokens)]
  /\ child \in [Procs -> Pids \cup {NoPid}]

(* A child that is back in the shell's code after a failed exec leaves it  *)
(* (main.c:50, 74-77): it reads no command and starts no process.          *)
OneReader == \A c \in Pids : pc[c] \notin {"prompt", "dispatch", "wait", "gone"}

(* While the shell reads commands only background processes exist: a       *)
(* foreground process has been waited for, and not another one in its      *)
(* place (main.c:40-43).                                                   *)
ForegroundWaited ==
  pc[Shell] \in {"prompt", "dispatch"} =>
    \A c \in Pids : pc[c] # "free" => InBackground(command[c])

(* The lines typed are handled in order, and once each, but for those that *)
(* a program has read instead (main.c:49), as long as what the shell reads *)
(* fits into its buffer (main.c:59-62).                                    *)
LinesInOrder ==
  (\A n \in 1 .. Len(script) - Len(input) : Len(script[n]) < BUFFER) =>
    /\ Len(handled) + Len(input) = Len(script)
    /\ \A n \in 1 .. Len(handled) : handled[n] = Trim(script[n])
    /\ \A n \in 1 .. Len(input) : input[n] = script[Len(handled) + n]

(* The shell is in the directory of the last path it has read that exists  *)
(* (main.c:71-72): neither a path that does not exist nor a command run by *)
(* a child moves it.                                                       *)
LastCd ==
  LET cds == {n \in 1 .. Len(handled) : IsPath(handled[n]) /\ handled[n] \in Directories}
  IN  IF cds = {} THEN Home
      ELSE handled[CHOOSE n \in cds : \A m \in cds : m <= n]

CwdIsLastCd == pc[Shell] \notin {"dispatch", "gone"} => cwd[Shell] = LastCd

(* If every foreground program ends, the shell gets through all its lines, *)
(* or leaves: no background program holds it up.                           *)
ForegroundProgram(c) == pc[c] = "program" /\ ~InBackground(command[c])

CommandsGoOn ==
  (\A c \in Pids : ForegroundProgram(c) ~> ~ForegroundProgram(c))
    => <>(\/ input = <<>> /\ rest[Shell] = <<>>
          \/ pc[Shell] = "gone")

(* main.c:35 says of a failed fork: "Schleife wiederholen".  Then nothing  *)
(* but the command quit would end the shell.                               *)
OnlyQuitEnds == pc[Shell] = "gone" => handled[Len(handled)] = <<"quit">>
=============================================================================
