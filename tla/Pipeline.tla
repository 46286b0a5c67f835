------------------------------ MODULE Pipeline ------------------------------
(***************************************************************************)
(* The shells of lab10 (bash.c, one command at a time) and lab12           *)
(* (bash_new.c, pipelines): pipe, fork, dup2, close, execvp and waitpid,   *)
(* with the children running as soon as they are forked, on pipes that     *)
(* report end of file, or kill the writer, when their last descriptor is   *)
(* closed.                                                                 *)
(*                                                                         *)
(* A line is a sequence of commands, each known by what its program does   *)
(* with input and output: "gen" writes Items items, "yes" writes for ever, *)
(* "cat" copies, "head" copies one item, "true" ends at once, and "exit"   *)
(* is no program.  Whoever reads the terminal finds the end of the input.  *)
(* Pipe i, from command i to command i + 1, is pipes[i - 1] of the code.   *)
(*                                                                         *)
(* An operator with the suffix _bug is a seeded slip in the next one.      *)
(***************************************************************************)
EXTENDS Integers, FiniteSets, Sequences

CONSTANTS
    Typed,          \* what the user may type
    MaxCommands,    \* bound: commands in a line
    Items,          \* items that "gen" writes
    Room,           \* items that a pipe holds
    Screen          \* bound: items of a line's output that the terminal keeps

Programs == {"gen", "yes", "cat", "head", "true", "exit"}
ASSUME PipelineAssumption ==
    /\ MaxCommands \in Nat \ {0} /\ Items \in Nat /\ Room \in Nat \ {0} /\ Screen \in Nat
    /\ Typed \subseteq {l \in Seq(Programs) : Len(l) <= MaxCommands}

Children == 1..MaxCommands
Pipes == 1..(MaxCommands - 1)
Shell == 0
Terminal == 0

VARIABLES
    shell,          \* "bash" (lab10) or "bash_new" (lab12)
    pc,             \* where the shell is
    line, failed,   \* the commands of this line; which call has failed in it
    ends,           \* the ends of pipes each process has open
    stdin, stdout,  \* each child: the pipe, or the terminal, behind 0 and 1
    state,          \* each child
    forked, waited, \* how far the loops over fork and waitpid have come
    held, written,  \* each program: what it has read, how much it has written
    buf, screen     \* contents of the pipes and the terminal
parent == <<shell, line>>
loops == <<forked, waited>>
program == <<held, written>>
shellVars == <<parent, pc, failed, ends, stdin, stdout, state, loops, program, buf, screen>>

comand_cnt == Len(line)
num_pipes == comand_cnt - 1
Ends(i) == {<<i, "r">>, <<i, "w">>}
HasReader(i) == (\E p \in DOMAIN ends : <<i, "r">> \in ends[p]) \/ \E c \in Children : stdin[c] = i
HasWriter(i) == (\E p \in DOMAIN ends : <<i, "w">> \in ends[p]) \/ \E c \in Children : stdout[c] = i

ShellInit ==
    /\ shell \in {"bash", "bash_new"} /\ pc = "prompt"
    /\ line = <<>> /\ failed = "no"
    /\ ends = [p \in Children \cup {Shell} |-> {}]
    /\ stdin = [c \in Children |-> Terminal] /\ stdout = [c \in Children |-> Terminal]
    /\ state = [c \in Children |-> "none"]
    /\ forked = 0 /\ waited = 0
    /\ held = [c \in Children |-> <<>>] /\ written = [c \in Children |-> 0]
    /\ buf = [i \in Pipes |-> <<>>] /\ screen = <<>>

----------------------------------------------------------------------------
(* The shell *)

\* To the old shell "|" is an argument like any other.
OneCommand(l) == IF l = <<>> THEN <<>> ELSE <<l[1]>>
Commands(l) == IF shell = "bash" THEN OneCommand(l) ELSE l
Quits(cmds) == cmds = <<"exit">>

ReadLine ==
    /\ pc = "prompt"
    /\ \E l \in Typed :
          /\ line' = Commands(l)
          /\ pc' = CASE line' = <<>> -> "prompt" [] Quits(line') -> "exited" [] OTHER -> "pipe"
    /\ failed' = "no" /\ forked' = 0 /\ waited' = 0 /\ screen' = <<>>
    /\ buf' = [i \in Pipes |-> <<>>]
    /\ UNCHANGED <<shell, ends, stdin, stdout, state, program>>

\* getline finds the end of the input, or there is no memory for the words of
\* the first array: the loop is left.
Leave ==
    /\ pc = "prompt" /\ pc' = "exited"
    /\ UNCHANGED <<parent, failed, ends, stdin, stdout, state, loops, program, buf, screen>>

\* Without memory for one of the later arrays the new shell frees comand_argvs,
\* whose entries were never set, and may crash, or goes to the next line.
ParseFails ==
    /\ pc = "prompt" /\ shell = "bash_new"
    /\ line' = <<>> /\ screen' = <<>> /\ failed' = "memory"
    /\ pc' \in {"prompt", "exited"} /\ forked' = 0 /\ waited' = 0
    /\ UNCHANGED <<shell, ends, stdin, stdout, state, program, buf>>

Opened == {i \in 1..num_pipes : Ends(i) \subseteq ends[Shell]}
CloseEnds == ends' = [ends EXCEPT ![Shell] = {}]
GiveUp == failed' = "pipe" /\ pc' = "prompt" /\ CloseEnds

\* the ends of the earlier pipes stay open when pipe() fails (NothingLeft)
MakePipe_bug ==
    /\ pc = "pipe" /\ Opened # 1..num_pipes
    /\ \/ /\ ends' = [ends EXCEPT ![Shell] = @ \cup Ends(Cardinality(Opened) + 1)]
          /\ UNCHANGED <<pc, failed>>
       \/ failed' = "pipe" /\ pc' = "prompt" /\ UNCHANGED ends
    /\ UNCHANGED <<parent, stdin, stdout, state, loops, program, buf, screen>>
\* One call of pipe(); if it fails, or there was no memory for the array, the
\* pipes there are get closed and the line is dropped.
MakePipe ==
    /\ pc = "pipe" /\ Opened # 1..num_pipes
    /\ \/ /\ ends' = [ends EXCEPT ![Shell] = @ \cup Ends(Cardinality(Opened) + 1)]
          /\ UNCHANGED <<pc, failed>>
       \/ GiveUp
    /\ UNCHANGED <<parent, stdin, stdout, state, loops, program, buf, screen>>

Alloc ==
    /\ pc = "pipe" /\ Opened = 1..num_pipes
    /\ \/ pc' = "fork" /\ UNCHANGED <<failed, ends>>
       \/ shell = "bash_new" /\ GiveUp
    /\ UNCHANGED <<parent, stdin, stdout, state, loops, program, buf, screen>>

\* The loop ends with the last command or when a fork has failed.
Forking == pc = "fork" /\ failed # "fork" /\ forked < comand_cnt

\* A child has copies of all the descriptors its parent has open.
Fork ==
    /\ Forking
    /\ forked' = forked + 1
    /\ state' = [state EXCEPT ![forked'] = "forked"]
    /\ ends' = [ends EXCEPT ![forked'] = ends[Shell]]
    /\ UNCHANGED <<parent, pc, failed, stdin, stdout, waited, program, buf, screen>>

\* At most one call fails in a line.
ForkFails ==
    /\ Forking /\ failed = "no" /\ failed' = "fork"
    /\ UNCHANGED <<parent, pc, ends, stdin, stdout, state, loops, program, buf, screen>>

ClosePipes ==
    /\ pc = "fork" /\ ~Forking /\ pc' = "wait" /\ CloseEnds
    /\ UNCHANGED <<parent, failed, stdin, stdout, state, loops, program, buf, screen>>

\* waitpid: at once if pid is no child, after its end if it is.
Await(pid) ==
    \/ pid \notin Children /\ UNCHANGED state
    \/ pid \in Children /\ state[pid] = "none" /\ UNCHANGED state
    \/ pid \in Children /\ state[pid] = "zombie" /\ state' = [state EXCEPT ![pid] = "none"]

\* Entries of pids behind a failed fork were never set and may hold anything, the
\* pid of a child that has been waited for included.
Pid(i) == IF i <= forked THEN {i} ELSE Children \cup {0}

Wait ==
    /\ pc = "wait" /\ waited < comand_cnt /\ waited' = waited + 1
    /\ \E pid \in Pid(waited') : Await(pid)
    /\ UNCHANGED <<parent, pc, failed, ends, stdin, stdout, forked, program, buf, screen>>

Done ==
    /\ pc = "wait" /\ waited = comand_cnt /\ pc' = "prompt"
    /\ UNCHANGED <<parent, failed, ends, stdin, stdout, state, loops, program, buf, screen>>

----------------------------------------------------------------------------
(* A child, from fork to execvp *)

\* The kernel closes what an ended process had open; its private memory is gone.
Die(c) ==
    /\ state' = [state EXCEPT ![c] = "zombie"]
    /\ ends' = [ends EXCEPT ![c] = {}]
    /\ stdin' = [stdin EXCEPT ![c] = Terminal] /\ stdout' = [stdout EXCEPT ![c] = Terminal]
    /\ held' = [held EXCEPT ![c] = <<>>] /\ written' = [written EXCEPT ![c] = 0]

\* if (i > 1), so that the second command reads the terminal (Computes)
Redirect_bug(c) ==
    /\ state[c] = "forked" /\ state' = [state EXCEPT ![c] = "redirected"]
    /\ stdin' = [stdin EXCEPT ![c] = IF c > 2 THEN c - 1 ELSE Terminal]
    /\ stdout' = [stdout EXCEPT ![c] = IF c < comand_cnt THEN c ELSE Terminal]
    /\ UNCHANGED <<parent, pc, failed, ends, loops, program, buf, screen>>
Redirect(c) ==
    /\ state[c] = "forked" /\ state' = [state EXCEPT ![c] = "redirected"]
    /\ stdin' = [stdin EXCEPT ![c] = IF c > 1 THEN c - 1 ELSE Terminal]
    /\ stdout' = [stdout EXCEPT ![c] = IF c < comand_cnt THEN c ELSE Terminal]
    /\ UNCHANGED <<parent, pc, failed, ends, loops, program, buf, screen>>

RedirectFails(c) ==
    /\ state[c] = "forked" /\ comand_cnt > 1
    /\ failed = "no" /\ failed' = "dup2"
    /\ Die(c)
    /\ UNCHANGED <<parent, pc, loops, buf, screen>>

\* a child keeps the other commands' ends, and that into its own input (PromptReturns)
CloseCopies_bug(c) ==
    /\ state[c] = "redirected" /\ state' = [state EXCEPT ![c] = "closed"]
    /\ ends' = [ends EXCEPT ![c] = {e \in @ : e[1] # c /\ e[2] = "w"}]
    /\ UNCHANGED <<parent, pc, failed, stdin, stdout, loops, program, buf, screen>>
CloseCopies(c) ==
    /\ state[c] = "redirected" /\ state' = [state EXCEPT ![c] = "closed"]
    /\ ends' = [ends EXCEPT ![c] = {}]
    /\ UNCHANGED <<parent, pc, failed, stdin, stdout, loops, program, buf, screen>>

Exec(c) ==
    /\ state[c] = "closed"
    /\ IF line[c] = "exit" THEN Die(c)
       ELSE /\ state' = [state EXCEPT ![c] = "run"]
            /\ UNCHANGED <<ends, stdin, stdout, program>>
    /\ UNCHANGED <<parent, pc, failed, loops, buf, screen>>

----------------------------------------------------------------------------
(* The programs *)

Reads(c) == line[c] \in {"cat", "head"} /\ held[c] = <<>> /\ (line[c] = "head" => written[c] = 0)
Writes(c) == \/ line[c] \in {"cat", "head"} /\ held[c] # <<>>
             \/ line[c] = "gen" /\ written[c] < Items
             \/ line[c] = "yes"
Item(c) == CASE line[c] = "gen" -> written[c] + 1 [] line[c] = "yes" -> 1 [] OTHER -> held[c][1]
Show(out, x) == IF Len(out) < Screen THEN Append(out, x) ELSE out

Read(c) ==
    /\ state[c] = "run" /\ Reads(c) /\ stdin[c] # Terminal /\ buf[stdin[c]] # <<>>
    /\ held' = [held EXCEPT ![c] = <<Head(buf[stdin[c]])>>]
    /\ buf' = [buf EXCEPT ![stdin[c]] = Tail(@)]
    /\ UNCHANGED <<parent, pc, failed, ends, stdin, stdout, state, loops, written, screen>>

EndOfFile(c) ==
    \/ stdin[c] = Terminal
    \/ stdin[c] # Terminal /\ buf[stdin[c]] = <<>> /\ ~HasWriter(stdin[c])

\* Returns, or has nothing to do any more.
Finish(c) ==
    /\ state[c] = "run" /\ ~Writes(c) /\ (Reads(c) => EndOfFile(c))
    /\ Die(c)
    /\ UNCHANGED <<parent, pc, failed, loops, buf, screen>>

Wrote(c) ==
    /\ held' = [held EXCEPT ![c] = <<>>]
    /\ written' = [written EXCEPT ![c] = IF line[c] \in {"gen", "head"} THEN @ + 1 ELSE 0]

Write(c) ==
    /\ state[c] = "run" /\ Writes(c) /\ Wrote(c)
    /\ IF stdout[c] = Terminal
       THEN screen' = Show(screen, Item(c)) /\ UNCHANGED buf
       ELSE /\ HasReader(stdout[c]) /\ Len(buf[stdout[c]]) < Room
            /\ buf' = [buf EXCEPT ![stdout[c]] = Append(@, Item(c))]
            /\ UNCHANGED screen
    /\ UNCHANGED <<parent, pc, failed, ends, stdin, stdout, state, loops>>

SigPipe(c) ==
    /\ state[c] = "run" /\ Writes(c) /\ stdout[c] # Terminal /\ ~HasReader(stdout[c])
    /\ Die(c)
    /\ UNCHANGED <<parent, pc, failed, loops, buf, screen>>

----------------------------------------------------------------------------
ShellStep == MakePipe \/ Alloc \/ Fork \/ ForkFails \/ ClosePipes \/ Wait \/ Done
ChildStep(c) == Redirect(c) \/ RedirectFails(c) \/ CloseCopies(c) \/ Exec(c)
                \/ Read(c) \/ Finish(c) \/ Write(c) \/ SigPipe(c)
ShellNext == ReadLine \/ Leave \/ ParseFails \/ ShellStep \/ \E c \in Children : ChildStep(c)
ShellSpec == ShellInit /\ [][ShellNext]_shellVars
ShellFairSpec == ShellSpec /\ WF_shellVars(ShellStep) /\ \A c \in Children : WF_shellVars(ChildStep(c))

----------------------------------------------------------------------------
(* Properties *)

\* Whatever has failed on the way, the shell comes back to its prompt without a
\* descriptor of a pipe, a running child or a zombie: it can go on for ever.
NothingLeft ==
    pc = "prompt" => ends[Shell] = {} /\ \A c \in Children : state[c] = "none" /\ ends[c] = {}

\* What a line of commands computes: each gets the output of the one before.
\* "yes" stands for more than is kept of it.
Output(input, prog) ==
    CASE prog = "gen" -> [k \in 1..Items |-> k]
      [] prog = "yes" -> [k \in 1..(Screen + 1) |-> 1]
      [] prog = "cat" -> input
      [] prog = "head" -> IF input = <<>> THEN <<>> ELSE <<input[1]>>
      [] OTHER -> <<>>
Results(l) ==
    LET Stage[k \in 0..Len(l)] == IF k = 0 THEN <<>> ELSE Output(Stage[k - 1], l[k])
    IN Stage
Result == Results(line)[comand_cnt]
OnScreen(out) == IF Len(out) > Screen THEN SubSeq(out, 1, Screen) ELSE out

\* The terminal shows a prefix of what the line computes and, back at the
\* prompt, all of it unless a call has failed: no writer is killed while there is
\* somebody to read, and no reader is told the end before there is one.
Computes ==
    /\ \E n \in 0..Len(OnScreen(Result)) : screen = SubSeq(Result, 1, n)
    /\ pc = "prompt" /\ failed = "no" => screen = OnScreen(Result)

\* The shell comes back from every line but those in which "yes" is not followed
\* by a program that stops reading: every reader gets its end of file, and every
\* writer its signal, although parent and children hold copies of the pipes.
Endless == \E i \in 1..comand_cnt : line[i] = "yes"
                                    /\ \A j \in i..comand_cnt : line[j] \in {"cat", "yes"}
PromptReturns == pc \in {"pipe", "fork", "wait"} /\ ~Endless ~> pc = "prompt"
=============================================================================
