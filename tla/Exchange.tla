------------------------------ MODULE Exchange ------------------------------
(***************************************************************************)
(* One greeting and one reply between a server and a client, over four     *)
(* mechanisms: POSIX message queues (lab13/posix), a System V queue        *)
(* (lab13/sysv), POSIX shared memory with two semaphores (lab14/posix) and *)
(* System V shared memory with a set of two (lab14/sysv).  The eight       *)
(* programs are sequences of system calls on kernel objects that outlive   *)
(* their processes; what a call does depends on the mechanism.             *)
(*                                                                         *)
(* "mem" is the shared memory, "s2c" and "c2s" the queues or semaphores of *)
(* the two directions.  A name is linked to one generation of its object,  *)
(* and who has opened an object keeps it when the name is unlinked; a      *)
(* System V object is gone for everyone.  A semaphore is a queue of tokens.*)
(* A message, and the text in the memory, are known by their author.       *)
(*                                                                         *)
(* A server is started when no other server runs; clients at any time.     *)
(* Failures of calls that do not depend on the other processes are left    *)
(* out.  An operator with a suffix _bug is a seeded slip in the next one.  *)
(***************************************************************************)
EXTENDS Integers, Sequences, FiniteSets

CONSTANTS
    Servers, Clients,
    Nobody,
    MaxKills    \* bound: processes that are killed

ASSUME ExchangeProcs == /\ Servers \cap Clients = {} /\ Nobody \notin Servers \cup Clients
                        /\ IsFiniteSet(Servers) /\ MaxKills \in Nat

Procs == Servers \cup Clients
Names == {"mem", "s2c", "c2s"}
Generations == 1..Cardinality(Servers)

SysV == {"smq", "sshm"}     \* mechanisms whose objects are removed for all
Memory == {"pshm", "sshm"}  \* mechanisms with a shared text

Do(op, names) == [op |-> op, on |-> names]

ServerProgram(m) ==
    CASE m = "pmq"  -> <<Do("create", {"s2c"}), Do("create", {"c2s"}), Do("send", {"s2c"}),
                         Do("receive", {"c2s"}), Do("unlink", {"s2c"}), Do("unlink", {"c2s"})>>
      [] m = "smq"  -> <<Do("create", {"s2c", "c2s"}), Do("send", {"s2c"}),
                         Do("receive", {"c2s"}), Do("unlink", {"s2c", "c2s"})>>
      [] m = "pshm" -> <<Do("create", {"mem"}), Do("create", {"s2c"}), Do("create", {"c2s"}),
                         Do("write", {"mem"}), Do("send", {"s2c"}), Do("receive", {"c2s"}),
                         Do("read", {"mem"}), Do("unlink", {"s2c"}), Do("unlink", {"c2s"}),
                         Do("unlink", {"mem"})>>
      [] m = "sshm" -> <<Do("create", {"mem"}), Do("create", {"s2c", "c2s"}),
                         Do("reset", {"s2c", "c2s"}), Do("write", {"mem"}), Do("send", {"s2c"}),
                         Do("receive", {"c2s"}), Do("read", {"mem"}), Do("unlink", {"mem"}),
                         Do("unlink", {"s2c", "c2s"})>>

\* The clients of the queues try again until the name is there ("await").
ClientProgram(m) ==
    CASE m = "pmq"  -> <<Do("await", {"s2c"}), Do("await", {"c2s"}),
                         Do("receive", {"s2c"}), Do("send", {"c2s"})>>
      [] m = "smq"  -> <<Do("await", {"s2c", "c2s"}), Do("receive", {"s2c"}), Do("send", {"c2s"})>>
      [] m = "pshm" -> <<Do("open", {"mem"}), Do("open", {"s2c"}), Do("open", {"c2s"}),
                         Do("receive", {"s2c"}), Do("read", {"mem"}), Do("write", {"mem"}),
                         Do("send", {"c2s"})>>
      [] m = "sshm" -> <<Do("open", {"mem"}), Do("open", {"s2c", "c2s"}), Do("receive", {"s2c"}),
                         Do("read", {"mem"}), Do("write", {"mem"}), Do("send", {"c2s"})>>

VARIABLES
    mech,           \* which of the four pairs of programs is run
    status, pc,     \* each process: its state, and its next call
    link, gens,     \* each name: the generation it is linked to, and the last
    fd,             \* the generation each process has opened under each name
    box, text,      \* contents of the queues, and of the memory
    heard,          \* whose text each process has printed
    err             \* processes that went on after a call had failed
objects == <<link, gens, fd>>
vars == <<mech, status, pc, objects, box, text, heard, err>>

Program(p) == IF p \in Servers THEN ServerProgram(mech) ELSE ClientProgram(mech)
Killed == {p \in Procs : status[p] = "killed"}

Init ==
    /\ mech \in {"pmq", "smq", "pshm", "sshm"}
    /\ status = [p \in Procs |-> "idle"] /\ pc = [p \in Procs |-> 1]
    /\ link = [n \in Names |-> 0] /\ gens = [n \in Names |-> 0]
    /\ fd = [p \in Procs |-> [n \in Names |-> 0]]
    /\ box = [n \in Names |-> [g \in Generations |-> <<>>]]
    /\ text = [g \in Generations |-> Nobody]
    /\ heard = [p \in Procs |-> Nobody] /\ err = {}

Start(p) ==
    /\ status[p] = "idle"
    /\ p \in Servers => \A s \in Servers : status[s] # "run"
    /\ status' = [status EXCEPT ![p] = "run"]
    /\ UNCHANGED <<mech, pc, objects, box, text, heard, err>>

Kill(p) ==
    /\ status[p] = "run" /\ Cardinality(Killed) < MaxKills
    /\ status' = [status EXCEPT ![p] = "killed"]
    /\ UNCHANGED <<mech, pc, objects, box, text, heard, err>>

----------------------------------------------------------------------------
(* The calls *)

Calls(p, op) == status[p] = "run" /\ Program(p)[pc[p]].op = op
On(p) == Program(p)[pc[p]].on
Object(p, n) == fd[p][n]

Advance(p) ==
    /\ pc' = [pc EXCEPT ![p] = @ + 1]
    /\ status' = [status EXCEPT ![p] = IF pc[p] = Len(Program(p)) THEN "done" ELSE @]
Exit(p) == status' = [status EXCEPT ![p] = "failed"] /\ UNCHANGED pc

\* O_CREAT and IPC_CREAT without EXCL: an object of a killed run is taken over.
Create(p) ==
    /\ Calls(p, "create") /\ Advance(p)
    /\ LET new == {n \in On(p) : link[n] = 0} IN
       /\ gens' = [n \in Names |-> gens[n] + (IF n \in new THEN 1 ELSE 0)]
       /\ link' = [n \in Names |-> IF n \in new THEN gens'[n] ELSE link[n]]
    /\ fd' = [fd EXCEPT ![p] = [n \in Names |-> IF n \in On(p) THEN link'[n] ELSE @[n]]]
    /\ UNCHANGED <<mech, box, text, heard, err>>

Open(p) ==
    /\ Calls(p, "open") \/ Calls(p, "await")
    /\ \/ /\ \A n \in On(p) : link[n] # 0
          /\ fd' = [fd EXCEPT ![p] = [n \in Names |-> IF n \in On(p) THEN link[n] ELSE @[n]]]
          /\ Advance(p)
       \/ /\ Calls(p, "open") /\ \E n \in On(p) : link[n] = 0
          /\ Exit(p) /\ UNCHANGED fd
    /\ UNCHANGED <<mech, link, gens, box, text, heard, err>>

\* init_vals = {1, 0} (RightText)
Reset_bug(p) ==
    /\ Calls(p, "reset") /\ Advance(p)
    /\ box' = [n \in Names |-> IF n \in On(p)
                               THEN [box[n] EXCEPT ![Object(p, n)] = IF n = "s2c" THEN <<p>> ELSE <<>>]
                               ELSE box[n]]
    /\ UNCHANGED <<mech, objects, text, heard, err>>
Reset(p) ==
    /\ Calls(p, "reset") /\ Advance(p)
    /\ box' = [n \in Names |-> IF n \in On(p) THEN [box[n] EXCEPT ![Object(p, n)] = <<>>] ELSE box[n]]
    /\ UNCHANGED <<mech, objects, text, heard, err>>

Write(p) ==
    /\ Calls(p, "write") /\ Advance(p)
    /\ text' = [text EXCEPT ![Object(p, "mem")] = p]
    /\ UNCHANGED <<mech, objects, box, heard, err>>

Read(p) ==
    /\ Calls(p, "read") /\ Advance(p)
    /\ heard' = [heard EXCEPT ![p] = text[Object(p, "mem")]]
    /\ UNCHANGED <<mech, objects, box, text, err>>

Gone(p, n) == mech \in SysV /\ link[n] # Object(p, n)

\* the reply goes where the greeting came from (Answered)
Send_bug(p) ==
    /\ Calls(p, "send") /\ Advance(p)
    /\ box' = [box EXCEPT !["s2c"][Object(p, "s2c")] = Append(@, p)]
    /\ UNCHANGED <<mech, objects, text, heard, err>>
Send(p) ==
    /\ Calls(p, "send") /\ Advance(p)
    /\ \E n \in On(p) : /\ ~Gone(p, n)
                        /\ box' = [box EXCEPT ![n][Object(p, n)] = Append(@, p)]
    /\ UNCHANGED <<mech, objects, text, heard, err>>

\* the message stays in the queue (Paired)
Receive_bug(p) ==
    /\ Calls(p, "receive") /\ Advance(p)
    /\ \E n \in On(p) :
          /\ ~Gone(p, n) /\ box[n][Object(p, n)] # <<>>
          /\ heard' = IF mech \in Memory THEN heard
                      ELSE [heard EXCEPT ![p] = Head(box[n][Object(p, n)])]
    /\ UNCHANGED <<mech, objects, box, text, err>>
Receive(p) ==
    /\ Calls(p, "receive") /\ Advance(p)
    /\ \E n \in On(p) :
          /\ ~Gone(p, n) /\ box[n][Object(p, n)] # <<>>
          /\ box' = [box EXCEPT ![n][Object(p, n)] = Tail(@)]
          /\ heard' = IF mech \in Memory THEN heard
                      ELSE [heard EXCEPT ![p] = Head(box[n][Object(p, n)])]
    /\ UNCHANGED <<mech, objects, text, err>>

\* The object was removed: the programs of lab13 end, those of lab14 go on.
Fail(p) ==
    /\ Calls(p, "send") \/ Calls(p, "receive")
    /\ \E n \in On(p) : Gone(p, n)
    /\ IF mech \in Memory THEN Advance(p) /\ err' = err \cup {p} ELSE Exit(p) /\ UNCHANGED err
    /\ UNCHANGED <<mech, objects, box, text, heard>>

Unlink(p) ==
    /\ Calls(p, "unlink") /\ Advance(p)
    /\ link' = [n \in Names |-> IF n \in On(p) THEN 0 ELSE link[n]]
    /\ UNCHANGED <<mech, gens, fd, box, text, heard, err>>

Call(p) == \/ Create(p) \/ Open(p) \/ Reset(p) \/ Write(p) \/ Read(p)
           \/ Send(p) \/ Receive(p) \/ Fail(p) \/ Unlink(p)

Next == \E p \in Procs : Start(p) \/ Kill(p) \/ Call(p)
Spec == Init /\ [][Next]_vars
FairSpec == Spec /\ \A p \in Procs : WF_vars(Call(p))

----------------------------------------------------------------------------
(* Properties *)

\* A client opens memory and semaphores one after the other, and may be left
\* with the memory of one run and the semaphores of the next.
Mixed(c) == \E m, n \in Names : fd[c][m] # 0 /\ fd[c][n] # 0 /\ fd[c][m] # fd[c][n]
Orderly == Killed = {} /\ ~ \E c \in Clients : Mixed(c)

\* A server that ends has printed a client's text and a client a server's:
\* always with the queues, whatever was left in them by killed processes; with
\* the memory, unless somebody was killed or has mixed up two runs, or one of
\* its own calls has failed.
RightText ==
    \A p \in Procs :
        status[p] = "done" /\ p \notin err /\ (mech \in Memory => Orderly) =>
            heard[p] \in IF p \in Servers THEN Clients ELSE Servers

\* In the same conditions the reply that a server has printed is that of the one
\* client that has printed its greeting, although the objects of several runs
\* have the same names and other clients are about.
Paired ==
    Orderly =>
        \A s \in Servers :
            /\ heard[s] \in Clients => heard[heard[s]] = s
            /\ Cardinality({c \in Clients : heard[c] = s /\ c \notin err}) <= 1

\* A server is answered if a client has got hold of the objects it uses: no
\* order of creating and opening them makes the two miss each other.
Attached(c) ==
    /\ Calls(c, "receive")
    /\ \A n \in {"s2c", "c2s"} : link[n] # 0 /\ fd[c][n] = link[n]
Answered ==
    \A s \in Servers, c \in Clients :
        status[s] = "run" /\ Attached(c) /\ heard[s] = Nobody
            ~> status[s] = "done" \/ Killed # {}
=============================================================================
