------------------------------ MODULE MsgPool ------------------------------
(***************************************************************************)
(* The server of lab16/2/3: it queues tasks on a System V message queue for*)
(* a pool of forked workers, which call the clients back.  The pool grows  *)
(* and shrinks after each connection.  The handler of SIGCHLD removes dead *)
(* workers from the same table that spawn_one_worker and remove_one_worker *)
(* change, and it may run between any two of their machine steps; with the *)
(* -O0 of the Makefile worker[worker_cnt++] = pid is a load, a store of the*)
(* count and a store of the pid, and worker_cnt-- a load and a store.      *)
(*                                                                         *)
(* signal() of glibc restarts accept and read, so SIGALRM changes nothing  *)
(* and SIGCHLD interrupts no call but a msgsnd that blocks, whose failure  *)
(* is not looked at.  A client of the repository writes "port" and "host"  *)
(* in lower case, which the server does not parse; WellFormed are other    *)
(* clients, which write them in upper case.  A client may connect and say  *)
(* nothing, or hang up; one that has sent its line waits for the reply (a  *)
(* reset of its connection just then would be a SIGPIPE at the server).  An*)
(* accept or a fork that fails for want of descriptors, processes or memory*)
(* is left out, and so is the server's own end by a signal.                *)
(*                                                                         *)
(* An operator with a suffix _bug is a seeded slip in the one after it.    *)
(***************************************************************************)
EXTENDS Integers, Sequences, FiniteSets

CONSTANTS
    Clients, WellFormed,
    START, MAX,
    IDLE_TIMEOUT,
    QueueCap,      \* tasks that fit into msg_qbytes
    MaxForks,      \* bound: workers ever forked
    MaxTime,       \* bound: the clock
    MaxDeaths      \* bound: workers that end by themselves

\* Fewer than START workers die by themselves: then no index falls below 0.
ASSUME MsgPoolSizes ==
    /\ WellFormed \subseteq Clients
    /\ {START, MAX, IDLE_TIMEOUT, QueueCap, MaxForks, MaxTime, MaxDeaths} \subseteq Nat
    /\ START <= MAX /\ MaxDeaths < START /\ MaxTime > 0

VARIABLES
    pc,            \* the server's main program
    boots,         \* loop index of the START spawns
    cli,           \* the connection in hand (a set of at most one client)
    pid, reg,      \* locals: pid, and the register that holds worker_cnt
    worker, worker_cnt, last, now,
    queue,         \* the message queue, one client per task
    forks, wstate, \* workers forked, and what each does
    job,           \* the client each worker serves (a set of at most one)
    inbox,         \* connections not accepted yet
    cl,            \* each client: connected, with its line sent or hung up, or
                   \* what the server has answered
    delivered,     \* clients that were called back
    killed, dropped, lost, discarded, deaths, raced
        \* history: workers killed by remove_one_worker; tasks that went with
        \* their worker, with an interrupted msgsnd, or with a call-back that
        \* failed; deaths so far; whether SIGCHLD was handled inside a change
        \* of the table

mainVars == <<boots, cli, pid, reg, last>>
tableVars == <<worker, worker_cnt>>
workVars == <<queue, wstate, job, delivered, dropped, discarded>>
clientVars == <<inbox, cl>>
rest == <<forks, killed, lost, deaths, raced, now>>
vars == <<pc, mainVars, tableVars, workVars, clientVars, rest>>

Workers == 1..MaxForks
Alive == {w \in Workers : wstate[w] = "alive"}
Zombies == {w \in Workers : wstate[w] = "zombie"}

Init ==
    /\ pc = "boot" /\ boots = 0 /\ cli = {} /\ pid = 0 /\ reg = 0
    /\ worker = [k \in 0..(MAX - 1) |-> 0] /\ worker_cnt = 0
    /\ last = 0 /\ now = 1
    /\ queue = <<>> /\ forks = 0
    /\ wstate = [w \in Workers |-> "none"] /\ job = [w \in Workers |-> {}]
    /\ inbox = {} /\ cl = [c \in Clients |-> "off"]
    /\ delivered = {} /\ killed = {} /\ dropped = {} /\ lost = {}
    /\ discarded = {} /\ deaths = 0 /\ raced = FALSE

----------------------------------------------------------------------------
(* The main program *)

\* The START spawns come first, then the loop of accept.
Return == IF boots < START THEN "boot" ELSE "accept"

Boot ==
    /\ pc = "boot"
    /\ IF boots < START THEN pc' = "spawn" /\ boots' = boots + 1
                        ELSE pc' = "accept" /\ UNCHANGED boots
    /\ UNCHANGED <<cli, pid, reg, last, tableVars, workVars, clientVars, rest>>

Accept(c) ==
    /\ pc = "accept" /\ c \in inbox /\ pc' = "read"
    /\ inbox' = inbox \ {c} /\ cli' = {c}
    /\ UNCHANGED <<cl, boots, pid, reg, last, tableVars, workVars, rest>>

\* a line that does not parse gets no reply (Answered)
Read_bug ==
    /\ pc = "read"
    /\ \E c \in cli :
          \/ /\ cl[c] = "sent" /\ c \in WellFormed
             /\ pc' = "send" /\ UNCHANGED <<cli, cl>>
          \/ /\ cl[c] = "gone" \/ (cl[c] = "sent" /\ c \notin WellFormed)
             /\ pc' = "size" /\ cli' = {} /\ UNCHANGED cl
    /\ UNCHANGED <<inbox, boots, pid, reg, last, tableVars, workVars, rest>>
\* read_line waits for the whole line, for as long as it takes: no alarm is set.
\* Without a line the connection is closed, and nothing is written.
Read ==
    /\ pc = "read"
    /\ \E c \in cli :
          \/ /\ cl[c] = "sent" /\ c \in WellFormed
             /\ pc' = "send" /\ UNCHANGED <<cli, cl>>
          \/ /\ cl[c] = "sent" /\ c \notin WellFormed
             /\ pc' = "size" /\ cli' = {} /\ cl' = [cl EXCEPT ![c] = "err"]
          \/ /\ cl[c] = "gone"
             /\ pc' = "size" /\ cli' = {} /\ UNCHANGED cl
    /\ UNCHANGED <<inbox, boots, pid, reg, last, tableVars, workVars, rest>>

\* a full queue drops the task (AckedOnce)
Send_bug ==
    /\ pc = "send"
    /\ \E c \in cli : queue' = IF Len(queue) < QueueCap THEN Append(queue, c) ELSE queue
    /\ pc' = "reply"
    /\ UNCHANGED <<mainVars, tableVars, wstate, job, delivered, dropped, discarded, clientVars, rest>>
\* msgsnd blocks while the queue is full; see SigChld for its other outcome.
Send ==
    /\ pc = "send" /\ Len(queue) < QueueCap
    /\ \E c \in cli : queue' = Append(queue, c)
    /\ pc' = "reply"
    /\ UNCHANGED <<mainVars, tableVars, wstate, job, delivered, dropped, discarded, clientVars, rest>>

Reply ==
    /\ pc = "reply"
    /\ last' = now
    /\ \E c \in cli : cl' = [cl EXCEPT ![c] = "ok"]
    /\ cli' = {} /\ pc' = "size"
    /\ UNCHANGED <<boots, pid, reg, tableVars, workVars, inbox, rest>>

Resize ==
    /\ pc = "size"
    /\ pc' = IF queue # <<>> /\ worker_cnt < MAX THEN "spawn"
             ELSE IF /\ queue = <<>> /\ worker_cnt > START
                     /\ last > 0 /\ now - last >= IDLE_TIMEOUT
             THEN "remove" ELSE "accept"
    /\ UNCHANGED <<mainVars, tableVars, workVars, clientVars, rest>>

\* a failed fork is recorded as a worker (TypeOK)
Fork_bug ==
    /\ pc = "spawn" /\ worker_cnt < MAX
    /\ pid' = -1 /\ pc' = "load"
    /\ UNCHANGED <<boots, cli, reg, last, tableVars, workVars, clientVars, rest>>
\* spawn_one_worker: test and fork, load, store of the count, store of the pid
Fork ==
    /\ pc = "spawn"
    /\ IF worker_cnt >= MAX
       THEN pc' = Return /\ UNCHANGED <<pid, forks, wstate>>
       ELSE /\ forks < MaxForks
            /\ forks' = forks + 1 /\ pid' = forks'
            /\ wstate' = [wstate EXCEPT ![forks'] = "alive"]
            /\ pc' = "load"
    /\ UNCHANGED <<boots, cli, reg, last, tableVars, queue, job, delivered, dropped,
                   discarded, clientVars, killed, lost, deaths, raced, now>>

SpawnLoad ==
    /\ pc = "load" /\ pc' = "count"
    /\ reg' = worker_cnt
    /\ UNCHANGED <<boots, cli, pid, last, tableVars, workVars, clientVars, rest>>

SpawnCount ==
    /\ pc = "count" /\ pc' = "store"
    /\ worker_cnt' = reg + 1
    /\ UNCHANGED <<mainVars, worker, workVars, clientVars, rest>>

SpawnStore ==
    /\ pc = "store" /\ pc' = Return
    /\ worker' = [worker EXCEPT ![reg] = pid]
    /\ UNCHANGED <<mainVars, worker_cnt, workVars, clientVars, rest>>

\* remove_one_worker: test, read of the pid, kill, load and store of the count
RemoveTest ==
    /\ pc = "remove"
    /\ pc' = IF worker_cnt <= START THEN "accept" ELSE "pick"
    /\ UNCHANGED <<mainVars, tableVars, workVars, clientVars, rest>>

RemovePick ==
    /\ pc = "pick" /\ pc' = "kill"
    /\ pid' = worker[worker_cnt - 1]
    /\ UNCHANGED <<boots, cli, reg, last, tableVars, workVars, clientVars, rest>>

\* Workers end, with the tasks they had.
End(ws) == /\ wstate' = [w \in Workers |-> IF w \in ws THEN "zombie" ELSE wstate[w]]
           /\ job' = [w \in Workers |-> IF w \in ws THEN {} ELSE job[w]]
           /\ dropped' = dropped \cup UNION {job[w] : w \in ws}

\* The pid may be that of a worker that is dead already, or the 0 of a slot that
\* was never stored to and came into the rows when SIGCHLD fell between the two
\* stores of a spawn: kill(0, SIGTERM) ends the workers and the server itself.
RemoveKill ==
    /\ pc = "kill" /\ pc' = IF pid = 0 THEN "ended" ELSE "drop"
    /\ killed' = killed \cup {pid}
    /\ End(IF pid = 0 THEN Alive ELSE {pid} \cap Alive)
    /\ UNCHANGED <<mainVars, tableVars, queue, delivered, discarded, clientVars,
                   forks, lost, deaths, raced, now>>

RemoveLoad ==
    /\ pc = "drop" /\ pc' = "dropped"
    /\ reg' = worker_cnt
    /\ UNCHANGED <<boots, cli, pid, last, tableVars, workVars, clientVars, rest>>

RemoveStore ==
    /\ pc = "dropped" /\ pc' = "accept"
    /\ worker_cnt' = reg - 1
    /\ UNCHANGED <<mainVars, worker, workVars, clientVars, rest>>

MainStep == \/ Boot \/ Send \/ Reply \/ Resize \/ Fork \/ SpawnLoad \/ SpawnCount
            \/ SpawnStore \/ Read \/ RemoveTest \/ RemovePick \/ RemoveKill \/ RemoveLoad
            \/ RemoveStore \/ \E c \in Clients : Accept(c)

----------------------------------------------------------------------------
(* on_sigchld *)

\* The first row that holds w is removed and the rows above it move down; the
\* slot above the last row keeps its value.
At(w) == {k \in 0..(worker_cnt - 1) : worker[k] = w}
First(w) == CHOOSE k \in At(w) : \A j \in At(w) : k <= j

\* the row is overwritten by the last one but the count is kept (TableExact)
Forget_bug(w) ==
    IF At(w) = {} THEN UNCHANGED tableVars
    ELSE /\ worker' = [worker EXCEPT ![First(w)] = worker[worker_cnt - 1]]
         /\ UNCHANGED worker_cnt
Forget(w) ==
    IF At(w) = {} THEN UNCHANGED tableVars
    ELSE /\ worker' = [k \in DOMAIN worker |->
                          IF k >= First(w) /\ k < worker_cnt - 1 THEN worker[k + 1] ELSE worker[k]]
         /\ worker_cnt' = worker_cnt - 1

Changing == pc \in {"load", "count", "store", "pick", "kill", "drop", "dropped"}

\* The handler interrupts main anywhere.  A msgsnd that sleeps on a full queue
\* fails with EINTR, and main goes on as if the task had been sent.
SigChld(w) ==
    /\ wstate[w] = "zombie" /\ pc # "ended"
    /\ wstate' = [wstate EXCEPT ![w] = "gone"]
    /\ Forget(w)
    /\ raced' = (raced \/ Changing)
    /\ \/ UNCHANGED <<pc, lost>>
       \/ /\ pc = "send" /\ Len(queue) >= QueueCap
          /\ pc' = "reply" /\ lost' = lost \cup cli
    /\ UNCHANGED <<mainVars, queue, job, delivered, dropped, discarded, clientVars,
                   forks, killed, deaths, now>>

----------------------------------------------------------------------------
(* The workers and the clients *)

Take(w) ==
    /\ w \in Alive /\ job[w] = {} /\ queue # <<>>
    /\ job' = [job EXCEPT ![w] = {Head(queue)}]
    /\ queue' = Tail(queue)
    /\ UNCHANGED <<pc, mainVars, tableVars, wstate, delivered, dropped, discarded, clientVars, rest>>

\* A worker that gets no socket, no address out of the task or no connection
\* goes on to the next task.
CallBack(w) ==
    /\ w \in Alive /\ job[w] # {}
    /\ \/ delivered' = delivered \cup job[w] /\ UNCHANGED discarded
       \/ discarded' = discarded \cup job[w] /\ UNCHANGED delivered
    /\ job' = [job EXCEPT ![w] = {}]
    /\ UNCHANGED <<pc, mainVars, tableVars, queue, wstate, dropped, clientVars, rest>>

Die(w) ==
    /\ w \in Alive /\ deaths < MaxDeaths /\ deaths' = deaths + 1
    /\ End({w})
    /\ UNCHANGED <<pc, mainVars, tableVars, queue, delivered, discarded, clientVars,
                   forks, killed, lost, raced, now>>

Connect(c) ==
    /\ cl[c] = "off" /\ pc # "ended"
    /\ cl' = [cl EXCEPT ![c] = "open"] /\ inbox' = inbox \cup {c}
    /\ UNCHANGED <<pc, mainVars, tableVars, workVars, rest>>

\* All that read_line will read has come, or there is nothing to come.
Say(c) ==
    /\ cl[c] = "open" /\ pc # "ended"
    /\ \E turn \in {"sent", "gone"} : cl' = [cl EXCEPT ![c] = turn]
    /\ UNCHANGED <<pc, inbox, mainVars, tableVars, workVars, rest>>

Tick == /\ now < MaxTime /\ now' = now + 1
        /\ UNCHANGED <<pc, mainVars, tableVars, workVars, clientVars,
                       forks, killed, lost, deaths, raced>>

Next == \/ MainStep \/ Tick
        \/ \E w \in Workers : SigChld(w) \/ Take(w) \/ CallBack(w) \/ Die(w)
        \/ \E c \in Clients : Connect(c) \/ Say(c)

Spec == Init /\ [][Next]_vars
FairSpec == /\ Spec /\ WF_vars(MainStep)
            /\ \A w \in Workers : WF_vars(Take(w) \/ CallBack(w)) /\ WF_vars(SigChld(w))

----------------------------------------------------------------------------
(* Properties *)

\* Every variable keeps its type; the count never leaves 0..MAX.
TypeOK ==
    /\ pc \in {"boot", "accept", "read", "send", "reply", "size", "spawn", "load", "count", "store",
               "remove", "pick", "kill", "drop", "dropped", "ended"}
    /\ boots \in 0..START /\ cli \in SUBSET Clients
    /\ pid \in 0..MaxForks /\ reg \in 0..MAX
    /\ worker \in [0..(MAX - 1) -> 0..MaxForks] /\ worker_cnt \in 0..MAX
    /\ last \in 0..MaxTime /\ now \in 1..MaxTime
    /\ queue \in Seq(Clients) /\ Len(queue) <= QueueCap
    /\ forks \in 0..MaxForks
    /\ wstate \in [Workers -> {"none", "alive", "zombie", "gone"}]
    /\ job \in [Workers -> SUBSET Clients]
    /\ inbox \in SUBSET Clients /\ cl \in [Clients -> {"off", "open", "sent", "gone", "ok", "err"}]
    /\ {delivered, dropped, lost, discarded} \subseteq SUBSET Clients
    /\ killed \in SUBSET (0..MaxForks)
    /\ deaths \in 0..MaxDeaths /\ raced \in BOOLEAN

\* As long as no SIGCHLD was handled inside a change of the table, the rows are
\* exactly the workers that were not killed and whose death was not handled, and
\* below START there are only rows that workers' own deaths have cost.  If one
\* was, a removal may be counted twice, by the handler and by remove_one_worker.
Rows == {worker[k] : k \in 0..(worker_cnt - 1)}
TableExact ==
    ~raced /\ ~Changing =>
        /\ Rows = (Alive \cup Zombies) \ killed
        /\ Cardinality(Rows) = worker_cnt
        /\ boots = START /\ pc # "spawn" => worker_cnt >= START - deaths

\* A task that the server said ok to is in exactly one place: in the queue,
\* with a worker, with the client, gone with its worker, never queued because
\* msgsnd was interrupted, or discarded because the call-back failed.
InQueue(c) == \E k \in DOMAIN queue : queue[k] = c
Places(c) == <<InQueue(c), \E w \in Workers : c \in job[w],
               c \in delivered, c \in dropped, c \in lost, c \in discarded>>
AckedOnce ==
    \A c \in Clients : cl[c] = "ok" =>
        Cardinality({k \in DOMAIN Places(c) : Places(c)[k]}) = 1

\* Each client connects once: so that nobody waits at some later moment says that
\* each one is served.  As long as a worker is alive the queue runs empty, and who
\* has sent its line gets ok or err: a full queue delays the server, it does not
\* stop it.  But one connection on which nothing comes does: the server reads
\* from it with no time limit, and answers nobody until it speaks or hangs up.
Silenced == pc = "read" /\ \E c \in cli : cl[c] = "open"
Answered ==
    /\ []<>(queue = <<>> \/ Alive = {})
    /\ <>[]Silenced \/ []<>(Alive = {} \/ \A c \in Clients : cl[c] # "sent")
=============================================================================
