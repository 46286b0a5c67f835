------------------------------ MODULE TcpPool ------------------------------
(***************************************************************************)
(* The pre-forked TCP server of lab16/2/2 and its client.  A dispatcher    *)
(* keeps a table of worker processes.  For every connection it first reads *)
(* the notification pipes (a worker writes FREE when it can be given a     *)
(* client), then answers with the port of the first idle worker, or with   *)
(* BUSY and one more worker, and last kills workers that were idle for too *)
(* long.  A client that got a port connects to that worker, sends one      *)
(* request, reads the answer and leaves.                                   *)
(*                                                                         *)
(* A worker is named by the number of the fork that made it.  port > 0 and *)
(* a row in the table are the same thing, so ports are left out.  An       *)
(* operator with a suffix _bug, _busy or _mute is a seeded slip in the one *)
(* after it.                                                               *)
(***************************************************************************)
EXTENDS Integers, Sequences, FiniteSets

CONSTANTS
    Clients,       \* client processes; one that ended may be started again
    NoClient,
    Start,         \* START, workers forked at the beginning and always kept
    MaxWorkers,    \* MAX, rows of the table
    IdleTimeout,   \* IDLE_TIMEOUT
    MaxForks,      \* bound: workers ever forked
    MaxTime,       \* bound: the clock
    MaxFailures    \* bound: client crashes, worker deaths and failed spawns

ASSUME PoolSizes == /\ NoClient \notin Clients
                    /\ Start \in Nat /\ MaxWorkers \in Nat /\ Start <= MaxWorkers
                    /\ IdleTimeout \in Nat /\ MaxForks \in Nat /\ MaxTime \in Nat
                    /\ MaxFailures \in Nat

VARIABLES
    pc, i, cli,    \* the dispatcher: step, loop index, connection in hand
    table,         \* worker[0..worker_cnt-1]
    forks,         \* workers forked so far
    now,           \* time(NULL)
    backlog,       \* connections the dispatcher has not accepted yet
    wstate,        \* each worker: about to write FREE, in accept(), killed ...
    tokens,        \* FREE messages in the notification pipe of each worker
    conn,          \* connections each worker has not closed yet
    cl, at,        \* each client: its state and the worker it was sent to
    failures       \* failures so far

vars == <<pc, i, cli, table, forks, now, backlog, wstate, tokens, conn, cl, at, failures>>
dispatcher == <<pc, i, cli, table, forks>>
workers == <<wstate, tokens, conn>>
clients == <<cl, at>>

Workers == 1..MaxForks
Row == [id : Workers, busy : BOOLEAN, last_free_ts : 0..MaxTime]

Init ==
    /\ pc = "boot" /\ i = 1 /\ cli = NoClient
    /\ table = <<>> /\ forks = 0 /\ now = 0 /\ backlog = <<>>
    /\ wstate = [w \in Workers |-> "none"]
    /\ tokens = [w \in Workers |-> 0]
    /\ conn = [w \in Workers |-> {}]
    /\ cl = [c \in Clients |-> "off"] /\ at = [c \in Clients |-> 0]
    /\ failures = 0

Fail == failures < MaxFailures /\ failures' = failures + 1

----------------------------------------------------------------------------
(* The dispatcher *)

\* A new worker enters the table busy, once its PORT line was read; its first
\* FREE is still to come.  A worker that dies before PORT takes no row.
spawn_worker ==
    /\ forks < MaxForks /\ forks' = forks + 1
    /\ \/ /\ table' = Append(table, [id |-> forks', busy |-> TRUE, last_free_ts |-> now])
          /\ wstate' = [wstate EXCEPT ![forks'] = "free"]
          /\ UNCHANGED failures
       \/ /\ Fail
          /\ wstate' = [wstate EXCEPT ![forks'] = "dead"]
          /\ UNCHANGED table

BootSpawn ==
    /\ pc = "boot" /\ i <= Start
    /\ spawn_worker /\ i' = i + 1
    /\ UNCHANGED <<pc, cli, now, backlog, tokens, conn, clients>>

BootDone ==
    /\ pc = "boot" /\ i > Start
    /\ pc' = "accept"
    /\ UNCHANGED <<i, cli, table, forks, now, backlog, workers, clients, failures>>

Accept ==
    /\ pc = "accept" /\ backlog # <<>>
    /\ cli' = Head(backlog) /\ backlog' = Tail(backlog)
    /\ pc' = "drain" /\ i' = 1
    /\ UNCHANGED <<table, forks, now, workers, clients, failures>>

\* the end of file of a dead worker is read again and again (Answered)
drain_notify_bug ==
    /\ pc = "drain" /\ i <= Len(table)
    /\ LET w == table[i].id IN
       /\ table' = IF tokens[w] > 0
                   THEN [table EXCEPT ![i].busy = FALSE, ![i].last_free_ts = now] ELSE table
       /\ tokens' = [tokens EXCEPT ![w] = 0]
       /\ i' = IF wstate[w] = "dead" THEN i ELSE i + 1
    /\ UNCHANGED <<pc, cli, forks, now, backlog, wstate, conn, clients, failures>>
\* Workers are drained one after the other: one drained early may become free
\* before the last one is drained.
drain_notify ==
    LET w == table[i].id IN
    /\ pc = "drain" /\ i <= Len(table)
    /\ IF tokens[w] > 0
       THEN /\ table' = [table EXCEPT ![i].busy = FALSE, ![i].last_free_ts = now]
            /\ tokens' = [tokens EXCEPT ![w] = 0]
       ELSE UNCHANGED <<table, tokens>>
    /\ i' = i + 1
    /\ UNCHANGED <<pc, cli, forks, now, backlog, wstate, conn, clients, failures>>

DrainDone ==
    /\ pc = "drain" /\ i > Len(table)
    /\ pc' = "reply"
    /\ UNCHANGED <<i, cli, table, forks, now, backlog, workers, clients, failures>>

Idle(k) == ~table[k].busy
FirstIdle(k) == Idle(k) /\ \A j \in 1..(k - 1) : ~Idle(j)

\* The reply closes the connection; a client that died is told nothing.
Tell(c, state, w) ==
    /\ cl' = [cl EXCEPT ![c] = state]
    /\ at' = [at EXCEPT ![c] = w]
    /\ cli' = NoClient /\ pc' = "reap" /\ i' = 1

\* busy is not set (Exclusive)
ReplyPort_bug ==
    /\ pc = "reply"
    /\ \E k \in 1..Len(table) :
          /\ FirstIdle(k)
          /\ Tell(cli, IF cl[cli] = "crashed" THEN "vanished" ELSE "assigned", table[k].id)
    /\ UNCHANGED <<table, forks, now, backlog, workers, failures>>
ReplyPort ==
    /\ pc = "reply"
    /\ \E k \in 1..Len(table) :
          /\ FirstIdle(k)
          /\ table' = [table EXCEPT ![k].busy = TRUE]
          /\ Tell(cli, IF cl[cli] = "crashed" THEN "vanished" ELSE "assigned", table[k].id)
    /\ UNCHANGED <<forks, now, backlog, workers, failures>>

\* the table is not tested for room (TypeOK)
ReplyBusy_bug ==
    /\ pc = "reply" /\ \A k \in 1..Len(table) : ~Idle(k)
    /\ spawn_worker
    /\ Tell(cli, IF cl[cli] = "crashed" THEN "off" ELSE "busy", 0)
    /\ UNCHANGED <<now, backlog, tokens, conn>>
ReplyBusy ==
    /\ pc = "reply" /\ \A k \in 1..Len(table) : ~Idle(k)
    /\ IF Len(table) < MaxWorkers
       THEN spawn_worker
       ELSE UNCHANGED <<table, forks, wstate, failures>>
    /\ Tell(cli, IF cl[cli] = "crashed" THEN "off" ELSE "busy", 0)
    /\ UNCHANGED <<now, backlog, tokens, conn>>

\* the busy flag is forgotten (RefusedOnlyByCrash)
Removable_busy(k) == Len(table) > Start /\ now - table[k].last_free_ts > IdleTimeout
Removable(k) == /\ Len(table) > Start /\ ~table[k].busy
                /\ now - table[k].last_free_ts > IdleTimeout

\* the shift starts one row too late (TableExact)
Remove_bug ==
    /\ pc = "reap" /\ i <= Len(table) /\ Removable(i)
    /\ wstate' = [wstate EXCEPT ![table[i].id] = "killed"]
    /\ tokens' = [tokens EXCEPT ![table[i].id] = 0]
    /\ table' = [k \in 1..(Len(table) - 1) |-> IF k <= i THEN table[k] ELSE table[k + 1]]
    /\ UNCHANGED <<pc, i, cli, forks, now, backlog, conn, clients, failures>>
\* SIGTERM, close of the pipe, and the rows above move down: the index stays.
Remove ==
    /\ pc = "reap" /\ i <= Len(table) /\ Removable(i)
    /\ wstate' = [wstate EXCEPT ![table[i].id] = "killed"]
    /\ tokens' = [tokens EXCEPT ![table[i].id] = 0]
    /\ table' = [k \in 1..(Len(table) - 1) |-> IF k < i THEN table[k] ELSE table[k + 1]]
    /\ UNCHANGED <<pc, i, cli, forks, now, backlog, conn, clients, failures>>

Keep ==
    /\ pc = "reap" /\ i <= Len(table) /\ ~Removable(i)
    /\ i' = i + 1
    /\ UNCHANGED <<pc, cli, table, forks, now, backlog, workers, clients, failures>>

ReapDone ==
    /\ pc = "reap" /\ i > Len(table)
    /\ pc' = "accept"
    /\ UNCHANGED <<i, cli, table, forks, now, backlog, workers, clients, failures>>

DispatcherStep == \/ BootSpawn \/ BootDone \/ Accept \/ drain_notify \/ DrainDone
                  \/ ReplyPort \/ ReplyBusy \/ Remove \/ Keep \/ ReapDone

----------------------------------------------------------------------------
(* A worker: write FREE, accept a connection, answer it, close it, and again*)

PostFree(w) ==
    /\ wstate[w] = "free"
    /\ wstate' = [wstate EXCEPT ![w] = "accept"]
    /\ tokens' = [tokens EXCEPT ![w] = @ + 1]
    /\ UNCHANGED <<dispatcher, now, backlog, conn, clients, failures>>

\* the worker that finds the end of file skips FREE (BusyAccounted)
Serve_bug(w) ==
    /\ wstate[w] = "accept"
    /\ \E c \in conn[w] :
          /\ conn' = [conn EXCEPT ![w] = @ \ {c}]
          /\ cl' = [cl EXCEPT ![c] = IF @ = "connected" THEN "done" ELSE "off"]
          /\ at' = [at EXCEPT ![c] = 0]
          /\ wstate' = [wstate EXCEPT ![w] = IF cl[c] = "connected" THEN "free" ELSE "accept"]
    /\ UNCHANGED <<dispatcher, now, backlog, tokens, failures>>
\* A request is answered; the end of file that a dead client leaves is not;
\* in both cases the connection is closed and FREE follows.
Serve(w) ==
    /\ wstate[w] = "accept"
    /\ \E c \in conn[w] :
          /\ conn' = [conn EXCEPT ![w] = @ \ {c}]
          /\ cl' = [cl EXCEPT ![c] = IF @ = "connected" THEN "done" ELSE "off"]
          /\ at' = [at EXCEPT ![c] = 0]
    /\ wstate' = [wstate EXCEPT ![w] = "free"]
    /\ UNCHANGED <<dispatcher, now, backlog, tokens, failures>>

\* A worker that ends by itself (accept error, signal) resets its clients.
Die(w) ==
    /\ wstate[w] \in {"free", "accept"}
    /\ Fail
    /\ wstate' = [wstate EXCEPT ![w] = "dead"]
    /\ conn' = [conn EXCEPT ![w] = {}]
    /\ cl' = [c \in Clients |-> IF c \notin conn[w] THEN cl[c]
                                ELSE IF cl[c] = "connected" THEN "failed" ELSE "off"]
    /\ UNCHANGED <<dispatcher, now, backlog, tokens, at>>

----------------------------------------------------------------------------
(* A client *)

Dial(c) ==
    /\ cl[c] \in {"off", "done", "busy"}
    /\ cl' = [cl EXCEPT ![c] = "queued"] /\ at' = [at EXCEPT ![c] = 0]
    /\ backlog' = Append(backlog, c)
    /\ UNCHANGED <<dispatcher, now, workers, failures>>

Connect(c) ==
    LET w == at[c] IN
    /\ cl[c] = "assigned"
    /\ IF wstate[w] \in {"dead", "killed"}
       THEN cl' = [cl EXCEPT ![c] = "failed"] /\ UNCHANGED conn
       ELSE /\ cl' = [cl EXCEPT ![c] = "connected"]
            /\ conn' = [conn EXCEPT ![w] = @ \cup {c}]
    /\ UNCHANGED <<dispatcher, now, backlog, wstate, tokens, at, failures>>

\* A client that dies with a port in hand is never heard of again; before or
\* after that its connection stays for the other side to find.
Crash(c) ==
    /\ cl[c] \in {"queued", "assigned", "connected"}
    /\ Fail
    /\ cl' = [cl EXCEPT ![c] = IF @ = "assigned" THEN "vanished" ELSE "crashed"]
    /\ UNCHANGED <<dispatcher, now, backlog, workers, at>>

Tick == now < MaxTime /\ now' = now + 1
        /\ UNCHANGED <<dispatcher, backlog, workers, clients, failures>>

Next == \/ DispatcherStep \/ Tick
        \/ \E w \in Workers : PostFree(w) \/ Serve(w) \/ Die(w)
        \/ \E c \in Clients : Dial(c) \/ Connect(c) \/ Crash(c)

Spec == Init /\ [][Next]_vars

\* The dispatcher and the workers run; a client that has a port uses it or dies.
Fairness == /\ WF_vars(DispatcherStep)
            /\ \A w \in Workers : WF_vars(PostFree(w) \/ Serve(w))
            /\ \A c \in Clients : WF_vars(Connect(c))
FairSpec == Spec /\ Fairness

----------------------------------------------------------------------------
(* Properties *)

\* Every variable keeps its type.
TypeOK ==
    /\ pc \in {"boot", "accept", "drain", "reply", "reap"}
    /\ i \in Nat \ {0} /\ cli \in Clients \cup {NoClient}
    /\ table \in Seq(Row) /\ Len(table) <= MaxWorkers
    /\ forks \in 0..MaxForks /\ now \in 0..MaxTime
    /\ backlog \in Seq(Clients)
    /\ wstate \in [Workers -> {"none", "free", "accept", "dead", "killed"}]
    /\ tokens \in [Workers -> Nat]
    /\ conn \in [Workers -> SUBSET Clients]
    /\ cl \in [Clients -> {"off", "queued", "crashed", "assigned", "vanished",
                           "connected", "done", "busy", "failed"}]
    /\ at \in [Clients -> 0..MaxForks]
    /\ failures \in 0..MaxFailures

\* Clients that worker w has been promised to and has not finished with.
Holders(w) == {c \in Clients : at[c] = w /\ cl[c] \in {"assigned", "vanished"}} \cup conn[w]

\* A worker is promised to one client at a time, and is idle in the table only
\* when it has finished with the last one and all its FREEs were read: the
\* dispatcher hands out neither a worker at work nor the same one twice.
Exclusive ==
    \A w \in Workers :
        /\ \A c, d \in Holders(w) : c = d
        /\ tokens[w] <= 1
        /\ tokens[w] = 1 => Holders(w) = {} /\ wstate[w] # "free"
        /\ wstate[w] = "free" => Holders(w) = {}
        /\ \A k \in 1..Len(table) : table[k].id = w /\ ~table[k].busy =>
              Holders(w) = {} /\ tokens[w] = 0 /\ wstate[w] # "free"

\* The table names each worker once and, of the workers that are alive, all:
\* the shift after a kill loses and doubles no row.
TableExact ==
    /\ \A j, k \in 1..Len(table) : table[j].id = table[k].id => j = k
    /\ \A w \in Workers : wstate[w] \in {"free", "accept"} =>
          \E k \in 1..Len(table) : table[k].id = w
    /\ \A k \in 1..Len(table) : wstate[table[k].id] \in {"free", "accept", "dead"}

\* A client is turned away at its worker's port only if that worker died by
\* itself: the reaper kills no worker that a client was sent to.
RefusedOnlyByCrash == \A c \in Clients : cl[c] = "failed" => wstate[at[c]] = "dead"

\* A row stays busy for a reason: the worker starts, works, has reported, is
\* promised to a client (which may have vanished: that row is lost), or died.
BusyAccounted ==
    \A k \in 1..Len(table) : table[k].busy =>
        LET w == table[k].id IN
        wstate[w] \in {"free", "dead"} \/ tokens[w] > 0 \/ Holders(w) # {}

\* Every connection is answered, whatever the workers do, and a client that was
\* given a port gets a result, unless it or the worker dies.
Answered ==
    \A c \in Clients :
        /\ cl[c] = "queued" ~> cl[c] # "queued"
        /\ cl[c] = "assigned" ~> cl[c] \in {"done", "failed", "vanished", "crashed"}
=============================================================================
