------------------------------ MODULE ShmChat ------------------------------
(***************************************************************************)
(* The shared-memory chat of lab14/chat: one server process and several    *)
(* client processes that map one ChatShm object.  A process-shared mutex   *)
(* and ONE condition variable, always broadcast, protect an inbox ring     *)
(* (clients -> server), a message ring (server -> clients) and the table of*)
(* client names.  Every client runs two threads, main and receiver, which  *)
(* also share the process-local ui_mutex.                                  *)
(*                                                                         *)
(* ui_mutex is held for more than one step only while main waits for the   *)
(* user, so it has no variable: it is held iff main[c] = "prompt".         *)
(* g_run is cleared by main on /quit and never set again: see Running.     *)
(*                                                                         *)
(* An operator whose name ends in _bug is no part of the model: it is the  *)
(* definition after it with a slip a programmer could make, and the        *)
(* property named with it must then fail.                                  *)
(***************************************************************************)
EXTENDS Integers, Sequences, FiniteSets

CONSTANTS
    Clients,      \* the client processes
    NamesOf,      \* for each client, the names its user may type at the start
    NoName,       \* the name field of the server's own message
    MaxInbox,     \* MAX_INBOX, slots of the inbox ring
    MaxMsg,       \* MAX_MSG, slots of the message ring
    MaxClient,    \* MAX_CLIENT, rows of the name table
    MaxLines,     \* bound: lines a user types in one session
    MaxDeaths     \* bound: clients that are killed

ASSUME Sizes == /\ MaxInbox \in Nat /\ MaxInbox > 1
                /\ MaxMsg \in Nat /\ MaxMsg > 0
                /\ MaxClient \in Nat
                /\ MaxLines \in Nat /\ MaxDeaths \in Nat

VARIABLES
    shm,          \* the object: absent, of size 0, zeroed, or with init = 1
    srv,          \* program counter of the server
    owner,        \* the thread that owns g->mutex
    waiting,      \* threads asleep in pthread_cond_wait(&g->cond)
    inbox, head, tail,          \* g->inbox, g->inbox_head, g->inbox_tail
    msg, next_msg_id, msg_cnt,  \* g->msg, g->next_msg_id, g->msg_cnt
    client_name,  \* g->client_name; client_cnt is its length
    main, recv,   \* program counters of the two threads of each client
    name,         \* g_name
    lines,        \* lines typed so far, also the text of the line in hand
    seen,         \* g_last_seen_id (and the cursor of the replay loop)
    sent, taken, published, shown   \* history: what was pushed, how much of
                  \* it was popped, what was appended, what each client printed

vars == <<shm, srv, owner, waiting, inbox, head, tail, msg, next_msg_id, msg_cnt,
          client_name, main, recv, name, lines, seen, sent, taken, published, shown>>
inboxVars == <<inbox, head, tail, sent, taken>>
msgVars   == <<msg, next_msg_id, msg_cnt, published>>
srvVars   == <<shm, srv, client_name>>
viewVars  == <<seen, shown>>
userVars  == <<name, lines>>

Names   == UNION {NamesOf[c] : c \in Clients}
Nobody  == <<>>
Server  == <<"server">>
Main(c) == <<"main", c>>
Recv(c) == <<"recv", c>>
Threads == {Server} \cup {Main(c) : c \in Clients} \cup {Recv(c) : c \in Clients}

Item == [type : {"join"}, name : Names, text : {0}]
            \cup [type : {"chat"}, name : Names, text : 1..MaxLines]
NoItem == [type |-> "none", name |-> NoName, text |-> 0]
Message == [id : Nat \ {0}, kind : {"start", "join", "warn", "chat"},
            name : Names \cup {NoName}, text : 0..MaxLines]
NoMessage == [id |-> 0, kind |-> "none", name |-> NoName, text |-> 0]

----------------------------------------------------------------------------
(* The shared object *)

Lock(t)   == owner = Nobody /\ t \notin waiting /\ owner' = t
Unlock(t) == owner = t /\ owner' = Nobody
CondWait(t) == Unlock(t) /\ waiting' = waiting \cup {t}
\* receivers wait on a condition of their own that nobody signals
\* (ReceiverFollows)
Broadcast_bug == waiting' = {t \in waiting : t[1] = "recv"}
Broadcast == waiting' = {}

\* the wrap-around is forgotten (InboxFaithful)
inbox_full_bug == tail + 1 = head
inbox_full  == (tail + 1) % MaxInbox = head
inbox_empty == head = tail

\* the tail is not wrapped (TypeOK)
inbox_push_bug(item) ==
    /\ ~inbox_full
    /\ inbox' = [inbox EXCEPT ![tail] = item] /\ tail' = tail + 1
    /\ sent' = Append(sent, item)
    /\ UNCHANGED <<head, taken>>
inbox_push(item) ==
    /\ ~inbox_full
    /\ inbox' = [inbox EXCEPT ![tail] = item]
    /\ tail' = (tail + 1) % MaxInbox
    /\ sent' = Append(sent, item)
    /\ UNCHANGED <<head, taken>>

inbox_pop ==
    /\ ~inbox_empty
    /\ head' = (head + 1) % MaxInbox
    /\ taken' = taken + 1
    /\ UNCHANGED <<inbox, tail, sent>>

\* id instead of id - 1 (HistoryRing)
append_msg_bug(kind, who, text) ==
    LET m == [id |-> next_msg_id + 1, kind |-> kind, name |-> who, text |-> text]
    IN /\ next_msg_id' = m.id
       /\ msg' = [msg EXCEPT ![m.id % MaxMsg] = m]
       /\ msg_cnt' = IF msg_cnt < MaxMsg THEN msg_cnt + 1 ELSE msg_cnt
       /\ published' = Append(published, m)
append_msg(kind, who, text) ==
    LET id == next_msg_id + 1
        m  == [id |-> id, kind |-> kind, name |-> who, text |-> text]
    IN /\ next_msg_id' = id
       /\ msg' = [msg EXCEPT ![(id - 1) % MaxMsg] = m]
       /\ msg_cnt' = IF msg_cnt < MaxMsg THEN msg_cnt + 1 ELSE msg_cnt
       /\ published' = Append(published, m)

find_client(n) == \E i \in 1..Len(client_name) : client_name[i] = n

----------------------------------------------------------------------------
Init ==
    /\ shm = "none" /\ srv = "create"
    /\ owner = Nobody /\ waiting = {}
    /\ inbox = [i \in 0..(MaxInbox - 1) |-> NoItem] /\ head = 0 /\ tail = 0
    /\ msg = [i \in 0..(MaxMsg - 1) |-> NoMessage]
    /\ next_msg_id = 0 /\ msg_cnt = 0
    /\ client_name = <<>>
    /\ main = [c \in Clients |-> "off"] /\ recv = [c \in Clients |-> "none"]
    /\ name = [c \in Clients |-> NoName] /\ lines = [c \in Clients |-> 0]
    /\ seen = [c \in Clients |-> 0]
    /\ sent = <<>> /\ taken = 0 /\ published = <<>>
    /\ shown = [c \in Clients |-> <<>>]

----------------------------------------------------------------------------
(* The server *)

clientSide == <<main, recv, userVars, viewVars>>

\* shm_open, ftruncate and the set-up of mutex and cond are three steps: a
\* client may open the object between any two of them.
CreateShm ==
    /\ \/ srv = "create"   /\ srv' = "truncate" /\ shm' = "empty"
       \/ srv = "truncate" /\ srv' = "setup"    /\ shm' = "zeroed"
       \/ srv = "setup"    /\ srv' = "hello"    /\ shm' = "ready"
    /\ UNCHANGED <<owner, waiting, client_name, inboxVars, msgVars, clientSide>>

ServerLock ==
    /\ srv \in {"hello", "lock"}
    /\ Lock(Server)
    /\ UNCHANGED <<waiting, srvVars, inboxVars, msgVars, clientSide>>

Hello ==
    /\ srv = "hello" /\ srv' = "lock"
    /\ Unlock(Server)
    /\ append_msg("start", NoName, 0)
    /\ Broadcast
    /\ UNCHANGED <<shm, client_name, inboxVars, clientSide>>

ServerWait ==
    /\ srv = "lock" /\ inbox_empty
    /\ CondWait(Server)
    /\ UNCHANGED <<srvVars, inboxVars, msgVars, clientSide>>

\* no look-up of the name (TableIsFirstJoins)
HandleJoin_bug(who) ==
    /\ Broadcast
    /\ \/ /\ Len(client_name) < MaxClient
          /\ client_name' = Append(client_name, who) /\ append_msg("join", who, 0)
       \/ /\ Len(client_name) >= MaxClient
          /\ UNCHANGED client_name /\ append_msg("warn", who, 0)
\* A JOIN of a name in the table changes nothing but the inbox; that of a new
\* name takes a row, or is answered by a warning when the table is full.
HandleJoin(who) ==
    IF find_client(who)
    THEN UNCHANGED <<client_name, msgVars, waiting>>
    ELSE /\ Broadcast
         /\ IF Len(client_name) < MaxClient
            THEN /\ client_name' = Append(client_name, who)
                 /\ append_msg("join", who, 0)
            ELSE /\ UNCHANGED client_name
                 /\ append_msg("warn", who, 0)

HandleChat(item) ==
    /\ append_msg("chat", item.name, item.text)
    /\ Broadcast
    /\ UNCHANGED client_name

ServerPop ==
    LET item == inbox[head] IN
    /\ srv \in {"lock", "drain"} /\ owner = Server
    /\ srv' = "drain"
    /\ inbox_pop
    /\ \/ item.type = "join" /\ HandleJoin(item.name)
       \/ item.type = "chat" /\ HandleChat(item)
    /\ UNCHANGED <<shm, owner, clientSide>>

DrainDone ==
    /\ srv = "drain" /\ inbox_empty
    /\ srv' = "lock"
    /\ Broadcast
    /\ Unlock(Server)
    /\ UNCHANGED <<shm, client_name, inboxVars, msgVars, clientSide>>

ServerStep == CreateShm \/ ServerLock \/ Hello \/ ServerWait \/ ServerPop \/ DrainDone

\* SIGINT or SIGTERM (or a failed system call of the set-up): the handler
\* unlinks the object and exits, whatever the server was doing; a mutex it
\* owns stays locked for the clients that still map the object.
ServerStop ==
    /\ srv \notin {"create", "gone"}
    /\ srv' = "gone"
    /\ waiting' = waiting \ {Server}
    /\ UNCHANGED <<shm, client_name, owner, inboxVars, msgVars, clientSide>>

----------------------------------------------------------------------------
(* A client: the main thread *)

serverSide == <<srvVars, msgVars>>

ShmLinked == srv \notin {"create", "gone"}
Running(c) == main[c] \notin {"quit", "reap"}    \* g_run
Goto(c, pc) == main' = [main EXCEPT ![c] = pc]

\* shm_open fails when the name does not exist, and the client leaves.
Start(c) ==
    /\ main[c] = "off"
    /\ \E n \in NamesOf[c] : name' = [name EXCEPT ![c] = n]
    /\ Goto(c, IF ShmLinked THEN "opened" ELSE "gone")
    /\ UNCHANGED <<serverSide, owner, waiting, inboxVars, recv, lines, viewVars>>

\* while (!g->init): reading an object of size 0 is SIGBUS, an object not yet
\* initialised is polled again, which changes nothing.
PollInit(c) ==
    /\ main[c] = "opened"
    /\ \/ shm = "empty" /\ Goto(c, "dead")
       \/ shm = "ready" /\ Goto(c, "join")
    /\ UNCHANGED <<serverSide, owner, waiting, inboxVars, recv, userVars, viewVars>>

MainLock(c) ==
    /\ main[c] \in {"join", "chat", "quit"}
    /\ Lock(Main(c))
    /\ UNCHANGED <<serverSide, waiting, inboxVars, main, recv, userVars, viewVars>>

PushWait(c) ==
    /\ main[c] \in {"join", "chat"}
    /\ inbox_full
    /\ CondWait(Main(c))
    /\ UNCHANGED <<serverSide, inboxVars, main, recv, userVars, viewVars>>

Draft(c) == [type |-> main[c], name |-> name[c],
             text |-> IF main[c] = "join" THEN 0 ELSE lines[c]]

\* no broadcast after the push (PushServed)
Push_bug(c) ==
    /\ main[c] \in {"join", "chat"} /\ Unlock(Main(c))
    /\ inbox_push(Draft(c)) /\ Goto(c, IF main[c] = "join" THEN "spawn" ELSE "ui")
    /\ UNCHANGED <<waiting, serverSide, recv, userVars, viewVars>>
Push(c) ==
    /\ main[c] \in {"join", "chat"}
    /\ Unlock(Main(c))
    /\ inbox_push(Draft(c))
    /\ Broadcast
    /\ Goto(c, IF main[c] = "join" THEN "spawn" ELSE "ui")
    /\ UNCHANGED <<serverSide, recv, userVars, viewVars>>

CreateThread(c) ==
    /\ main[c] = "spawn"
    /\ \/ Goto(c, "ui") /\ recv' = [recv EXCEPT ![c] = "replay"]
       \/ Goto(c, "gone") /\ UNCHANGED recv
    /\ UNCHANGED <<serverSide, owner, waiting, inboxVars, userVars, viewVars>>

\* The lock of ui_mutex that opens the prompt; the receiver keeps ui_mutex
\* only within one of its own steps.
Prompt(c) ==
    /\ main[c] = "ui"
    /\ Goto(c, "prompt")
    /\ UNCHANGED <<serverSide, owner, waiting, inboxVars, recv, userVars, viewVars>>

\* The user enters a line, an empty line, or /quit: ui_mutex is released.
UserInput(c) ==
    /\ main[c] = "prompt"
    /\ \/ /\ lines[c] < MaxLines
          /\ lines' = [lines EXCEPT ![c] = @ + 1]
          /\ Goto(c, "chat")
       \/ \E pc \in {"ui", "quit"} : Goto(c, pc) /\ UNCHANGED lines
    /\ UNCHANGED <<serverSide, owner, waiting, inboxVars, recv, name, viewVars>>

\* broadcast without the mutex (QuitEnds)
QuitNotify_bug(c) ==
    /\ main[c] = "quit" /\ Goto(c, "reap") /\ Broadcast
    /\ owner' = IF owner = Main(c) THEN Nobody ELSE owner
    /\ UNCHANGED <<serverSide, inboxVars, recv, userVars, viewVars>>
QuitNotify(c) ==
    /\ main[c] = "quit"
    /\ Unlock(Main(c))
    /\ Broadcast
    /\ Goto(c, "reap")
    /\ UNCHANGED <<serverSide, inboxVars, recv, userVars, viewVars>>

Join(c) ==
    /\ main[c] = "reap" /\ recv[c] = "done"
    /\ Goto(c, "gone")
    /\ UNCHANGED <<serverSide, owner, waiting, inboxVars, recv, userVars, viewVars>>

MainStep(c) == \/ PollInit(c) \/ MainLock(c) \/ PushWait(c) \/ Push(c)
               \/ CreateThread(c) \/ Prompt(c) \/ QuitNotify(c) \/ Join(c)

\* SIGINT, SIGKILL...: no handler, and the mutex is not robust, so a mutex
\* that a thread of the process owns stays locked.
Kill(c) ==
    /\ main[c] \notin {"off", "gone", "dead"}
    /\ Cardinality({d \in Clients : main[d] = "dead"}) < MaxDeaths
    /\ Goto(c, "dead")
    /\ recv' = [recv EXCEPT ![c] = "dead"]
    /\ waiting' = waiting \ {Main(c), Recv(c)}
    /\ UNCHANGED <<serverSide, owner, inboxVars, userVars, viewVars>>

----------------------------------------------------------------------------
(* A client: the receiver thread *)

RecvGoto(c, pc) == recv' = [recv EXCEPT ![c] = pc]

RecvLock(c) ==
    /\ recv[c] \in {"replay", "follow"}
    /\ Lock(Recv(c))
    /\ UNCHANGED <<serverSide, waiting, inboxVars, main, recv, userVars, viewVars>>

\* the cursor jumps to the newest message (DisplayFaithful, ImplementsService)
ShowNext_bug(c) ==
    /\ recv[c] \in {"replay", "follow"} /\ owner = Recv(c)
    /\ seen[c] < next_msg_id /\ main[c] # "prompt"
    /\ seen' = [seen EXCEPT ![c] = next_msg_id]
    /\ shown' = [shown EXCEPT ![c] = Append(@, msg[seen[c] % MaxMsg].id)]
    /\ owner' = Nobody /\ RecvGoto(c, IF recv[c] = "replay" THEN "loop" ELSE "redraw")
    /\ UNCHANGED <<serverSide, waiting, inboxVars, main, userVars>>
\* ui_print_msg of the slot of id seen[c] + 1, with g->mutex held: it needs
\* ui_mutex.  The replay starts at id 1: the start_id computed is not used.
\* After the last new message the mutex is released.
ShowNext(c) ==
    LET id == seen[c] + 1 IN
    /\ recv[c] \in {"replay", "follow"} /\ owner = Recv(c)
    /\ id <= next_msg_id
    /\ main[c] # "prompt"
    /\ seen' = [seen EXCEPT ![c] = id]
    /\ shown' = [shown EXCEPT ![c] = Append(@, msg[(id - 1) % MaxMsg].id)]
    /\ IF id = next_msg_id
       THEN /\ owner' = Nobody
            /\ RecvGoto(c, IF recv[c] = "replay" THEN "loop" ELSE "redraw")
       ELSE UNCHANGED <<owner, recv>>
    /\ UNCHANGED <<serverSide, waiting, inboxVars, main, userVars>>

\* Nothing to print: the replay of an empty history ends; the follower has
\* read g_run and either goes to sleep (a later step) or leaves the loop.
NothingNew(c) ==
    /\ owner = Recv(c) /\ seen[c] >= next_msg_id
    /\ \/ recv[c] = "replay" /\ owner' = Nobody /\ RecvGoto(c, "loop")
       \/ recv[c] = "follow" /\ Running(c) /\ UNCHANGED owner /\ RecvGoto(c, "sleep")
       \/ recv[c] = "follow" /\ ~Running(c) /\ owner' = Nobody /\ RecvGoto(c, "redraw")
    /\ UNCHANGED <<serverSide, waiting, inboxVars, main, userVars, viewVars>>

Sleep(c) ==
    /\ recv[c] = "sleep"
    /\ CondWait(Recv(c))
    /\ RecvGoto(c, "follow")
    /\ UNCHANGED <<serverSide, inboxVars, main, userVars, viewVars>>

Redraw(c) ==
    /\ recv[c] = "redraw" /\ main[c] # "prompt"
    /\ RecvGoto(c, "loop")
    /\ UNCHANGED <<serverSide, owner, waiting, inboxVars, main, userVars, viewVars>>

LoopTest(c) ==
    /\ recv[c] = "loop"
    /\ RecvGoto(c, IF Running(c) THEN "follow" ELSE "done")
    /\ UNCHANGED <<serverSide, owner, waiting, inboxVars, main, userVars, viewVars>>

RecvStep(c) == RecvLock(c) \/ ShowNext(c) \/ NothingNew(c) \/ Sleep(c) \/ Redraw(c) \/ LoopTest(c)

----------------------------------------------------------------------------
Next == \/ ServerStep \/ ServerStop
        \/ \E c \in Clients : Start(c) \/ MainStep(c) \/ UserInput(c) \/ Kill(c) \/ RecvStep(c)

Spec == Init /\ [][Next]_vars

\* Each runnable thread is eventually scheduled; users owe nothing, and a
\* mutex is not granted in turn (weak fairness only).
Fairness == /\ WF_vars(ServerStep)
            /\ \A c \in Clients : WF_vars(MainStep(c)) /\ WF_vars(RecvStep(c))
FairSpec == Spec /\ Fairness

----------------------------------------------------------------------------
(* Properties *)

\* Every variable keeps its type.
TypeOK ==
    /\ shm \in {"none", "empty", "zeroed", "ready"}
    /\ srv \in {"create", "truncate", "setup", "hello", "lock", "drain", "gone"}
    /\ owner \in Threads \cup {Nobody}
    /\ waiting \in SUBSET Threads
    /\ inbox \in [0..(MaxInbox - 1) -> Item \cup {NoItem}]
    /\ head \in 0..(MaxInbox - 1) /\ tail \in 0..(MaxInbox - 1)
    /\ msg \in [0..(MaxMsg - 1) -> Message \cup {NoMessage}]
    /\ next_msg_id \in Nat /\ msg_cnt \in 0..MaxMsg
    /\ client_name \in Seq(Names)
    /\ main \in [Clients -> {"off", "opened", "join", "spawn", "ui", "prompt", "chat",
                             "quit", "reap", "gone", "dead"}]
    /\ recv \in [Clients -> {"none", "replay", "loop", "follow", "sleep", "redraw",
                             "done", "dead"}]
    /\ name \in [Clients -> Names \cup {NoName}]
    /\ lines \in [Clients -> 0..MaxLines]
    /\ seen \in [Clients -> Nat]
    /\ sent \in Seq(Item) /\ taken \in Nat /\ published \in Seq(Message)
    /\ shown \in [Clients -> Seq(Nat)]

\* The inbox ring holds exactly the items pushed and not yet popped, in order:
\* nothing is lost, doubled or overwritten at the wrap-around, and one slot
\* always stays free (inbox_full, inbox_empty).
Pending == Len(sent) - taken
InboxFaithful ==
    /\ taken <= Len(sent) /\ Pending < MaxInbox
    /\ head = taken % MaxInbox
    /\ tail = Len(sent) % MaxInbox
    /\ \A k \in taken..(Len(sent) - 1) : inbox[k % MaxInbox] = sent[k + 1]

\* Ids number the messages without a gap, and each slot of the message ring
\* holds the newest message whose id falls on it (append_msg).
HistoryRing ==
    /\ next_msg_id = Len(published)
    /\ \A k \in 1..Len(published) : published[k].id = k
    /\ msg_cnt = IF next_msg_id < MaxMsg THEN next_msg_id ELSE MaxMsg
    /\ \A k \in 1..Len(published) :
          k + MaxMsg > next_msg_id => msg[(k - 1) % MaxMsg] = published[k]

\* The name table holds each name once, those of the first JOINs that were
\* handled; each has been announced once and never warned about, and a JOIN of
\* another name has been warned about because the table is full.
FirstJoin(k) == /\ sent[k].type = "join"
                /\ \A j \in 1..(k - 1) : sent[j].type = "join" => sent[j].name # sent[k].name
TableIsFirstJoins ==
    /\ Len(client_name) <= MaxClient
    /\ \A i, j \in DOMAIN client_name : client_name[i] = client_name[j] => i = j
    /\ \A k \in 1..taken : FirstJoin(k) =>
          \/ find_client(sent[k].name)
          \/ /\ Len(client_name) = MaxClient
             /\ \E m \in DOMAIN published : /\ published[m].kind = "warn"
                                            /\ published[m].name = sent[k].name
    /\ \A i \in DOMAIN client_name :
          LET about == {m \in DOMAIN published : published[m].name = client_name[i]} IN
          /\ Cardinality({m \in about : published[m].kind = "join"}) = 1
          /\ \A m \in about : published[m].kind # "warn"

\* The k-th line a client prints is message k; only when the ring has been
\* overrun may it be a newer message, one that took the slot of message k.
DisplayFaithful ==
    \A c \in Clients :
        /\ Len(shown[c]) = seen[c] /\ seen[c] <= next_msg_id
        /\ \A k \in 1..seen[c] : /\ shown[c][k] >= k
                                 /\ shown[c][k] % MaxMsg = k % MaxMsg
                                 /\ shown[c][k] # k => next_msg_id > MaxMsg

\* A receiver that needs ui_mutex to print, while its user is at the prompt:
\* it keeps g->mutex, hence stops everyone, until that user presses Enter.
Frozen(c) == /\ owner = Recv(c) /\ recv[c] \in {"replay", "follow"}
             /\ seen[c] < next_msg_id /\ main[c] = "prompt"
\* The mutex is owned by a thread that no longer exists.
Orphaned == \/ srv = "gone" /\ owner = Server
            \/ \E c \in Clients : main[c] = "dead" /\ owner \in {Main(c), Recv(c)}
Stuck == Orphaned \/ \E c \in Clients : Frozen(c)

\* While the server lives, the inbox is drained again and again, and a client
\* that wants to push gets its item into it, unless the mutex is held by a
\* receiver at its user's mercy or by a dead thread: no wake-up is lost between
\* inbox_full, inbox_empty and the other side's notify.
PushServed ==
    /\ Pending > 0 ~> (Pending = 0 \/ Stuck \/ srv = "gone")
    /\ \A c \in Clients :
          main[c] \in {"join", "chat"}
              ~> (main[c] \notin {"join", "chat"} \/ Stuck \/ srv = "gone")

\* /quit ends the client: the receiver cannot miss the broadcast that follows
\* g_run = 0, even if it has just read g_run and is about to sleep.
QuitEnds ==
    \A c \in Clients : main[c] = "quit" ~> (main[c] \in {"gone", "dead"} \/ Stuck)

\* A receiver that lags behind catches up (it is woken for every message),
\* unless its user leaves; see Frozen for a user who stays at the prompt.
ReceiverFollows ==
    \A c \in Clients :
        (recv[c] = "follow" /\ seen[c] < next_msg_id)
            ~> (seen[c] = next_msg_id \/ Stuck
                 \/ main[c] \in {"quit", "reap", "gone", "dead"})

\* The chat is the service its users expect, step by step, but for the lines of
\* a client that is more than MaxMsg messages behind.
Service == INSTANCE ChatService WITH
    Submissions <- Item,
    queue  <- SubSeq(sent, taken + 1, Len(sent)),
    log    <- published,
    screen <- [c \in Clients |-> [k \in DOMAIN shown[c] |-> published[shown[c][k]]]]
Overrun(c) == next_msg_id - seen[c] > MaxMsg /\ seen'[c] = seen[c] + 1
ImplementsService ==
    /\ Service!ServiceInit
    /\ [][Service!ServiceNext \/ \E c \in Clients : Overrun(c)]_(Service!serviceVars)
=============================================================================
