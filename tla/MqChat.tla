------------------------------- MODULE MqChat -------------------------------
(***************************************************************************)
(* The chat of lab13/chat over POSIX message queues: one queue into the    *)
(* server and one into each client, all of mq_maxmsg messages.  The server *)
(* is one thread; a mq_send to a full queue blocks it.  A row of its table *)
(* is never freed, and the descriptor in it keeps the queue of a client    *)
(* that has left.                                                          *)
(*                                                                         *)
(* The server's SIGINT closes its queue for newcomers only: a client that  *)
(* has it open goes on writing into it.  A server that is started again is *)
(* a new instance, with new queues and without the old clients.            *)
(*                                                                         *)
(* An operator with a suffix _bug is a seeded slip in the one after it.    *)
(***************************************************************************)
EXTENDS Integers, Sequences, FiniteSets

CONSTANTS
    Clients,
    NoName,
    QueueLen,      \* mq_maxmsg
    MAX_CLIENT, MAX_HISTORY, MAX_LINE,
    MaxTyped,      \* bound: lines a user types
    MaxDeaths      \* bound: clients that die without unlinking their queue

ASSUME MqChatSizes ==
    /\ {MAX_CLIENT, MAX_HISTORY, MaxTyped, MaxDeaths} \subseteq Nat
    /\ {QueueLen, MAX_LINE} \subseteq Nat \ {0}

VARIABLES
    colon,         \* clients that were given a name with a ':' in it
    srv,           \* program counter of the server
    joining,       \* the JOIN in hand (at most one), in add_client
    i,             \* loop index of add_client and of broadcast
    client,        \* rows of the table; num_client is its length
    history,
    server_q, queue,   \* the queues
    app, draft, typed, \* each client: its state, a line in hand, and how
                       \* many lines that fit into a message it has typed
    line,          \* its screen
    log, base, got \* history: all that was broadcast, how much of it when a
                   \* client was added, how many messages each client received

srvVars  == <<srv, joining, i, client>>
pubVars  == <<history, log, base>>
userVars == <<app, draft, typed>>
viewVars == <<line, got>>
vars == <<colon, srvVars, pubVars, server_q, queue, userVars, viewVars>>

Item == [type : {"join"}, name : Clients, text : {0}]
            \cup [type : {"chat"}, name : Clients, text : 1..MaxTyped]
Entry == [id : Nat, kind : {"join", "chat"}, name : Clients, text : 0..MaxTyped]

Init ==
    /\ colon \in SUBSET Clients
    /\ srv = "recv" /\ joining = <<>> /\ i = 0
    /\ client = <<>> /\ history = <<>> /\ log = <<>>
    /\ server_q = <<>> /\ queue = [c \in Clients |-> <<>>]
    /\ app = [c \in Clients |-> "off"] /\ draft = [c \in Clients |-> "no"]
    /\ typed = [c \in Clients |-> 0] /\ line = [c \in Clients |-> <<>>]
    /\ base = [c \in Clients |-> 0] /\ got = [c \in Clients |-> 0]

----------------------------------------------------------------------------
(* The server *)

\* one message more is kept than there is room for (TypeOK)
add_history_bug(e) == history' = IF Len(history) <= MAX_HISTORY THEN Append(history, e) ELSE history
\* the history is kept in the wrong order (ImplementsService)
add_history_swap(e) == history' = IF Len(history) < MAX_HISTORY THEN <<e>> \o history ELSE history
\* Once the history is full, what comes is not kept for those who join later.
add_history(e) == history' = IF Len(history) < MAX_HISTORY THEN Append(history, e) ELSE history

Record(kind, who, text) ==
    LET e == [id |-> Len(log) + 1, kind |-> kind, name |-> who, text |-> text]
    IN add_history(e) /\ log' = Append(log, e)

MqSend(q, m) == Len(queue[q]) < QueueLen /\ queue' = [queue EXCEPT ![q] = Append(@, m)]

\* add_client fails if there is no free row or no queue of that name: not when
\* its owner died, but when it was unlinked, and when a ':' in the client's
\* name has cut the queue name at the wrong place.
Accepted(c) == Len(client) < MAX_CLIENT /\ c \notin colon /\ app[c] # "gone"

ReceiveJoin ==
    /\ srv = "recv" /\ server_q # <<>> /\ Head(server_q).type = "join"
    /\ server_q' = Tail(server_q)
    /\ LET c == Head(server_q).name IN
       IF Accepted(c)
       THEN /\ client' = Append(client, c) /\ base' = [base EXCEPT ![c] = Len(log)]
            /\ srv' = "replay" /\ i' = 0 /\ joining' = <<Head(server_q)>>
       ELSE UNCHANGED <<srvVars, base>>
    /\ UNCHANGED <<history, log, queue, userVars, viewVars, colon>>

Replay ==
    /\ srv = "replay" /\ i < Len(history)
    /\ MqSend(Head(joining).name, history[i + 1])
    /\ i' = i + 1
    /\ UNCHANGED <<srv, joining, client, pubVars, server_q, userVars, viewVars, colon>>

Joined ==
    /\ srv = "replay" /\ i = Len(history)
    /\ Record("join", Head(joining).name, 0)
    /\ srv' = "send" /\ i' = 0 /\ joining' = <<>>
    /\ UNCHANGED <<client, base, server_q, queue, userVars, viewVars, colon>>

\* The name of a MSG is not looked up: a client without a row may speak.  (What
\* a colon client says is broadcast as that of the part of its name before ':'.)
ReceiveChat ==
    /\ srv = "recv" /\ server_q # <<>> /\ Head(server_q).type = "chat"
    /\ server_q' = Tail(server_q)
    /\ Record("chat", Head(server_q).name, Head(server_q).text)
    /\ srv' = "send" /\ i' = 0
    /\ UNCHANGED <<joining, client, base, queue, userVars, viewVars, colon>>

Broadcast ==
    /\ srv = "send" /\ i < Len(client)
    /\ MqSend(client[i + 1], log[Len(log)])
    /\ i' = i + 1
    /\ UNCHANGED <<srv, joining, client, pubVars, server_q, userVars, viewVars, colon>>

BroadcastDone ==
    /\ srv = "send" /\ i = Len(client)
    /\ srv' = "recv"
    /\ UNCHANGED <<i, joining, client, pubVars, server_q, queue, userVars, viewVars, colon>>

ServerStep == ReceiveJoin \/ Replay \/ Joined \/ ReceiveChat \/ Broadcast \/ BroadcastDone

ServerStop == /\ srv # "down" /\ srv' = "down"
              /\ UNCHANGED <<joining, i, client, pubVars, server_q, queue, userVars, viewVars, colon>>

----------------------------------------------------------------------------
(* A client: main, the sending thread, the receiving thread, SIGINT *)

\* Without a server queue to open the client unlinks its own and ends.
Start(c) ==
    /\ app[c] = "off"
    /\ app' = [app EXCEPT ![c] = IF srv = "down" THEN "gone" ELSE "open"]
    /\ UNCHANGED <<srvVars, pubVars, server_q, queue, draft, typed, viewVars, colon>>

Request(item) == Len(server_q) < QueueLen /\ server_q' = Append(server_q, item)

Join(c) ==
    /\ app[c] = "open" /\ app' = [app EXCEPT ![c] = "on"]
    /\ Request([type |-> "join", name |-> c, text |-> 0])
    /\ UNCHANGED <<srvVars, pubVars, queue, draft, typed, viewVars, colon>>

\* What wgetnstr takes may be too long to be sent with MSG:, the name and a ':'
\* before it.
Type(c) ==
    /\ app[c] = "on" /\ draft[c] = "no"
    /\ \/ /\ typed[c] < MaxTyped /\ typed' = [typed EXCEPT ![c] = @ + 1]
          /\ draft' = [draft EXCEPT ![c] = "fits"]
       \/ draft' = [draft EXCEPT ![c] = "long"] /\ UNCHANGED typed
    /\ UNCHANGED <<srvVars, pubVars, server_q, queue, app, viewVars, colon>>

\* A line that is too long is dropped, and nobody is told.
Say(c) ==
    /\ app[c] = "on" /\ draft[c] # "no" /\ draft' = [draft EXCEPT ![c] = "no"]
    /\ \/ draft[c] = "fits" /\ Request([type |-> "chat", name |-> c, text |-> typed[c]])
       \/ draft[c] = "long" /\ UNCHANGED server_q
    /\ UNCHANGED <<srvVars, pubVars, queue, app, typed, viewVars, colon>>

\* a full screen takes no more lines (ScreenFaithful)
add_line_bug(c, m) ==
    line' = [line EXCEPT ![c] = IF Len(@) < MAX_LINE THEN Append(@, m) ELSE @]
add_line(c, m) ==
    line' = [line EXCEPT ![c] = Append(IF Len(@) < MAX_LINE THEN @ ELSE Tail(@), m)]

\* one thread for both: nothing is received while a line waits to be sent
\* (Delivered)
Receive_bug(c) ==
    /\ app[c] = "on" /\ queue[c] # <<>> /\ draft[c] = "no"
    /\ queue' = [queue EXCEPT ![c] = Tail(@)]
    /\ add_line(c, Head(queue[c]))
    /\ got' = [got EXCEPT ![c] = @ + 1]
    /\ UNCHANGED <<srvVars, pubVars, server_q, userVars, colon>>
Receive(c) ==
    /\ app[c] = "on" /\ queue[c] # <<>>
    /\ queue' = [queue EXCEPT ![c] = Tail(@)]
    /\ add_line(c, Head(queue[c]))
    /\ got' = [got EXCEPT ![c] = @ + 1]
    /\ UNCHANGED <<srvVars, pubVars, server_q, userVars, colon>>

Running == {"open", "on"}

\* on_sigint, by Ctrl-C at any point or by /quit
Quit(c) ==
    /\ app[c] \in Running /\ app' = [app EXCEPT ![c] = "gone"]
    /\ UNCHANGED <<srvVars, pubVars, server_q, queue, draft, typed, viewVars, colon>>

Kill(c) ==
    /\ app[c] \in Running /\ app' = [app EXCEPT ![c] = "dead"]
    /\ Cardinality({d \in Clients : app[d] = "dead"}) < MaxDeaths
    /\ UNCHANGED <<srvVars, pubVars, server_q, queue, draft, typed, viewVars, colon>>

Next == \/ ServerStep \/ ServerStop
        \/ \E c \in Clients : \/ Start(c) \/ Join(c) \/ Type(c) \/ Say(c) \/ Receive(c)
                              \/ Quit(c) \/ Kill(c)
Spec == Init /\ [][Next]_vars

\* Each program and thread runs on; the kernel wakes blocked senders in turn.
FairSpec == /\ Spec /\ WF_vars(ServerStep)
            /\ \A c \in Clients : WF_vars(Receive(c)) /\ SF_vars(Join(c) \/ Say(c))

----------------------------------------------------------------------------
(* Properties *)

\* Every variable keeps its type; the table and the history stay in
\* their arrays.
TypeOK ==
    /\ colon \in SUBSET Clients
    /\ srv \in {"recv", "replay", "send", "down"}
    /\ joining \in Seq(Item) /\ Len(joining) <= 1
    /\ client \in Seq(Clients) /\ Len(client) <= MAX_CLIENT /\ i \in 0..(MAX_HISTORY + MAX_CLIENT)
    /\ history \in Seq(Entry) /\ Len(history) <= MAX_HISTORY /\ log \in Seq(Entry)
    /\ server_q \in Seq(Item) /\ Len(server_q) <= QueueLen
    /\ queue \in [Clients -> Seq(Entry)]
    /\ line \in [Clients -> Seq(Entry)]
    /\ \A c \in Clients : Len(queue[c]) <= QueueLen /\ Len(line[c]) <= MAX_LINE
    /\ app \in [Clients -> {"off", "open", "on", "gone", "dead"}]
    /\ draft \in [Clients -> {"no", "fits", "long"}] /\ typed \in [Clients -> 0..MaxTyped]
    /\ base \in [Clients -> Nat] /\ got \in [Clients -> Nat]

Least(m, n) == IF m <= n THEN m ELSE n

\* What client c is to receive: the first MAX_HISTORY messages of those that
\* were broadcast before it was added, and all that were broadcast after.
Member(c) == \E k \in DOMAIN client : client[k] = c
Expected(c) == IF Member(c)
               THEN SubSeq(log, 1, Least(MAX_HISTORY, base[c])) \o SubSeq(log, base[c] + 1, Len(log))
               ELSE <<>>

\* What was sent to client c: all but the message that is being broadcast and,
\* to the newcomer, what was replayed.
SentTo(c) ==
    LET row == CHOOSE k \in DOMAIN client : client[k] = c IN
    CASE srv = "replay" /\ row = Len(client) -> i
      [] srv = "send" /\ row > i -> Len(Expected(c)) - 1
      [] OTHER -> Len(Expected(c))

\* The screen of a client ends with what it received last, goes back MAX_LINE
\* messages, and is followed by what is in its queue: nothing is lost, doubled
\* or out of order, neither at the passage from replay to broadcast nor when
\* the screen scrolls.  Whatever became of the other clients, nobody with a row
\* is passed over.
ScreenFaithful ==
    \A c \in Clients :
        /\ queue[c] = SubSeq(Expected(c), got[c] + 1, got[c] + Len(queue[c]))
        /\ line[c] = SubSeq(Expected(c), got[c] - Least(MAX_LINE, got[c]) + 1, got[c])
        /\ srv # "down" /\ Member(c) => got[c] + Len(queue[c]) = SentTo(c)

\* The server is gone, or it may wait for ever for one who has left to read.
Left(c) == app[c] \in {"gone", "dead"}
Stuck == srv = "down" \/ \E c \in Clients : Left(c) /\ Len(queue[c]) = QueueLen

\* The users type so many lines and no more, so there comes a moment, again and
\* again, at which every line that was typed, if it fits into a message with the
\* name, has been broadcast, and all that a member is to receive has come to its
\* screen, unless it has left or the server is stuck: clients that are merely
\* slow delay both only.  (A line that does not fit is dropped by its own client.)
Broadcasted(c, n) == \E k \in DOMAIN log : log[k].name = c /\ log[k].text = n
Delivered ==
    \A c \in Clients :
        []<>(\/ Left(c) \/ Stuck
             \/ /\ \A n \in 1..typed[c] : Broadcasted(c, n)
                /\ got[c] = Len(Expected(c)))

\* The queues implement the same service as the shared memory of lab14/chat, but
\* for what a client reads that was added after the history was full: the screen
\* of the service is what has scrolled out of sight and what is there.
Service == INSTANCE ChatService WITH
    Submissions <- Item,
    queue  <- joining \o server_q,
    screen <- [c \in Clients |-> SubSeq(Expected(c), 1, got[c] - Len(line[c])) \o line[c]]
TooLate(c) == base[c] > MAX_HISTORY /\ got'[c] # got[c]
ImplementsService ==
    /\ Service!ServiceInit
    /\ [][Service!ServiceNext \/ \E c \in Clients : TooLate(c)]_(Service!serviceVars)
=============================================================================
