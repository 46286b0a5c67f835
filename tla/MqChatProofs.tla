---------------------------- MODULE MqChatProofs ----------------------------
(* Theorems on MqChat, for every number of clients and every size of the    *)
(* queues, the table, the history and the screen.                           *)
EXTENDS MqChat, SequenceTheorems, TLAPS

----------------------------------------------------------------------------
(* Types.  A chat item is well formed because its user has typed a line; a  *)
(* JOIN is in hand for as long as the history is replayed.                  *)

ITypeOK ==
    /\ TypeOK
    /\ \A c \in Clients : draft[c] = "fits" => typed[c] \in 1..MaxTyped
    /\ srv = "replay" => Len(joining) = 1
    /\ srv = "send" => Len(log) > 0

LEMMA InitType == Init => ITypeOK
  BY MqChatSizes DEF Init, ITypeOK, TypeOK

\* What a sender finds at the head of a queue, and what it leaves.
LEMMA QueueTake ==
    ASSUME NEW S, NEW q \in Seq(S), q # <<>>
    PROVE  /\ Head(q) \in S /\ Tail(q) \in Seq(S) /\ Len(q) \in Nat /\ Len(q) > 0
           /\ Len(Tail(q)) = Len(q) - 1 /\ Head(q) = q[1]
           /\ \A k \in 1..(Len(q) - 1) : Tail(q)[k] = q[k + 1]
  OBVIOUS

\* A message more for one client.
LEMMA MqSendType ==
    ASSUME ITypeOK, NEW q \in Clients, NEW m \in Entry, MqSend(q, m)
    PROVE  /\ queue' \in [Clients -> Seq(Entry)]
           /\ \A c \in Clients : Len(queue'[c]) <= QueueLen
  <1>1. /\ queue \in [Clients -> Seq(Entry)] /\ QueueLen \in Nat
        /\ \A c \in Clients : Len(queue[c]) <= QueueLen
    BY MqChatSizes DEF ITypeOK, TypeOK
  <1>2. Append(queue[q], m) \in Seq(Entry) /\ Len(Append(queue[q], m)) = Len(queue[q]) + 1
        /\ Len(queue[q]) \in Nat
    BY <1>1
  <1> QED BY <1>1, <1>2 DEF MqSend

\* The log takes every message, the history those it has room for.
LEMMA RecordType ==
    ASSUME ITypeOK, NEW kind \in {"join", "chat"}, NEW who \in Clients,
           NEW text \in 0..MaxTyped, Record(kind, who, text)
    PROVE  /\ log' \in Seq(Entry)
           /\ history' \in Seq(Entry) /\ Len(history') <= MAX_HISTORY
           /\ Len(log') > 0
  <1> DEFINE e == [id |-> Len(log) + 1, kind |-> kind, name |-> who, text |-> text]
  <1>1. /\ log \in Seq(Entry) /\ history \in Seq(Entry) /\ Len(history) \in Nat
        /\ Len(history) <= MAX_HISTORY /\ MAX_HISTORY \in Nat
    BY MqChatSizes DEF ITypeOK, TypeOK
  <1>2. e \in Entry
    BY <1>1 DEF Entry
  <1>3. /\ log' = Append(log, e)
        /\ history' = IF Len(history) < MAX_HISTORY THEN Append(history, e) ELSE history
    BY DEF Record, add_history
  <1> HIDE DEF e
  <1>4. /\ Append(log, e) \in Seq(Entry) /\ Append(history, e) \in Seq(Entry)
        /\ Len(Append(history, e)) = Len(history) + 1
        /\ Len(Append(log, e)) = Len(log) + 1 /\ Len(log) \in Nat
    BY <1>1, <1>2
  <1> QED BY <1>1, <1>3, <1>4

\* Every step of the server keeps the types.
LEMMA ServerType == ASSUME ITypeOK, ServerStep \/ ServerStop PROVE ITypeOK'
  <1> USE DEF pubVars, userVars, viewVars
  <1>1. CASE ReceiveJoin
    <2>1. /\ server_q \in Seq(Item) /\ Len(server_q) <= QueueLen /\ QueueLen \in Nat
          /\ server_q # <<>> /\ server_q' = Tail(server_q)
      BY <1>1, MqChatSizes DEF ReceiveJoin, ITypeOK, TypeOK
    <2>2. /\ server_q' \in Seq(Item) /\ Len(server_q') <= QueueLen
          /\ Head(server_q) \in Item /\ Head(server_q).name \in Clients
      <3>1. /\ Head(server_q) \in Item /\ Tail(server_q) \in Seq(Item)
            /\ Len(Tail(server_q)) = Len(server_q) - 1 /\ Len(server_q) \in Nat
        BY <2>1, QueueTake
      <3> QED BY <2>1, <3>1 DEF Item
    <2>3. /\ UNCHANGED <<history, log, queue, app, draft, typed, line, got, colon>>
          /\ \/ UNCHANGED <<srv, joining, i, client, base>>
             \/ /\ client' = Append(client, Head(server_q).name)
                /\ Len(client) < MAX_CLIENT
                /\ base' = [base EXCEPT ![Head(server_q).name] = Len(log)]
                /\ srv' = "replay" /\ i' = 0 /\ joining' = <<Head(server_q)>>
      BY <1>1 DEF ReceiveJoin, Accepted, srvVars
    <2>4. CASE UNCHANGED <<srv, joining, i, client, base>>
      BY <2>2, <2>3, <2>4 DEF ITypeOK, TypeOK
    <2>5. CASE /\ client' = Append(client, Head(server_q).name)
               /\ Len(client) < MAX_CLIENT
               /\ base' = [base EXCEPT ![Head(server_q).name] = Len(log)]
               /\ srv' = "replay" /\ i' = 0 /\ joining' = <<Head(server_q)>>
      <3>1. client' \in Seq(Clients) /\ Len(client') <= MAX_CLIENT
        BY <2>2, <2>5, MqChatSizes DEF ITypeOK, TypeOK
      <3>2. base' \in [Clients -> Nat]
        BY <2>2, <2>5 DEF ITypeOK, TypeOK
      <3>3. joining' \in Seq(Item) /\ Len(joining') = 1
        BY <2>2, <2>5
      <3>4. i' \in 0..(MAX_HISTORY + MAX_CLIENT)
        BY <2>5, MqChatSizes
      <3>5. srv' = "replay" /\ UNCHANGED <<history, log, queue, app, draft, typed, line, got, colon>>
        BY <2>3, <2>5
      <3>6. TypeOK'
        <4>1. /\ colon' \in SUBSET Clients /\ history' \in Seq(Entry)
              /\ Len(history') <= MAX_HISTORY /\ log' \in Seq(Entry)
              /\ queue' \in [Clients -> Seq(Entry)] /\ line' \in [Clients -> Seq(Entry)]
              /\ \A c \in Clients : Len(queue'[c]) <= QueueLen /\ Len(line'[c]) <= MAX_LINE
              /\ app' \in [Clients -> {"off", "open", "on", "gone", "dead"}]
              /\ draft' \in [Clients -> {"no", "fits", "long"}] /\ typed' \in [Clients -> 0..MaxTyped]
              /\ got' \in [Clients -> Nat]
          BY <3>5 DEF ITypeOK, TypeOK
        <4>2. Len(joining') <= 1
          BY <3>3
        <4>3. server_q' \in Seq(Item) /\ Len(server_q') <= QueueLen
          BY <2>2
        <4> QED BY <3>1, <3>2, <3>3, <3>4, <3>5, <4>1, <4>2, <4>3 DEF TypeOK
      <3>7. \A c \in Clients : draft'[c] = "fits" => typed'[c] \in 1..MaxTyped
        BY <3>5 DEF ITypeOK
      <3> QED BY <3>3, <3>5, <3>6, <3>7 DEF ITypeOK
    <2> QED BY <2>3, <2>4, <2>5
  <1>2. CASE Replay
    <2>1. joining \in Seq(Item) /\ Len(joining) = 1 /\ Head(joining).name \in Clients
      <3>1. joining \in Seq(Item) /\ Len(joining) = 1
        BY <1>2 DEF Replay, ITypeOK, TypeOK
      <3>2. Head(joining) \in Item
        BY <3>1
      <3> QED BY <3>1, <3>2 DEF Item
    <2>2. /\ history[i + 1] \in Entry /\ i + 1 \in 0..(MAX_HISTORY + MAX_CLIENT)
      BY <1>2, MqChatSizes DEF Replay, ITypeOK, TypeOK
    <2>3. MqSend(Head(joining).name, history[i + 1])
      BY <1>2 DEF Replay
    <2> QED BY <1>2, <2>1, <2>2, <2>3, MqSendType DEF Replay, ITypeOK, TypeOK
  <1>3. CASE Joined
    <2>1. joining \in Seq(Item) /\ Len(joining) = 1 /\ Head(joining).name \in Clients
      <3>1. joining \in Seq(Item) /\ Len(joining) = 1
        BY <1>3 DEF Joined, ITypeOK, TypeOK
      <3>2. Head(joining) \in Item
        BY <3>1
      <3> QED BY <3>1, <3>2 DEF Item
    <2>2. 0 \in 0..MaxTyped /\ 0 \in 0..(MAX_HISTORY + MAX_CLIENT)
      BY MqChatSizes
    <2>3. Record("join", Head(joining).name, 0)
      BY <1>3 DEF Joined
    <2>4. /\ srv' = "send" /\ joining' \in Seq(Item) /\ Len(joining') <= 1
          /\ i' \in 0..(MAX_HISTORY + MAX_CLIENT)
          /\ UNCHANGED <<client, base, server_q, queue, app, draft, typed, line, got, colon>>
      BY <1>3, <2>2 DEF Joined
    <2>5. /\ log' \in Seq(Entry) /\ history' \in Seq(Entry) /\ Len(history') <= MAX_HISTORY
          /\ Len(log') > 0
      BY <2>1, <2>2, <2>3, RecordType
    <2> QED BY <2>4, <2>5 DEF ITypeOK, TypeOK
  <1>4. CASE ReceiveChat
    <2>1. /\ server_q \in Seq(Item) /\ Len(server_q) <= QueueLen /\ QueueLen \in Nat
          /\ server_q # <<>> /\ server_q' = Tail(server_q)
      BY <1>4, MqChatSizes DEF ReceiveChat, ITypeOK, TypeOK
    <2>2. /\ server_q' \in Seq(Item) /\ Len(server_q') <= QueueLen
          /\ Head(server_q).name \in Clients /\ Head(server_q).text \in 0..MaxTyped
      <3>1. /\ Head(server_q) \in Item /\ Tail(server_q) \in Seq(Item)
            /\ Len(Tail(server_q)) = Len(server_q) - 1 /\ Len(server_q) \in Nat
        BY <2>1, QueueTake
      <3> QED BY <2>1, <3>1, MqChatSizes DEF Item
    <2>3. Record("chat", Head(server_q).name, Head(server_q).text)
      BY <1>4 DEF ReceiveChat
    <2>4. 0 \in 0..(MAX_HISTORY + MAX_CLIENT)
      BY MqChatSizes
    <2> QED BY <1>4, <2>2, <2>3, <2>4, RecordType DEF ReceiveChat, ITypeOK, TypeOK
  <1>5. CASE Broadcast
    <2>1. /\ client[i + 1] \in Clients /\ i + 1 \in 0..(MAX_HISTORY + MAX_CLIENT)
      <3>1. /\ client \in Seq(Clients) /\ Len(client) \in Nat /\ Len(client) <= MAX_CLIENT
            /\ i \in Nat /\ i < Len(client) /\ MAX_HISTORY \in Nat /\ MAX_CLIENT \in Nat
        BY <1>5, MqChatSizes DEF Broadcast, ITypeOK, TypeOK
      <3>2. i + 1 \in 1..Len(client)
        BY <3>1
      <3> QED BY <3>1, <3>2
    <2>2. log[Len(log)] \in Entry
      BY <1>5 DEF Broadcast, ITypeOK, TypeOK
    <2>3. MqSend(client[i + 1], log[Len(log)])
      BY <1>5 DEF Broadcast
    <2>4. /\ queue' \in [Clients -> Seq(Entry)]
          /\ \A c \in Clients : Len(queue'[c]) <= QueueLen
      BY <2>1, <2>2, <2>3, MqSendType
    <2> QED BY <1>5, <2>1, <2>4 DEF Broadcast, ITypeOK, TypeOK
  <1>6. CASE BroadcastDone \/ ServerStop
    BY <1>6 DEF BroadcastDone, ServerStop, ITypeOK, TypeOK
  <1> QED BY <1>1, <1>2, <1>3, <1>4, <1>5, <1>6 DEF ServerStep

\* Every step of a client keeps the types.
LEMMA RequestType ==
    ASSUME ITypeOK, NEW item \in Item, Request(item)
    PROVE  server_q' \in Seq(Item) /\ Len(server_q') <= QueueLen
  <1>1. /\ server_q \in Seq(Item) /\ Len(server_q) \in Nat /\ QueueLen \in Nat
        /\ Len(server_q) < QueueLen /\ server_q' = Append(server_q, item)
    BY MqChatSizes DEF ITypeOK, TypeOK, Request
  <1> QED BY <1>1

LEMMA ClientType ==
    ASSUME ITypeOK, NEW c \in Clients,
           Start(c) \/ Join(c) \/ Type(c) \/ Say(c) \/ Receive(c) \/ Quit(c) \/ Kill(c)
    PROVE  ITypeOK'
  <1> USE DEF srvVars, pubVars, viewVars
  <1>1. CASE Start(c) \/ Quit(c) \/ Kill(c)
    BY <1>1 DEF Start, Quit, Kill, ITypeOK, TypeOK
  <1>2. CASE Join(c)
    <2>1. [type |-> "join", name |-> c, text |-> 0] \in Item
      BY DEF Item
    <2>2. server_q' \in Seq(Item) /\ Len(server_q') <= QueueLen
      BY <1>2, <2>1, RequestType DEF Join
    <2> QED BY <1>2, <2>2 DEF Join, ITypeOK, TypeOK
  <1>3. CASE Type(c)
    <2>1. CASE typed' = [typed EXCEPT ![c] = @ + 1] /\ draft' = [draft EXCEPT ![c] = "fits"]
      <3>1. typed \in [Clients -> 0..MaxTyped]
        BY DEF ITypeOK, TypeOK
      <3>2. typed[c] < MaxTyped /\ MaxTyped \in Nat
        BY <1>3, <2>1, <3>1, MqChatSizes DEF Type
      <3>3. typed[c] + 1 \in 1..MaxTyped /\ typed[c] + 1 \in 0..MaxTyped
        BY <3>1, <3>2
      <3> QED BY <1>3, <2>1, <3>3 DEF Type, ITypeOK, TypeOK
    <2>2. CASE draft' = [draft EXCEPT ![c] = "long"] /\ UNCHANGED typed
      BY <1>3, <2>2 DEF Type, ITypeOK, TypeOK
    <2> QED BY <1>3, <2>1, <2>2 DEF Type
  <1>4. CASE Say(c)
    <2>1. draft[c] = "fits" => [type |-> "chat", name |-> c, text |-> typed[c]] \in Item
      BY <1>4 DEF Item, Say, ITypeOK
    <2>2. server_q' \in Seq(Item) /\ Len(server_q') <= QueueLen
      <3>1. CASE draft[c] = "fits"
        BY <1>4, <2>1, <3>1, RequestType DEF Say
      <3>2. CASE draft[c] # "fits"
        BY <1>4, <3>2 DEF Say, ITypeOK, TypeOK
      <3> QED BY <3>1, <3>2
    <2> QED BY <1>4, <2>2 DEF Say, ITypeOK, TypeOK
  <1>5. CASE Receive(c)
    <2>1. /\ queue[c] \in Seq(Entry) /\ queue[c] # <<>> /\ Len(queue[c]) <= QueueLen
          /\ line[c] \in Seq(Entry) /\ Len(line[c]) <= MAX_LINE /\ Len(line[c]) \in Nat
          /\ MAX_LINE \in Nat /\ MAX_LINE > 0 /\ QueueLen \in Nat
      <3>1. queue \in [Clients -> Seq(Entry)] /\ line \in [Clients -> Seq(Entry)]
            /\ Len(queue[c]) <= QueueLen /\ Len(line[c]) <= MAX_LINE
        BY DEF ITypeOK, TypeOK
      <3>2. queue[c] # <<>>
        BY <1>5 DEF Receive
      <3> QED BY <3>1, <3>2, MqChatSizes
    <2>2. /\ Head(queue[c]) \in Entry /\ Tail(queue[c]) \in Seq(Entry)
          /\ Len(Tail(queue[c])) <= QueueLen
      <3>1. /\ Head(queue[c]) \in Entry /\ Tail(queue[c]) \in Seq(Entry)
            /\ Len(Tail(queue[c])) = Len(queue[c]) - 1 /\ Len(queue[c]) \in Nat
        BY <2>1, QueueTake
      <3> QED BY <2>1, <3>1
    <2> DEFINE old == IF Len(line[c]) < MAX_LINE THEN line[c] ELSE Tail(line[c])
               new == Append(old, Head(queue[c]))
    <2>3. old \in Seq(Entry) /\ Len(old) < MAX_LINE /\ Len(old) \in Nat
      <3>1. CASE Len(line[c]) < MAX_LINE
        BY <2>1, <3>1
      <3>2. CASE Len(line[c]) >= MAX_LINE
        <4>1. line[c] # <<>>
          BY <2>1, <3>2
        <4>2. Tail(line[c]) \in Seq(Entry) /\ Len(Tail(line[c])) = Len(line[c]) - 1
          BY <2>1, <4>1, QueueTake
        <4> QED BY <2>1, <3>2, <4>2
      <3> QED BY <2>1, <3>1, <3>2
    <2>4. /\ queue' = [queue EXCEPT ![c] = Tail(@)]
          /\ line' = [line EXCEPT ![c] = new] /\ got' = [got EXCEPT ![c] = @ + 1]
          /\ UNCHANGED <<srv, joining, i, client, history, log, base, server_q, app, draft,
                         typed, colon>>
      BY <1>5 DEF Receive, add_line, userVars
    <2> HIDE DEF old
    <2>5. new \in Seq(Entry) /\ Len(new) <= MAX_LINE
      <3>1. new \in Seq(Entry) /\ Len(new) = Len(old) + 1
        BY <2>2, <2>3, AppendProperties
      <3> QED BY <2>1, <2>3, <3>1
    <2> HIDE DEF new
    <2>6. /\ queue' \in [Clients -> Seq(Entry)] /\ line' \in [Clients -> Seq(Entry)]
          /\ \A d \in Clients : Len(queue'[d]) <= QueueLen /\ Len(line'[d]) <= MAX_LINE
          /\ got' \in [Clients -> Nat]
      <3>1. /\ queue \in [Clients -> Seq(Entry)] /\ line \in [Clients -> Seq(Entry)]
            /\ got \in [Clients -> Nat]
            /\ \A d \in Clients : Len(queue[d]) <= QueueLen /\ Len(line[d]) <= MAX_LINE
        BY DEF ITypeOK, TypeOK
      <3> QED BY <2>2, <2>4, <2>5, <3>1
    <2> QED BY <2>4, <2>6 DEF ITypeOK, TypeOK
  <1> QED BY <1>1, <1>2, <1>3, <1>4, <1>5

LEMMA NextType == ITypeOK /\ [Next]_vars => ITypeOK'
  <1> SUFFICES ASSUME ITypeOK, [Next]_vars PROVE ITypeOK'
    OBVIOUS
  <1>1. CASE UNCHANGED vars
    BY <1>1 DEF vars, srvVars, pubVars, userVars, viewVars, ITypeOK, TypeOK
  <1> QED BY <1>1, ServerType, ClientType DEF Next

\* Every variable of the chat keeps its type; no queue takes more than mq_maxmsg
\* messages, and no loop index leaves its table.
THEOREM TypeCorrect == Spec => []TypeOK
  <1>1. ITypeOK => TypeOK
    BY DEF ITypeOK
  <1> QED BY <1>1, InitType, NextType, PTL DEF Spec

----------------------------------------------------------------------------
(* What a client is to receive, message by message: how many there are, and *)
(* the k-th of them.                                                        *)

Cut(c) == Least(MAX_HISTORY, base[c])
Due(c) == IF Member(c) THEN Cut(c) + (Len(log) - base[c]) ELSE 0
Nth(c, k) == IF k <= Cut(c) THEN log[k] ELSE log[k - Cut(c) + base[c]]

\* A client asks to join once, and gets one row.
OneRow ==
    /\ \A j, k \in 1..Len(client) : client[j] = client[k] => j = k
    /\ \A j, k \in 1..Len(server_q) :
          server_q[j].type = "join" /\ server_q[k].type = "join"
             /\ server_q[j].name = server_q[k].name => j = k
    /\ \A k \in 1..Len(server_q) : server_q[k].type = "join" =>
          /\ ~Member(server_q[k].name)
          /\ app[server_q[k].name] \notin {"off", "open"}
    /\ \A k \in 1..Len(client) : app[client[k]] \notin {"off", "open"}

\* The history is the beginning of the log, as far as there is room.
HistoryPrefix ==
    /\ Len(history) = Least(MAX_HISTORY, Len(log))
    /\ \A k \in 1..Len(history) : history[k] = log[k]

\* How far the log was when a client was added.
Bases ==
    /\ \A c \in Clients : base[c] <= Len(log)
    /\ srv = "send" => \A c \in Clients : Member(c) => base[c] < Len(log)
    /\ srv = "replay" =>
          /\ Len(client) > 0 /\ Head(joining).name = client[Len(client)]
          /\ base[client[Len(client)]] = Len(log)

\* What was sent to the client of row k.
SentTo_(k) ==
    IF srv = "replay" /\ k = Len(client) THEN i
    ELSE IF srv = "send" /\ k > i THEN Due(client[k]) - 1 ELSE Due(client[k])
AllSent == srv # "down" =>
    \A k \in 1..Len(client) : got[client[k]] + Len(queue[client[k]]) = SentTo_(k)

QueueOK == \A c \in Clients :
    /\ got[c] + Len(queue[c]) <= Due(c)
    /\ \A k \in 1..Len(queue[c]) : queue[c][k] = Nth(c, got[c] + k)
LineOK == \A c \in Clients :
    /\ Len(line[c]) = Least(MAX_LINE, got[c])
    /\ \A k \in 1..Len(line[c]) : line[c][k] = Nth(c, got[c] - Len(line[c]) + k)

Inv == ITypeOK /\ OneRow /\ HistoryPrefix /\ Bases /\ AllSent /\ QueueOK /\ LineOK

LEMMA InitInv == Init => Inv
  <1> SUFFICES ASSUME Init PROVE Inv
    OBVIOUS
  <1>1. ITypeOK
    BY InitType
  <1>2. OneRow /\ HistoryPrefix /\ Bases /\ AllSent
    BY MqChatSizes DEF Init, OneRow, HistoryPrefix, Least, Bases, AllSent
  <1>3. QueueOK /\ LineOK
    BY MqChatSizes DEF Init, QueueOK, LineOK, Least, Due, Member
  <1> QED BY <1>1, <1>2, <1>3 DEF Inv

\* The types that the arithmetic on places needs.
LEMMA Places ==
    ASSUME ITypeOK, Bases, NEW c \in Clients
    PROVE  /\ Len(log) \in Nat /\ base[c] \in Nat /\ got[c] \in Nat /\ MAX_HISTORY \in Nat
           /\ Cut(c) \in Nat /\ Cut(c) <= base[c] /\ Cut(c) <= MAX_HISTORY
           /\ Cut(c) = base[c] \/ Cut(c) = MAX_HISTORY
           /\ base[c] <= Len(log) /\ Due(c) \in Nat
           /\ Member(c) => Due(c) = Cut(c) + (Len(log) - base[c])
           /\ ~Member(c) => Due(c) = 0
           /\ Len(queue[c]) \in Nat /\ Len(line[c]) \in Nat
           /\ queue[c] \in Seq(Entry) /\ line[c] \in Seq(Entry)
  <1>1. /\ log \in Seq(Entry) /\ base[c] \in Nat /\ got[c] \in Nat
        /\ queue[c] \in Seq(Entry) /\ line[c] \in Seq(Entry)
    BY DEF ITypeOK, TypeOK
  <1>2. base[c] <= Len(log)
    BY DEF Bases
  <1>3. Len(log) \in Nat /\ Len(queue[c]) \in Nat /\ Len(line[c]) \in Nat /\ MAX_HISTORY \in Nat
    BY <1>1, MqChatSizes
  <1>4. /\ Cut(c) \in Nat /\ Cut(c) <= base[c] /\ Cut(c) <= MAX_HISTORY
        /\ Cut(c) = base[c] \/ Cut(c) = MAX_HISTORY
    BY <1>1, <1>3 DEF Cut, Least
  <1>5. (Member(c) => Due(c) = Cut(c) + (Len(log) - base[c])) /\ (~Member(c) => Due(c) = 0)
    BY DEF Due
  <1>6. Due(c) \in Nat
    <2>1. Cut(c) + (Len(log) - base[c]) \in Nat
      BY <1>1, <1>2, <1>3, <1>4
    <2> QED BY <1>5, <2>1
  <1> QED BY <1>1, <1>2, <1>3, <1>4, <1>5, <1>6

\* The table, the log and what was in it before stay: so does what is due.
LEMMA DueStays ==
    ASSUME UNCHANGED <<client, log, base>>, NEW c \in Clients
    PROVE  /\ Member(c)' <=> Member(c)
           /\ Cut(c)' = Cut(c) /\ Due(c)' = Due(c) /\ \A k \in Nat : Nth(c, k)' = Nth(c, k)
  BY DEF Member, Cut, Due, Nth

\* A message more in the log is one more that is due to every member.
LEMMA DueGrows ==
    ASSUME ITypeOK, Bases, NEW kind, NEW who, NEW text, Record(kind, who, text),
           UNCHANGED <<client, base>>, NEW c \in Clients
    PROVE  /\ Member(c)' <=> Member(c)
           /\ Due(c)' = IF Member(c) THEN Due(c) + 1 ELSE Due(c)
           /\ \A k \in 1..Due(c) : Nth(c, k)' = Nth(c, k)
  <1>1. /\ log \in Seq(Entry) /\ Len(log') = Len(log) + 1
        /\ \A k \in 1..Len(log) : log'[k] = log[k]
    BY DEF Record, ITypeOK, TypeOK
  <1>2. (Member(c)' <=> Member(c)) /\ Cut(c)' = Cut(c) /\ base'[c] = base[c]
    BY DEF Member, Cut
  <1>3. /\ Len(log) \in Nat /\ base[c] \in Nat /\ Cut(c) \in Nat /\ Cut(c) <= base[c]
        /\ base[c] <= Len(log)
        /\ Due(c) = IF Member(c) THEN Cut(c) + (Len(log) - base[c]) ELSE 0
    BY Places DEF Due
  <1>4. Due(c)' = IF Member(c) THEN Due(c) + 1 ELSE Due(c)
    <2>1. CASE Member(c)
      <3>1. Due(c) = Cut(c) + (Len(log) - base[c])
        BY <2>1, Places
      <3>2. Due(c)' = Cut(c)' + (Len(log') - base'[c])
        BY <1>2, <2>1, Zenon DEF Due
      <3>3. Cut(c)' = Cut(c) /\ base'[c] = base[c] /\ Len(log') = Len(log) + 1
        BY <1>1, <1>2
      <3> QED BY <1>3, <2>1, <3>1, <3>2, <3>3
    <2>2. CASE ~Member(c)
      BY <1>2, <2>2 DEF Due
    <2> QED BY <2>1, <2>2
  <1>5. ASSUME NEW k \in 1..Due(c) PROVE Nth(c, k)' = Nth(c, k)
    <2>1. CASE k <= Cut(c)
      <3>1. k \in 1..Len(log)
        BY <1>3, <2>1
      <3> QED BY <1>1, <1>2, <2>1, <3>1 DEF Nth
    <2>2. CASE ~(k <= Cut(c))
      <3>1. k - Cut(c) + base[c] \in 1..Len(log)
        BY <1>3, <2>2
      <3> QED BY <1>1, <1>2, <2>2, <3>1 DEF Nth
    <2> QED BY <2>1, <2>2
  <1> QED BY <1>2, <1>4, <1>5

\* History and log grow together.
LEMMA PrefixGrows ==
    ASSUME ITypeOK, HistoryPrefix, NEW kind, NEW who, NEW text, Record(kind, who, text)
    PROVE  HistoryPrefix'
  <1> DEFINE e == [id |-> Len(log) + 1, kind |-> kind, name |-> who, text |-> text]
  <1>1. /\ log \in Seq(Entry) /\ history \in Seq(Entry) /\ MAX_HISTORY \in Nat
        /\ Len(log) \in Nat /\ Len(history) \in Nat
        /\ Len(history) = Least(MAX_HISTORY, Len(log))
        /\ \A k \in 1..Len(history) : history[k] = log[k]
    BY MqChatSizes DEF ITypeOK, TypeOK, HistoryPrefix
  <1>2. /\ log' = Append(log, e)
        /\ history' = IF Len(history) < MAX_HISTORY THEN Append(history, e) ELSE history
    BY DEF Record, add_history
  <1> HIDE DEF e
  <1>3. /\ Len(log') = Len(log) + 1 /\ log'[Len(log) + 1] = e
        /\ \A k \in 1..Len(log) : log'[k] = log[k]
    BY <1>1, <1>2
  <1>4. CASE Len(history) < MAX_HISTORY
    <2>1. Len(history) = Len(log)
      BY <1>1, <1>4 DEF Least
    <2>2. /\ Len(history') = Len(log) + 1 /\ history'[Len(log) + 1] = e
          /\ \A k \in 1..Len(log) : history'[k] = history[k]
      BY <1>1, <1>2, <1>4, <2>1
    <2>3. ASSUME NEW k \in 1..Len(history') PROVE history'[k] = log'[k]
      <3>1. k \in 1..Len(log) \/ k = Len(log) + 1
        BY <1>1, <2>2
      <3> QED BY <1>1, <1>3, <2>1, <2>2, <3>1
    <2>4. Len(history') = Least(MAX_HISTORY, Len(log'))
      BY <1>1, <1>3, <1>4, <2>1, <2>2 DEF Least
    <2> QED BY <2>3, <2>4 DEF HistoryPrefix
  <1>5. CASE Len(history) >= MAX_HISTORY
    <2>1. history' = history /\ Len(history) <= Len(log) /\ Len(history) = MAX_HISTORY
      BY <1>1, <1>2, <1>5 DEF Least
    <2>2. \A k \in 1..Len(history) : k \in 1..Len(log)
      BY <1>1, <2>1
    <2>3. \A k \in 1..Len(history') : history'[k] = log'[k]
      BY <1>1, <1>3, <2>1, <2>2
    <2>4. Len(history') = Least(MAX_HISTORY, Len(log'))
      BY <1>1, <1>3, <2>1 DEF Least
    <2> QED BY <2>3, <2>4 DEF HistoryPrefix
  <1> QED BY <1>1, <1>4, <1>5

----------------------------------------------------------------------------
(* One lemma per step.                                                      *)

\* Requests, and what becomes of them.
LEMMA NewRequest ==
    ASSUME Inv, NEW item \in Item, Request(item), UNCHANGED client,
           \A c \in Clients : app'[c] = app[c] \/ app'[c] \notin {"off", "open"},
           item.type = "join" => /\ app[item.name] = "open" /\ app'[item.name] = "on"
    PROVE  OneRow'
  <1>1. /\ server_q \in Seq(Item) /\ server_q' = Append(server_q, item)
        /\ client \in Seq(Clients)
    BY DEF Inv, ITypeOK, TypeOK, Request
  <1>2. /\ Len(server_q) \in Nat /\ Len(server_q') = Len(server_q) + 1
        /\ server_q'[Len(server_q) + 1] = item
        /\ \A k \in 1..Len(server_q) : server_q'[k] = server_q[k] /\ server_q[k] \in Item
        /\ \A k \in 1..Len(client) : client[k] \in Clients
    BY <1>1
  <1>3. \A k \in 1..Len(server_q') : k \in 1..Len(server_q) \/ k = Len(server_q) + 1
    BY <1>2
  <1>4. \A k \in 1..Len(server_q) : server_q[k].name \in Clients
    BY <1>2 DEF Item
  <1>5. item.name \in Clients
    BY DEF Item
  <1>6. ASSUME item.type = "join"
        PROVE  /\ ~Member(item.name)
               /\ \A k \in 1..Len(server_q) : server_q[k].type = "join" => server_q[k].name # item.name
    <2>1. app[item.name] = "open"
      BY <1>6
    <2> QED BY <1>1, <2>1 DEF Inv, OneRow, Member
  <1>7. \A j, k \in 1..Len(client') : client'[j] = client'[k] => j = k
    BY DEF Inv, OneRow
  <1>8. \A j, k \in 1..Len(server_q') :
           server_q'[j].type = "join" /\ server_q'[k].type = "join" /\ server_q'[j].name = server_q'[k].name
             => j = k
    BY <1>2, <1>3, <1>6 DEF Inv, OneRow
  <1>9. ASSUME NEW k \in 1..Len(server_q'), server_q'[k].type = "join"
         PROVE  /\ \A m \in DOMAIN client' : client'[m] # server_q'[k].name
                /\ app'[server_q'[k].name] \notin {"off", "open"}
    <2>1. CASE k \in 1..Len(server_q)
      BY <1>2, <1>4, <1>9, <2>1 DEF Inv, OneRow, Member
    <2>2. CASE k = Len(server_q) + 1
      BY <1>2, <1>5, <1>6, <1>9, <2>2 DEF Member
    <2> QED BY <1>3, <2>1, <2>2
  <1>10. \A k \in 1..Len(client') : app'[client'[k]] \notin {"off", "open"}
    BY <1>2 DEF Inv, OneRow
  <1>11. \A k \in 1..Len(server_q') : server_q'[k].type = "join" =>
            /\ ~(\E m \in DOMAIN client' : client'[m] = server_q'[k].name)
            /\ app'[server_q'[k].name] \notin {"off", "open"}
    BY <1>9
  <1> QED BY <1>7, <1>8, <1>10, <1>11, Zenon DEF OneRow, Member

\* A client that starts or leaves asks for nothing it had not asked for.
LEMMA NoRequest ==
    ASSUME Inv, UNCHANGED <<server_q, client>>,
           \A c \in Clients : app[c] \notin {"off", "open"} => app'[c] \notin {"off", "open"}
    PROVE  OneRow'
  <1>1. server_q \in Seq(Item) /\ client \in Seq(Clients)
    BY DEF Inv, ITypeOK, TypeOK
  <1>2. /\ \A k \in 1..Len(server_q) : server_q[k] \in Item /\ server_q[k].name \in Clients
        /\ \A k \in 1..Len(client) : client[k] \in Clients
    BY <1>1 DEF Item
  <1> QED BY <1>2 DEF Inv, OneRow, Member

\* What the server takes from its queue.
LEMMA Taken ==
    ASSUME Inv, server_q # <<>>
    PROVE  /\ server_q \in Seq(Item) /\ Len(server_q) \in Nat /\ Head(server_q) = server_q[1]
           /\ Head(server_q).name \in Clients /\ 1 \in 1..Len(server_q)
           /\ Len(Tail(server_q)) = Len(server_q) - 1
           /\ \A k \in 1..Len(Tail(server_q)) :
                 /\ k + 1 \in 1..Len(server_q) /\ Tail(server_q)[k] = server_q[k + 1]
                 /\ server_q[k + 1].name \in Clients
  <1>1. server_q \in Seq(Item)
    BY DEF Inv, ITypeOK, TypeOK
  <1>2. /\ Head(server_q) \in Item /\ Len(server_q) \in Nat /\ Len(server_q) > 0
        /\ Len(Tail(server_q)) = Len(server_q) - 1 /\ Head(server_q) = server_q[1]
        /\ \A k \in 1..(Len(server_q) - 1) : Tail(server_q)[k] = server_q[k + 1]
    BY <1>1, QueueTake
  <1>3. \A k \in 1..(Len(server_q) - 1) : k + 1 \in 1..Len(server_q)
    BY <1>2
  <1>4. \A k \in 1..Len(server_q) : server_q[k] \in Item /\ server_q[k].name \in Clients
    BY <1>1 DEF Item
  <1> QED BY <1>1, <1>2, <1>3, <1>4

\* A request less.
LEMMA RequestGone ==
    ASSUME Inv, server_q # <<>>, server_q' = Tail(server_q), UNCHANGED <<client, app>>
    PROVE  OneRow'
  <1>1. ASSUME NEW j \in 1..Len(server_q'), NEW k \in 1..Len(server_q'),
               server_q'[j].type = "join", server_q'[k].type = "join",
               server_q'[j].name = server_q'[k].name
        PROVE  j = k
    <2>1. j + 1 = k + 1
      BY <1>1, Taken DEF Inv, OneRow
    <2> QED BY <2>1, Taken
  <1> QED BY <1>1, Taken DEF Inv, OneRow, Member

\* The steps that put nothing on a queue or a screen.
LEMMA ViewStays ==
    ASSUME Inv, UNCHANGED <<client, log, base, queue, got, line>>
    PROVE  QueueOK' /\ LineOK'
  <1>1. ASSUME NEW c \in Clients
        PROVE  /\ \A k \in 1..Len(queue[c]) : got[c] + k \in Nat
               /\ \A k \in 1..Len(line[c]) : got[c] - Len(line[c]) + k \in Nat
    <2>1. Len(queue[c]) \in Nat /\ Len(line[c]) \in Nat /\ got[c] \in Nat /\ MAX_LINE \in Nat
      BY Places, MqChatSizes DEF Inv
    <2>2. Len(line[c]) = Least(MAX_LINE, got[c])
      BY DEF Inv, LineOK
    <2>3. Len(line[c]) <= got[c]
      BY <2>1, <2>2 DEF Least
    <2> QED BY <2>1, <2>3
  <1>2. \A c \in Clients : Due(c)' = Due(c) /\ \A k \in Nat : Nth(c, k)' = Nth(c, k)
    BY DueStays
  <1>3. QueueOK'
    BY <1>1, <1>2 DEF Inv, QueueOK
  <1>4. LineOK'
    BY <1>1, <1>2 DEF Inv, LineOK
  <1> QED BY <1>3, <1>4

\* The steps that neither send nor receive and leave the log alone.
LEMMA StillSent ==
    ASSUME Inv, UNCHANGED <<client, log, base, queue, got, i>>, srv' = srv \/ srv' = "down"
    PROVE  AllSent'
  <1> SUFFICES ASSUME srv' = srv, srv # "down", NEW k \in 1..Len(client)
               PROVE  got[client[k]] + Len(queue[client[k]]) = SentTo_(k)'
    BY DEF AllSent
  <1>1. client[k] \in Clients
    BY DEF Inv, ITypeOK, TypeOK
  <1>2. SentTo_(k)' = SentTo_(k)
    BY <1>1 DEF SentTo_, Due, Member, Cut
  <1> QED BY <1>2 DEF Inv, AllSent

\* The message that is due next is sent to client c.
LEMMA SendNext ==
    ASSUME Inv, NEW c \in Clients, NEW m \in Entry, MqSend(c, m),
           UNCHANGED <<client, log, base, got, line>>,
           got[c] + Len(queue[c]) < Due(c), m = Nth(c, got[c] + Len(queue[c]) + 1)
    PROVE  /\ QueueOK' /\ LineOK'
           /\ Len(queue'[c]) = Len(queue[c]) + 1
           /\ \A d \in Clients : d # c => queue'[d] = queue[d]
  <1> DEFINE n == Len(queue[c])
  <1>1. /\ queue \in [Clients -> Seq(Entry)] /\ got[c] \in Nat /\ n \in Nat /\ Due(c) \in Nat
    BY Places DEF Inv, ITypeOK, TypeOK
  <1>2. /\ queue'[c] = Append(queue[c], m) /\ \A d \in Clients : d # c => queue'[d] = queue[d]
    BY <1>1 DEF MqSend
  <1>3. /\ Len(queue'[c]) = n + 1 /\ queue'[c][n + 1] = m
        /\ \A k \in 1..n : queue'[c][k] = queue[c][k]
    BY <1>1, <1>2
  <1>4. \A d \in Clients : Due(d)' = Due(d) /\ \A k \in Nat : Nth(d, k)' = Nth(d, k)
    BY DueStays
  <1>5. ASSUME NEW k \in 1..(n + 1) PROVE queue'[c][k] = Nth(c, got[c] + k)
    <2>1. CASE k = n + 1
      <3>1. got[c] + k = got[c] + n + 1
        BY <1>1, <2>1, SMTT(60)
      <3> QED BY <1>3, <2>1, <3>1
    <2>2. CASE k \in 1..n
      BY <1>3, <2>2 DEF Inv, QueueOK
    <2>3. k = n + 1 \/ k \in 1..n
      BY <1>1
    <2> QED BY <2>1, <2>2, <2>3
  <1>6. ASSUME NEW d \in Clients
        PROVE  /\ got[d] + Len(queue'[d]) <= Due(d)
               /\ \A k \in 1..Len(queue'[d]) : queue'[d][k] = Nth(d, got[d] + k)
    <2>1. CASE d = c
      BY <1>1, <1>3, <1>5, <2>1
    <2>2. CASE d # c
      BY <1>2, <2>2 DEF Inv, QueueOK
    <2> QED BY <2>1, <2>2
  <1>7. ASSUME NEW d \in Clients
        PROVE  /\ \A k \in 1..Len(queue'[d]) : got[d] + k \in Nat
               /\ \A k \in 1..Len(line[d]) : got[d] - Len(line[d]) + k \in Nat
    <2>1. Len(line[d]) \in Nat /\ got[d] \in Nat /\ MAX_LINE \in Nat
      BY Places, MqChatSizes DEF Inv
    <2>2. Len(line[d]) = Least(MAX_LINE, got[d])
      BY DEF Inv, LineOK
    <2>3. Len(line[d]) <= got[d]
      BY <2>1, <2>2 DEF Least
    <2> QED BY <2>1, <2>3
  <1>8. QueueOK'
    BY <1>4, <1>6, <1>7 DEF QueueOK
  <1>9. LineOK'
    BY <1>4, <1>7 DEF Inv, LineOK
  <1> QED BY <1>2, <1>3, <1>8, <1>9

LEMMA ReplayInv == ASSUME Inv, Replay PROVE Inv'
  <1>1. /\ srv = "replay" /\ i \in Nat /\ i < Len(history) /\ i' = i + 1
        /\ MqSend(Head(joining).name, history[i + 1])
        /\ UNCHANGED <<srv, joining, client, history, log, base, server_q, app, got, line>>
    BY MqChatSizes DEF Replay, pubVars, userVars, viewVars, Inv, ITypeOK, TypeOK
  <1> DEFINE n == Len(client)
             c == client[n]
  <1>2. /\ client \in Seq(Clients) /\ n \in Nat /\ n > 0 /\ c \in Clients
        /\ Head(joining).name = c /\ base[c] = Len(log)
    <2>1. client \in Seq(Clients)
      BY DEF Inv, ITypeOK, TypeOK
    <2>2. n > 0 /\ Head(joining).name = c /\ base[c] = Len(log)
      BY <1>1 DEF Inv, Bases
    <2>3. n \in Nat /\ n \in 1..n
      BY <2>1, <2>2
    <2> QED BY <2>1, <2>2, <2>3
  <1>3. Member(c) /\ n \in 1..n
    BY <1>2 DEF Member
  <1>4. /\ got[c] + Len(queue[c]) = i /\ Len(history) = Cut(c) /\ Due(c) = Len(history)
        /\ got[c] \in Nat /\ Len(queue[c]) \in Nat
    <2>1. got[c] + Len(queue[c]) = i
      BY <1>1, <1>3 DEF Inv, AllSent, SentTo_
    <2>2. Len(history) = Cut(c)
      BY <1>2 DEF Inv, HistoryPrefix, Cut
    <2>3. /\ Due(c) = Cut(c) + (Len(log) - base[c]) /\ got[c] \in Nat /\ Len(queue[c]) \in Nat
          /\ Cut(c) \in Nat /\ Len(log) \in Nat
      BY <1>2, <1>3, Places DEF Inv
    <2> QED BY <1>2, <2>1, <2>2, <2>3
  <1>5. /\ i + 1 \in 1..Len(history) /\ history[i + 1] \in Entry
        /\ history[i + 1] = Nth(c, got[c] + Len(queue[c]) + 1)
    <2>1. i + 1 \in 1..Len(history) /\ history \in Seq(Entry)
      BY <1>1 DEF Inv, ITypeOK, TypeOK
    <2>2. history[i + 1] = log[i + 1]
      BY <2>1 DEF Inv, HistoryPrefix
    <2>3. i + 1 <= Cut(c)
      BY <1>4, <2>1
    <2> QED BY <1>4, <2>1, <2>2, <2>3 DEF Nth
  <1> HIDE DEF c
  <1>6. /\ QueueOK' /\ LineOK'
        /\ Len(queue'[c]) = Len(queue[c]) + 1
        /\ \A d \in Clients : d # c => queue'[d] = queue[d]
    BY <1>1, <1>2, <1>4, <1>5, SendNext
  <1>7. AllSent'
    <2> SUFFICES ASSUME NEW k \in 1..n
                 PROVE  got[client[k]] + Len(queue'[client[k]]) = SentTo_(k)'
      BY <1>1 DEF AllSent
    <2>1. client[k] \in Clients
      BY <1>2
    <2>2. CASE k = n
      BY <1>1, <1>4, <1>6, <2>2 DEF SentTo_, c
    <2>3. CASE k # n
      <3>1. client[k] # c
        BY <1>3, <2>3 DEF Inv, OneRow, c
      <3>2. SentTo_(k)' = SentTo_(k) /\ queue'[client[k]] = queue[client[k]]
        BY <1>1, <1>6, <2>1, <2>3, <3>1 DEF SentTo_, Due, Member, Cut
      <3> QED BY <1>1, <3>2 DEF Inv, AllSent
    <2> QED BY <2>2, <2>3
  <1>8. ITypeOK'
    BY ServerType DEF Inv, ServerStep
  <1>9. OneRow' /\ HistoryPrefix' /\ Bases'
    BY <1>1, NoRequest DEF Inv, HistoryPrefix, Bases, Member
  <1> QED BY <1>6, <1>7, <1>8, <1>9 DEF Inv

LEMMA BroadcastInv == ASSUME Inv, Broadcast PROVE Inv'
  <1>1. /\ srv = "send" /\ i \in Nat /\ i < Len(client) /\ i' = i + 1
        /\ MqSend(client[i + 1], log[Len(log)])
        /\ UNCHANGED <<srv, joining, client, history, log, base, server_q, app, got, line>>
    BY MqChatSizes DEF Broadcast, pubVars, userVars, viewVars, Inv, ITypeOK, TypeOK
  <1> DEFINE n == Len(client)
             c == client[i + 1]
  <1>2. client \in Seq(Clients) /\ n \in Nat /\ i + 1 \in 1..n /\ c \in Clients
    <2>1. client \in Seq(Clients)
      BY DEF Inv, ITypeOK, TypeOK
    <2>2. n \in Nat /\ i + 1 \in 1..n
      BY <1>1, <2>1
    <2> QED BY <2>1, <2>2
  <1>3. Member(c)
    BY <1>2 DEF Member
  <1>4. /\ got[c] + Len(queue[c]) = Due(c) - 1 /\ base[c] < Len(log)
        /\ Due(c) = Cut(c) + (Len(log) - base[c])
        /\ got[c] \in Nat /\ Len(queue[c]) \in Nat /\ Cut(c) \in Nat /\ Len(log) \in Nat
        /\ base[c] \in Nat /\ Due(c) \in Nat
    <2>1. i + 1 > i
      BY <1>1
    <2>2. got[c] + Len(queue[c]) = Due(c) - 1
      BY <1>1, <1>2, <2>1 DEF Inv, AllSent, SentTo_
    <2>3. base[c] < Len(log)
      BY <1>1, <1>2, <1>3 DEF Inv, Bases
    <2> QED BY <1>2, <1>3, <2>2, <2>3, Places DEF Inv
  <1> HIDE DEF c
  <1>5. /\ log[Len(log)] \in Entry /\ got[c] + Len(queue[c]) < Due(c)
        /\ log[Len(log)] = Nth(c, got[c] + Len(queue[c]) + 1)
    <2>1. log[Len(log)] \in Entry
      BY <1>1 DEF Inv, ITypeOK, TypeOK
    <2>2. PICK g \in Nat, q \in Nat, d \in Nat, u \in Nat, l \in Nat, b \in Nat :
             /\ g = got[c] /\ q = Len(queue[c]) /\ d = Due(c) /\ u = Cut(c)
             /\ l = Len(log) /\ b = base[c]
      BY <1>4
    <2>5. g + q = d - 1 /\ b < l /\ d = u + (l - b)
      BY <1>4, <2>2
    <2>6. g + q < d /\ g + q + 1 = d /\ ~(d <= u) /\ d - u + b = l
      BY <2>5
    <2>3. /\ got[c] + Len(queue[c]) < Due(c) /\ got[c] + Len(queue[c]) + 1 = Due(c)
          /\ ~(Due(c) <= Cut(c)) /\ Due(c) - Cut(c) + base[c] = Len(log)
      BY <2>2, <2>6
    <2>4. Nth(c, Due(c)) = log[Len(log)]
      BY <2>3 DEF Nth
    <2> QED BY <2>1, <2>3, <2>4
  <1>6. /\ QueueOK' /\ LineOK'
        /\ Len(queue'[c]) = Len(queue[c]) + 1
        /\ \A d \in Clients : d # c => queue'[d] = queue[d]
    BY <1>1, <1>2, <1>4, <1>5, SendNext DEF c
  <1>7. AllSent'
    <2> SUFFICES ASSUME NEW k \in 1..n
                 PROVE  got[client[k]] + Len(queue'[client[k]]) = SentTo_(k)'
      BY <1>1 DEF AllSent
    <2>1. client[k] \in Clients
      BY <1>2
    <2>2. SentTo_(k)' = IF k > i + 1 THEN Due(client[k]) - 1 ELSE Due(client[k])
      BY <1>1, <2>1 DEF SentTo_, Due, Member, Cut
    <2>3. CASE k = i + 1
      <3>1. client[k] = c /\ ~(k > i + 1)
        BY <1>1, <2>3 DEF c
      <3>2. got[c] + Len(queue'[c]) = Due(c)
        <4>1. PICK g \in Nat, q \in Nat, d \in Nat :
                 g = got[c] /\ q = Len(queue[c]) /\ d = Due(c)
          BY <1>4
        <4>2. g + q = d - 1 /\ Len(queue'[c]) = q + 1
          BY <1>4, <1>6, <4>1
        <4>3. g + (q + 1) = d
          BY <4>2
        <4> QED BY <4>1, <4>2, <4>3
      <3> QED BY <2>2, <3>1, <3>2
    <2>4. CASE k # i + 1
      <3>1. client[k] # c
        BY <1>2, <2>4 DEF Inv, OneRow, c
      <3>2. queue'[client[k]] = queue[client[k]]
        BY <1>6, <2>1, <3>1
      <3>3. (k > i + 1) <=> (k > i)
        BY <1>1, <1>2, <2>4
      <3>4. got[client[k]] + Len(queue[client[k]])
               = IF k > i THEN Due(client[k]) - 1 ELSE Due(client[k])
        BY <1>1 DEF Inv, AllSent, SentTo_
      <3> QED BY <2>2, <3>2, <3>3, <3>4
    <2> QED BY <2>3, <2>4
  <1>8. ITypeOK'
    BY ServerType DEF Inv, ServerStep
  <1>9. OneRow' /\ HistoryPrefix' /\ Bases'
    BY <1>1, NoRequest DEF Inv, HistoryPrefix, Bases, Member
  <1> QED BY <1>6, <1>7, <1>8, <1>9 DEF Inv

\* A JOIN: the newcomer is due the history, and nothing was sent to it.
LEMMA ReceiveJoinInv == ASSUME Inv, ReceiveJoin PROVE Inv'
  <1>0. PICK c : c = Head(server_q).name
    OBVIOUS
  <1>1. /\ srv = "recv" /\ server_q # <<>> /\ Head(server_q).type = "join"
        /\ server_q' = Tail(server_q)
        /\ UNCHANGED <<history, log, queue, app, got, line>>
    BY DEF ReceiveJoin, userVars, viewVars
  <1>2. ITypeOK' /\ HistoryPrefix'
    BY <1>1, ServerType DEF Inv, ServerStep, HistoryPrefix
  <1>3. CASE UNCHANGED <<srv, joining, i, client, base>>
    <2>1. OneRow'
      BY <1>1, <1>3, RequestGone
    <2>2. Bases' /\ AllSent' /\ QueueOK' /\ LineOK'
      BY <1>1, <1>3, StillSent, ViewStays DEF Inv, Bases, Member
    <2> QED BY <1>2, <2>1, <2>2 DEF Inv
  <1>4. CASE /\ client' = Append(client, c) /\ base' = [base EXCEPT ![c] = Len(log)]
             /\ srv' = "replay" /\ i' = 0 /\ joining' = <<Head(server_q)>>
    <2> DEFINE n == Len(client)
    <2>1. /\ client \in Seq(Clients) /\ n \in Nat /\ c \in Clients /\ ~Member(c)
          /\ app[c] \notin {"off", "open"}
      <3>1. client \in Seq(Clients) /\ n \in Nat
        BY DEF Inv, ITypeOK, TypeOK
      <3>2. 1 \in 1..Len(server_q) /\ c = server_q[1].name /\ server_q[1].type = "join" /\ c \in Clients
        BY <1>0, <1>1, Taken
      <3>3. ~Member(server_q[1].name) /\ app[server_q[1].name] \notin {"off", "open"}
        BY <3>2 DEF Inv, OneRow
      <3> QED BY <3>1, <3>2, <3>3
    <2>2. /\ Len(client') = n + 1 /\ client'[n + 1] = c
          /\ \A k \in 1..n : client'[k] = client[k] /\ client[k] \in Clients /\ client[k] # c
      BY <1>4, <2>1 DEF Member
    <2>3. /\ base'[c] = Len(log) /\ \A d \in Clients : d # c => base'[d] = base[d]
      BY <1>4, <2>1 DEF Inv, ITypeOK, TypeOK
    <2>4. /\ \A k \in 1..(n + 1) : k \in 1..n \/ k = n + 1
          /\ n + 1 \in 1..(n + 1) /\ \A k \in 1..n : k \in 1..(n + 1) /\ k # n + 1
      BY <2>1
    <2>5. DOMAIN client = 1..n /\ DOMAIN client' = 1..(n + 1)
      BY <1>4, <2>1
    <2>6. /\ \A d \in Clients : d # c => (Member(d)' <=> Member(d))
          /\ Member(c)'
      BY <2>2, <2>4, <2>5 DEF Member
    <2>7. ASSUME NEW d \in Clients, d # c
          PROVE  Due(d)' = Due(d) /\ \A k \in Nat : Nth(d, k)' = Nth(d, k)
      BY <1>1, <2>3, <2>6, <2>7 DEF Due, Cut, Nth
    <2>8. /\ got[c] = 0 /\ Len(queue[c]) = 0 /\ Len(line[c]) = 0
          /\ Len(log) \in Nat
      <3>1. got[c] + Len(queue[c]) <= 0 /\ got[c] \in Nat /\ Len(queue[c]) \in Nat
            /\ Len(log) \in Nat
        BY <2>1, Places DEF Inv, QueueOK
      <3>2. Len(line[c]) = Least(MAX_LINE, got[c])
        BY <2>1 DEF Inv, LineOK
      <3> QED BY <3>1, <3>2, MqChatSizes DEF Least
    <2>9. Due(c)' \in Nat
      <3>1. Cut(c)' \in Nat
        BY <2>3, <2>8, MqChatSizes DEF Cut, Least
      <3>2. Due(c)' = Cut(c)' + (Len(log) - Len(log))
        BY <1>1, <2>3, <2>6 DEF Due
      <3> QED BY <2>8, <3>1, <3>2
    <2>10. OneRow'
      <3>1. \A j, k \in 1..Len(client') : client'[j] = client'[k] => j = k
        BY <2>2, <2>4 DEF Inv, OneRow
      <3>2. \A k \in 1..Len(client') : app'[client'[k]] \notin {"off", "open"}
        BY <1>1, <2>1, <2>2, <2>4 DEF Inv, OneRow
      <3>3. ASSUME NEW j \in 1..Len(server_q'), NEW k \in 1..Len(server_q'),
                   server_q'[j].type = "join", server_q'[k].type = "join",
                   server_q'[j].name = server_q'[k].name
            PROVE  j = k
        <4>1. j + 1 = k + 1
          <5>1. /\ j + 1 \in 1..Len(server_q) /\ server_q'[j] = server_q[j + 1]
                /\ k + 1 \in 1..Len(server_q) /\ server_q'[k] = server_q[k + 1]
            BY <1>1, Taken
          <5>2. \A x, y \in 1..Len(server_q) :
                   server_q[x].type = "join" /\ server_q[y].type = "join"
                      /\ server_q[x].name = server_q[y].name => x = y
            BY DEF Inv, OneRow
          <5> QED BY <3>3, <5>1, <5>2
        <4> QED BY <1>1, <4>1, Taken
      <3>4. ASSUME NEW k \in 1..Len(server_q'), server_q'[k].type = "join"
            PROVE  /\ ~(\E m \in DOMAIN client' : client'[m] = server_q'[k].name)
                   /\ app'[server_q'[k].name] \notin {"off", "open"}
        <4>1. /\ k + 1 \in 1..Len(server_q) /\ server_q'[k] = server_q[k + 1]
              /\ k + 1 # 1 /\ server_q[k + 1].name \in Clients
          BY <1>1, Taken
        <4>2. server_q[k + 1].name # c
          BY <1>0, <1>1, <3>4, <4>1, Taken DEF Inv, OneRow
        <4>3. ~Member(server_q[k + 1].name) /\ app[server_q[k + 1].name] \notin {"off", "open"}
          BY <3>4, <4>1 DEF Inv, OneRow
        <4> QED BY <1>1, <2>2, <2>4, <2>5, <4>1, <4>2, <4>3 DEF Member
      <3> QED BY <3>1, <3>2, <3>3, <3>4, Zenon DEF OneRow, Member
    <2>11. Bases'
      <3>1. \A d \in Clients : base'[d] <= Len(log)
        BY <2>3, <2>8 DEF Inv, Bases
      <3>2. Head(joining') = Head(server_q)
        BY <1>4
      <3> QED BY <1>0, <1>1, <1>4, <2>1, <2>2, <2>3, <3>1, <3>2 DEF Bases
    <2>12. AllSent'
      <3> SUFFICES ASSUME NEW k \in 1..(n + 1)
                   PROVE  got[client'[k]] + Len(queue[client'[k]]) = SentTo_(k)'
        BY <1>1, <2>2 DEF AllSent
      <3>1. CASE k = n + 1
        BY <1>4, <2>2, <2>8, <3>1 DEF SentTo_
      <3>2. CASE k \in 1..n
        <4>1. SentTo_(k)' = Due(client[k])
          <5>1. \A d : d = client'[k] => SentTo_(k)' = Due(d)'
            BY <1>4, <2>2, <2>4, <3>2 DEF SentTo_
          <5> QED BY <2>2, <2>7, <3>2, <5>1
        <4>2. got[client[k]] + Len(queue[client[k]]) = Due(client[k])
          BY <1>1, <3>2 DEF Inv, AllSent, SentTo_
        <4> QED BY <2>2, <3>2, <4>1, <4>2
      <3> QED BY <2>4, <3>1, <3>2
    <2>13. QueueOK'
      <3> SUFFICES ASSUME NEW d \in Clients
                   PROVE  /\ got[d] + Len(queue[d]) <= Due(d)'
                          /\ \A k \in 1..Len(queue[d]) : queue[d][k] = Nth(d, got[d] + k)'
        BY <1>1 DEF QueueOK
      <3>1. CASE d = c
        BY <2>8, <2>9, <3>1
      <3>2. CASE d # c
        <4>1. \A k \in 1..Len(queue[d]) : got[d] + k \in Nat
          BY Places DEF Inv
        <4> QED BY <1>1, <2>7, <3>2, <4>1 DEF Inv, QueueOK
      <3> QED BY <3>1, <3>2
    <2>14. LineOK'
      <3> SUFFICES ASSUME NEW d \in Clients
                   PROVE  /\ Len(line[d]) = Least(MAX_LINE, got[d])
                          /\ \A k \in 1..Len(line[d]) :
                                line[d][k] = Nth(d, got[d] - Len(line[d]) + k)'
        BY <1>1 DEF LineOK
      <3>1. Len(line[d]) = Least(MAX_LINE, got[d])
        BY DEF Inv, LineOK
      <3>2. CASE d = c
        BY <2>8, <3>1, <3>2
      <3>3. CASE d # c
        <4>1. \A k \in 1..Len(line[d]) : got[d] - Len(line[d]) + k \in Nat
          <5>1. Len(line[d]) \in Nat /\ got[d] \in Nat /\ MAX_LINE \in Nat
            BY Places, MqChatSizes DEF Inv
          <5>2. Len(line[d]) <= got[d]
            BY <3>1, <5>1 DEF Least
          <5> QED BY <5>1, <5>2
        <4> QED BY <1>1, <2>7, <3>1, <3>3, <4>1 DEF Inv, LineOK
      <3> QED BY <3>2, <3>3
    <2> QED BY <1>2, <2>10, <2>11, <2>12, <2>13, <2>14 DEF Inv
  <1> QED BY <1>0, <1>3, <1>4 DEF ReceiveJoin, srvVars

\* A view that stays, while more becomes due.
LEMMA ViewKept ==
    ASSUME Inv, UNCHANGED <<queue, got, line>>, NEW d \in Clients,
           Due(d)' \in Nat, Due(d) <= Due(d)', \A k \in 1..Due(d) : Nth(d, k)' = Nth(d, k)
    PROVE  /\ got'[d] + Len(queue'[d]) <= Due(d)'
           /\ \A k \in 1..Len(queue'[d]) : queue'[d][k] = Nth(d, got[d] + k)'
           /\ Len(line'[d]) = Least(MAX_LINE, got'[d])
           /\ \A k \in 1..Len(line'[d]) : line'[d][k] = Nth(d, got[d] - Len(line[d]) + k)'
  <1>1. /\ Due(d) \in Nat /\ got[d] \in Nat /\ Len(queue[d]) \in Nat /\ Len(line[d]) \in Nat
        /\ MAX_LINE \in Nat
    BY Places, MqChatSizes DEF Inv
  <1>2. /\ got[d] + Len(queue[d]) <= Due(d) /\ Len(line[d]) = Least(MAX_LINE, got[d])
        /\ \A k \in 1..Len(queue[d]) : queue[d][k] = Nth(d, got[d] + k)
        /\ \A k \in 1..Len(line[d]) : line[d][k] = Nth(d, got[d] - Len(line[d]) + k)
    BY DEF Inv, QueueOK, LineOK
  <1>3. Len(line[d]) <= got[d]
    BY <1>1, <1>2 DEF Least
  <1>4. got'[d] + Len(queue'[d]) <= Due(d)'
    BY <1>1, <1>2
  <1>5. ASSUME NEW k \in 1..Len(queue'[d]) PROVE queue'[d][k] = Nth(d, got[d] + k)'
    <2>1. PICK x : x = got[d] + k
      OBVIOUS
    <2>2. x \in 1..Due(d) /\ k \in 1..Len(queue[d])
      BY <1>1, <1>2, <2>1, SMTT(60)
    <2>3. Nth(d, x)' = Nth(d, x) /\ queue[d][k] = Nth(d, x)
      BY <1>2, <2>1, <2>2
    <2>4. x = got'[d] + k
      BY <2>1
    <2> QED BY <2>3, <2>4
  <1>6. ASSUME NEW k \in 1..Len(line'[d])
        PROVE  line'[d][k] = Nth(d, got[d] - Len(line[d]) + k)'
    <2>1. PICK x : x = got[d] - Len(line[d]) + k
      OBVIOUS
    <2>2. x \in 1..Due(d) /\ k \in 1..Len(line[d])
      BY <1>1, <1>2, <1>3, <2>1, SMTT(60)
    <2>3. Nth(d, x)' = Nth(d, x) /\ line[d][k] = Nth(d, x)
      BY <1>2, <2>1, <2>2
    <2>4. x = got'[d] - Len(line'[d]) + k
      BY <2>1
    <2> QED BY <2>3, <2>4
  <1> QED BY <1>2, <1>4, <1>5, <1>6

\* A message enters the log: it is due to every member, and sent to none.
LEMMA RecordInv ==
    ASSUME Inv, ITypeOK', OneRow', NEW kind, NEW who, NEW text, Record(kind, who, text),
           srv # "down", srv' = "send", i' = 0, UNCHANGED <<client, base, queue, got, line>>,
           \A k \in 1..Len(client) : SentTo_(k) = Due(client[k])
    PROVE  Inv'
  <1>1. /\ client \in Seq(Clients) /\ log \in Seq(Entry)
        /\ Len(log') = Len(log) + 1 /\ Len(log) \in Nat
    BY DEF Inv, ITypeOK, TypeOK, Record
  <1>2. \A k \in 1..Len(client) : client[k] \in Clients /\ Member(client[k])
    BY <1>1 DEF Member
  <1>3. HistoryPrefix'
    BY PrefixGrows DEF Inv
  <1>4. ASSUME NEW d \in Clients
        PROVE  /\ Due(d) \in Nat /\ Due(d)' = IF Member(d) THEN Due(d) + 1 ELSE Due(d)
               /\ \A k \in 1..Due(d) : Nth(d, k)' = Nth(d, k)
               /\ base[d] <= Len(log) /\ base[d] \in Nat
    BY Places, DueGrows DEF Inv
  <1>5. Bases'
    <2>1. \A d \in Clients : base'[d] < Len(log')
      BY <1>1, <1>4
    <2>2. \A d \in Clients : base'[d] <= Len(log')
      BY <1>1, <1>4
    <2> QED BY <2>1, <2>2, Zenon DEF Bases
  <1>6. QueueOK' /\ LineOK'
    <2>1. ASSUME NEW d \in Clients PROVE Due(d)' \in Nat /\ Due(d) <= Due(d)'
      <3>1. PICK x \in Nat : x = Due(d)
        BY <1>4
      <3>2. Due(d)' = x \/ Due(d)' = x + 1
        BY <1>4, <3>1
      <3> QED BY <3>1, <3>2
    <2> QED BY <1>4, <2>1, ViewKept DEF QueueOK, LineOK
  <1>7. AllSent'
    <2> SUFFICES ASSUME NEW k \in 1..Len(client)
                 PROVE  got[client[k]] + Len(queue[client[k]]) = SentTo_(k)'
      BY DEF AllSent
    <2>1. PICK d \in Clients : d = client[k] /\ Member(d) /\ d = client'[k]
      BY <1>2
    <2>2. SentTo_(k)' = Due(d)' - 1
      <3>1. k > 0
        BY <1>1
      <3> QED BY <2>1, <3>1 DEF SentTo_
    <2>3. Due(d)' - 1 = Due(d)
      <3>1. PICK x \in Nat : x = Due(d)
        BY <1>4
      <3>2. Due(d)' = x + 1
        BY <1>4, <2>1, <3>1
      <3> QED BY <3>1, <3>2
    <2>4. got[d] + Len(queue[d]) = Due(d)
      BY <2>1 DEF Inv, AllSent
    <2> QED BY <2>1, <2>2, <2>3, <2>4
  <1> QED BY <1>3, <1>5, <1>6, <1>7 DEF Inv

\* The newcomer has all of the history, the others have all of the log.
LEMMA JoinedInv == ASSUME Inv, Joined PROVE Inv'
  <1>1. /\ srv = "replay" /\ i = Len(history) /\ srv' = "send" /\ i' = 0
        /\ Record("join", Head(joining).name, 0)
        /\ UNCHANGED <<client, base, server_q, queue, app, got, line>>
    BY DEF Joined, userVars, viewVars
  <1>2. ITypeOK' /\ OneRow'
    BY <1>1, ServerType, NoRequest DEF Inv, ServerStep
  <1>3. ASSUME NEW k \in 1..Len(client) PROVE SentTo_(k) = Due(client[k])
    <2>1. CASE k # Len(client)
      BY <1>1, <2>1 DEF SentTo_
    <2>2. CASE k = Len(client)
      <3>1. client \in Seq(Clients)
        BY DEF Inv, ITypeOK, TypeOK
      <3>2. PICK d \in Clients : d = client[k] /\ Member(d)
        BY <3>1 DEF Member
      <3>3. base[d] = Len(log) /\ Len(log) \in Nat
        BY <1>1, <2>2, <3>1, <3>2 DEF Inv, Bases, ITypeOK, TypeOK
      <3>4. Cut(d) = Len(history) /\ Cut(d) \in Nat
        BY <3>3, Places DEF Inv, HistoryPrefix, Cut
      <3>5. Due(d) = Cut(d) + (Len(log) - base[d])
        BY <3>2, Places DEF Inv
      <3>6. Due(d) = i
        BY <1>1, <3>3, <3>4, <3>5
      <3> QED BY <1>1, <2>2, <3>2, <3>6 DEF SentTo_
    <2> QED BY <2>1, <2>2
  <1> QED BY <1>1, <1>2, <1>3, RecordInv

LEMMA ReceiveChatInv == ASSUME Inv, ReceiveChat PROVE Inv'
  <1>1. /\ srv = "recv" /\ srv' = "send" /\ i' = 0
        /\ server_q # <<>> /\ server_q' = Tail(server_q)
        /\ Record("chat", Head(server_q).name, Head(server_q).text)
        /\ UNCHANGED <<client, base, queue, app, got, line>>
    BY DEF ReceiveChat, userVars, viewVars
  <1>2. ITypeOK' /\ OneRow'
    BY <1>1, ServerType, RequestGone DEF Inv, ServerStep
  <1>3. \A k \in 1..Len(client) : SentTo_(k) = Due(client[k])
    BY <1>1 DEF SentTo_
  <1> QED BY <1>1, <1>2, <1>3, RecordInv

\* The broadcast has reached the end of the table; the server is stopped.
LEMMA BroadcastDoneInv == ASSUME Inv, BroadcastDone \/ ServerStop PROVE Inv'
  <1>1. /\ UNCHANGED <<client, history, log, base, i, server_q, queue, app, got, line>>
        /\ \/ srv = "send" /\ i = Len(client) /\ srv' = "recv"
           \/ srv' = "down"
    BY DEF BroadcastDone, ServerStop, pubVars, userVars, viewVars
  <1>2. ITypeOK' /\ OneRow' /\ QueueOK' /\ LineOK'
    BY <1>1, ServerType, NoRequest, ViewStays DEF Inv, ServerStep
  <1>3. HistoryPrefix' /\ Bases'
    BY <1>1 DEF Inv, HistoryPrefix, Bases, Member
  <1>4. AllSent'
    <2> SUFFICES ASSUME srv = "send", i = Len(client), srv' = "recv", NEW k \in 1..Len(client)
                 PROVE  got[client[k]] + Len(queue[client[k]]) = SentTo_(k)'
      BY <1>1 DEF AllSent
    <2>1. client \in Seq(Clients) /\ ~(k > i)
      BY DEF Inv, ITypeOK, TypeOK
    <2>2. PICK d \in Clients : d = client[k] /\ d = client'[k]
      BY <1>1, <2>1
    <2>3. SentTo_(k)' = Due(d)'
      BY <2>2 DEF SentTo_
    <2>4. Due(d)' = Due(d)
      BY <1>1, DueStays
    <2>5. got[d] + Len(queue[d]) = Due(d)
      BY <2>1, <2>2 DEF Inv, AllSent, SentTo_
    <2> QED BY <2>2, <2>3, <2>4, <2>5
  <1> QED BY <1>2, <1>3, <1>4 DEF Inv

\* The steps of a client that touch neither its queue nor its screen.
LEMMA UserInv ==
    ASSUME Inv, NEW c \in Clients,
           Start(c) \/ Join(c) \/ Type(c) \/ Say(c) \/ Quit(c) \/ Kill(c)
    PROVE  Inv'
  <1>1. UNCHANGED <<srv, joining, client, history, log, base, i, queue, got, line>>
    BY DEF Start, Join, Type, Say, Quit, Kill, srvVars, pubVars, viewVars
  <1>2. ITypeOK' /\ QueueOK' /\ LineOK' /\ AllSent'
    BY <1>1, ClientType, ViewStays, StillSent DEF Inv
  <1>3. HistoryPrefix' /\ Bases'
    BY <1>1 DEF Inv, HistoryPrefix, Bases, Member
  <1>4. OneRow'
    <2>1. app \in [Clients -> {"off", "open", "on", "gone", "dead"}]
      BY DEF Inv, ITypeOK, TypeOK
    <2>2. CASE Start(c) \/ Type(c) \/ Quit(c) \/ Kill(c)
      <3>1. UNCHANGED <<server_q, client>>
        BY <1>1, <2>2 DEF Start, Type, Quit, Kill
      <3>2. \A d \in Clients : app[d] \notin {"off", "open"} => app'[d] \notin {"off", "open"}
        BY <2>1, <2>2 DEF Start, Type, Quit, Kill
      <3> QED BY <3>1, <3>2, NoRequest
    <2>3. CASE Join(c)
      <3>1. [type |-> "join", name |-> c, text |-> 0] \in Item
        BY DEF Item
      <3>2. /\ app[c] = "open" /\ app'[c] = "on"
            /\ \A d \in Clients : app'[d] = app[d] \/ app'[d] \notin {"off", "open"}
        BY <2>1, <2>3 DEF Join
      <3>3. Request([type |-> "join", name |-> c, text |-> 0])
        BY <2>3 DEF Join
      <3> QED BY <1>1, <3>1, <3>2, <3>3, NewRequest
    <2>4. CASE Say(c) /\ draft[c] = "fits"
      <3>1. [type |-> "chat", name |-> c, text |-> typed[c]] \in Item
        BY <2>4 DEF Item, Say, Inv, ITypeOK
      <3>2. Request([type |-> "chat", name |-> c, text |-> typed[c]]) /\ app' = app
        BY <2>4 DEF Say
      <3> QED BY <1>1, <3>1, <3>2, NewRequest
    <2>5. CASE Say(c) /\ draft[c] # "fits"
      <3>1. UNCHANGED <<server_q, client, app>>
        BY <1>1, <2>5 DEF Say
      <3> QED BY <3>1, NoRequest
    <2> QED BY <2>2, <2>3, <2>4, <2>5
  <1> QED BY <1>2, <1>3, <1>4 DEF Inv

\* What a client takes from its queue is the next message, and goes to the end of
\* its screen.
LEMMA ReceiveInv == ASSUME Inv, NEW c \in Clients, Receive(c) PROVE Inv'
  <1> DEFINE q == queue[c]
             l == line[c]
             old == IF Len(l) < MAX_LINE THEN l ELSE Tail(l)
  <1>1. /\ q # <<>> /\ queue' = [queue EXCEPT ![c] = Tail(q)]
        /\ line' = [line EXCEPT ![c] = Append(old, Head(q))]
        /\ got' = [got EXCEPT ![c] = @ + 1]
        /\ UNCHANGED <<srv, joining, client, history, log, base, i, server_q, app>>
    BY DEF Receive, add_line, srvVars, pubVars, userVars
  <1>2. /\ queue \in [Clients -> Seq(Entry)] /\ line \in [Clients -> Seq(Entry)]
        /\ got \in [Clients -> Nat] /\ MAX_LINE \in Nat /\ MAX_LINE > 0
        /\ q \in Seq(Entry) /\ l \in Seq(Entry) /\ got[c] \in Nat
    <2>1. /\ queue \in [Clients -> Seq(Entry)] /\ line \in [Clients -> Seq(Entry)]
          /\ got \in [Clients -> Nat]
      BY DEF Inv, ITypeOK, TypeOK
    <2> QED BY <2>1, MqChatSizes
  <1>3. /\ Head(q) \in Entry /\ Tail(q) \in Seq(Entry) /\ Len(q) \in Nat /\ Len(q) > 0
        /\ Len(Tail(q)) = Len(q) - 1 /\ Head(q) = q[1]
        /\ \A k \in 1..(Len(q) - 1) : Tail(q)[k] = q[k + 1]
    BY <1>1, <1>2, QueueTake
  <1>4. /\ got[c] + Len(q) <= Due(c) /\ \A k \in 1..Len(q) : q[k] = Nth(c, got[c] + k)
        /\ Len(l) = Least(MAX_LINE, got[c]) /\ Len(l) \in Nat /\ Len(l) <= got[c]
        /\ \A k \in 1..Len(l) : l[k] = Nth(c, got[c] - Len(l) + k)
    <2>1. /\ got[c] + Len(q) <= Due(c) /\ \A k \in 1..Len(q) : q[k] = Nth(c, got[c] + k)
          /\ Len(l) = Least(MAX_LINE, got[c])
          /\ \A k \in 1..Len(l) : l[k] = Nth(c, got[c] - Len(l) + k)
      BY DEF Inv, QueueOK, LineOK
    <2>2. Len(l) \in Nat
      BY <1>2
    <2> QED BY <1>2, <2>1, <2>2 DEF Least
  <1>5. /\ queue'[c] = Tail(q) /\ line'[c] = Append(old, Head(q)) /\ got'[c] = got[c] + 1
        /\ \A d \in Clients : d # c =>
              queue'[d] = queue[d] /\ line'[d] = line[d] /\ got'[d] = got[d]
    BY <1>1, <1>2
  <1>6. /\ Len(Append(old, Head(q))) = Least(MAX_LINE, got[c] + 1)
        /\ \A k \in 1..Len(Append(old, Head(q))) :
              Append(old, Head(q))[k] = Nth(c, (got[c] + 1) - Len(Append(old, Head(q))) + k)
    <2>0. Head(q) = Nth(c, got[c] + 1)
      BY <1>3, <1>4
    <2>1. CASE Len(l) < MAX_LINE
      <3>1. old = l /\ Len(l) = got[c]
        BY <1>2, <1>4, <2>1 DEF Least
      <3> HIDE DEF old, l, q
      <3>2. /\ Len(Append(old, Head(q))) = Len(l) + 1
            /\ \A k \in 1..Len(l) : Append(old, Head(q))[k] = l[k]
            /\ Append(old, Head(q))[Len(l) + 1] = Head(q)
        BY <1>2, <1>3, <3>1
      <3>3. Len(l) + 1 = Least(MAX_LINE, got[c] + 1)
        BY <1>2, <1>4, <2>1, <3>1 DEF Least
      <3>4. ASSUME NEW k \in 1..(Len(l) + 1)
            PROVE  Append(old, Head(q))[k] = Nth(c, (got[c] + 1) - (Len(l) + 1) + k)
        <4>1. CASE k = Len(l) + 1
          <5>1. (got[c] + 1) - (Len(l) + 1) + k = got[c] + 1
            BY <1>2, <1>4, <3>1, <4>1
          <5> QED BY <2>0, <3>2, <4>1, <5>1
        <4>2. CASE k # Len(l) + 1
          <5>1. k \in 1..Len(l)
            BY <1>4, <4>2
          <5>2. (got[c] + 1) - (Len(l) + 1) + k = got[c] - Len(l) + k
            BY <1>2, <1>4, <5>1
          <5> QED BY <1>4, <3>2, <5>1, <5>2
        <4> QED BY <4>1, <4>2
      <3> QED BY <3>2, <3>3, <3>4
    <2>2. CASE ~(Len(l) < MAX_LINE)
      <3>1. old = Tail(l) /\ Len(l) = MAX_LINE /\ got[c] >= MAX_LINE /\ l # <<>>
        BY <1>2, <1>4, <2>2 DEF Least
      <3>2. /\ Tail(l) \in Seq(Entry) /\ Len(Tail(l)) = MAX_LINE - 1
            /\ \A k \in 1..(MAX_LINE - 1) : Tail(l)[k] = l[k + 1]
        BY <1>2, <3>1, QueueTake
      <3> HIDE DEF old, l, q
      <3>3. /\ Len(Append(old, Head(q))) = MAX_LINE
            /\ \A k \in 1..(MAX_LINE - 1) : Append(old, Head(q))[k] = l[k + 1]
            /\ Append(old, Head(q))[MAX_LINE] = Head(q)
        BY <1>2, <1>3, <3>1, <3>2
      <3>4. MAX_LINE = Least(MAX_LINE, got[c] + 1)
        BY <1>2, <3>1 DEF Least
      <3>5. ASSUME NEW k \in 1..MAX_LINE
            PROVE  Append(old, Head(q))[k] = Nth(c, (got[c] + 1) - MAX_LINE + k)
        <4>1. CASE k = MAX_LINE
          <5>1. (got[c] + 1) - MAX_LINE + k = got[c] + 1
            BY <1>2, <4>1
          <5> QED BY <2>0, <3>3, <4>1, <5>1
        <4>2. CASE k # MAX_LINE
          <5>1. k \in 1..(MAX_LINE - 1) /\ k + 1 \in 1..MAX_LINE
            BY <1>2, <4>2
          <5>2. (got[c] + 1) - MAX_LINE + k = got[c] - Len(l) + (k + 1)
            BY <1>2, <3>1, <5>1
          <5> QED BY <1>4, <3>1, <3>3, <5>1, <5>2
        <4> QED BY <4>1, <4>2
      <3> QED BY <3>3, <3>4, <3>5
    <2> QED BY <2>1, <2>2
  <1>7. ASSUME NEW k \in 1..Len(Tail(q)) PROVE Tail(q)[k] = Nth(c, got[c] + 1 + k)
    <2>1. k \in 1..(Len(q) - 1) /\ k + 1 \in 1..Len(q) /\ got[c] + (k + 1) = got[c] + 1 + k
      BY <1>2, <1>3
    <2> QED BY <1>3, <1>4, <2>1
  <1>8. got[c] + 1 + Len(Tail(q)) = got[c] + Len(q)
    BY <1>2, <1>3
  <1> HIDE DEF q, l, old
  <1>9. ASSUME NEW d \in Clients
        PROVE  /\ got'[d] + Len(queue'[d]) = got[d] + Len(queue[d])
               /\ got'[d] + Len(queue'[d]) <= Due(d)
               /\ \A k \in 1..Len(queue'[d]) : queue'[d][k] = Nth(d, got'[d] + k)
               /\ Len(line'[d]) = Least(MAX_LINE, got'[d])
               /\ \A k \in 1..Len(line'[d]) : line'[d][k] = Nth(d, got'[d] - Len(line'[d]) + k)
    <2>1. CASE d = c
      <3>1. /\ got'[c] + Len(queue'[c]) = got[c] + Len(queue[c])
            /\ got[c] + Len(queue[c]) <= Due(c)
        BY <1>4, <1>5, <1>8 DEF q
      <3>2. \A k \in 1..Len(queue'[c]) : queue'[c][k] = Nth(c, got'[c] + k)
        BY <1>5, <1>7
      <3>3. /\ Len(line'[c]) = Least(MAX_LINE, got'[c])
            /\ \A k \in 1..Len(line'[c]) :
                  line'[c][k] = Nth(c, got'[c] - Len(line'[c]) + k)
        BY <1>5, <1>6
      <3> QED BY <2>1, <3>1, <3>2, <3>3
    <2>2. CASE d # c
      BY <1>5, <2>2 DEF Inv, QueueOK, LineOK
    <2> QED BY <2>1, <2>2
  <1>10. ITypeOK' /\ OneRow'
    BY <1>1, ClientType, NoRequest DEF Inv
  <1>11. \A d \in Clients : Due(d)' = Due(d)
    BY <1>1, DueStays
  <1>12. QueueOK' /\ LineOK'
    <2>1. Cut(c)' = Cut(c)
      BY <1>1 DEF Cut
    <2>2. QueueOK'
      BY <1>1, <1>9, <1>11 DEF QueueOK, Nth, Cut
    <2>3. LineOK'
      BY <1>1, <1>9 DEF LineOK, Nth, Cut
    <2> QED BY <2>2, <2>3
  <1>13. AllSent'
    <2> SUFFICES ASSUME srv # "down", NEW k \in 1..Len(client)
                 PROVE  got'[client[k]] + Len(queue'[client[k]]) = SentTo_(k)'
      BY <1>1 DEF AllSent
    <2>1. client[k] \in Clients
      BY DEF Inv, ITypeOK, TypeOK
    <2>2. SentTo_(k)' = SentTo_(k)
      BY <1>1, <2>1 DEF SentTo_, Due, Member, Cut
    <2> QED BY <1>9, <2>1, <2>2 DEF Inv, AllSent
  <1>14. HistoryPrefix' /\ Bases'
    BY <1>1 DEF Inv, HistoryPrefix, Bases, Member
  <1> QED BY <1>10, <1>12, <1>13, <1>14 DEF Inv

LEMMA StepInv == Inv /\ [Next]_vars => Inv'
  <1> SUFFICES ASSUME Inv, [Next]_vars PROVE Inv'
    OBVIOUS
  <1>1. CASE UNCHANGED vars
    <2>1. UNCHANGED <<srv, joining, client, history, log, base, i, server_q, queue, app, got, line>>
      BY <1>1 DEF vars, srvVars, pubVars, userVars, viewVars
    <2>2. ITypeOK' /\ OneRow'
      BY <1>1, <2>1, NextType, NoRequest DEF Inv
    <2>3. QueueOK' /\ LineOK' /\ AllSent'
      BY <2>1, ViewStays, StillSent
    <2>4. HistoryPrefix' /\ Bases'
      BY <2>1 DEF Inv, HistoryPrefix, Bases, Member
    <2> QED BY <2>2, <2>3, <2>4 DEF Inv
  <1>2. CASE Next
    BY <1>2, ReceiveJoinInv, ReplayInv, JoinedInv, ReceiveChatInv, BroadcastInv,
       BroadcastDoneInv, UserInv, ReceiveInv DEF Next, ServerStep
  <1> QED BY <1>1, <1>2

----------------------------------------------------------------------------
(* The invariant says of single messages what ScreenFaithful says of        *)
(* sequences.                                                               *)

LEMMA ExpectedShape ==
    ASSUME Inv, NEW c \in Clients
    PROVE  /\ Expected(c) \in Seq(Entry) /\ Len(Expected(c)) = Due(c)
           /\ \A k \in 1..Due(c) : Expected(c)[k] = Nth(c, k)
  <1> DEFINE s == SubSeq(log, 1, Cut(c))
             t == SubSeq(log, base[c] + 1, Len(log))
  <1>1. /\ log \in Seq(Entry) /\ Len(log) \in Nat /\ base[c] \in Nat /\ Cut(c) \in Nat
        /\ Cut(c) <= base[c] /\ base[c] <= Len(log)
    BY Places DEF Inv, ITypeOK, TypeOK
  <1>2. /\ s \in Seq(Entry) /\ Len(s) = Cut(c) /\ \A k \in 1..Cut(c) : s[k] = log[k]
    <2>1. PICK u \in Nat : u = Cut(c)
      BY <1>1
    <2>2. \A k \in 1..u : k \in 1..Len(log)
      BY <1>1, <2>1
    <2>3. \A k \in 1..u : log[k] \in Entry
      BY <1>1, <2>2
    <2> QED BY <1>1, <2>1, <2>3, SubSeqProperties
  <1>3. /\ t \in Seq(Entry) /\ Len(t) = Len(log) - base[c]
        /\ \A k \in 1..(Len(log) - base[c]) : t[k] = log[base[c] + k]
    <2>1. \A k \in (base[c] + 1)..Len(log) : log[k] \in Entry
      BY <1>1
    <2> QED BY <1>1, <2>1, SubSeqProperties
  <1> HIDE DEF s, t
  <1>4. CASE ~Member(c)
    BY <1>4 DEF Expected, Due
  <1>5. CASE Member(c)
    <2>1. Expected(c) = s \o t /\ Due(c) = Cut(c) + (Len(log) - base[c])
      BY <1>5, Zenon DEF Expected, Due, Cut, s, t
    <2>2. s \o t \in Seq(Entry) /\ Len(s \o t) = Len(s) + Len(t)
      BY <1>2, <1>3, ConcatProperties
    <2>3. PICK u \in Nat, b \in Nat, n \in Nat :
             u = Cut(c) /\ b = base[c] /\ n = Len(log) /\ u <= b /\ b <= n
      BY <1>1
    <2>4. ASSUME NEW k \in 1..(u + (n - b)) PROVE (s \o t)[k] = Nth(c, k)
      <3>1. CASE k <= u
        <4>1. (s \o t)[k] = s[k] /\ k \in 1..u
          BY <1>2, <1>3, <2>3, <3>1
        <4> QED BY <1>2, <2>3, <3>1, <4>1 DEF Nth
      <3>2. CASE ~(k <= u)
        <4>1. k - u \in 1..(n - b) /\ b + (k - u) = k - u + b
          BY <2>3, <3>2
        <4>2. (s \o t)[k] = t[k - u]
          <5>1. k \in 1..(Len(s) + Len(t)) /\ ~(k <= Len(s)) /\ k - Len(s) = k - u
            BY <1>2, <1>3, <2>3, <3>2
          <5>2. (s \o t)[k] = IF k <= Len(s) THEN s[k] ELSE t[k - Len(s)]
            BY <1>2, <1>3, <5>1, ConcatProperties
          <5> QED BY <5>1, <5>2
        <4> QED BY <1>3, <2>3, <3>2, <4>1, <4>2 DEF Nth
      <3> QED BY <3>1, <3>2
    <2> QED BY <1>2, <1>3, <2>1, <2>2, <2>3, <2>4
  <1> QED BY <1>4, <1>5

\* Two ways to cut a piece from what is expected.
LEMMA Piece ==
    ASSUME Inv, NEW c \in Clients, NEW z \in Seq(Entry), NEW m \in Nat,
           m + Len(z) <= Due(c), \A k \in 1..Len(z) : z[k] = Nth(c, m + k)
    PROVE  z = SubSeq(Expected(c), m + 1, m + Len(z))
  <1>1. PICK x \in Seq(Entry), d \in Nat, n \in Nat :
           x = Expected(c) /\ d = Due(c) /\ n = Len(z) /\ Len(x) = d
    BY ExpectedShape
  <1>2. \A k \in 1..d : x[k] = Nth(c, k)
    BY <1>1, ExpectedShape
  <1>3. \A k \in (m + 1)..(m + n) : k \in 1..d /\ x[k] \in Entry
    BY <1>1
  <1>4. /\ SubSeq(x, m + 1, m + n) \in Seq(Entry)
        /\ Len(SubSeq(x, m + 1, m + n)) = n
        /\ \A k \in 1..n : SubSeq(x, m + 1, m + n)[k] = x[m + k]
    <2>1. Len(SubSeq(x, m + 1, m + n)) = n
      BY <1>1, <1>3
    <2> QED BY <1>1, <1>3, <2>1
  <1>5. \A k \in 1..n : m + k \in 1..d
    BY <1>1
  <1>6. \A k \in 1..n : SubSeq(x, m + 1, m + n)[k] = z[k]
    BY <1>1, <1>2, <1>4, <1>5
  <1> QED BY <1>1, <1>4, <1>6, SeqEqual

LEMMA FaithfulNow == Inv => ScreenFaithful
  <1> SUFFICES ASSUME Inv, NEW c \in Clients
               PROVE  /\ queue[c] = SubSeq(Expected(c), got[c] + 1, got[c] + Len(queue[c]))
                      /\ line[c] = SubSeq(Expected(c), got[c] - Least(MAX_LINE, got[c]) + 1, got[c])
                      /\ srv # "down" /\ Member(c) => got[c] + Len(queue[c]) = SentTo(c)
    BY DEF ScreenFaithful
  <1>1. /\ queue[c] \in Seq(Entry) /\ line[c] \in Seq(Entry) /\ got[c] \in Nat
        /\ Len(queue[c]) \in Nat /\ Len(line[c]) \in Nat /\ Due(c) \in Nat
    BY Places DEF Inv
  <1>2. /\ got[c] + Len(queue[c]) <= Due(c)
        /\ \A k \in 1..Len(queue[c]) : queue[c][k] = Nth(c, got[c] + k)
        /\ Len(line[c]) = Least(MAX_LINE, got[c])
        /\ \A k \in 1..Len(line[c]) : line[c][k] = Nth(c, got[c] - Len(line[c]) + k)
    BY DEF Inv, QueueOK, LineOK
  <1>3. queue[c] = SubSeq(Expected(c), got[c] + 1, got[c] + Len(queue[c]))
    BY <1>1, <1>2, Piece
  <1>4. line[c] = SubSeq(Expected(c), got[c] - Least(MAX_LINE, got[c]) + 1, got[c])
    <2>1. PICK m \in Nat : m = got[c] - Len(line[c]) /\ m + Len(line[c]) = got[c]
                            /\ m + Len(line[c]) <= Due(c)
      <3>1. MAX_LINE \in Nat
        BY MqChatSizes
      <3>2. Len(line[c]) <= got[c] /\ got[c] <= Due(c)
        BY <1>1, <1>2, <3>1 DEF Least
      <3>3. got[c] - Len(line[c]) \in Nat
        BY <1>1, <3>2
      <3> QED BY <1>1, <3>2, <3>3
    <2>2. line[c] = SubSeq(Expected(c), m + 1, m + Len(line[c]))
      BY <1>1, <1>2, <2>1, Piece
    <2> QED BY <1>2, <2>1, <2>2
  <1>5. ASSUME srv # "down", Member(c) PROVE got[c] + Len(queue[c]) = SentTo(c)
    <2> DEFINE row == CHOOSE k \in DOMAIN client : client[k] = c
    <2>1. row \in 1..Len(client) /\ client[row] = c
      <3>1. client \in Seq(Clients)
        BY DEF Inv, ITypeOK, TypeOK
      <3> QED BY <1>5, <3>1 DEF Member
    <2>2. got[c] + Len(queue[c]) = SentTo_(row)
      BY <1>5, <2>1 DEF Inv, AllSent
    <2>3. Len(Expected(c)) = Due(c)
      BY ExpectedShape
    <2> HIDE DEF row
    <2>4. SentTo_(row) = IF srv = "replay" /\ row = Len(client) THEN i
                         ELSE IF srv = "send" /\ row > i THEN Due(c) - 1 ELSE Due(c)
      BY <2>1 DEF SentTo_
    <2>5. SentTo(c) = CASE srv = "replay" /\ row = Len(client) -> i
                        [] srv = "send" /\ row > i -> Len(Expected(c)) - 1
                        [] OTHER -> Len(Expected(c))
      BY Zenon DEF SentTo, row
    <2>6. SentTo_(row) = SentTo(c)
      BY <2>3, <2>4, <2>5
    <2> QED BY <2>2, <2>6
  <1> QED BY <1>3, <1>4, <1>5

\* Every client sees, in order and once each, what it is due: the first
\* MAX_HISTORY messages from before it was added and all from after it, cut off
\* nowhere but at what it has not read and what has scrolled away.
THEOREM ScreensAreFaithful == Spec => []ScreenFaithful
  BY InitInv, StepInv, FaithfulNow, PTL DEF Spec

----------------------------------------------------------------------------
(* The service of ChatService: the requests that wait, the JOIN in hand     *)
(* first, and on each screen the messages that were read.                   *)

Waiting == joining \o server_q
Shown(c) == SubSeq(Expected(c), 1, got[c] - Len(line[c])) \o line[c]

\* The server has a request in hand only while it replays the history.
InHand ==
    /\ srv \in {"recv", "send"} => joining = <<>>
    /\ srv = "replay" => Head(joining).type = "join"

ServiceInv == Inv /\ InHand

ShownAll == \A c \in Clients :
    /\ Shown(c) \in Seq(Entry) /\ Len(Shown(c)) = got[c]
    /\ \A k \in 1..got[c] : Shown(c)[k] = Nth(c, k)

LEMMA ShownShape == Inv => ShownAll
  <1> SUFFICES ASSUME Inv, NEW c \in Clients
               PROVE  /\ Shown(c) \in Seq(Entry) /\ Len(Shown(c)) = got[c]
                      /\ \A k \in 1..got[c] : Shown(c)[k] = Nth(c, k)
    BY DEF ShownAll
  <1>1. /\ line[c] \in Seq(Entry) /\ got[c] \in Nat /\ Len(line[c]) \in Nat /\ Due(c) \in Nat
        /\ Len(queue[c]) \in Nat
    BY Places DEF Inv
  <1>2. /\ got[c] + Len(queue[c]) <= Due(c) /\ Len(line[c]) = Least(MAX_LINE, got[c])
        /\ \A k \in 1..Len(line[c]) : line[c][k] = Nth(c, got[c] - Len(line[c]) + k)
    BY DEF Inv, QueueOK, LineOK
  <1>3. PICK x \in Seq(Entry), d \in Nat, m \in Nat, g \in Nat, l \in Seq(Entry) :
           /\ x = Expected(c) /\ d = Due(c) /\ l = line[c] /\ g = got[c]
           /\ m = got[c] - Len(line[c]) /\ Len(x) = d /\ m <= d /\ m + Len(l) = g
    <2>1. Expected(c) \in Seq(Entry) /\ Len(Expected(c)) = Due(c)
      BY ExpectedShape
    <2>2. Len(line[c]) <= got[c] /\ got[c] <= Due(c)
      BY <1>1, <1>2, MqChatSizes DEF Least
    <2>3. /\ got[c] - Len(line[c]) \in Nat /\ got[c] - Len(line[c]) <= Due(c)
          /\ (got[c] - Len(line[c])) + Len(line[c]) = got[c]
      <3>1. \A a, b, d \in Nat : b <= a /\ a <= d => a - b \in Nat /\ a - b <= d /\ (a - b) + b = a
        OBVIOUS
      <3> QED BY <1>1, <2>2, <3>1
    <2> QED BY <1>1, <2>1, <2>3
  <1>4. \A k \in 1..d : x[k] = Nth(c, k)
    BY <1>3, ExpectedShape
  <1>5. /\ SubSeq(x, 1, m) \in Seq(Entry) /\ Len(SubSeq(x, 1, m)) = m
        /\ \A k \in 1..m : SubSeq(x, 1, m)[k] = x[k]
    <2>1. \A k \in 1..m : k \in 1..Len(x) /\ x[k] \in Entry
      BY <1>3
    <2> QED BY <2>1, SubSeqProperties
  <1>6. PICK y \in Seq(Entry) : y = SubSeq(x, 1, m)
    BY <1>5
  <1>7. /\ y \o l \in Seq(Entry) /\ Len(y \o l) = g
        /\ \A k \in 1..g : (y \o l)[k] = IF k <= m THEN y[k] ELSE l[k - m]
    <2>1. Len(y) = m /\ Len(l) \in Nat /\ Len(y) + Len(l) = g
      BY <1>3, <1>5, <1>6
    <2>2. /\ y \o l \in Seq(Entry) /\ Len(y \o l) = Len(y) + Len(l)
          /\ \A k \in 1..(Len(y) + Len(l)) :
                (y \o l)[k] = IF k <= Len(y) THEN y[k] ELSE l[k - Len(y)]
      BY ConcatProperties
    <2> QED BY <2>1, <2>2
  <1>8. ASSUME NEW k \in 1..g PROVE (y \o l)[k] = Nth(c, k)
    <2>1. CASE k <= m
      <3>1. k \in 1..m /\ k \in 1..d
        BY <1>3, <2>1
      <3> QED BY <1>4, <1>5, <1>6, <1>7, <2>1, <3>1
    <2>2. CASE ~(k <= m)
      <3>1. k - m \in 1..Len(l) /\ m + (k - m) = k
        <4>1. Len(l) \in Nat /\ m + Len(l) = g
          BY <1>3
        <4> QED BY <2>2, <4>1
      <3>2. l[k - m] = Nth(c, k)
        BY <1>2, <1>3, <3>1
      <3> QED BY <1>7, <2>2, <3>2
    <2> QED BY <2>1, <2>2
  <1>9. Shown(c) = y \o l
    BY <1>3, <1>6 DEF Shown
  <1> QED BY <1>3, <1>7, <1>8, <1>9

LEMMA ShownNext == Inv' => ShownAll'
  BY ShownShape, PTL

\* The message that is read comes to the end of what was shown; else it stays.
LEMMA ShownStays ==
    ASSUME Inv, Inv', NEW c \in Clients, got'[c] = got[c],
           \A k \in 1..Due(c) : Nth(c, k)' = Nth(c, k)
    PROVE  Shown(c)' = Shown(c)
  <1>1. /\ got[c] \in Nat /\ Due(c) \in Nat /\ got[c] <= Due(c)
    <2>1. got[c] + Len(queue[c]) <= Due(c)
      BY DEF Inv, QueueOK
    <2>2. got[c] \in Nat /\ Len(queue[c]) \in Nat /\ Due(c) \in Nat
      BY Places DEF Inv
    <2> QED BY <2>1, <2>2
  <1>2. /\ Shown(c) \in Seq(Entry) /\ Len(Shown(c)) = got[c]
        /\ \A k \in 1..got[c] : Shown(c)[k] = Nth(c, k)
    BY ShownShape DEF ShownAll
  <1>3. /\ Shown(c)' \in Seq(Entry) /\ Len(Shown(c)') = got'[c]
        /\ \A k \in 1..got'[c] : Shown(c)'[k] = Nth(c, k)'
    BY ShownNext DEF ShownAll
  <1>4. \A k \in 1..got[c] : k \in 1..Due(c)
    BY <1>1
  <1>5. \A k \in 1..got[c] : Shown(c)'[k] = Shown(c)[k]
    BY <1>2, <1>3, <1>4
  <1> QED BY <1>2, <1>3, <1>5, SeqEqual

LEMMA ShownGrows ==
    ASSUME Inv, Inv', NEW c \in Clients, Receive(c), base[c] <= MAX_HISTORY
    PROVE  /\ Len(Shown(c)) < Len(log)
           /\ Shown(c)' = Append(Shown(c), log[Len(Shown(c)) + 1])
  <1>1. /\ got'[c] = got[c] + 1 /\ queue[c] # <<>> /\ UNCHANGED <<client, log, base>>
    <2>1. got \in [Clients -> Nat]
      BY DEF Inv, ITypeOK, TypeOK
    <2> QED BY <2>1 DEF Receive, srvVars, pubVars
  <1>2. PICK g \in Nat, d \in Nat, n \in Nat, b \in Nat :
           /\ g = got[c] /\ d = Due(c) /\ n = Len(log) /\ b = base[c] /\ b <= n
           /\ Cut(c) = b /\ g + 1 <= d
    <2>1. got[c] + Len(queue[c]) <= Due(c)
      BY DEF Inv, QueueOK
    <2>2. /\ got[c] \in Nat /\ Len(queue[c]) \in Nat /\ Due(c) \in Nat /\ Len(log) \in Nat
          /\ base[c] \in Nat /\ base[c] <= Len(log) /\ queue[c] \in Seq(Entry)
          /\ MAX_HISTORY \in Nat
      BY Places DEF Inv
    <2>3. Len(queue[c]) >= 1
      BY <1>1, <2>2
    <2>4. got[c] + 1 <= Due(c)
      BY <2>1, <2>2, <2>3
    <2>5. Cut(c) = base[c]
      BY <2>2 DEF Cut, Least
    <2> QED BY <2>2, <2>4, <2>5
  <1>3. d <= n
    <2>1. Member(c) => d = b + (n - b)
      BY <1>2, Places DEF Inv
    <2>2. ~Member(c) => d = 0
      BY <1>2 DEF Due
    <2> QED BY <1>2, <2>1, <2>2
  <1>4. \A k \in 1..d : Nth(c, k) = log[k]
    <2> SUFFICES ASSUME NEW k \in 1..d PROVE Nth(c, k) = log[k]
      OBVIOUS
    <2>1. k - b + b = k
      BY <1>2
    <2> QED BY <1>2, <2>1 DEF Nth
  <1>5. \A k \in 1..(g + 1) : k \in 1..d /\ k \in 1..n
    BY <1>2, <1>3
  <1>6. /\ Shown(c) \in Seq(Entry) /\ Len(Shown(c)) = g
        /\ \A k \in 1..g : Shown(c)[k] = Nth(c, k)
    BY <1>2, ShownShape DEF ShownAll
  <1>7. /\ Shown(c)' \in Seq(Entry) /\ Len(Shown(c)') = g + 1
        /\ \A k \in 1..(g + 1) : Shown(c)'[k] = Nth(c, k)'
    BY <1>1, <1>2, ShownNext DEF ShownAll
  <1>8. \A k \in 1..(g + 1) : Shown(c)'[k] = log[k]
    <2>1. \A k \in Nat : Nth(c, k)' = Nth(c, k)
      BY <1>1, DueStays
    <2>2. \A k \in 1..(g + 1) : k \in Nat
      OBVIOUS
    <2> QED BY <1>4, <1>5, <1>7, <2>1, <2>2
  <1>9. log[g + 1] \in Entry
    <2>1. log \in Seq(Entry)
      BY DEF Inv, ITypeOK, TypeOK
    <2>2. g + 1 \in 1..(g + 1)
      BY <1>2
    <2>3. g + 1 \in 1..n
      BY <1>5, <2>2
    <2> QED BY <1>2, <2>1, <2>3
  <1>10. PICK y \in Seq(Entry) : y = Shown(c) /\ Len(y) = g
    BY <1>6
  <1>11. /\ Append(y, log[g + 1]) \in Seq(Entry) /\ Len(Append(y, log[g + 1])) = g + 1
         /\ \A k \in 1..(g + 1) : Append(y, log[g + 1])[k] = log[k]
    <2>1. \A k \in 1..g : y[k] = log[k]
      <3>1. \A k \in 1..g : k \in 1..d
        BY <1>2
      <3> QED BY <1>4, <1>6, <1>10, <3>1
    <2>2. /\ Append(y, log[g + 1]) \in Seq(Entry) /\ Len(Append(y, log[g + 1])) = g + 1
          /\ Append(y, log[g + 1])[g + 1] = log[g + 1]
          /\ \A k \in 1..g : Append(y, log[g + 1])[k] = y[k]
      BY <1>9, <1>10, AppendProperties
    <2>3. \A k \in 1..(g + 1) : k \in 1..g \/ k = g + 1
      BY <1>2
    <2> QED BY <2>1, <2>2, <2>3
  <1>12. Shown(c)' = Append(y, log[g + 1])
    BY <1>7, <1>8, <1>11, SeqEqual
  <1>13. Len(Shown(c)) < Len(log)
    BY <1>2, <1>3, <1>6
  <1> QED BY <1>10, <1>12, <1>13

LEMMA InHandStep == ASSUME ServiceInv, [Next]_vars PROVE InHand'
  <1> USE DEF ServiceInv, InHand
  <1>1. CASE ReceiveJoin
    <2>1. Head(<<Head(server_q)>>) = Head(server_q)
      OBVIOUS
    <2> QED BY <1>1, <2>1 DEF ReceiveJoin, srvVars
  <1>2. CASE Replay \/ Joined \/ ReceiveChat \/ Broadcast \/ BroadcastDone \/ ServerStop
    BY <1>2 DEF Replay, Joined, ReceiveChat, Broadcast, BroadcastDone, ServerStop
  <1>3. ASSUME NEW c \in Clients,
               Start(c) \/ Join(c) \/ Type(c) \/ Say(c) \/ Receive(c) \/ Quit(c) \/ Kill(c)
        PROVE  InHand'
    BY <1>3 DEF Start, Join, Type, Say, Receive, Quit, Kill, srvVars
  <1>4. CASE UNCHANGED vars
    BY <1>4 DEF vars, srvVars
  <1> QED BY <1>1, <1>2, <1>3, <1>4 DEF Next, ServerStep

LEMMA ServiceInvStep == ServiceInv /\ [Next]_vars => ServiceInv'
  BY StepInv, InHandStep DEF ServiceInv

\* The state of the service in these terms.
LEMMA MappedState ==
    /\ Service!ServiceInit <=> (/\ Waiting = <<>> /\ log = <<>>
                                /\ [c \in Clients |-> Shown(c)] = [c \in Clients |-> <<>>])
    /\ Service!serviceVars = <<Waiting, log, [c \in Clients |-> Shown(c)]>>
  BY DEF Service!ServiceInit, Service!serviceVars, Waiting, Shown

\* Every step of the chat is one of the service, or none, or shows a message to a
\* client that came too late for all of the history.
LEMMA ServiceStep ==
    ASSUME ServiceInv, ServiceInv', [Next]_vars
    PROVE  [Service!ServiceNext \/ \E c \in Clients : TooLate(c)]_(Service!serviceVars)
  <1> DEFINE screens == [c \in Clients |-> Shown(c)]
  <1> USE DEF ServiceInv
  <1>0. joining \in Seq(Item) /\ server_q \in Seq(Item) /\ log \in Seq(Entry)
    BY DEF Inv, ITypeOK, TypeOK
  <1>1. ASSUME UNCHANGED <<client, log, base, got>> PROVE screens' = screens
    <2>1. ASSUME NEW c \in Clients PROVE Shown(c)' = Shown(c)
      <3>1. \A k \in 1..Due(c) : Nth(c, k)' = Nth(c, k)
        BY <1>1, DueStays
      <3> QED BY <1>1, <3>1, ShownStays
    <2> QED BY <2>1
  <1>2. ASSUME UNCHANGED <<client, log, base, got, joining, server_q>>
        PROVE  UNCHANGED Service!serviceVars
    BY <1>1, <1>2 DEF Service!serviceVars, Shown
  <1>3. ASSUME NEW kind, NEW who, NEW text, Record(kind, who, text), UNCHANGED <<client, base, got>>
        PROVE  screens' = screens /\ Service!Record({kind}, who, text)
    <2>1. ASSUME NEW c \in Clients PROVE Shown(c)' = Shown(c)
      <3>1. \A k \in 1..Due(c) : Nth(c, k)' = Nth(c, k)
        BY <1>3, DueGrows DEF Inv
      <3> QED BY <1>3, <3>1, ShownStays
    <2>2. Service!Record({kind}, who, text)
      BY <1>3 DEF Record, Service!Record
    <2> QED BY <2>1, <2>2
  <1>4. CASE ReceiveJoin
    <2>1. /\ srv = "recv" /\ server_q # <<>> /\ server_q' = Tail(server_q)
          /\ UNCHANGED <<log, got>> /\ joining = <<>> /\ Head(server_q).type = "join"
      BY <1>4 DEF ReceiveJoin, InHand, viewVars
    <2>2. CASE UNCHANGED <<srvVars, base>>
      <3>1. screens' = screens
        BY <1>1, <2>1, <2>2 DEF srvVars
      <3>2. Waiting = server_q /\ Waiting' = Tail(server_q)
        <4>1. joining' = <<>>
          BY <2>1, <2>2 DEF srvVars
        <4>2. Tail(server_q) \in Seq(Item)
          BY <1>0, <2>1
        <4> QED BY <1>0, <2>1, <4>1, <4>2, ConcatEmptySeq DEF Waiting
      <3>3. Service!Handle
        BY <2>1, <3>1, <3>2 DEF Service!Handle, Waiting, Shown
      <3> QED BY <3>3 DEF Service!ServiceNext
    <2>3. CASE /\ client' = Append(client, Head(server_q).name)
               /\ base' = [base EXCEPT ![Head(server_q).name] = Len(log)]
               /\ joining' = <<Head(server_q)>>
      <3>1. Waiting' = Waiting
        <4>1. Waiting = server_q
          BY <1>0, <2>1, ConcatEmptySeq DEF Waiting
        <4>2. Waiting' = <<Head(server_q)>> \o Tail(server_q)
          BY <2>1, <2>3 DEF Waiting
        <4> QED BY <1>0, <2>1, <4>1, <4>2
      <3>2. ASSUME NEW d \in Clients PROVE Shown(d)' = Shown(d)
        <4>1. PICK c \in Clients : c = Head(server_q).name /\ ~Member(c)
          <5>1. 1 \in 1..Len(server_q) /\ Head(server_q) = server_q[1] /\ Head(server_q).name \in Clients
            BY <2>1, Taken
          <5> QED BY <2>1, <5>1 DEF Inv, OneRow
        <4>2. \A k \in 1..Due(d) : Nth(d, k)' = Nth(d, k)
          <5>1. CASE d = c
            BY <4>1, <5>1 DEF Due
          <5>2. CASE d # c
            <6>1. base'[d] = base[d]
              BY <2>3, <4>1, <5>2 DEF Inv, ITypeOK, TypeOK
            <6> QED BY <2>1, <6>1 DEF Nth, Cut
          <5> QED BY <5>1, <5>2
        <4> QED BY <2>1, <4>2, ShownStays
      <3>3. screens' = screens
        BY <3>2
      <3> QED BY <2>1, <3>1, <3>3, MappedState DEF Service!serviceVars, Waiting, Shown
    <2> QED BY <1>4, <2>2, <2>3 DEF ReceiveJoin
  <1>5. CASE Joined
    <2>1. /\ srv = "replay" /\ Record("join", Head(joining).name, 0) /\ joining' = <<>>
          /\ UNCHANGED <<client, base, server_q, got>>
          /\ Head(joining).type = "join" /\ Len(joining) = 1
      BY <1>5 DEF Joined, InHand, viewVars, Inv, ITypeOK
    <2>2. screens' = screens /\ Service!Record({"join"}, Head(joining).name, 0)
      BY <1>3, <2>1
    <2>3. Service!Record({"join", "warn"}, Head(joining).name, 0)
      BY <2>2 DEF Service!Record
    <2>4. Waiting # <<>> /\ Head(Waiting) = Head(joining) /\ Waiting' = Tail(Waiting)
      <3>1. joining = <<Head(joining)>>
        BY <1>0, <2>1
      <3>2. Waiting' = server_q
        BY <1>0, <2>1, ConcatEmptySeq DEF Waiting
      <3>3. Waiting = <<Head(joining)>> \o server_q
        BY <3>1 DEF Waiting
      <3> QED BY <1>0, <3>1, <3>2, <3>3
    <2>5. Service!Handle
      BY <2>1, <2>2, <2>3, <2>4 DEF Service!Handle, Waiting, Shown
    <2> QED BY <2>5 DEF Service!ServiceNext
  <1>6. CASE ReceiveChat
    <2>1. /\ srv = "recv" /\ server_q # <<>> /\ server_q' = Tail(server_q)
          /\ Record("chat", Head(server_q).name, Head(server_q).text)
          /\ UNCHANGED <<client, base, got, joining>> /\ joining = <<>>
          /\ Head(server_q).type = "chat"
      BY <1>6 DEF ReceiveChat, InHand, viewVars
    <2>2. screens' = screens /\ Service!Record({"chat"}, Head(server_q).name, Head(server_q).text)
      BY <1>3, <2>1
    <2>3. Waiting = server_q /\ Waiting' = Tail(server_q)
      <3>1. Tail(server_q) \in Seq(Item)
        BY <1>0, <2>1
      <3> QED BY <1>0, <2>1, <3>1, ConcatEmptySeq DEF Waiting
    <2>4. Service!Handle
      BY <2>1, <2>2, <2>3 DEF Service!Handle, Waiting, Shown
    <2> QED BY <2>4 DEF Service!ServiceNext
  <1>7. ASSUME NEW c \in Clients, NEW item \in Item, Request(item),
               UNCHANGED <<client, log, base, got, joining>>
        PROVE  Service!ServiceNext
    <2>1. Waiting' = Append(Waiting, item)
      BY <1>0, <1>7 DEF Request, Waiting
    <2>2. screens' = screens
      BY <1>1, <1>7
    <2>3. Service!Submit
      BY <1>7, <2>1, <2>2 DEF Service!Submit, Waiting, Shown
    <2> QED BY <2>3 DEF Service!ServiceNext
  <1>8. ASSUME NEW c \in Clients, Join(c) \/ (Say(c) /\ draft[c] = "fits")
        PROVE  Service!ServiceNext
    <2>1. CASE Join(c)
      <3>1. [type |-> "join", name |-> c, text |-> 0] \in Item
        BY DEF Item
      <3> QED BY <1>7, <2>1, <3>1 DEF Join, srvVars, pubVars, viewVars
    <2>2. CASE Say(c) /\ draft[c] = "fits"
      <3>1. [type |-> "chat", name |-> c, text |-> typed[c]] \in Item
        BY <2>2 DEF Item, Say, Inv, ITypeOK
      <3> QED BY <1>7, <2>2, <3>1 DEF Say, srvVars, pubVars, viewVars
    <2> QED BY <1>8, <2>1, <2>2
  <1>9. ASSUME NEW c \in Clients, Receive(c)
        PROVE  Service!ServiceNext \/ \E d \in Clients : TooLate(d)
    <2>1. /\ UNCHANGED <<log, client, base, joining, server_q>>
          /\ got' = [got EXCEPT ![c] = @ + 1] /\ got \in [Clients -> Nat]
      BY <1>9 DEF Receive, srvVars, pubVars, Inv, ITypeOK, TypeOK
    <2>2. base[c] \in Nat /\ MAX_HISTORY \in Nat
      BY Places DEF Inv
    <2>3. CASE base[c] > MAX_HISTORY
      <3>1. got'[c] # got[c]
        BY <2>1
      <3> QED BY <2>3, <3>1 DEF TooLate
    <2>4. CASE base[c] <= MAX_HISTORY
      <3>1. ASSUME NEW d \in Clients, d # c PROVE Shown(d)' = Shown(d)
        <4>1. got'[d] = got[d]
          BY <2>1, <3>1
        <4>2. \A k \in 1..Due(d) : Nth(d, k)' = Nth(d, k)
          BY <2>1, DueStays
        <4> QED BY <4>1, <4>2, ShownStays
      <3>2. /\ Len(Shown(c)) < Len(log)
            /\ Shown(c)' = Append(Shown(c), log[Len(Shown(c)) + 1])
        BY <1>9, <2>4, ShownGrows
      <3>3. screens' = [screens EXCEPT ![c] = Append(@, log[Len(@) + 1])]
        BY <3>1, <3>2
      <3>4. Waiting' = Waiting
        BY <2>1 DEF Waiting
      <3>5. Service!Show(c)
        BY <2>1, <3>2, <3>3, <3>4 DEF Service!Show, Waiting, Shown
      <3> QED BY <3>5 DEF Service!ServiceNext
    <2> QED BY <2>2, <2>3, <2>4
  <1>10. CASE Replay \/ Broadcast \/ BroadcastDone \/ ServerStop
    BY <1>2, <1>10 DEF Replay, Broadcast, BroadcastDone, ServerStop, pubVars, viewVars
  <1>11. ASSUME NEW c \in Clients, Start(c) \/ Type(c) \/ Quit(c) \/ Kill(c)
         PROVE  UNCHANGED Service!serviceVars
    BY <1>2, <1>11 DEF Start, Type, Quit, Kill, srvVars, pubVars, viewVars
  <1>12. ASSUME NEW c \in Clients, Say(c), draft[c] # "fits"
         PROVE  UNCHANGED Service!serviceVars
    BY <1>2, <1>12 DEF Say, srvVars, pubVars, viewVars
  <1>13. CASE UNCHANGED vars
    BY <1>2, <1>13 DEF vars, srvVars, pubVars, viewVars
  <1> QED BY <1>4, <1>5, <1>6, <1>8, <1>9, <1>10, <1>11, <1>12, <1>13 DEF Next, ServerStep

\* The chat of lab13/chat is the service of ChatService too: every request is
\* handled once, in the order in which they came, every message gets the next
\* place of one log, and every screen follows that log, but for the clients that
\* were added when the history was full already.
THEOREM ChatIsService == Spec => ImplementsService
  <1>1. Init => ServiceInv /\ Service!ServiceInit
    <2> SUFFICES ASSUME Init PROVE ServiceInv /\ Service!ServiceInit
      OBVIOUS
    <2>1. Inv /\ InHand
      BY InitInv DEF Init, InHand
    <2>2. Waiting = <<>>
      BY DEF Init, Waiting
    <2>3. ASSUME NEW c \in Clients PROVE Shown(c) = <<>>
      <3>1. Shown(c) \in Seq(Entry) /\ Len(Shown(c)) = 0
        BY <2>1, ShownShape DEF ShownAll, Init
      <3> QED BY <3>1
    <2> QED BY <2>1, <2>2, <2>3, MappedState DEF Init, ServiceInv
  <1> QED BY <1>1, ServiceInvStep, ServiceStep, PTL DEF Spec, ImplementsService
=============================================================================
