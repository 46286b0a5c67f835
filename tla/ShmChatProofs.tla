--------------------------- MODULE ShmChatProofs ---------------------------
(* Theorems on ShmChat, for every number of clients and every ring size.   *)
EXTENDS ShmChat, SequenceTheorems, FiniteSetTheorems, TLAPS

----------------------------------------------------------------------------
(* The arithmetic of the index of a ring of n slots.                       *)

\* An index taken modulo the size is a slot.
LEMMA ModRange ==
    ASSUME NEW n \in Nat, n > 0, NEW x \in Nat
    PROVE  x % n \in 0..(n - 1)
  OBVIOUS

\* A number is its quotient times the size, plus its slot.
LEMMA DivMod ==
    ASSUME NEW n \in Nat, n > 0, NEW x \in Nat
    PROVE  /\ x \div n \in Nat
           /\ x = (n * (x \div n)) + (x % n)
  OBVIOUS

\* The slot is the only remainder below the size.
LEMMA ModUnique ==
    ASSUME NEW n \in Nat, n > 0, NEW x \in Nat,
           NEW q \in Nat, NEW r \in 0..(n - 1), x = n * q + r
    PROVE  x % n = r
  OBVIOUS

\* Multiples of the size are at least the size apart.
LEMMA MulGap ==
    ASSUME NEW n \in Nat, n > 0, NEW x \in Int, NEW y \in Int, x < y
    PROVE  n * x + n <= n * y
  OBVIOUS

\* Stepping a wrapped index is wrapping the stepped one.
LEMMA ModStep ==
    ASSUME NEW n \in Nat, n > 0, NEW x \in Nat
    PROVE  ((x % n) + 1) % n = (x + 1) % n
  <1> DEFINE q == x \div n
             r == x % n
  <1>1. q \in Nat /\ r \in 0..(n - 1) /\ x = n * q + r
    BY ModRange, DivMod
  <1>2. CASE r + 1 < n
    <2>1. (r + 1) % n = r + 1
      BY <1>1, <1>2, ModUnique
    <2>2. (x + 1) % n = r + 1
      BY <1>1, <1>2, ModUnique
    <2> QED BY <2>1, <2>2
  <1>3. CASE r + 1 = n
    <2>1. x + 1 = n * (q + 1) + 0
      BY <1>1, <1>3
    <2>2. (x + 1) % n = 0
      <3>1. q + 1 \in Nat /\ 0 \in 0..(n - 1) /\ x + 1 \in Nat
        BY <1>1
      <3> QED BY <2>1, <3>1, ModUnique
    <2>3. n % n = 0
      <3>1. n = n * 1 + 0 /\ 0 \in 0..(n - 1) /\ 1 \in Nat
        OBVIOUS
      <3> QED BY <3>1, ModUnique
    <2> QED BY <2>2, <2>3, <1>3
  <1> QED BY <1>1, <1>2, <1>3

\* Two different numbers less than n apart are in different slots.
LEMMA ModDistinct ==
    ASSUME NEW n \in Nat, n > 0, NEW x \in Nat, NEW y \in Nat,
           x < y, y - x < n
    PROVE  x % n # y % n
  <1> SUFFICES ASSUME x % n = y % n PROVE FALSE
    OBVIOUS
  <1> DEFINE p == x \div n
             q == y \div n
             r == x % n
  <1>1. /\ p \in Nat /\ q \in Nat /\ r \in 0..(n - 1)
        /\ x = n * p + r /\ y = n * q + r
    BY ModRange, DivMod
  <1> HIDE DEF p, q, r
  <1>2. CASE p < q
    <2>1. n * p + n <= n * q
      BY <1>1, <1>2, MulGap
    <2>2. n * p \in Int /\ n * q \in Int
      BY <1>1
    <2> QED BY <1>1, <2>1, <2>2
  <1>3. CASE p = q
    BY <1>1, <1>3
  <1>4. CASE q < p
    <2>1. n * q + n <= n * p
      BY <1>1, <1>4, MulGap
    <2>2. n * p \in Int /\ n * q \in Int
      BY <1>1
    <2> QED BY <1>1, <2>1, <2>2
  <1> QED BY <1>1, <1>2, <1>3, <1>4

\* A number that is n above another is in its slot.
LEMMA ModPeriod ==
    ASSUME NEW n \in Nat, n > 0, NEW x \in Nat
    PROVE  (x + n) % n = x % n
  <1> DEFINE q == x \div n
             r == x % n
  <1>1. q \in Nat /\ r \in 0..(n - 1) /\ x = n * q + r
    BY ModRange, DivMod
  <1> HIDE DEF q, r
  <1>2. x + n = n * (q + 1) + r /\ q + 1 \in Nat /\ x + n \in Nat
    BY <1>1
  <1>3. (x + n) % n = r
    BY <1>1, <1>2, ModUnique
  <1> QED BY <1>3 DEF r

\* A number that is a multiple of n above another is in its slot.
LEMMA ModMultiple ==
    ASSUME NEW n \in Nat, n > 0, NEW x \in Nat, NEW k \in Nat
    PROVE  (n * k + x) % n = x % n
  <1> DEFINE q == x \div n
             r == x % n
  <1>1. q \in Nat /\ r \in 0..(n - 1) /\ x = n * q + r
    BY ModRange, DivMod
  <1> HIDE DEF q, r
  <1>2. n * k + x = n * (k + q) + r /\ k + q \in Nat /\ n * k + x \in Nat
    BY <1>1
  <1>3. (n * k + x) % n = r
    BY <1>1, <1>2, ModUnique
  <1> QED BY <1>3 DEF r

\* Of the numbers up to last that share the slot of id, the newest is less
\* than n below last; if that is not id itself, there are more than n numbers.
LEMMA ModNewest ==
    ASSUME NEW n \in Nat, n > 0, NEW last \in Nat, NEW id \in 1..last
    PROVE  \E j \in id..last : /\ j + n > last
                               /\ j % n = id % n /\ (j - 1) % n = (id - 1) % n
                               /\ j # id => last > n
  <1> DEFINE d == last - id
             q == d \div n
             j == n * q + id
  <1>1. /\ d \in Nat /\ id \in Nat /\ id - 1 \in Nat /\ id > 0
    OBVIOUS
  <1>2. q \in Nat /\ d = n * q + (d % n) /\ d % n \in 0..(n - 1)
    BY <1>1, ModRange, DivMod
  <1> HIDE DEF q
  <1>3. n * q \in Nat
    BY <1>2
  <1>4. j \in id..last /\ j + n > last
    BY <1>1, <1>2, <1>3
  <1>5. j % n = id % n
    BY <1>1, <1>2, ModMultiple
  <1>6. (j - 1) % n = (id - 1) % n
    <2>1. (n * q + (id - 1)) % n = (id - 1) % n
      BY <1>1, <1>2, ModMultiple
    <2>2. j - 1 = n * q + (id - 1)
      BY <1>1, <1>3
    <2> QED BY <2>1, <2>2
  <1>7. j # id => last > n
    <2> SUFFICES ASSUME j # id PROVE last > n
      OBVIOUS
    <2>1. q > 0
      <3>1. CASE q = 0
        <4>1. n * q = 0
          BY <3>1
        <4> QED BY <4>1, <1>1
      <3> QED BY <3>1, <1>2
    <2>2. n * 0 + n <= n * q
      BY <2>1, <1>2, MulGap
    <2>3. n <= n * q
      BY <2>2
    <2> QED BY <2>3, <1>1, <1>3, <1>4
  <1> HIDE DEF j
  <1> QED BY <1>4, <1>5, <1>6, <1>7

----------------------------------------------------------------------------
(* Types.  An item is well formed because a client that pushes has a name, *)
(* and one that pushes a chat line has typed it.                           *)

UserOK == \A c \in Clients :
    /\ main[c] \in {"opened", "join", "spawn", "ui", "prompt", "chat", "quit", "reap"}
          => name[c] \in Names
    /\ main[c] = "chat" => lines[c] > 0
ITypeOK == TypeOK /\ UserOK

\* The initial state is well typed.
LEMMA InitType == Init => ITypeOK
  BY Sizes DEF Init, ITypeOK, TypeOK, UserOK, Nobody, Item, Message

\* What a client pushes is a well-formed item.
LEMMA DraftType ==
    ASSUME ITypeOK, NEW c \in Clients, main[c] \in {"join", "chat"}
    PROVE  Draft(c) \in Item
  BY DEF ITypeOK, TypeOK, UserOK, Draft, Item

\* Appending a well-formed message keeps the message ring well typed.
LEMMA AppendType ==
    ASSUME ITypeOK, NEW kind \in {"start", "join", "warn", "chat"},
           NEW who \in Names \cup {NoName}, NEW text \in 0..MaxLines,
           append_msg(kind, who, text)
    PROVE  /\ msg' \in [0..(MaxMsg - 1) -> Message \cup {NoMessage}]
           /\ next_msg_id' \in Nat /\ msg_cnt' \in 0..MaxMsg
           /\ published' \in Seq(Message)
  <1> DEFINE id == next_msg_id + 1
             m == [id |-> id, kind |-> kind, name |-> who, text |-> text]
  <1>1. m \in Message
    BY DEF ITypeOK, TypeOK, Message
  <1>2. (id - 1) % MaxMsg \in 0..(MaxMsg - 1)
    BY Sizes, ModRange DEF ITypeOK, TypeOK
  <1> QED BY <1>1, <1>2, Sizes DEF append_msg, ITypeOK, TypeOK

\* Every step of the server keeps the types.
LEMMA ServerType == ITypeOK /\ (ServerStep \/ ServerStop) => ITypeOK'
  <1> SUFFICES ASSUME ITypeOK, ServerStep \/ ServerStop PROVE ITypeOK'
    OBVIOUS
  <1> USE DEF inboxVars, clientSide, userVars, viewVars
  <1>1. CASE CreateShm
    BY <1>1 DEF CreateShm, ITypeOK, TypeOK, UserOK, msgVars
  <1>2. CASE ServerLock
    BY <1>2 DEF ServerLock, Lock, Threads, ITypeOK, TypeOK, UserOK, msgVars, srvVars
  <1>3. CASE Hello
    <2>1. append_msg("start", NoName, 0) /\ 0 \in 0..MaxLines
      BY <1>3, Sizes DEF Hello
    <2> QED BY <1>3, <2>1, AppendType DEF Hello, Unlock, Broadcast, Nobody, ITypeOK, TypeOK, UserOK
  <1>4. CASE ServerWait
    BY <1>4 DEF ServerWait, CondWait, Unlock, Threads, ITypeOK, TypeOK, UserOK, msgVars, srvVars
  <1>5. CASE ServerPop
    <2> DEFINE item == inbox[head]
    <2>1. item \in Item \cup {NoItem} /\ NoItem.type = "none"
      BY DEF ITypeOK, TypeOK, NoItem
    <2>2. head' \in 0..(MaxInbox - 1)
      BY <1>5, Sizes, ModRange DEF ServerPop, inbox_pop, ITypeOK, TypeOK
    <2>3. /\ taken' \in Nat /\ UNCHANGED <<inbox, tail, sent, shm, owner, clientSide>>
          /\ srv' = "drain"
      BY <1>5 DEF ServerPop, inbox_pop, ITypeOK, TypeOK
    <2>4. /\ msg' \in [0..(MaxMsg - 1) -> Message \cup {NoMessage}]
          /\ next_msg_id' \in Nat /\ msg_cnt' \in 0..MaxMsg
          /\ published' \in Seq(Message)
          /\ client_name' \in Seq(Names) /\ waiting' \in SUBSET Threads
      <3>1. CASE item.type = "join" /\ HandleJoin(item.name)
        <4>1. item.name \in Names /\ 0 \in 0..MaxLines
          BY <2>1, <3>1, Sizes DEF Item
        <4>2. CASE find_client(item.name)
          BY <3>1, <4>2 DEF HandleJoin, ITypeOK, TypeOK, msgVars
        <4>3. CASE ~find_client(item.name)
          <5>1. /\ append_msg("join", item.name, 0) \/ append_msg("warn", item.name, 0)
                /\ client_name' = client_name \/ client_name' = Append(client_name, item.name)
                /\ waiting' = {}
            BY <3>1, <4>3 DEF HandleJoin, Broadcast
          <5>2. client_name' \in Seq(Names) /\ waiting' \in SUBSET Threads
            <6>1. client_name \in Seq(Names) /\ Append(client_name, item.name) \in Seq(Names)
              BY <4>1 DEF ITypeOK, TypeOK
            <6> QED BY <5>1, <6>1
          <5>3. CASE append_msg("join", item.name, 0)
            BY <4>1, <5>2, <5>3, AppendType
          <5>4. CASE append_msg("warn", item.name, 0)
            BY <4>1, <5>2, <5>4, AppendType
          <5> QED BY <5>1, <5>3, <5>4
        <4> QED BY <4>2, <4>3
      <3>2. CASE item.type = "chat" /\ HandleChat(item)
        <4>1. item.name \in Names /\ item.text \in 0..MaxLines
          BY <2>1, <3>2 DEF Item
        <4>2. /\ append_msg("chat", item.name, item.text)
              /\ client_name' = client_name /\ waiting' = {}
          BY <3>2 DEF HandleChat, Broadcast
        <4> QED BY <4>1, <4>2, AppendType DEF ITypeOK, TypeOK
      <3> QED BY <1>5, <3>1, <3>2 DEF ServerPop
    <2> QED BY <2>2, <2>3, <2>4 DEF ITypeOK, TypeOK, UserOK
  <1>6. CASE DrainDone
    BY <1>6 DEF DrainDone, Unlock, Broadcast, Nobody, ITypeOK, TypeOK, UserOK, msgVars
  <1>7. CASE ServerStop
    BY <1>7 DEF ServerStop, ITypeOK, TypeOK, UserOK, msgVars
  <1> QED BY <1>1, <1>2, <1>3, <1>4, <1>5, <1>6, <1>7 DEF ServerStep

\* Every step of a client's main thread, of its user, and its death keep them.
LEMMA MainType ==
    ASSUME ITypeOK, NEW c \in Clients,
           Start(c) \/ MainStep(c) \/ UserInput(c) \/ Kill(c)
    PROVE  ITypeOK'
  <1> USE DEF inboxVars, serverSide, msgVars, srvVars, userVars, viewVars, Goto
  <1>1. CASE Start(c)
    BY <1>1 DEF Start, Names, ITypeOK, TypeOK, UserOK
  <1>2. CASE PollInit(c)
    BY <1>2 DEF PollInit, ITypeOK, TypeOK, UserOK
  <1>3. CASE MainLock(c)
    BY <1>3 DEF MainLock, Lock, Threads, ITypeOK, TypeOK, UserOK
  <1>4. CASE PushWait(c)
    BY <1>4 DEF PushWait, CondWait, Unlock, Threads, ITypeOK, TypeOK, UserOK
  <1>5. CASE Push(c)
    <2>1. Draft(c) \in Item
      BY <1>5, DraftType DEF Push
    <2>2. tail' \in 0..(MaxInbox - 1)
      BY <1>5, Sizes, ModRange DEF Push, inbox_push, ITypeOK, TypeOK
    <2>3. /\ inbox' \in [0..(MaxInbox - 1) -> Item \cup {NoItem}]
          /\ sent' \in Seq(Item)
      BY <1>5, <2>1 DEF Push, inbox_push, ITypeOK, TypeOK
    <2> QED
      BY <1>5, <2>2, <2>3
      DEF Push, inbox_push, Unlock, Broadcast, Nobody, ITypeOK, TypeOK, UserOK
  <1>6. CASE CreateThread(c)
    BY <1>6 DEF CreateThread, ITypeOK, TypeOK, UserOK
  <1>7. CASE Prompt(c)
    BY <1>7 DEF Prompt, ITypeOK, TypeOK, UserOK
  <1>8. CASE QuitNotify(c)
    BY <1>8 DEF QuitNotify, Unlock, Broadcast, Nobody, ITypeOK, TypeOK, UserOK
  <1>9. CASE Join(c)
    BY <1>9 DEF Join, ITypeOK, TypeOK, UserOK
  <1>10. CASE UserInput(c)
    <2>1. /\ UNCHANGED <<shm, srv, client_name, msg, next_msg_id, msg_cnt, published,
                         owner, waiting, inbox, head, tail, sent, taken, recv, name,
                         seen, shown>>
          /\ main[c] = "prompt"
      BY <1>10 DEF UserInput
    <2>2. CASE lines[c] < MaxLines /\ lines' = [lines EXCEPT ![c] = @ + 1] /\ Goto(c, "chat")
      <3>1. lines[c] + 1 \in 1..MaxLines
        BY <2>2, Sizes DEF ITypeOK, TypeOK
      <3> QED BY <2>1, <2>2, <3>1 DEF ITypeOK, TypeOK, UserOK
    <2>3. CASE \E pc \in {"ui", "quit"} : Goto(c, pc) /\ UNCHANGED lines
      BY <2>1, <2>3 DEF ITypeOK, TypeOK, UserOK
    <2> QED BY <1>10, <2>2, <2>3 DEF UserInput
  <1>11. CASE Kill(c)
    BY <1>11 DEF Kill, ITypeOK, TypeOK, UserOK
  <1> QED
    BY <1>1, <1>2, <1>3, <1>4, <1>5, <1>6, <1>7, <1>8, <1>9, <1>10, <1>11 DEF MainStep

\* Every step of a receiver keeps the types.
LEMMA RecvType ==
    ASSUME ITypeOK, NEW c \in Clients, RecvStep(c)
    PROVE  ITypeOK'
  <1> USE DEF inboxVars, serverSide, msgVars, srvVars, userVars, viewVars, RecvGoto
  <1>1. CASE RecvLock(c)
    BY <1>1 DEF RecvLock, Lock, Threads, ITypeOK, TypeOK, UserOK
  <1>2. CASE ShowNext(c)
    <2> DEFINE slot == seen[c] % MaxMsg
    <2>1. slot \in 0..(MaxMsg - 1) /\ (seen[c] + 1) - 1 = seen[c]
      BY Sizes, ModRange DEF ITypeOK, TypeOK
    <2>2. msg[slot].id \in Nat
      BY <2>1 DEF ITypeOK, TypeOK, Message, NoMessage
    <2>3. shown' \in [Clients -> Seq(Nat)]
      BY <1>2, <2>1, <2>2 DEF ShowNext, ITypeOK, TypeOK
    <2>4. seen' \in [Clients -> Nat] /\ recv' \in {recv, [recv EXCEPT ![c] = "loop"],
                                                  [recv EXCEPT ![c] = "redraw"]}
          /\ owner' \in {owner, Nobody}
      BY <1>2 DEF ShowNext, ITypeOK, TypeOK
    <2> QED BY <1>2, <2>3, <2>4 DEF ShowNext, ITypeOK, TypeOK, UserOK
  <1>3. CASE NothingNew(c)
    BY <1>3 DEF NothingNew, ITypeOK, TypeOK, UserOK
  <1>4. CASE Sleep(c)
    BY <1>4 DEF Sleep, CondWait, Unlock, Threads, ITypeOK, TypeOK, UserOK
  <1>5. CASE Redraw(c)
    BY <1>5 DEF Redraw, ITypeOK, TypeOK, UserOK
  <1>6. CASE LoopTest(c)
    BY <1>6 DEF LoopTest, ITypeOK, TypeOK, UserOK
  <1> QED BY <1>1, <1>2, <1>3, <1>4, <1>5, <1>6 DEF RecvStep

\* The types are an inductive invariant.
LEMMA NextType == ITypeOK /\ [Next]_vars => ITypeOK'
  <1> SUFFICES ASSUME ITypeOK, [Next]_vars PROVE ITypeOK'
    OBVIOUS
  <1>1. CASE UNCHANGED vars
    BY <1>1 DEF vars, ITypeOK, TypeOK, UserOK, userVars
  <1>2. CASE ServerStep \/ ServerStop
    BY <1>2, ServerType
  <1>3. ASSUME NEW c \in Clients, Start(c) \/ MainStep(c) \/ UserInput(c) \/ Kill(c)
        PROVE  ITypeOK'
    BY <1>3, MainType
  <1>4. ASSUME NEW c \in Clients, RecvStep(c)
        PROVE  ITypeOK'
    BY <1>4, RecvType
  <1> QED BY <1>1, <1>2, <1>3, <1>4 DEF Next

\* Every variable of the chat keeps its type in every reachable state.
THEOREM TypeCorrect == Spec => []TypeOK
  <1>1. ITypeOK => TypeOK
    BY DEF ITypeOK
  <1> QED BY <1>1, InitType, NextType, PTL DEF Spec

----------------------------------------------------------------------------
(* The inbox ring.  Only a push and a pop touch it.                        *)

\* A step leaves the inbox alone, pushes one item, or pops one.
LEMMA InboxStep ==
    ASSUME ITypeOK, [Next]_vars
    PROVE  \/ UNCHANGED inboxVars
           \/ \E item \in Item : inbox_push(item)
           \/ inbox_pop
  <1>1. CASE UNCHANGED vars
    BY <1>1 DEF vars, inboxVars
  <1>2. CASE ServerStep \/ ServerStop
    BY <1>2 DEF ServerStep, ServerStop, CreateShm, ServerLock, Hello, ServerWait,
                ServerPop, DrainDone
  <1>3. ASSUME NEW c \in Clients, Push(c)
        PROVE  \E item \in Item : inbox_push(item)
    BY <1>3, DraftType DEF Push
  <1>4. ASSUME NEW c \in Clients, ~Push(c),
               Start(c) \/ MainStep(c) \/ UserInput(c) \/ Kill(c)
        PROVE  UNCHANGED inboxVars
    BY <1>4 DEF MainStep, Start, PollInit, MainLock, PushWait, CreateThread, Prompt,
                UserInput, QuitNotify, Join, Kill
  <1>5. ASSUME NEW c \in Clients, RecvStep(c)
        PROVE  UNCHANGED inboxVars
    BY <1>5 DEF RecvStep, RecvLock, ShowNext, NothingNew, Sleep, Redraw, LoopTest
  <1> QED BY <1>1, <1>2, <1>3, <1>4, <1>5 DEF Next

\* inbox_full holds exactly when MaxInbox - 1 items are pending.
LEMMA FullWhenPending ==
    ASSUME ITypeOK, InboxFaithful
    PROVE  inbox_full <=> Pending = MaxInbox - 1
  <1> DEFINE n == Len(sent)
  <1>1. /\ n \in Nat /\ n + 1 \in Nat /\ taken \in Nat /\ MaxInbox \in Nat /\ MaxInbox > 1 /\ MaxInbox > 0
        /\ taken <= n /\ n - taken < MaxInbox
        /\ head = taken % MaxInbox /\ tail = n % MaxInbox
    BY Sizes DEF ITypeOK, TypeOK, InboxFaithful, Pending
  <1> HIDE DEF n
  <1>2. (tail + 1) % MaxInbox = (n + 1) % MaxInbox
    BY <1>1, ModStep
  <1>3. CASE n + 1 - taken = MaxInbox
    <2>1. n + 1 = taken + MaxInbox
      BY <1>1, <1>3
    <2>2. (n + 1) % MaxInbox = head
      BY <1>1, <2>1, ModPeriod
    <2> QED BY <1>1, <1>2, <1>3, <2>2 DEF inbox_full, Pending, n
  <1>4. CASE n + 1 - taken < MaxInbox
    <2>1. (n + 1) % MaxInbox # head
      BY <1>1, <1>4, ModDistinct
    <2> QED BY <1>1, <1>2, <1>4, <2>1 DEF inbox_full, Pending, n
  <1> QED BY <1>1, <1>3, <1>4

\* inbox_empty holds exactly when nothing is pending.
LEMMA EmptyWhenNonePending ==
    ASSUME ITypeOK, InboxFaithful
    PROVE  inbox_empty <=> Pending = 0
  <1>1. /\ Len(sent) \in Nat /\ taken \in Nat /\ MaxInbox \in Nat /\ MaxInbox > 1 /\ MaxInbox > 0
        /\ taken <= Len(sent) /\ Len(sent) - taken < MaxInbox
        /\ head = taken % MaxInbox /\ tail = Len(sent) % MaxInbox
    BY Sizes DEF ITypeOK, TypeOK, InboxFaithful, Pending
  <1>2. CASE taken = Len(sent)
    BY <1>1, <1>2 DEF inbox_empty, Pending
  <1>3. CASE taken < Len(sent)
    <2>1. taken % MaxInbox # Len(sent) % MaxInbox
      BY <1>1, <1>3, ModDistinct
    <2> QED BY <1>1, <1>3, <2>1 DEF inbox_empty, Pending
  <1> QED BY <1>1, <1>2, <1>3

\* A push into a ring that is not full keeps it faithful: the slot it writes
\* belongs to no pending item.
LEMMA PushFaithful ==
    ASSUME ITypeOK, InboxFaithful, NEW item \in Item, inbox_push(item)
    PROVE  InboxFaithful'
  <1> DEFINE n == Len(sent)
  <1>1. /\ n \in Nat /\ n + 1 \in Nat /\ taken \in Nat /\ MaxInbox \in Nat /\ MaxInbox > 1 /\ MaxInbox > 0
        /\ taken <= n /\ n - taken < MaxInbox - 1
        /\ head = taken % MaxInbox /\ tail = n % MaxInbox
    <2>1. ~inbox_full
      BY DEF inbox_push
    <2>2. n - taken # MaxInbox - 1
      BY <2>1, FullWhenPending DEF Pending
    <2>3. /\ n \in Nat /\ taken \in Nat /\ MaxInbox \in Nat /\ MaxInbox > 1
          /\ taken <= n /\ n - taken < MaxInbox
          /\ head = taken % MaxInbox /\ tail = n % MaxInbox
      BY Sizes DEF ITypeOK, TypeOK, InboxFaithful, Pending
    <2> HIDE DEF n
    <2> QED BY <2>2, <2>3
  <1>2. /\ sent' = Append(sent, item) /\ sent \in Seq(Item)
        /\ taken' = taken /\ head' = head
        /\ tail' = (tail + 1) % MaxInbox
        /\ inbox' = [inbox EXCEPT ![tail] = item]
        /\ inbox \in [0..(MaxInbox - 1) -> Item \cup {NoItem}]
        /\ tail \in 0..(MaxInbox - 1)
    BY DEF inbox_push, ITypeOK, TypeOK
  <1>3. /\ Len(sent') = n + 1 /\ sent'[n + 1] = item
        /\ \A k \in 1..n : sent'[k] = sent[k]
    BY <1>2
  <1>4. tail' = Len(sent') % MaxInbox
    BY <1>1, <1>2, <1>3, ModStep
  <1>5. ASSUME NEW k \in taken..n
        PROVE  inbox'[k % MaxInbox] = sent'[k + 1]
    <2>1. k \in Nat /\ k % MaxInbox \in 0..(MaxInbox - 1)
      BY <1>1, ModRange
    <2>2. CASE k = n
      BY <1>1, <1>2, <1>3, <2>2
    <2>3. CASE k < n
      <3>1. k % MaxInbox # tail
        BY <1>1, <2>1, <2>3, ModDistinct
      <3>2. inbox[k % MaxInbox] = sent[k + 1]
        BY <1>1, <2>1, <2>3 DEF InboxFaithful
      <3>3. k + 1 \in 1..n
        BY <1>1, <2>1, <2>3
      <3> QED BY <1>2, <1>3, <2>1, <3>1, <3>2, <3>3
    <2> QED BY <1>1, <2>1, <2>2, <2>3
  <1>6. taken' <= Len(sent') /\ Len(sent') - taken' < MaxInbox
    BY <1>1, <1>2, <1>3
  <1>7. head' = taken' % MaxInbox
    BY <1>1, <1>2
  <1>8. \A k \in taken'..(Len(sent') - 1) : inbox'[k % MaxInbox] = sent'[k + 1]
    BY <1>1, <1>2, <1>3, <1>5
  <1> QED BY <1>4, <1>6, <1>7, <1>8 DEF InboxFaithful, Pending

\* A pop takes the oldest pending item and keeps the ring faithful.
LEMMA PopFaithful ==
    ASSUME ITypeOK, InboxFaithful, inbox_pop
    PROVE  InboxFaithful'
  <1>1. /\ Len(sent) \in Nat /\ taken \in Nat /\ MaxInbox \in Nat /\ MaxInbox > 1 /\ MaxInbox > 0
        /\ taken < Len(sent) /\ Len(sent) - taken < MaxInbox
        /\ head = taken % MaxInbox /\ tail = Len(sent) % MaxInbox
    BY Sizes, EmptyWhenNonePending DEF ITypeOK, TypeOK, InboxFaithful, Pending, inbox_pop
  <1>2. /\ head' = (head + 1) % MaxInbox /\ taken' = taken + 1
        /\ inbox' = inbox /\ tail' = tail /\ sent' = sent
    BY DEF inbox_pop
  <1>3. head' = taken' % MaxInbox
    BY <1>1, <1>2, ModStep
  <1>4. taken' <= Len(sent') /\ Len(sent') - taken' < MaxInbox
    BY <1>1, <1>2
  <1>5. tail' = Len(sent') % MaxInbox
    BY <1>1, <1>2
  <1>6. \A k \in taken'..(Len(sent') - 1) : inbox'[k % MaxInbox] = sent'[k + 1]
    BY <1>1, <1>2 DEF InboxFaithful
  <1> QED BY <1>3, <1>4, <1>5, <1>6 DEF InboxFaithful, Pending

\* The inbox ring never loses, doubles or reorders an item, whatever the
\* number of clients and the size of the ring.
THEOREM InboxCorrect == Spec => []InboxFaithful
  <1>1. Init => ITypeOK /\ InboxFaithful
    <2>1. 0 % MaxInbox = 0
      BY Sizes, ModRange
    <2> QED BY <2>1, Sizes, InitType DEF Init, InboxFaithful, Pending
  <1>2. ITypeOK /\ InboxFaithful /\ [Next]_vars => (ITypeOK /\ InboxFaithful)'
    <2> SUFFICES ASSUME ITypeOK, InboxFaithful, [Next]_vars
                 PROVE  (ITypeOK /\ InboxFaithful)'
      OBVIOUS
    <2>1. CASE UNCHANGED inboxVars
      BY <2>1, NextType DEF inboxVars, InboxFaithful, Pending
    <2> QED BY <2>1, NextType, InboxStep, PushFaithful, PopFaithful
  <1> QED BY <1>1, <1>2, PTL DEF Spec

----------------------------------------------------------------------------
(* The message ring.  Only append_msg touches it.                          *)

\* A step leaves the message ring alone or appends one message.
LEMMA MsgStep ==
    ASSUME ITypeOK, [Next]_vars
    PROVE  \/ UNCHANGED msgVars
           \/ \E kind \in {"start", "join", "warn", "chat"},
                 who \in Names \cup {NoName}, text \in 0..MaxLines :
                 append_msg(kind, who, text)
  <1> DEFINE Appends == \E kind \in {"start", "join", "warn", "chat"},
                           who \in Names \cup {NoName}, text \in 0..MaxLines :
                           append_msg(kind, who, text)
  <1>1. CASE UNCHANGED vars
    BY <1>1 DEF vars, msgVars
  <1>2. CASE Hello
    BY <1>2, Sizes DEF Hello
  <1>3. CASE ServerPop
    <2> DEFINE item == inbox[head]
    <2>1. item \in Item \cup {NoItem} /\ NoItem.type = "none"
      BY DEF ITypeOK, TypeOK, NoItem
    <2>2. CASE item.type = "join" /\ HandleJoin(item.name)
      <3>1. item.name \in Names /\ 0 \in 0..MaxLines
        BY <2>1, <2>2, Sizes DEF Item
      <3>2. \/ UNCHANGED msgVars \/ append_msg("join", item.name, 0)
            \/ append_msg("warn", item.name, 0)
        BY <2>2 DEF HandleJoin
      <3> QED BY <3>1, <3>2
    <2>3. CASE item.type = "chat" /\ HandleChat(item)
      <3>1. item.name \in Names /\ item.text \in 0..MaxLines
        BY <2>1, <2>3 DEF Item
      <3>2. append_msg("chat", item.name, item.text)
        BY <2>3 DEF HandleChat
      <3> QED BY <3>1, <3>2
    <2> QED BY <1>3, <2>2, <2>3 DEF ServerPop
  <1>4. CASE CreateShm \/ ServerLock \/ ServerWait \/ DrainDone \/ ServerStop
    BY <1>4 DEF CreateShm, ServerLock, ServerWait, DrainDone, ServerStop
  <1>5. ASSUME NEW c \in Clients, Start(c) \/ MainStep(c) \/ UserInput(c) \/ Kill(c)
        PROVE  UNCHANGED msgVars
    BY <1>5 DEF serverSide, MainStep, Start, PollInit, MainLock, PushWait, Push,
                CreateThread, Prompt, UserInput, QuitNotify, Join, Kill
  <1>6. ASSUME NEW c \in Clients, RecvStep(c)
        PROVE  UNCHANGED msgVars
    BY <1>6 DEF serverSide, RecvStep, RecvLock, ShowNext, NothingNew, Sleep, Redraw, LoopTest
  <1> QED BY <1>1, <1>2, <1>3, <1>4, <1>5, <1>6 DEF Next, ServerStep

\* Appending keeps the ring: the slot written is that of no retained message.
LEMMA AppendRing ==
    ASSUME ITypeOK, HistoryRing, NEW kind, NEW who, NEW text, append_msg(kind, who, text)
    PROVE  HistoryRing'
  <1> DEFINE n == next_msg_id
             m == [id |-> n + 1, kind |-> kind, name |-> who, text |-> text]
  <1>1. /\ n \in Nat /\ n + 1 \in Nat /\ MaxMsg \in Nat /\ MaxMsg > 0
        /\ n = Len(published) /\ msg_cnt = IF n < MaxMsg THEN n ELSE MaxMsg
        /\ \A k \in 1..n : published[k].id = k
        /\ \A k \in 1..n : k + MaxMsg > n => msg[(k - 1) % MaxMsg] = published[k]
        /\ msg \in [0..(MaxMsg - 1) -> Message \cup {NoMessage}]
    BY Sizes DEF ITypeOK, TypeOK, HistoryRing
  <1>2. /\ next_msg_id' = n + 1 /\ published' = Append(published, m)
        /\ msg' = [msg EXCEPT ![((n + 1) - 1) % MaxMsg] = m]
        /\ msg_cnt' = IF msg_cnt < MaxMsg THEN msg_cnt + 1 ELSE msg_cnt
    BY DEF append_msg
  <1>3. /\ Len(published') = n + 1 /\ published'[n + 1] = m /\ m.id = n + 1
        /\ \A k \in 1..n : published'[k] = published[k]
    BY <1>1, <1>2 DEF ITypeOK, TypeOK
  <1>4. (n + 1) - 1 = n /\ n % MaxMsg \in 0..(MaxMsg - 1)
    BY <1>1, ModRange
  <1> HIDE DEF n, m
  <1>5. msg_cnt' = IF n + 1 < MaxMsg THEN n + 1 ELSE MaxMsg
    BY <1>1, <1>2
  <1>6. \A k \in 1..(n + 1) : published'[k].id = k
    BY <1>1, <1>3
  <1>7. ASSUME NEW k \in 1..(n + 1), k + MaxMsg > n + 1
        PROVE  msg'[(k - 1) % MaxMsg] = published'[k]
    <2>1. CASE k = n + 1
      BY <1>1, <1>2, <1>3, <1>4, <2>1
    <2>2. CASE k <= n
      <3>1. k \in 1..n /\ k - 1 \in Nat /\ k - 1 < n /\ n - (k - 1) < MaxMsg
        BY <1>1, <1>7, <2>2
      <3>2. (k - 1) % MaxMsg # n % MaxMsg /\ (k - 1) % MaxMsg \in 0..(MaxMsg - 1)
        BY <1>1, <3>1, ModDistinct, ModRange
      <3>3. msg[(k - 1) % MaxMsg] = published[k]
        BY <1>1, <1>7, <3>1
      <3> QED BY <1>1, <1>2, <1>3, <1>4, <3>1, <3>2, <3>3
    <2>3. k = n + 1 \/ k <= n
      <3>1. n \in Nat /\ k \in 1..(n + 1)
        BY <1>1
      <3> QED BY <3>1
    <2> QED BY <2>1, <2>2, <2>3
  <1> QED BY <1>2, <1>3, <1>5, <1>6, <1>7 DEF HistoryRing

\* In every reachable state each slot of the message ring holds the newest
\* message whose id falls on it, whatever MAX_MSG is.
THEOREM HistoryCorrect == Spec => []HistoryRing
  <1>1. Init => ITypeOK /\ HistoryRing
    BY Sizes, InitType DEF Init, HistoryRing
  <1>2. ITypeOK /\ HistoryRing /\ [Next]_vars => (ITypeOK /\ HistoryRing)'
    <2> SUFFICES ASSUME ITypeOK, HistoryRing, [Next]_vars
                 PROVE  (ITypeOK /\ HistoryRing)'
      OBVIOUS
    <2>1. CASE UNCHANGED msgVars
      BY <2>1, NextType DEF msgVars, HistoryRing
    <2> QED BY <2>1, NextType, MsgStep, AppendRing
  <1> QED BY <1>1, <1>2, PTL DEF Spec

----------------------------------------------------------------------------
(* The screens.  ShowNext prints the slot of the next id, and the slot     *)
(* holds a message of that id or of one that has overrun it.               *)

\* What is printed when id is due.
LEMMA SlotHolds ==
    ASSUME ITypeOK, HistoryRing, NEW id \in 1..next_msg_id
    PROVE  LET m == msg[(id - 1) % MaxMsg].id IN
           /\ m \in Nat /\ m >= id /\ m <= next_msg_id /\ m % MaxMsg = id % MaxMsg
           /\ m # id => next_msg_id > MaxMsg
  <1>1. /\ MaxMsg \in Nat /\ MaxMsg > 0 /\ next_msg_id \in Nat
        /\ Len(published) = next_msg_id
        /\ \A k \in 1..next_msg_id : published[k].id = k
        /\ \A k \in 1..next_msg_id :
              k + MaxMsg > next_msg_id => msg[(k - 1) % MaxMsg] = published[k]
    BY Sizes DEF ITypeOK, TypeOK, HistoryRing
  <1>2. PICK j \in id..next_msg_id :
            /\ j + MaxMsg > next_msg_id
            /\ j % MaxMsg = id % MaxMsg /\ (j - 1) % MaxMsg = (id - 1) % MaxMsg
            /\ j # id => next_msg_id > MaxMsg
    <2>1. MaxMsg \in Nat /\ MaxMsg > 0 /\ next_msg_id \in Nat
      BY <1>1
    <2> QED BY <2>1, ModNewest
  <1>3. msg[(j - 1) % MaxMsg] = published[j] /\ published[j].id = j
    <2>1. j \in 1..next_msg_id
      BY <1>1
    <2> QED BY <1>1, <1>2, <2>1
  <1>4. msg[(id - 1) % MaxMsg].id = j
    BY <1>2, <1>3
  <1>5. j \in Nat /\ j >= id /\ j <= next_msg_id
    BY <1>1
  <1> QED BY <1>2, <1>4, <1>5

\* The part of DisplayFaithful that is about one screen.
ScreenOK(c) ==
    /\ Len(shown[c]) = seen[c] /\ seen[c] <= next_msg_id
    /\ \A k \in 1..seen[c] : /\ shown[c][k] >= k
                             /\ shown[c][k] % MaxMsg = k % MaxMsg
                             /\ shown[c][k] # k => next_msg_id > MaxMsg

\* Printing one message keeps the screen right.
LEMMA ShowScreen ==
    ASSUME ITypeOK, HistoryRing, DisplayFaithful, NEW c \in Clients, ShowNext(c)
    PROVE  DisplayFaithful'
  <1> DEFINE id == seen[c] + 1
             m == msg[(id - 1) % MaxMsg].id
  <1>1. /\ seen' = [seen EXCEPT ![c] = id] /\ shown' = [shown EXCEPT ![c] = Append(@, m)]
        /\ next_msg_id' = next_msg_id /\ id <= next_msg_id
    BY DEF ShowNext, serverSide, msgVars
  <1>2. /\ seen \in [Clients -> Nat] /\ shown \in [Clients -> Seq(Nat)]
        /\ next_msg_id \in Nat /\ MaxMsg \in Nat
    BY Sizes DEF ITypeOK, TypeOK
  <1>3. /\ m \in Nat /\ m >= id /\ m % MaxMsg = id % MaxMsg
        /\ m # id => next_msg_id > MaxMsg
    <2>1. id \in 1..next_msg_id
      BY <1>1, <1>2
    <2> HIDE DEF id
    <2> QED BY <2>1, SlotHolds
  <1> HIDE DEF m
  <1>4. \A d \in Clients : ScreenOK(d)
    BY DEF DisplayFaithful, ScreenOK
  <1>5. ScreenOK(c)'
    <2>1. seen'[c] = id /\ shown'[c] = Append(shown[c], m) /\ shown[c] \in Seq(Nat)
      BY <1>1, <1>2
    <2>2. Len(shown[c]) = seen[c] /\ seen[c] \in Nat
      BY <1>2, <1>4 DEF ScreenOK
    <2>3. /\ Len(shown'[c]) = id /\ shown'[c][id] = m
          /\ \A k \in 1..seen[c] : shown'[c][k] = shown[c][k]
      BY <2>1, <2>2, <1>3
    <2>4. ASSUME NEW k \in 1..id
          PROVE  /\ shown'[c][k] >= k
                 /\ shown'[c][k] % MaxMsg = k % MaxMsg
                 /\ shown'[c][k] # k => next_msg_id > MaxMsg
      <3>1. CASE k = id
        BY <1>3, <2>3, <3>1
      <3>2. CASE k \in 1..seen[c]
        BY <1>4, <2>3, <3>2 DEF ScreenOK
      <3> QED BY <2>2, <3>1, <3>2
    <2> QED BY <1>1, <2>1, <2>3, <2>4 DEF ScreenOK
  <1>6. ASSUME NEW d \in Clients, d # c
        PROVE  ScreenOK(d)'
    <2>1. seen'[d] = seen[d] /\ shown'[d] = shown[d] /\ next_msg_id' = next_msg_id
      BY <1>1, <1>2, <1>6
    <2>2. ScreenOK(d)
      BY <1>4
    <2> QED BY <2>1, <2>2 DEF ScreenOK
  <1> QED BY <1>5, <1>6 DEF DisplayFaithful, ScreenOK

\* A message more in the history makes no screen wrong.
LEMMA AppendScreen ==
    ASSUME ITypeOK, DisplayFaithful, UNCHANGED viewVars, next_msg_id' \in Nat,
           next_msg_id' >= next_msg_id
    PROVE  DisplayFaithful'
  <1>1. /\ seen \in [Clients -> Nat] /\ next_msg_id \in Nat /\ MaxMsg \in Nat
        /\ seen' = seen /\ shown' = shown
    BY Sizes DEF ITypeOK, TypeOK, viewVars
  <1>2. ASSUME NEW c \in Clients
        PROVE  ScreenOK(c)'
    <2>1. ScreenOK(c) /\ seen[c] \in Nat
      BY <1>1 DEF DisplayFaithful, ScreenOK
    <2>2. seen[c] <= next_msg_id'
      BY <1>1, <2>1 DEF ScreenOK
    <2>3. next_msg_id > MaxMsg => next_msg_id' > MaxMsg
      BY <1>1
    <2> QED BY <1>1, <2>1, <2>2, <2>3 DEF ScreenOK
  <1> QED BY <1>2 DEF DisplayFaithful, ScreenOK

\* Only ShowNext changes a screen or a cursor.
LEMMA ViewStep ==
    ASSUME [Next]_vars
    PROVE  UNCHANGED viewVars \/ \E c \in Clients : ShowNext(c)
  <1>1. CASE UNCHANGED vars
    BY <1>1 DEF vars, viewVars
  <1>2. CASE ServerStep \/ ServerStop
    BY <1>2 DEF ServerStep, clientSide, CreateShm, ServerLock, Hello, ServerWait,
                ServerPop, DrainDone, ServerStop
  <1>3. ASSUME NEW c \in Clients, Start(c) \/ MainStep(c) \/ UserInput(c) \/ Kill(c)
        PROVE  UNCHANGED viewVars
    BY <1>3 DEF MainStep, Start, PollInit, MainLock, PushWait, Push,
                CreateThread, Prompt, UserInput, QuitNotify, Join, Kill
  <1>4. ASSUME NEW c \in Clients, RecvStep(c)
        PROVE  UNCHANGED viewVars \/ ShowNext(c)
    BY <1>4 DEF RecvStep, RecvLock, NothingNew, Sleep, Redraw, LoopTest
  <1> QED BY <1>1, <1>2, <1>3, <1>4 DEF Next

\* The k-th line on every screen is message k, or a newer one that has taken
\* its slot in a ring that was overrun, whatever MAX_MSG is.
THEOREM DisplayCorrect == Spec => []DisplayFaithful
  <1> DEFINE Inv == ITypeOK /\ HistoryRing /\ DisplayFaithful
  <1>1. Init => Inv
    BY Sizes, InitType DEF Init, HistoryRing, DisplayFaithful
  <1>2. Inv /\ [Next]_vars => Inv'
    <2> SUFFICES ASSUME ITypeOK, HistoryRing, DisplayFaithful, [Next]_vars
                 PROVE  (ITypeOK /\ HistoryRing /\ DisplayFaithful)'
      OBVIOUS
    <2>1. ITypeOK' /\ next_msg_id' \in Nat /\ next_msg_id \in Nat
      BY NextType DEF ITypeOK, TypeOK
    <2>2. HistoryRing' /\ next_msg_id' >= next_msg_id
      <3>1. CASE UNCHANGED msgVars
        BY <2>1, <3>1 DEF msgVars, HistoryRing
      <3>2. ASSUME NEW kind, NEW who, NEW text, append_msg(kind, who, text)
            PROVE  HistoryRing' /\ next_msg_id' >= next_msg_id
        <4>1. next_msg_id' = next_msg_id + 1
          BY <3>2 DEF append_msg
        <4>2. HistoryRing'
          BY <3>2, AppendRing
        <4> QED BY <2>1, <4>1, <4>2
      <3> QED BY <3>1, <3>2, MsgStep
    <2>3. DisplayFaithful'
      BY <2>1, <2>2, ViewStep, ShowScreen, AppendScreen
    <2> QED BY <2>1, <2>2, <2>3
  <1>3. Inv => DisplayFaithful
    OBVIOUS
  <1> QED BY <1>1, <1>2, <1>3, PTL DEF Spec

----------------------------------------------------------------------------
(* The service.  The invariants above, one about what was printed and one  *)
(* about the greeting make every step of the chat a step of ChatService,   *)
(* or one that ChatService does not see.                                   *)

\* What is on a screen was published.
Printed == \A c \in Clients : \A k \in 1..Len(shown[c]) : shown[c][k] \in 1..next_msg_id

\* Nothing is published before the greeting.
Greeted == srv \in {"create", "truncate", "setup", "hello"} => published = <<>>

ServiceInv == ITypeOK /\ InboxFaithful /\ HistoryRing /\ DisplayFaithful /\ Printed /\ Greeted

\* the state of the service
Queued == SubSeq(sent, taken + 1, Len(sent))
Screen(c) == [k \in DOMAIN shown[c] |-> published[shown[c][k]]]

\* An item pushed is the last one that waits; an item popped was the first one.
LEMMA PushQueued ==
    ASSUME ITypeOK, InboxFaithful, NEW item \in Item, inbox_push(item)
    PROVE  Queued' = Append(Queued, item)
  <1> DEFINE n == Len(sent)
  <1>1. /\ n \in Nat /\ taken \in Nat /\ taken <= n /\ taken' = taken
        /\ sent \in Seq(Item) /\ sent' \in Seq(Item) /\ Len(sent') = n + 1
        /\ sent'[n + 1] = item /\ \A k \in 1..n : sent'[k] = sent[k]
    BY DEF ITypeOK, TypeOK, InboxFaithful, Pending, inbox_push
  <1> HIDE DEF n
  <1>2. Queued' = SubSeq(sent', taken + 1, n + 1)
    BY <1>1 DEF Queued
  <1>3. /\ Queued' \in Seq(Item) /\ Len(Queued') = n + 1 - taken
        /\ \A i \in 1..(n + 1 - taken) : Queued'[i] = sent'[taken + i]
    <2>1. \A i \in (taken + 1)..(n + 1) : sent'[i] \in Item
      BY <1>1
    <2>2. taken + 1 \in Int /\ n + 1 \in Int /\ taken + 1 <= n + 1
          /\ (n + 1) - (taken + 1) + 1 = n + 1 - taken
          /\ \A i \in 1..(n + 1 - taken) : (taken + 1) + i - 1 = taken + i
      BY <1>1
    <2> QED BY <1>2, <2>1, <2>2, SubSeqProperties
  <1>4. /\ Queued \in Seq(Item) /\ Len(Queued) = n - taken
        /\ \A i \in 1..(n - taken) : Queued[i] = sent[taken + i]
    <2>1. \A i \in (taken + 1)..n : sent[i] \in Item
      BY <1>1 DEF n
    <2>2. taken + 1 \in Int /\ n \in Int
          /\ n - (taken + 1) + 1 = n - taken /\ (taken + 1 <= n \/ n - taken = 0)
          /\ \A i \in 1..(n - taken) : (taken + 1) + i - 1 = taken + i
      BY <1>1
    <2> QED BY <2>1, <2>2, SubSeqProperties DEF Queued, n
  <1>5. /\ Append(Queued, item) \in Seq(Item) /\ Len(Append(Queued, item)) = n + 1 - taken
        /\ \A i \in 1..(n - taken) : Append(Queued, item)[i] = Queued[i]
        /\ Append(Queued, item)[n + 1 - taken] = item
    BY <1>1, <1>4, AppendProperties
  <1>6. ASSUME NEW i \in 1..(n + 1 - taken)
        PROVE  Queued'[i] = Append(Queued, item)[i]
    <2>1. CASE i = n + 1 - taken
      <3>1. taken + i = n + 1
        BY <1>1, <2>1
      <3> QED BY <1>1, <1>3, <1>5, <2>1, <3>1
    <2>2. CASE i \in 1..(n - taken)
      <3>1. taken + i \in 1..n
        BY <1>1, <2>2
      <3> QED BY <1>1, <1>3, <1>4, <1>5, <2>2, <3>1
    <2>3. n \in Nat /\ taken \in Nat /\ i \in 1..(n + 1 - taken)
      BY <1>1
    <2>4. i = n + 1 - taken \/ i \in 1..(n - taken)
      BY <2>3
    <2> QED BY <2>1, <2>2, <2>4
  <1> QED BY <1>3, <1>5, <1>6, SeqEqual

LEMMA PopQueued ==
    ASSUME ITypeOK, InboxFaithful, inbox_pop
    PROVE  /\ Queued # <<>> /\ Head(Queued) = inbox[head] /\ Queued' = Tail(Queued)
           /\ inbox[head] \in Item
  <1>1. /\ sent \in Seq(Item) /\ Len(sent) \in Nat /\ taken \in Nat /\ taken < Len(sent)
        /\ taken' = taken + 1 /\ sent' = sent
    BY EmptyWhenNonePending DEF ITypeOK, TypeOK, InboxFaithful, Pending, inbox_pop
  <1>2. inbox[head] = sent[taken + 1]
    BY <1>1 DEF InboxFaithful
  <1>3. taken + 1 \in 1..Len(sent) /\ Len(sent) \in (taken + 1)..Len(sent)
    BY <1>1
  <1>4. Head(Queued) = sent[taken + 1] /\ Tail(Queued) = SubSeq(sent, taken + 2, Len(sent))
    BY <1>1, <1>3, HeadTailOfSubSeq DEF Queued
  <1>5. Queued # <<>>
    <2>1. Len(Queued) = Len(sent) - (taken + 1) + 1
      BY <1>1, <1>3, SubSeqProperties DEF Queued
    <2> QED BY <1>1, <2>1
  <1>6. Queued' = Tail(Queued)
    BY <1>1, <1>4 DEF Queued
  <1>7. sent[taken + 1] \in Item
    BY <1>1, <1>3
  <1> QED BY <1>2, <1>4, <1>5, <1>6, <1>7

\* The lines on a screen do not change when the history grows.
LEMMA ScreensKept ==
    ASSUME ITypeOK, HistoryRing, Printed, shown' = shown,
           \A k \in 1..next_msg_id : published'[k] = published[k]
    PROVE  [c \in Clients |-> Screen(c)]' = [c \in Clients |-> Screen(c)]
  <1>1. ASSUME NEW c \in Clients
        PROVE  [k \in DOMAIN shown[c] |-> published'[shown[c][k]]] = Screen(c)
    <2>1. DOMAIN shown[c] = 1..Len(shown[c])
      BY DEF ITypeOK, TypeOK
    <2>2. \A k \in DOMAIN shown[c] : published'[shown[c][k]] = published[shown[c][k]]
      BY <2>1 DEF Printed
    <2> QED BY <2>2 DEF Screen
  <1> QED BY <1>1 DEF Screen

\* What append_msg adds, and that it changes no entry before it.
LEMMA AppendLog ==
    ASSUME ITypeOK, HistoryRing, NEW kind, NEW who, NEW text, append_msg(kind, who, text)
    PROVE  /\ published' = Append(published, [id |-> Len(published) + 1, kind |-> kind,
                                              name |-> who, text |-> text])
           /\ \A k \in 1..next_msg_id : published'[k] = published[k]
           /\ next_msg_id' = next_msg_id + 1
  BY DEF append_msg, ITypeOK, TypeOK, HistoryRing

\* A client whose cursor is not more than MaxMsg behind prints the next entry of
\* the log.
LEMMA ShowLog ==
    ASSUME ServiceInv, NEW c \in Clients, ShowNext(c), ~Overrun(c)
    PROVE  /\ Len(Screen(c)) < Len(published)
           /\ [d \in Clients |-> Screen(d)]' =
                [[d \in Clients |-> Screen(d)] EXCEPT
                    ![c] = Append(@, published[Len(@) + 1])]
  <1> DEFINE id == seen[c] + 1
  <1>1. /\ seen \in [Clients -> Nat] /\ shown \in [Clients -> Seq(Nat)]
        /\ next_msg_id \in Nat /\ MaxMsg \in Nat /\ published \in Seq(Message)
        /\ Len(published) = next_msg_id /\ Len(shown[c]) = seen[c] /\ seen[c] \in Nat
    BY Sizes DEF ServiceInv, ITypeOK, TypeOK, HistoryRing, DisplayFaithful
  <1>2. /\ id <= next_msg_id /\ published' = published
        /\ seen' = [seen EXCEPT ![c] = id]
        /\ shown' = [shown EXCEPT ![c] = Append(@, msg[(id - 1) % MaxMsg].id)]
    BY DEF ShowNext, serverSide, msgVars
  <1>3. msg[(id - 1) % MaxMsg].id = id /\ id \in 1..next_msg_id
    <2>1. seen'[c] = id
      BY <1>1, <1>2
    <2>2. id + MaxMsg > next_msg_id
      BY <1>1, <2>1 DEF Overrun
    <2>3. id \in 1..next_msg_id
      BY <1>1, <1>2
    <2> HIDE DEF id
    <2>4. msg[(id - 1) % MaxMsg] = published[id] /\ published[id].id = id
      BY <1>1, <2>2, <2>3 DEF ServiceInv, HistoryRing
    <2> QED BY <2>3, <2>4
  <1>4. /\ shown'[c] = Append(shown[c], id)
        /\ \A d \in Clients : d # c => shown'[d] = shown[d]
    BY <1>1, <1>2, <1>3
  <1>5. /\ Len(shown[c]) + 1 = id /\ DOMAIN shown[c] = 1..seen[c]
        /\ DOMAIN Append(shown[c], id) = 1..id
        /\ \A k \in 1..seen[c] : Append(shown[c], id)[k] = shown[c][k]
        /\ Append(shown[c], id)[id] = id
    BY <1>1
  <1>6. Screen(c) \in Seq(Message) /\ Len(Screen(c)) = seen[c]
    <2>1. \A k \in 1..seen[c] : published[shown[c][k]] \in Message
      BY <1>1 DEF ServiceInv, Printed
    <2>2. Screen(c) \in [1..seen[c] -> Message]
      BY <1>5, <2>1 DEF Screen
    <2>3. Screen(c) \in Seq(Message)
      <3>1. seen[c] \in Nat
        BY <1>1
      <3> QED BY <2>2, <3>1, SeqDef, Zenon
    <2>4. 1..Len(Screen(c)) = 1..seen[c] /\ Len(Screen(c)) \in Nat
      BY <2>2, <2>3, LenProperties
    <2> QED BY <1>1, <2>3, <2>4
  <1>7. Screen(c)' = Append(Screen(c), published[id])
    <2>1. Screen(c)' = [k \in 1..id |-> published[Append(shown[c], id)[k]]]
      BY <1>2, <1>4, <1>5 DEF Screen
    <2>2. published[id] \in Message
      BY <1>1, <1>3
    <2>3. /\ Append(Screen(c), published[id]) \in Seq(Message)
          /\ Len(Append(Screen(c), published[id])) = id
          /\ \A k \in 1..seen[c] : Append(Screen(c), published[id])[k] = published[shown[c][k]]
          /\ Append(Screen(c), published[id])[id] = published[id]
      <3>1. /\ Append(Screen(c), published[id]) \in Seq(Message)
            /\ Len(Append(Screen(c), published[id])) = seen[c] + 1
            /\ \A k \in 1..seen[c] : Append(Screen(c), published[id])[k] = Screen(c)[k]
            /\ Append(Screen(c), published[id])[seen[c] + 1] = published[id]
        BY <1>6, <2>2, AppendProperties
      <3>2. \A k \in 1..seen[c] : Screen(c)[k] = published[shown[c][k]]
        BY <1>5 DEF Screen
      <3> QED BY <3>1, <3>2
    <2>4. \A k \in 1..id : published[Append(shown[c], id)[k]]
                              = Append(Screen(c), published[id])[k]
      <3>1. \A k \in 1..id : k = id \/ k \in 1..seen[c]
        BY <1>1
      <3> QED BY <1>5, <2>3, <3>1
    <2>5. Append(Screen(c), published[id])
             = [k \in 1..id |-> Append(Screen(c), published[id])[k]]
      BY <2>3
    <2> HIDE DEF id
    <2> QED BY <2>1, <2>4, <2>5
  <1>8. \A d \in Clients : d # c => Screen(d)' = Screen(d)
    BY <1>2, <1>4 DEF Screen
  <1>9. Len(Screen(c)) < Len(published) /\ Len(Screen(c)) + 1 = id
    BY <1>1, <1>2, <1>6
  <1> QED BY <1>7, <1>8, <1>9

\* What is printed is an entry of the log.
LEMMA PrintedStep ==
    ASSUME ServiceInv, [Next]_vars PROVE Printed'
  <1>1. next_msg_id' >= next_msg_id /\ next_msg_id' \in Nat /\ next_msg_id \in Nat
    <2>1. next_msg_id' \in Nat /\ next_msg_id \in Nat
      BY NextType DEF ServiceInv, ITypeOK, TypeOK
    <2>2. next_msg_id' = next_msg_id \/ next_msg_id' = next_msg_id + 1
      BY MsgStep DEF ServiceInv, msgVars, append_msg
    <2> QED BY <2>1, <2>2
  <1>2. CASE UNCHANGED viewVars
    BY <1>1, <1>2 DEF viewVars, ServiceInv, Printed
  <1>3. ASSUME NEW c \in Clients, ShowNext(c) PROVE Printed'
    <2> DEFINE id == seen[c] + 1
               m == msg[(id - 1) % MaxMsg].id
    <2>1. /\ shown \in [Clients -> Seq(Nat)] /\ seen \in [Clients -> Nat]
          /\ shown' = [shown EXCEPT ![c] = Append(@, m)]
          /\ next_msg_id' = next_msg_id /\ id \in 1..next_msg_id
      BY <1>1, <1>3 DEF ServiceInv, ITypeOK, TypeOK, ShowNext, serverSide, msgVars
    <2>2. m \in 1..next_msg_id
      <3>1. m \in Nat /\ m >= id /\ m <= next_msg_id /\ id >= 1
        <4>1. id >= 1
          BY <2>1
        <4> HIDE DEF id
        <4> QED BY <2>1, <4>1, SlotHolds DEF ServiceInv
      <3> QED BY <1>1, <2>1, <3>1
    <2> HIDE DEF m
    <2>3. ASSUME NEW d \in Clients, NEW k \in 1..Len(shown'[d])
          PROVE  shown'[d][k] \in 1..next_msg_id
      <3>1. CASE d = c
        <4>1. /\ shown'[d] = Append(shown[c], m) /\ Len(shown'[d]) = Len(shown[c]) + 1
              /\ Len(shown[c]) \in Nat
          BY <1>1, <2>1, <2>2, <3>1
        <4>2. k \in 1..Len(shown[c]) \/ k = Len(shown[c]) + 1
          BY <4>1
        <4>3. CASE k \in 1..Len(shown[c])
          BY <2>1, <4>1, <4>3 DEF ServiceInv, Printed
        <4>4. CASE k = Len(shown[c]) + 1
          BY <2>1, <2>2, <4>1, <4>4
        <4> QED BY <4>2, <4>3, <4>4
      <3>2. CASE d # c
        BY <2>1, <3>2 DEF ServiceInv, Printed
      <3> QED BY <3>1, <3>2
    <2> QED BY <2>1, <2>3 DEF Printed
  <1> QED BY <1>2, <1>3, ViewStep

\* Only the greeting opens the log.
LEMMA GreetedStep ==
    ASSUME ServiceInv, [Next]_vars PROVE Greeted'
  <1>1. CASE Hello \/ ServerPop \/ ServerLock \/ ServerWait \/ DrainDone \/ ServerStop
    BY <1>1 DEF Hello, ServerPop, ServerLock, ServerWait, DrainDone, ServerStop, Greeted,
                ServiceInv, srvVars, msgVars
  <1>2. CASE CreateShm
    BY <1>2 DEF CreateShm, Greeted, ServiceInv, msgVars
  <1>3. ASSUME UNCHANGED <<srv, published>> PROVE Greeted'
    BY <1>3 DEF Greeted, ServiceInv
  <1>4. ASSUME NEW c \in Clients,
               Start(c) \/ MainStep(c) \/ UserInput(c) \/ Kill(c) \/ RecvStep(c)
        PROVE  UNCHANGED <<srv, published>>
    BY <1>4 DEF serverSide, srvVars, msgVars, MainStep, Start, PollInit, MainLock, PushWait,
                Push, CreateThread, Prompt, UserInput, QuitNotify, Join, Kill, RecvStep,
                RecvLock, ShowNext, NothingNew, Sleep, Redraw, LoopTest
  <1>5. CASE UNCHANGED vars
    BY <1>3, <1>5 DEF vars
  <1> QED BY <1>1, <1>2, <1>3, <1>4, <1>5 DEF Next, ServerStep

\* The invariants together are inductive.
LEMMA ServiceInvStep == ServiceInv /\ [Next]_vars => ServiceInv'
  <1> SUFFICES ASSUME ServiceInv, [Next]_vars PROVE ServiceInv'
    OBVIOUS
  <1> USE DEF ServiceInv
  <1>1. ITypeOK' /\ next_msg_id' \in Nat /\ next_msg_id \in Nat
    BY NextType DEF ITypeOK, TypeOK
  <1>2. InboxFaithful'
    BY InboxStep, PushFaithful, PopFaithful DEF inboxVars, InboxFaithful, Pending
  <1>3. HistoryRing' /\ next_msg_id' >= next_msg_id
    <2>1. CASE UNCHANGED msgVars
      BY <1>1, <2>1 DEF msgVars, HistoryRing
    <2>2. ASSUME NEW kind, NEW who, NEW text, append_msg(kind, who, text)
          PROVE  HistoryRing' /\ next_msg_id' >= next_msg_id
      <3>1. HistoryRing'
        BY <2>2, AppendRing
      <3>2. next_msg_id' = next_msg_id + 1
        BY <2>2 DEF append_msg
      <3> QED BY <1>1, <3>1, <3>2
    <2> QED BY <2>1, <2>2, MsgStep
  <1>4. DisplayFaithful'
    BY <1>1, <1>3, ViewStep, ShowScreen, AppendScreen
  <1> QED BY <1>1, <1>2, <1>3, <1>4, PrintedStep, GreetedStep

\* The state of the service in these terms.
LEMMA MappedState ==
    /\ Service!ServiceInit <=> (/\ Queued = <<>> /\ published = <<>>
                                /\ [c \in Clients |-> Screen(c)] = [c \in Clients |-> <<>>])
    /\ Service!serviceVars = <<Queued, published, [c \in Clients |-> Screen(c)]>>
  BY DEF Service!ServiceInit, Service!serviceVars, Queued, Screen

\* Every step of the chat is one of the service, or none, or shows a client that
\* was overrun.
LEMMA ServiceStep ==
    ASSUME ServiceInv, [Next]_vars
    PROVE  [Service!ServiceNext \/ \E c \in Clients : Overrun(c)]_(Service!serviceVars)
  <1> DEFINE screens == [c \in Clients |-> Screen(c)]
  <1>1. ASSUME UNCHANGED <<sent, taken, published, shown>>
        PROVE  UNCHANGED Service!serviceVars
    BY <1>1 DEF Service!serviceVars
  <1>2. ASSUME NEW item \in Item, inbox_push(item), UNCHANGED <<published, shown>>
        PROVE  Service!Submit
    <2>1. Queued' = Append(Queued, item) /\ screens' = screens
      BY <1>2, PushQueued DEF ServiceInv, Screen
    <2> QED BY <1>2, <2>1 DEF Service!Submit, Queued, Screen
  <1>3. CASE Hello
    <2>1. append_msg("start", NoName, 0) /\ UNCHANGED <<sent, taken, shown>>
      BY <1>3 DEF Hello, inboxVars, clientSide, viewVars
    <2>2. published = <<>>
      BY <1>3 DEF Hello, ServiceInv, Greeted
    <2>3. screens' = screens
      BY <2>1, AppendLog, ScreensKept DEF ServiceInv
    <2>4. Service!Record({"start"}, NoName, 0)
      BY <2>1, AppendLog DEF Service!Record, ServiceInv
    <2>5. Service!Greet
      BY <2>1, <2>2, <2>3, <2>4 DEF Service!Greet, Screen
    <2> QED BY <2>5 DEF Service!ServiceNext
  <1>4. CASE ServerPop
    <2> DEFINE item == inbox[head]
    <2>1. /\ inbox_pop /\ shown' = shown
          /\ \/ item.type = "join" /\ HandleJoin(item.name)
             \/ item.type = "chat" /\ HandleChat(item)
      BY <1>4 DEF ServerPop, clientSide, viewVars
    <2>2. /\ Queued # <<>> /\ Head(Queued) = item /\ Queued' = Tail(Queued)
      BY <2>1, PopQueued DEF ServiceInv
    <2> HIDE DEF item
    <2>3. /\ screens' = screens
          /\ \/ item.type = "chat" /\ Service!Record({"chat"}, item.name, item.text)
             \/ item.type = "join" /\ Service!Record({"join", "warn"}, item.name, 0)
             \/ item.type = "join" /\ UNCHANGED published
      <3>1. CASE item.type = "chat" /\ HandleChat(item)
        <4>1. append_msg("chat", item.name, item.text)
          BY <3>1 DEF HandleChat
        <4>2. screens' = screens
          BY <2>1, <4>1, AppendLog, ScreensKept DEF ServiceInv
        <4>3. Service!Record({"chat"}, item.name, item.text)
          BY <4>1, AppendLog DEF Service!Record, ServiceInv
        <4> QED BY <3>1, <4>2, <4>3
      <3>2. CASE item.type = "join" /\ HandleJoin(item.name)
        <4>1. CASE UNCHANGED published
          <5>1. screens' = screens
            BY <2>1, <4>1 DEF Screen
          <5> QED BY <3>2, <4>1, <5>1
        <4>2. ASSUME NEW kind \in {"join", "warn"}, append_msg(kind, item.name, 0)
              PROVE  screens' = screens /\ Service!Record({"join", "warn"}, item.name, 0)
          <5>1. screens' = screens
            BY <2>1, <4>2, AppendLog, ScreensKept DEF ServiceInv
          <5>2. Service!Record({"join", "warn"}, item.name, 0)
            BY <4>2, AppendLog DEF Service!Record, ServiceInv
          <5> QED BY <5>1, <5>2
        <4>3. \/ UNCHANGED published
              \/ \E kind \in {"join", "warn"} : append_msg(kind, item.name, 0)
          BY <3>2 DEF HandleJoin, msgVars
        <4> QED BY <3>2, <4>1, <4>2, <4>3
      <3> QED BY <2>1, <3>1, <3>2
    <2>4. Service!Handle
      BY <2>2, <2>3 DEF Service!Handle, Queued, Screen
    <2> QED BY <2>4 DEF Service!ServiceNext
  <1>5. ASSUME NEW c \in Clients, ShowNext(c), ~Overrun(c)
        PROVE  Service!Show(c)
    <2>1. UNCHANGED <<sent, taken, published>>
      BY <1>5 DEF ShowNext, inboxVars, serverSide, msgVars
    <2>2. /\ Len(Screen(c)) < Len(published)
          /\ screens' = [screens EXCEPT ![c] = Append(@, published[Len(@) + 1])]
          /\ screens[c] = Screen(c)
      BY <1>5, ShowLog
    <2> QED BY <2>1, <2>2 DEF Service!Show, Screen
  <1>6. ASSUME NEW c \in Clients, Push(c) PROVE Service!Submit
    BY <1>2, <1>6, DraftType DEF Push, ServiceInv, serverSide, msgVars, viewVars
  <1>7. CASE CreateShm \/ ServerLock \/ ServerWait \/ DrainDone \/ ServerStop
    BY <1>1, <1>7 DEF CreateShm, ServerLock, ServerWait, DrainDone, ServerStop,
                      inboxVars, msgVars, clientSide, viewVars
  <1>8. ASSUME NEW c \in Clients, ~Push(c), ~ShowNext(c),
               Start(c) \/ MainStep(c) \/ UserInput(c) \/ Kill(c) \/ RecvStep(c)
        PROVE  UNCHANGED <<sent, taken, published, shown>>
    BY <1>8 DEF serverSide, msgVars, inboxVars, viewVars, MainStep, Start, PollInit,
                MainLock, PushWait, CreateThread, Prompt, UserInput, QuitNotify, Join, Kill,
                RecvStep, RecvLock, NothingNew, Sleep, Redraw, LoopTest
  <1>9. CASE UNCHANGED vars
    BY <1>1, <1>9 DEF vars
  <1>10. ASSUME NEW c \in Clients,
                Start(c) \/ MainStep(c) \/ UserInput(c) \/ Kill(c) \/ RecvStep(c)
         PROVE  [Service!ServiceNext \/ \E d \in Clients : Overrun(d)]_(Service!serviceVars)
    BY <1>1, <1>5, <1>6, <1>8, <1>10 DEF Service!ServiceNext
  <1> QED BY <1>3, <1>4, <1>7, <1>9, <1>10 DEF Next, ServerStep

\* The chat of lab14/chat is the service that ChatService describes: every item a
\* client pushes is handled once, in the order of the pushes, every message gets
\* the next place of one log, and every screen follows that log, but for the
\* lines a client that fell more than MAX_MSG messages behind gets.
THEOREM ChatIsService == Spec => ImplementsService
  <1>1. Init => ServiceInv /\ Service!ServiceInit
    <2> SUFFICES ASSUME Init PROVE ServiceInv /\ Service!ServiceInit
      OBVIOUS
    <2>1. ITypeOK /\ InboxFaithful
      <3>1. 0 % MaxInbox = 0
        BY Sizes, ModRange
      <3> QED BY <3>1, Sizes, InitType DEF Init, InboxFaithful, Pending
    <2>2. HistoryRing /\ DisplayFaithful /\ Printed /\ Greeted
      BY Sizes DEF Init, HistoryRing, DisplayFaithful, Printed, Greeted
    <2>3. Queued = <<>>
      BY SubSeqEmpty DEF Init, Queued
    <2>4. [c \in Clients |-> Screen(c)] = [c \in Clients |-> <<>>]
      <3>1. ASSUME NEW c \in Clients PROVE Screen(c) = <<>>
        BY DEF Init, Screen
      <3> QED BY <3>1
    <2> QED BY <2>1, <2>2, <2>3, <2>4, MappedState DEF Init, ServiceInv
  <1> QED BY <1>1, ServiceInvStep, ServiceStep, PTL DEF Spec, ImplementsService

----------------------------------------------------------------------------
(* The table of names.  Only the server's handling of a JOIN touches it.    *)

\* The invariant that keeps the table: a name is in it exactly if it was announced,
\* nobody was warned about before the table was full, and each JOIN that was handled
\* has one outcome or the other.
Said(kind, n) == \E m \in 1..Len(published) : published[m].kind = kind /\ published[m].name = n
TableFull == Len(client_name) = MaxClient
TableInv ==
    /\ Len(client_name) <= MaxClient
    /\ \A i, j \in 1..Len(client_name) : client_name[i] = client_name[j] => i = j
    /\ \A k \in 1..taken : sent[k].type = "join" =>
          find_client(sent[k].name) \/ (TableFull /\ Said("warn", sent[k].name))
    /\ \A n \in Names : find_client(n) <=> Said("join", n)
    /\ \A m, l \in 1..Len(published) :
          published[m].kind = "join" /\ published[l].kind = "join"
             /\ published[m].name = published[l].name => m = l
    /\ \A n \in Names : Said("warn", n) => TableFull /\ ~find_client(n)

LEMMA TableStated == ASSUME ITypeOK, TableInv PROVE TableIsFirstJoins
  <1>1. /\ DOMAIN client_name = 1..Len(client_name) /\ DOMAIN published = 1..Len(published)
        /\ \A i \in 1..Len(client_name) : client_name[i] \in Names
    BY DEF ITypeOK, TypeOK
  <1>2. \A k \in 1..taken : FirstJoin(k) =>
          \/ find_client(sent[k].name)
          \/ /\ Len(client_name) = MaxClient
             /\ \E m \in DOMAIN published : /\ published[m].kind = "warn"
                                            /\ published[m].name = sent[k].name
    BY <1>1 DEF TableInv, TableFull, Said, FirstJoin
  <1>3. ASSUME NEW i \in DOMAIN client_name
        PROVE  LET about == {m \in DOMAIN published : published[m].name = client_name[i]} IN
               /\ Cardinality({m \in about : published[m].kind = "join"}) = 1
               /\ \A m \in about : published[m].kind # "warn"
    <2> DEFINE about == {m \in DOMAIN published : published[m].name = client_name[i]}
               joins == {m \in about : published[m].kind = "join"}
    <2>1. client_name[i] \in Names /\ find_client(client_name[i])
      BY <1>1, <1>3 DEF find_client
    <2>2. PICK m \in 1..Len(published) :
             published[m].kind = "join" /\ published[m].name = client_name[i]
      BY <2>1 DEF TableInv, Said
    <2>3. joins = {m}
      BY <1>1, <2>2 DEF TableInv
    <2>4. Cardinality(joins) = 1
      BY <2>3, FS_Singleton
    <2>5. \A l \in about : published[l].kind # "warn"
      BY <1>1, <2>1 DEF TableInv, Said
    <2> QED BY <2>4, <2>5
  <1> QED BY <1>1, <1>2, <1>3 DEF TableIsFirstJoins, TableInv

\* What is said after one more message.
LEMMA SaidNext ==
    ASSUME ITypeOK, HistoryRing, NEW kind, NEW who, NEW text, append_msg(kind, who, text)
    PROVE  /\ Len(published') = Len(published) + 1 /\ Len(published) \in Nat
           /\ published'[Len(published) + 1].kind = kind
           /\ published'[Len(published) + 1].name = who
           /\ \A m \in 1..Len(published) : published'[m] = published[m]
           /\ \A k, n : Said(k, n)' <=> (Said(k, n) \/ (k = kind /\ n = who))
  <1> DEFINE len == Len(published)
             new == [id |-> len + 1, kind |-> kind, name |-> who, text |-> text]
  <1>1. published' = Append(published, new) /\ published \in Seq(Message)
    BY AppendLog DEF ITypeOK, TypeOK
  <1>2. /\ len \in Nat /\ Len(published') = len + 1 /\ published'[len + 1] = new
        /\ \A m \in 1..len : published'[m] = published[m]
    BY <1>1
  <1>3. new.kind = kind /\ new.name = who
    OBVIOUS
  <1> HIDE DEF len, new
  <1>4. ASSUME NEW k, NEW n
        PROVE  (\E m \in 1..Len(published') : published'[m].kind = k /\ published'[m].name = n)
                 <=> ((\E m \in 1..len : published[m].kind = k /\ published[m].name = n)
                        \/ (k = kind /\ n = who))
    <2>1. \A m \in 1..(len + 1) : m \in 1..len \/ m = len + 1
      BY <1>2
    <2>2. len + 1 \in 1..(len + 1) /\ 1..len \subseteq 1..(len + 1)
      BY <1>2
    <2> QED BY <1>2, <1>3, <2>1, <2>2
  <1>5. \A k, n : Said(k, n)' <=> (Said(k, n) \/ (k = kind /\ n = who))
    BY <1>4 DEF Said, len
  <1> QED BY <1>2, <1>3, <1>5 DEF len

\* A step handles an item, or appends a message that is no JOIN's, or neither;
\* meanwhile a client may push.
LEMMA TableStep ==
    ASSUME ITypeOK, [Next]_vars
    PROVE  \/ ServerPop
           \/ append_msg("start", NoName, 0) /\ UNCHANGED <<client_name, taken, sent>>
           \/ UNCHANGED <<client_name, taken, sent, published>>
           \/ /\ UNCHANGED <<client_name, taken, published>>
              /\ \E item \in Item : sent' = Append(sent, item)
  <1>1. CASE UNCHANGED vars
    BY <1>1 DEF vars
  <1>2. CASE ServerStep \/ ServerStop
    BY <1>2 DEF ServerStep, ServerStop, CreateShm, ServerLock, Hello, ServerWait, DrainDone,
                inboxVars, msgVars, srvVars
  <1>3. ASSUME NEW c \in Clients, Push(c)
        PROVE  /\ UNCHANGED <<client_name, taken, published>>
               /\ \E item \in Item : sent' = Append(sent, item)
    BY <1>3, DraftType DEF Push, inbox_push, serverSide, srvVars, msgVars
  <1>4. ASSUME NEW c \in Clients, ~Push(c),
               Start(c) \/ MainStep(c) \/ UserInput(c) \/ Kill(c)
        PROVE  UNCHANGED <<client_name, taken, sent, published>>
    BY <1>4 DEF MainStep, Start, PollInit, MainLock, PushWait, CreateThread, Prompt,
                UserInput, QuitNotify, Join, Kill, inboxVars, serverSide, srvVars, msgVars
  <1>5. ASSUME NEW c \in Clients, RecvStep(c)
        PROVE  UNCHANGED <<client_name, taken, sent, published>>
    BY <1>5 DEF RecvStep, RecvLock, ShowNext, NothingNew, Sleep, Redraw, LoopTest,
                inboxVars, serverSide, srvVars, msgVars
  <1> QED BY <1>1, <1>2, <1>3, <1>4, <1>5 DEF Next

\* The handling of a JOIN or a chat line keeps the table.
LEMMA PopTable ==
    ASSUME ITypeOK, InboxFaithful, HistoryRing, TableInv, ServerPop
    PROVE  TableInv'
  <1> DEFINE item == inbox[head]
  <1>1. /\ inbox_pop /\ taken' = taken + 1 /\ taken \in Nat /\ sent' = sent
        /\ \/ item.type = "join" /\ HandleJoin(item.name)
           \/ item.type = "chat" /\ HandleChat(item)
    BY DEF ServerPop, inbox_pop, ITypeOK, TypeOK
  <1>2. item = sent[taken + 1] /\ item \in Item
    <2>1. Len(sent) - taken # 0 /\ Len(sent) \in Nat /\ taken <= Len(sent)
      <3>1. Len(sent) - taken # 0
        BY <1>1, EmptyWhenNonePending DEF inbox_pop, Pending
      <3>2. Len(sent) \in Nat /\ taken <= Len(sent)
        BY DEF InboxFaithful, ITypeOK, TypeOK
      <3> QED BY <3>1, <3>2
    <2>2. taken \in taken..(Len(sent) - 1)
      BY <1>1, <2>1
    <2> QED BY <1>1, <2>2, PopQueued DEF InboxFaithful
  <1>3. /\ \A k \in 1..taken' : k \in 1..taken \/ k = taken + 1
        /\ Len(client_name) \in Nat /\ MaxClient \in Nat /\ Len(published) \in Nat
        /\ client_name \in Seq(Names)
    BY <1>1, Sizes DEF ITypeOK, TypeOK
  <1> DEFINE who == item.name
  <1>4. who \in Names
    BY <1>2 DEF Item
  <1>5. CASE item.type = "join" /\ find_client(who)
    <2>1. UNCHANGED <<client_name, published>>
      BY <1>1, <1>5 DEF HandleJoin, msgVars
    <2>2. \A k, n : Said(k, n)' <=> Said(k, n)
      BY <2>1 DEF Said
    <2>3. \A n : find_client(n)' <=> find_client(n)
      BY <2>1 DEF find_client
    <2> HIDE DEF item
    <2> QED BY <1>1, <1>2, <1>3, <1>5, <2>1, <2>2, <2>3 DEF TableInv, TableFull
  <1>6. CASE item.type = "join" /\ ~find_client(who) /\ Len(client_name) < MaxClient
    <2>1. client_name' = Append(client_name, who) /\ append_msg("join", who, 0)
      BY <1>1, <1>6 DEF HandleJoin
    <2> HIDE DEF item
    <2> DEFINE len == Len(client_name)
               num == Len(published)
    <2>2. /\ Len(client_name') = len + 1 /\ client_name'[len + 1] = who
          /\ \A i \in 1..len : client_name'[i] = client_name[i]
      BY <1>3, <2>1
    <2>3. \A i \in 1..(len + 1) : i \in 1..len \/ i = len + 1
      BY <1>3
    <2>4. \A n : find_client(n)' <=> (find_client(n) \/ n = who)
      <3>1. len + 1 \in 1..(len + 1) /\ 1..len \subseteq 1..(len + 1)
        BY <1>3
      <3> QED BY <2>2, <2>3, <3>1 DEF find_client
    <2>5. /\ Len(published') = num + 1
          /\ published'[num + 1].kind = "join" /\ published'[num + 1].name = who
          /\ \A m \in 1..num : published'[m] = published[m]
          /\ \A k, n : Said(k, n)' <=> (Said(k, n) \/ (k = "join" /\ n = who))
      BY <2>1, SaidNext
    <2>6. ~Said("join", who) /\ \A n \in Names : ~Said("warn", n)
      BY <1>3, <1>4, <1>6 DEF TableInv, TableFull
    <2>7. Len(client_name') <= MaxClient
      BY <1>3, <1>6, <2>2
    <2>8. \A i, j \in 1..Len(client_name') : client_name'[i] = client_name'[j] => i = j
      BY <1>6, <2>2, <2>3 DEF TableInv, find_client
    <2>9. \A k \in 1..taken' : sent[k].type = "join" =>
             \E i \in 1..Len(client_name') : client_name'[i] = sent[k].name
      <3>0. \A n : find_client(n) \/ n = who => \E i \in 1..Len(client_name') : client_name'[i] = n
        BY <2>4 DEF find_client
      <3>1. ASSUME NEW k \in 1..taken, sent[k].type = "join" PROVE find_client(sent[k].name)
        BY <1>3, <1>6, <3>1 DEF TableInv, TableFull
      <3>2. sent[taken + 1].name = who
        BY <1>2
      <3> QED BY <1>1, <1>3, <3>0, <3>1, <3>2
    <2>10. \A n \in Names : find_client(n)' <=> Said("join", n)'
      BY <2>4, <2>5 DEF TableInv
    <2>11. \A m, l \in 1..Len(published') :
              published'[m].kind = "join" /\ published'[l].kind = "join"
                /\ published'[m].name = published'[l].name => m = l
      <3>1. \A m \in 1..(num + 1) : m \in 1..num \/ m = num + 1
        BY <1>3
      <3>2. \A m \in 1..num : published[m].kind = "join" => published[m].name # who
        BY <2>6 DEF Said
      <3> HIDE DEF num
      <3> QED BY <2>5, <3>1, <3>2 DEF TableInv, num
    <2>12. \A n \in Names : ~Said("warn", n)'
      BY <2>5, <2>6
    <2>13. \A k \in 1..taken' : sent'[k].type = "join" =>
              \E i \in 1..Len(client_name') : client_name'[i] = sent'[k].name
      BY <1>1, <2>9
    <2> QED BY <2>7, <2>8, <2>10, <2>11, <2>12, <2>13 DEF TableInv, find_client
  <1>7. ASSUME NEW kind \in {"warn", "chat"}, NEW text, append_msg(kind, who, text),
               UNCHANGED client_name, kind = "warn" => TableFull /\ ~find_client(who),
               kind = "chat" => item.type # "join"
        PROVE  TableInv'
    <2> HIDE DEF item
    <2> DEFINE num == Len(published)
    <2>1. /\ Len(published') = num + 1
          /\ published'[num + 1].kind = kind
          /\ \A m \in 1..num : published'[m] = published[m]
          /\ \A k, n : Said(k, n)' <=> (Said(k, n) \/ (k = kind /\ n = who))
      BY <1>7, SaidNext
    <2>2. \A n : find_client(n)' <=> find_client(n)
      BY <1>7 DEF find_client
    <2>3. TableFull' <=> TableFull
      BY <1>7 DEF TableFull
    <2>4. \A k \in 1..taken' : sent'[k].type = "join" =>
             \/ \E i \in 1..Len(client_name') : client_name'[i] = sent'[k].name
             \/ /\ TableFull'
                /\ \E m \in 1..Len(published') : /\ published'[m].kind = "warn"
                                                /\ published'[m].name = sent'[k].name
      <3> DEFINE Found(n) == \E i \in 1..Len(client_name') : client_name'[i] = n
                 Warned(n) == \E m \in 1..Len(published') : /\ published'[m].kind = "warn"
                                                            /\ published'[m].name = n
      <3>1. \A n : find_client(n) => Found(n)
        BY <1>7 DEF find_client
      <3>2. num \in Nat /\ published'[num + 1].name = who
        BY <1>7, SaidNext
      <3>3. ASSUME NEW n, Said("warn", n) PROVE Warned(n)
        <4>1. PICK m \in 1..num : published[m].kind = "warn" /\ published[m].name = n
          BY <3>3 DEF Said
        <4>2. m \in 1..Len(published') /\ published'[m] = published[m]
          BY <2>1, <3>2, <4>1
        <4> QED BY <4>1, <4>2
      <3>4. ASSUME kind = "warn" PROVE Warned(who)
        <4>1. num + 1 \in 1..Len(published')
          BY <2>1, <3>2
        <4> QED BY <2>1, <3>2, <3>4, <4>1
      <3>5. \A n : Said("warn", n) \/ (kind = "warn" /\ n = who) => Warned(n)
        BY <3>3, <3>4
      <3> HIDE DEF Found, Warned
      <3>6. \A k \in 1..taken : sent[k].type = "join" =>
               Found(sent[k].name) \/ (TableFull' /\ Warned(sent[k].name))
        BY <2>3, <3>1, <3>5 DEF TableInv
      <3>7. sent[taken + 1].type = "join" => TableFull' /\ Warned(sent[taken + 1].name)
        BY <1>2, <1>7, <2>3, <3>5
      <3>8. \A k \in 1..taken' : sent'[k].type = "join" =>
               Found(sent'[k].name) \/ (TableFull' /\ Warned(sent'[k].name))
        BY <1>1, <1>3, <3>6, <3>7
      <3> QED BY <3>8 DEF Found, Warned
    <2>5. \A n \in Names : find_client(n)' <=> Said("join", n)'
      BY <2>1, <2>2 DEF TableInv
    <2>6. \A m, l \in 1..Len(published') :
             published'[m].kind = "join" /\ published'[l].kind = "join"
               /\ published'[m].name = published'[l].name => m = l
      <3>1. \A m \in 1..(num + 1) : m \in 1..num \/ m = num + 1
        BY <1>3
      <3> HIDE DEF num
      <3> QED BY <2>1, <3>1 DEF TableInv, num
    <2>7. \A n \in Names : Said("warn", n)' => TableFull' /\ ~find_client(n)'
      BY <1>7, <2>1, <2>2, <2>3 DEF TableInv
    <2>8. /\ Len(client_name') <= MaxClient
          /\ \A i, j \in 1..Len(client_name') : client_name'[i] = client_name'[j] => i = j
      BY <1>7 DEF TableInv
    <2> QED BY <2>4, <2>5, <2>6, <2>7, <2>8 DEF TableInv, find_client, Said
  <1>8. CASE item.type = "join" /\ ~find_client(who) /\ ~(Len(client_name) < MaxClient)
    <2>1. append_msg("warn", who, 0) /\ UNCHANGED client_name
      BY <1>1, <1>8 DEF HandleJoin
    <2>2. TableFull
      BY <1>3, <1>8 DEF TableInv, TableFull
    <2> QED BY <1>7, <1>8, <2>1, <2>2
  <1>9. CASE item.type = "chat"
    <2>1. append_msg("chat", who, item.text) /\ UNCHANGED client_name
      BY <1>1, <1>9 DEF HandleChat
    <2> QED BY <1>7, <1>9, <2>1
  <1> QED BY <1>1, <1>5, <1>6, <1>8, <1>9

\* In every reachable state the table of lab14/chat holds the names of the first
\* JOINs, each once and each announced once; a JOIN of another name found it full
\* and was warned about, and nobody was warned about whose name is in it.
THEOREM TableCorrect == Spec => []TableIsFirstJoins
  <1> DEFINE I == ITypeOK /\ InboxFaithful /\ HistoryRing /\ TableInv
  <1>1. Init => TableInv
    BY Sizes DEF Init, TableInv, Said, find_client
  <1>2. I /\ [Next]_vars => TableInv'
    <2> SUFFICES ASSUME ITypeOK, InboxFaithful, HistoryRing, TableInv, [Next]_vars
                 PROVE  TableInv'
      OBVIOUS
    <2>1. CASE ServerPop
      BY <2>1, PopTable
    <2>2. CASE append_msg("start", NoName, 0) /\ UNCHANGED <<client_name, taken, sent>>
      <3> DEFINE num == Len(published)
      <3>1. /\ Len(published') = num + 1 /\ num \in Nat
            /\ published'[num + 1].kind = "start"
            /\ \A m \in 1..num : published'[m] = published[m]
            /\ \A k, n : Said(k, n)' <=> (Said(k, n) \/ (k = "start" /\ n = NoName))
        BY <2>2, SaidNext
      <3>2. \A n : find_client(n)' <=> find_client(n)
        BY <2>2 DEF find_client
      <3>3. \A m \in 1..(num + 1) : m \in 1..num \/ m = num + 1
        BY <3>1
      <3>4. \A m, l \in 1..Len(published') :
               published'[m].kind = "join" /\ published'[l].kind = "join"
                 /\ published'[m].name = published'[l].name => m = l
        <4> HIDE DEF num
        <4> QED BY <3>1, <3>3 DEF TableInv, num
      <3> HIDE DEF num
      <3> QED BY <2>2, <3>1, <3>2, <3>4 DEF TableInv, TableFull
    <2>3. CASE UNCHANGED <<client_name, taken, sent, published>>
      BY <2>3 DEF TableInv, TableFull, Said, find_client
    <2>4. CASE /\ UNCHANGED <<client_name, taken, published>>
               /\ \E item \in Item : sent' = Append(sent, item)
      <3>1. \A k \in 1..taken : sent'[k] = sent[k]
        <4>1. \A k \in 1..taken : k \in 1..Len(sent)
          BY DEF InboxFaithful, ITypeOK, TypeOK
        <4> QED BY <2>4, <4>1 DEF ITypeOK, TypeOK
      <3>2. \A k, n : Said(k, n)' <=> Said(k, n)
        BY <2>4 DEF Said
      <3>3. \A n : find_client(n)' <=> find_client(n)
        BY <2>4 DEF find_client
      <3> QED BY <2>4, <3>1, <3>2, <3>3 DEF TableInv, TableFull
    <2> QED BY <2>1, <2>2, <2>3, <2>4, TableStep
  <1>3. ITypeOK /\ TableInv => TableIsFirstJoins
    BY TableStated
  <1> QED BY <1>1, <1>2, <1>3, InitType, NextType, InboxCorrect, HistoryCorrect, PTL DEF Spec
=============================================================================
