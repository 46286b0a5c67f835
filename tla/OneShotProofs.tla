--------------------------- MODULE OneShotProofs ---------------------------
(* lab16/2/1 and lab16/2/4 for any number of clients of any kinds: who has  *)
(* a descriptor of which connection, and what each client has been told.    *)
EXTENDS OneShot, SequenceTheorems, TLAPS

Words == {"prefix", "text"}
Types ==
    /\ server \in {"fork", "select"} /\ kind \in [Clients -> Tcp \cup {"udp"}]
    /\ pc \in {"accept", "fork", "close", "select", "read", "write", "recv"}
    /\ cf \in Clients \cup {Nobody} /\ ready \subseteq {"tcp", "udp"}
    /\ child \in [Clients -> {"none", "read", "prefix", "text", "exit", "gone"}]
    /\ holders \in [Clients -> SUBSET (Clients \cup {Server})]
    /\ backlog \in [{"tcp", "udp"} -> Seq(Clients)]
    /\ unread \in [Clients -> Nat]
    /\ reply \in [Clients -> Seq(Words)] /\ got \in [Clients -> Seq(Words)]
    /\ cl \in [Clients -> {"off", "connected", "sent", "done", "gone"}]
    /\ failed \subseteq Clients

\* Each server does only what it is written for: children are those of the one
\* that forks, requests and datagrams are read by the one that selects.
OwnWork ==
    /\ server = "fork" => kind \in [Clients -> Tcp] /\ pc \in {"accept", "fork", "close"}
    /\ server = "select" => pc # "fork" /\ \A c \in Clients : child[c] = "none"
    /\ pc \in {"fork", "close", "read", "write"} <=> cf # Nobody

\* No client is in a queue twice.
Queued(p, c) == \E k \in DOMAIN backlog[p] : backlog[p][k] = c
Once == \A p \in {"tcp", "udp"} : \A j, k \in DOMAIN backlog[p] : backlog[p][j] = backlog[p][k] => j = k

\* Nothing has happened yet to a client that has not begun, or waits in the
\* queue of its kind.
Fresh(c) == got[c] = <<>> /\ reply[c] = <<>> /\ child[c] = "none"
Waiting(c) ==
    /\ Queued("tcp", c) => kind[c] \in Tcp /\ cl[c] # "off"
    /\ Queued("udp", c) => kind[c] = "udp" /\ cl[c] # "off"
    /\ Queued("tcp", c) \/ Queued("udp", c) \/ cl[c] = "off" =>
          Fresh(c) /\ cf # c /\ holders[c] = {}

\* A connection is open in the server that serves it and in its own child, and
\* nowhere else: the child of another client inherits none.
Serving(c) == child[c] \in {"read", "prefix", "text", "exit"}
Descriptors(c) ==
    holders[c] = (IF cf = c THEN {Server} ELSE {}) \cup (IF Serving(c) THEN {c} ELSE {})

\* What a client has been told but for what a reset has taken, while somebody
\* serves it.
Said(c) == got[c] \o reply[c]
Telling(c) ==
    /\ Said(c) \in {<<>>, <<"prefix">>, Whole}
    /\ cf = c /\ pc \in {"fork", "read", "write"} => Fresh(c)
    /\ child[c] \in {"read", "prefix"} => Said(c) = <<>>
    /\ child[c] = "text" => Said(c) = <<"prefix">>
    /\ kind[c] = "udp" => cf # c /\ child[c] = "none"

\* Where a client stands whose text is one piece and to whom nothing happens:
\* before its text is read, between that and the answer, and after.
Unserved(c) == \/ Queued("tcp", c)
               \/ (cf = c /\ pc \in {"fork", "read"})
               \/ child[c] = "read"
Halfway(c) == (cf = c /\ pc = "write") \/ child[c] \in {"prefix", "text"}
Right(c) ==
    /\ cl[c] # "gone"
    /\ unread[c] <= 1
    /\ cl[c] \in {"off", "connected"} => unread[c] = 0
    /\ cl[c] # "off" /\ ~Unserved(c) => cl[c] \in {"sent", "done"} /\ unread[c] = 0
    /\ cl[c] # "off" /\ ~Unserved(c) /\ ~Halfway(c) => Said(c) = Whole
    /\ cl[c] = "done" => reply[c] = <<>> /\ ~Unserved(c) /\ ~Halfway(c)

OK(c) == /\ Waiting(c) /\ Descriptors(c) /\ Telling(c)
         /\ kind[c] = "short" /\ c \notin failed => Right(c)
Inv == Types /\ OwnWork /\ Once /\ \A c \in Clients : OK(c)

----------------------------------------------------------------------------
(* Sequences *)

\* Reading moves the first word over, and changes nothing of what was said.
LEMMA MoveHead ==
    ASSUME NEW g \in Seq(Words), NEW r \in Seq(Words), r # <<>>
    PROVE  /\ Append(g, Head(r)) \in Seq(Words) /\ Tail(r) \in Seq(Words)
           /\ Append(g, Head(r)) \o Tail(r) = g \o r
  OBVIOUS

\* What is written comes to the end of what was said.
LEMMA WriteEnd ==
    ASSUME NEW g \in Seq(Words), NEW r \in Seq(Words), NEW w \in Seq(Words)
    PROVE  r \o w \in Seq(Words) /\ g \o (r \o w) = (g \o r) \o w
  OBVIOUS

\* A reset leaves what was read, the beginning of a reply like all that was said.
LEMMA Beginning ==
    ASSUME NEW g \in Seq(Words), NEW r \in Seq(Words), g \o r \in {<<>>, <<"prefix">>, Whole}
    PROVE  g \o <<>> \in {<<>>, <<"prefix">>, Whole}
  <1>1. /\ Len(g \o r) = Len(g) + Len(r) /\ Len(g) \in Nat /\ Len(r) \in Nat
        /\ \A k \in 1..Len(g) : g[k] = (g \o r)[k]
        /\ g \o <<>> = g
    OBVIOUS
  <1>2. CASE g \o r = <<>>
    BY <1>1, <1>2
  <1>3. CASE g \o r = <<"prefix">>
    <2>1. Len(g) = 0 \/ Len(g) = 1
      BY <1>1, <1>3
    <2>2. Len(g) = 0 => g = <<>>
      OBVIOUS
    <2>3. Len(g) = 1 => g = <<"prefix">>
      BY <1>1, <1>3
    <2> QED BY <1>1, <2>1, <2>2, <2>3
  <1>4. CASE g \o r = Whole
    <2>0. Len(Whole) = 2 /\ Whole[1] = "prefix" /\ Whole[2] = "text" /\ Whole = <<"prefix", "text">>
      BY DEF Whole
    <2>1. Len(g) = 0 \/ Len(g) = 1 \/ Len(g) = 2
      <3>1. Len(g) + Len(r) = 2
        BY <1>1, <1>4, <2>0
      <3>2. Len(g) \in Nat /\ Len(r) \in Nat
        BY <1>1
      <3>3. \A m, n \in Nat : m + n = 2 => m = 0 \/ m = 1 \/ m = 2
        OBVIOUS
      <3> QED BY <3>1, <3>2, <3>3
    <2>2. Len(g) = 0 => g = <<>>
      OBVIOUS
    <2>3. Len(g) = 1 => g = <<"prefix">>
      BY <1>1, <1>4, <2>0
    <2>4. ASSUME Len(g) = 2 PROVE g = Whole
      <3>1. g[1] = "prefix" /\ g[2] = "text"
        BY <1>1, <1>4, <2>0, <2>4
      <3>2. g = <<g[1], g[2]>>
        BY <2>4
      <3> QED BY <2>0, <3>1, <3>2
    <2> QED BY <1>1, <2>1, <2>2, <2>3, <2>4
  <1> QED BY <1>2, <1>3, <1>4

\* accept and recvfrom take the first of their queue out of it.
LEMMA QueueTail ==
    ASSUME Types, Once, NEW p \in {"tcp", "udp"}, backlog[p] # <<>>,
           backlog' = [backlog EXCEPT ![p] = Tail(@)]
    PROVE  /\ Head(backlog[p]) \in Clients /\ Queued(p, Head(backlog[p]))
           /\ backlog' \in [{"tcp", "udp"} -> Seq(Clients)] /\ Once'
           /\ \A q \in {"tcp", "udp"}, d \in Clients :
                 Queued(q, d)' <=> Queued(q, d) /\ (q # p \/ d # Head(backlog[p]))
  <1> DEFINE s == backlog[p]
  <1>1. s \in Seq(Clients) /\ s # <<>> /\ Len(s) \in Nat /\ Len(s) > 0
    BY DEF Types
  <1>2. /\ Head(s) = s[1] /\ 1 \in DOMAIN s /\ s[1] \in Clients
        /\ Tail(s) \in Seq(Clients) /\ DOMAIN Tail(s) = 1..(Len(s) - 1) /\ DOMAIN s = 1..Len(s)
        /\ \A k \in 1..(Len(s) - 1) : Tail(s)[k] = s[k + 1]
    BY <1>1
  <1>3. /\ backlog'[p] = Tail(s) /\ backlog' \in [{"tcp", "udp"} -> Seq(Clients)]
        /\ \A q \in {"tcp", "udp"} : q # p => backlog'[q] = backlog[q]
    BY <1>2 DEF Types
  <1>4. Once'
    <2> SUFFICES ASSUME NEW q \in {"tcp", "udp"}, NEW j \in DOMAIN backlog'[q], NEW k \in DOMAIN backlog'[q],
                        backlog'[q][j] = backlog'[q][k]
                 PROVE  j = k
      BY DEF Once
    <2>1. CASE q # p
      BY <1>3, <2>1 DEF Once
    <2>2. CASE q = p
      <3>1. j \in 1..(Len(s) - 1) /\ k \in 1..(Len(s) - 1) /\ s[j + 1] = s[k + 1]
        BY <1>2, <1>3, <2>2
      <3>2. j + 1 \in DOMAIN s /\ k + 1 \in DOMAIN s
        BY <1>1, <1>2, <3>1
      <3>3. j + 1 = k + 1
        BY <3>1, <3>2 DEF Once
      <3> QED BY <3>1, <3>3
    <2> QED BY <2>1, <2>2
  <1>5. ASSUME NEW q \in {"tcp", "udp"}, NEW d \in Clients
        PROVE  Queued(q, d)' <=> Queued(q, d) /\ (q # p \/ d # s[1])
    <2>1. CASE q # p
      BY <1>3, <2>1 DEF Queued
    <2>2. CASE q = p
      <3>1. ASSUME Queued(p, d)' PROVE Queued(p, d) /\ d # s[1]
        <4>1. PICK k \in 1..(Len(s) - 1) : s[k + 1] = d
          BY <1>2, <1>3, <3>1 DEF Queued
        <4>2. k + 1 \in DOMAIN s /\ k + 1 # 1
          BY <1>1, <1>2, <4>1
        <4>3. s[k + 1] # s[1]
          BY <1>2, <4>2 DEF Once
        <4> QED BY <4>1, <4>2, <4>3 DEF Queued
      <3>2. ASSUME Queued(p, d), d # s[1] PROVE Queued(p, d)'
        <4>1. PICK k \in DOMAIN s : s[k] = d
          BY <3>2 DEF Queued
        <4>2. k # 1
          BY <3>2, <4>1
        <4>3. k - 1 \in 1..(Len(s) - 1) /\ (k - 1) + 1 = k
          BY <1>1, <1>2, <4>1, <4>2
        <4>4. Tail(s)[k - 1] = d
          BY <1>2, <4>1, <4>3
        <4> QED BY <1>2, <1>3, <4>3, <4>4 DEF Queued
      <3> QED BY <2>2, <3>1, <3>2
    <2> QED BY <2>1, <2>2
  <1>6. Head(s) \in Clients /\ Queued(p, Head(s))
    BY <1>2 DEF Queued
  <1> QED BY <1>2, <1>3, <1>4, <1>5, <1>6

\* connect and sendto put a client at the end of a queue.
LEMMA QueueEnd ==
    ASSUME Types, Once, NEW p \in {"tcp", "udp"}, NEW c \in Clients, ~Queued(p, c), Queue(p, c)
    PROVE  /\ backlog' \in [{"tcp", "udp"} -> Seq(Clients)] /\ Once'
           /\ \A q \in {"tcp", "udp"}, d \in Clients :
                 Queued(q, d)' <=> Queued(q, d) \/ (q = p /\ d = c)
  <1> DEFINE s == backlog[p]
  <1>1. s \in Seq(Clients) /\ Len(s) \in Nat /\ DOMAIN s = 1..Len(s)
    BY DEF Types
  <1>2. /\ Append(s, c) \in Seq(Clients) /\ DOMAIN Append(s, c) = 1..(Len(s) + 1)
        /\ \A k \in 1..Len(s) : Append(s, c)[k] = s[k]
        /\ Append(s, c)[Len(s) + 1] = c
    BY <1>1
  <1>3. /\ backlog'[p] = Append(s, c) /\ backlog' \in [{"tcp", "udp"} -> Seq(Clients)]
        /\ \A q \in {"tcp", "udp"} : q # p => backlog'[q] = backlog[q]
    BY <1>2 DEF Types, Queue
  <1>4. \A k \in 1..(Len(s) + 1) : k \in DOMAIN s \/ k = Len(s) + 1
    BY <1>1
  <1>5. \A k \in DOMAIN s : s[k] # c
    BY DEF Queued
  <1>6. Once'
    <2> SUFFICES ASSUME NEW q \in {"tcp", "udp"}, NEW j \in DOMAIN backlog'[q], NEW k \in DOMAIN backlog'[q],
                        backlog'[q][j] = backlog'[q][k]
                 PROVE  j = k
      BY DEF Once
    <2>1. CASE q # p
      BY <1>3, <2>1 DEF Once
    <2>2. CASE q = p
      <3>1. /\ (j \in DOMAIN s /\ Append(s, c)[j] = s[j]) \/ (j = Len(s) + 1 /\ Append(s, c)[j] = c)
            /\ (k \in DOMAIN s /\ Append(s, c)[k] = s[k]) \/ (k = Len(s) + 1 /\ Append(s, c)[k] = c)
        BY <1>1, <1>2, <1>3, <1>4, <2>2
      <3> QED BY <1>3, <1>5, <2>2, <3>1 DEF Once
    <2> QED BY <2>1, <2>2
  <1>7. ASSUME NEW q \in {"tcp", "udp"}, NEW d \in Clients
        PROVE  Queued(q, d)' <=> Queued(q, d) \/ (q = p /\ d = c)
    <2>1. CASE q # p
      BY <1>3, <2>1 DEF Queued
    <2>2. CASE q = p
      <3>1. Len(s) + 1 \in 1..(Len(s) + 1) /\ 1..Len(s) \subseteq 1..(Len(s) + 1)
        BY <1>1
      <3>2. Queued(p, d)' => Queued(p, d) \/ d = c
        BY <1>1, <1>2, <1>3, <1>4 DEF Queued
      <3>3. Queued(p, d) \/ d = c => Queued(p, d)'
        BY <1>1, <1>2, <1>3, <3>1 DEF Queued
      <3> QED BY <2>2, <3>2, <3>3
    <2> QED BY <2>1, <2>2
  <1> QED BY <1>3, <1>6, <1>7

----------------------------------------------------------------------------
(* The steps *)

\* A client to whom a step does nothing stays as it was.
Same(c) ==
    /\ cl'[c] = cl[c] /\ child'[c] = child[c] /\ holders'[c] = holders[c]
    /\ unread'[c] = unread[c] /\ reply'[c] = reply[c] /\ got'[c] = got[c]
    /\ c \in failed => c \in failed'
    /\ \A p \in {"tcp", "udp"} : Queued(p, c)' <=> Queued(p, c)
    /\ cf' = c <=> cf = c
    /\ cf = c => pc' = pc
LEMMA SameOK ==
    ASSUME NEW c \in Clients, OK(c), kind' = kind, Same(c)
    PROVE  OK(c)'
  <1>1. Fresh(c)' <=> Fresh(c)
    BY DEF Fresh, Same
  <1>2. Serving(c)' <=> Serving(c)
    BY DEF Serving, Same
  <1>3. Said(c)' = Said(c)
    BY DEF Said, Same
  <1>4. (cf = c /\ pc \in {"fork", "read", "write"})' <=> cf = c /\ pc \in {"fork", "read", "write"}
    BY DEF Same
  <1>5. Waiting(c)'
    BY <1>1 DEF OK, Waiting, Same
  <1>6. Descriptors(c)'
    BY <1>2 DEF OK, Descriptors, Same
  <1>7. Telling(c)'
    BY <1>1, <1>3, <1>4 DEF OK, Telling, Same
  <1>8. (Unserved(c)' <=> Unserved(c)) /\ (Halfway(c)' <=> Halfway(c))
    BY DEF Unserved, Halfway, Same
  <1>9. ASSUME kind[c] = "short", c \notin failed' PROVE Right(c)'
    <2>1. Right(c)
      BY <1>9 DEF OK, Same
    <2> QED BY <1>3, <1>8, <2>1 DEF Right, Same
  <1> QED BY <1>5, <1>6, <1>7, <1>9 DEF OK

\* A step that lets the queues be keeps them.
LEMMA QueuesStay ==
    ASSUME backlog' = backlog, Once
    PROVE  Once' /\ \A p \in {"tcp", "udp"}, c \in Clients : Queued(p, c)' <=> Queued(p, c)
  BY DEF Once, Queued

LEMMA InitInv == Init => Inv
  <1> SUFFICES ASSUME Init PROVE Inv
    OBVIOUS
  <1> USE OneShotAssumption
  <1>1. kind \in [Clients -> Tcp \cup {"udp"}]
    BY DEF Init, Tcp
  <1>2. Types
    BY <1>1 DEF Init, Types
  <1>3. OwnWork
    BY DEF Init, OwnWork
  <1>4. Once /\ \A p \in {"tcp", "udp"}, c \in Clients : ~Queued(p, c)
    BY DEF Init, Once, Queued
  <1>5. ASSUME NEW c \in Clients PROVE OK(c)
    <2>1. /\ cl[c] = "off" /\ got[c] = <<>> /\ reply[c] = <<>> /\ child[c] = "none" /\ cf # c
          /\ holders[c] = {} /\ unread[c] = 0 /\ Said(c) = <<>>
      BY DEF Init, Said
    <2>2. Waiting(c) /\ Descriptors(c) /\ Telling(c)
      BY <1>4, <2>1 DEF Waiting, Descriptors, Telling, Fresh, Serving
    <2>3. Right(c)
      BY <2>1 DEF Right
    <2> QED BY <2>2, <2>3 DEF OK
  <1> QED BY <1>2, <1>3, <1>4, <1>5 DEF Inv

LEMMA AcceptInv == ASSUME Inv, Accept PROVE Inv'
  <1> USE OneShotAssumption
  <1>0. PICK c : c = Head(backlog["tcp"])
    OBVIOUS
  <1>1. /\ pc = "accept" /\ backlog["tcp"] # <<>> /\ cf' = c /\ holders' = [holders EXCEPT ![c] = {Server}]
        /\ backlog' = [backlog EXCEPT !["tcp"] = Tail(@)]
        /\ pc' = IF server = "fork" THEN "fork" ELSE "read"
        /\ server' = server /\ kind' = kind /\ ready' = ready /\ child' = child /\ unread' = unread
        /\ reply' = reply /\ cl' = cl /\ got' = got /\ failed' = failed
    BY <1>0 DEF Accept, clients
  <1>2. /\ c \in Clients /\ Queued("tcp", c) /\ backlog' \in [{"tcp", "udp"} -> Seq(Clients)] /\ Once'
        /\ \A q \in {"tcp", "udp"}, d \in Clients : Queued(q, d)' <=> Queued(q, d) /\ (q # "tcp" \/ d # c)
    BY <1>0, <1>1, QueueTail DEF Inv
  <1>3. /\ OK(c) /\ Waiting(c) /\ Fresh(c) /\ holders[c] = {} /\ kind[c] \in Tcp /\ cl[c] # "off"
        /\ ~Queued("tcp", c)' /\ ~Queued("udp", c)' /\ cf = Nobody /\ Telling(c)
    BY <1>1, <1>2 DEF Inv, OK, Waiting, OwnWork, Tcp
  <1>4. Types'
    BY <1>1, <1>2 DEF Inv, Types
  <1>5. OwnWork'
    BY <1>1, <1>2 DEF Inv, OwnWork, Types
  <1>6. ASSUME NEW d \in Clients, d # c PROVE OK(d)'
    <2>1. Same(d)
      BY <1>1, <1>2, <1>3, <1>6 DEF Same, Inv, Types
    <2> QED BY <1>1, <2>1, SameOK DEF Inv
  <1>7. OK(c)'
    <2>1. Fresh(c)' /\ holders'[c] = {Server} /\ ~Serving(c)' /\ Said(c)' = Said(c)
      BY <1>1, <1>2, <1>3 DEF Fresh, Serving, Said, Inv, Types
    <2>2. Waiting(c)'
      BY <1>1, <1>3 DEF Waiting
    <2>3. Descriptors(c)'
      BY <1>1, <2>1 DEF Descriptors
    <2>4. Telling(c)'
      BY <1>1, <1>3, <2>1 DEF Telling, Fresh, Tcp
    <2>5. ASSUME kind[c] = "short", c \notin failed PROVE Right(c)'
      <3>1. Right(c) /\ Unserved(c)
        BY <1>2, <1>3, <2>5 DEF OK, Unserved
      <3>2. Unserved(c)' /\ cl[c] # "done"
        BY <1>1, <3>1 DEF Unserved, Right
      <3> QED BY <1>1, <3>1, <3>2 DEF Right
    <2> QED BY <1>1, <2>2, <2>3, <2>4, <2>5 DEF OK
  <1>8. \A d \in Clients : OK(d)'
    BY <1>6, <1>7
  <1> QED BY <1>2, <1>4, <1>5, <1>8 DEF Inv

LEMMA ForkInv == ASSUME Inv, Fork PROVE Inv'
  <1> USE OneShotAssumption
  <1>1. /\ pc = "fork" /\ pc' = "close" /\ child' = [child EXCEPT ![cf] = "read"] /\ cf' = cf
        /\ holders' = [c \in Clients |-> IF Server \in holders[c] THEN holders[c] \cup {cf} ELSE holders[c]]
        /\ server' = server /\ kind' = kind /\ ready' = ready /\ unread' = unread /\ backlog' = backlog
        /\ reply' = reply /\ cl' = cl /\ got' = got /\ failed' = failed
    BY DEF Fork, clients
  <1>2. cf \in Clients /\ server = "fork" /\ cf # Nobody
    BY <1>1 DEF Inv, Types, OwnWork
  <1>3. Once' /\ \A p \in {"tcp", "udp"}, d \in Clients : Queued(p, d)' <=> Queued(p, d)
    BY <1>1, QueuesStay DEF Inv
  <1>4. \A d \in Clients : Server \in holders[d] <=> d = cf
    BY DEF Inv, OK, Descriptors
  <1>5. Types'
    BY <1>1, <1>2 DEF Inv, Types
  <1>6. OwnWork'
    BY <1>1, <1>2 DEF Inv, OwnWork
  <1>7. ASSUME NEW d \in Clients, d # cf PROVE OK(d)'
    <2>1. Same(d)
      BY <1>1, <1>3, <1>4, <1>7 DEF Same, Inv, Types
    <2> QED BY <1>1, <2>1, SameOK DEF Inv
  <1> PICK c \in Clients : c = cf
    BY <1>2
  <1>8. OK(c)'
    <2>1. /\ OK(c) /\ Fresh(c) /\ holders[c] = {Server} /\ holders'[c] = {Server, c} /\ Serving(c)'
          /\ child'[c] = "read" /\ kind[c] # "udp"
      BY <1>1, <1>2, <1>4 DEF Inv, OK, Telling, Descriptors, Serving, Fresh, Types
    <2>2. Said(c) = <<>> /\ Said(c)' = <<>>
      BY <1>1, <2>1 DEF Said, Fresh
    <2>3. cl[c] # "off" /\ ~Queued("tcp", c) /\ ~Queued("udp", c)
      BY <1>2, <2>1 DEF OK, Waiting
    <2>4. Waiting(c)' /\ Descriptors(c)' /\ Telling(c)'
      BY <1>1, <1>2, <1>3, <2>1, <2>2, <2>3 DEF Waiting, Descriptors, Telling
    <2>5. ASSUME kind[c] = "short", c \notin failed PROVE Right(c)'
      <3>1. Right(c) /\ Unserved(c) /\ Unserved(c)'
        BY <1>1, <2>1, <2>5 DEF OK, Unserved
      <3>2. cl[c] # "done"
        BY <3>1 DEF Right
      <3> QED BY <1>1, <3>1, <3>2 DEF Right
    <2> QED BY <1>1, <2>4, <2>5 DEF OK
  <1>9. \A d \in Clients : OK(d)'
    BY <1>7, <1>8
  <1> QED BY <1>3, <1>5, <1>6, <1>9 DEF Inv

LEMMA ForkFailsInv == ASSUME Inv, ForkFails PROVE Inv'
  <1> USE OneShotAssumption
  <1>1. /\ pc = "fork" /\ pc' = "close" /\ failed' = failed \cup {cf} /\ cf' = cf /\ holders' = holders
        /\ server' = server /\ kind' = kind /\ ready' = ready /\ unread' = unread /\ backlog' = backlog
        /\ reply' = reply /\ cl' = cl /\ got' = got /\ child' = child
    BY DEF ForkFails, clients, sockets, Fail
  <1>2. cf \in Clients /\ server = "fork" /\ cf # Nobody
    BY <1>1 DEF Inv, Types, OwnWork
  <1>3. Once' /\ \A p \in {"tcp", "udp"}, d \in Clients : Queued(p, d)' <=> Queued(p, d)
    BY <1>1, QueuesStay DEF Inv
  <1>4. Types'
    BY <1>1, <1>2 DEF Inv, Types
  <1>5. OwnWork'
    BY <1>1, <1>2 DEF Inv, OwnWork
  <1>6. ASSUME NEW d \in Clients, d # cf PROVE OK(d)'
    <2>1. Same(d)
      BY <1>1, <1>3, <1>6 DEF Same
    <2> QED BY <1>1, <2>1, SameOK DEF Inv
  <1> PICK c \in Clients : c = cf
    BY <1>2
  <1>7. OK(c)'
    <2>1. OK(c)
      BY <1>2 DEF Inv
    <2>2. Waiting(c)' /\ Descriptors(c)' /\ Telling(c)'
      BY <1>1, <1>2, <1>3, <2>1 DEF OK, Waiting, Descriptors, Telling, Fresh, Serving, Said
    <2> QED BY <1>1, <2>2 DEF OK
  <1>8. \A d \in Clients : OK(d)'
    BY <1>6, <1>7
  <1> QED BY <1>3, <1>4, <1>5, <1>8 DEF Inv

\* Closing a descriptor, or ending, does something to one connection: it loses
\* that holder and, if it is the last one and a piece is unread, perhaps what
\* was not read of the reply.
Loses(c, process) ==
    /\ holders' = [holders EXCEPT ![c] = @ \ {process}]
    /\ reply' \in [Clients -> Seq(Words)]
    /\ \A d \in Clients : d # c => reply'[d] = reply[d]
    /\ \/ reply'[c] = reply[c]
       \/ reply'[c] = <<>> /\ holders[c] \ {process} = {} /\ unread[c] > 0
LEMMA ReleaseOne ==
    ASSUME Types, NEW c \in Clients, NEW process, NEW released,
           released[c] = {process}, Release(released),
           \A d \in Clients : d # c => holders[d] \ released[d] = holders[d]
    PROVE  Loses(c, process)
  <1>1. holders' = [d \in Clients |-> holders[d] \ released[d]]
    BY DEF Release
  <1>2. /\ \A d \in Clients : d # c => holders'[d] = holders[d]
        /\ holders'[c] = holders[c] \ {process}
    BY <1>1
  <1>3. holders' = [holders EXCEPT ![c] = @ \ {process}]
    BY <1>1, <1>2 DEF Types
  <1>4. PICK lost \in SUBSET {d \in Clients : holders[d] # {} /\ holders'[d] = {} /\ unread[d] > 0} :
           reply' = [d \in Clients |-> IF d \in lost THEN <<>> ELSE reply[d]]
    BY DEF Release
  <1>5. reply' \in [Clients -> Seq(Words)]
    BY <1>4 DEF Types
  <1>6. \A d \in Clients : d # c => d \notin lost
    BY <1>2, <1>4
  <1>7. c \in lost => holders[c] \ {process} = {} /\ unread[c] > 0
    BY <1>2, <1>4
  <1> QED BY <1>3, <1>4, <1>5, <1>6, <1>7 DEF Loses

LEMMA CloseOne == ASSUME Inv, NEW c \in Clients, NEW process, Close(process, c) PROVE Loses(c, process)
  <1> DEFINE released == [d \in Clients |-> IF d = c THEN {process} ELSE {}]
  <1>1. /\ Release(released) /\ released[c] = {process}
        /\ \A d \in Clients : d # c => holders[d] \ released[d] = holders[d]
    BY DEF Close
  <1> HIDE DEF released
  <1> QED BY <1>1, ReleaseOne DEF Inv

LEMMA ExitOne == ASSUME Inv, NEW c \in Clients, Exit(c) PROVE Loses(c, c)
  <1> DEFINE released == [d \in Clients |-> {c}]
  <1>1. Release(released) /\ released[c] = {c}
    BY DEF Exit
  <1>2. \A d \in Clients : d # c => holders[d] \ released[d] = holders[d]
    BY OneShotAssumption DEF Inv, OK, Descriptors
  <1> HIDE DEF released
  <1> QED BY <1>1, <1>2, ReleaseOne DEF Inv

\* What was said is still a beginning of the reply.
LEMMA LosesBeginning ==
    ASSUME Inv, NEW c \in Clients, NEW process, Loses(c, process), got' = got
    PROVE  Said(c)' \in {<<>>, <<"prefix">>, Whole}
  <1>1. Said(c) \in {<<>>, <<"prefix">>, Whole} /\ got[c] \in Seq(Words) /\ reply[c] \in Seq(Words)
    BY DEF Inv, OK, Telling, Types
  <1>2. got[c] \o <<>> \in {<<>>, <<"prefix">>, Whole}
    BY <1>1, Beginning DEF Said
  <1> QED BY <1>1, <1>2 DEF Said, Loses

LEMMA CloseConnectionInv == ASSUME Inv, CloseConnection PROVE Inv'
  <1> USE OneShotAssumption
  <1>1. /\ pc = "close" /\ pc' = AfterClose /\ cf' = Nobody /\ Close(Server, cf)
        /\ server' = server /\ kind' = kind /\ ready' = ready /\ child' = child /\ backlog' = backlog
        /\ unread' = unread /\ cl' = cl /\ got' = got /\ failed' = failed
    BY DEF CloseConnection, clients
  <1> PICK c \in Clients : c = cf
    BY <1>1 DEF Inv, Types, OwnWork
  <1>2. Loses(c, Server)
    BY <1>1, CloseOne
  <1>3. Once' /\ \A p \in {"tcp", "udp"}, d \in Clients : Queued(p, d)' <=> Queued(p, d)
    BY <1>1, QueuesStay DEF Inv
  <1>4. Types'
    BY <1>1, <1>2 DEF Inv, Types, Loses, AfterClose
  <1>5. OwnWork'
    BY <1>1 DEF Inv, OwnWork, AfterClose
  <1>6. ASSUME NEW d \in Clients, d # c PROVE OK(d)'
    <2>1. Same(d)
      BY <1>1, <1>2, <1>3, <1>6 DEF Same, Loses, Inv, Types
    <2> QED BY <1>1, <2>1, SameOK DEF Inv
  <1>7. OK(c)'
    <2>1. OK(c) /\ ~Queued("tcp", c) /\ ~Queued("udp", c) /\ cl[c] # "off" /\ kind[c] # "udp"
      BY DEF Inv, OK, Waiting, Telling
    <2>2. holders'[c] = (IF Serving(c) THEN {c} ELSE {})
      BY <1>2, <2>1 DEF OK, Descriptors, Loses, Inv, Types
    <2>3. Serving(c) => reply'[c] = reply[c]
      BY <1>2, <2>2 DEF Loses, Inv, Types
    <2>4. Waiting(c)'
      BY <1>1, <1>3, <2>1 DEF Waiting
    <2>5. Descriptors(c)'
      BY <1>1, <2>2 DEF Descriptors, Serving
    <2>6. Telling(c)'
      <3>1. Serving(c) => Said(c)' = Said(c)
        BY <1>1, <2>3 DEF Said
      <3>2. Said(c)' \in {<<>>, <<"prefix">>, Whole}
        BY <1>1, <1>2, LosesBeginning
      <3> QED BY <1>1, <2>1, <3>1, <3>2 DEF OK, Telling, Serving
    <2>7. ASSUME kind[c] = "short", c \notin failed PROVE Right(c)'
      <3>1. Right(c) /\ (Unserved(c)' <=> Unserved(c)) /\ (Halfway(c)' <=> Halfway(c))
        BY <1>1, <1>3, <2>1, <2>7 DEF OK, Unserved, Halfway
      <3>2. reply'[c] = reply[c]
        <4>1. CASE Unserved(c)
          BY <1>1, <2>1, <2>3, <4>1 DEF Unserved, Serving
        <4>2. CASE ~Unserved(c)
          BY <1>2, <2>1, <3>1, <4>2 DEF Loses, Right
        <4> QED BY <4>1, <4>2
      <3>3. Said(c)' = Said(c)
        BY <1>1, <3>2 DEF Said
      <3> QED BY <1>1, <3>1, <3>2, <3>3 DEF Right
    <2> QED BY <1>1, <2>4, <2>5, <2>6, <2>7 DEF OK
  <1>8. \A d \in Clients : OK(d)'
    BY <1>6, <1>7
  <1> QED BY <1>3, <1>4, <1>5, <1>8 DEF Inv

LEMMA SelectInv == ASSUME Inv, Select PROVE Inv'
  <1> USE OneShotAssumption
  <1>1. /\ pc = "select" /\ pc' \in {"accept", "recv"} /\ cf' = cf /\ ready' \subseteq {"tcp", "udp"}
        /\ server' = server /\ kind' = kind /\ child' = child /\ backlog' = backlog /\ holders' = holders
        /\ unread' = unread /\ reply' = reply /\ cl' = cl /\ got' = got /\ failed' = failed
    BY DEF Select, clients, sockets
  <1>2. Once' /\ \A p \in {"tcp", "udp"}, d \in Clients : Queued(p, d)' <=> Queued(p, d)
    BY <1>1, QueuesStay DEF Inv
  <1>3. Types' /\ OwnWork'
    BY <1>1 DEF Inv, Types, OwnWork
  <1>4. ASSUME NEW d \in Clients PROVE OK(d)'
    <2>1. Same(d)
      BY <1>1, <1>2 DEF Same, Inv, OwnWork
    <2> QED BY <1>1, <2>1, SameOK DEF Inv
  <1> QED BY <1>2, <1>3, <1>4 DEF Inv

\* What a read does: it takes a piece, or finds that the client is gone.
LEMMA ReadOne ==
    ASSUME Types, NEW c \in Clients, Read(c)
    PROVE  /\ unread' \in [Clients -> Nat] /\ \A d \in Clients : d # c => unread'[d] = unread[d]
           /\ \/ unread'[c] = unread[c] - 1 /\ unread[c] > 0 /\ unread' # unread
              \/ unread' = unread /\ cl[c] = "gone"
  BY DEF Types, Read

LEMMA ReadRequestInv == ASSUME Inv, ReadRequest PROVE Inv'
  <1> USE OneShotAssumption
  <1>1. /\ pc = "read" /\ Read(cf) /\ cf' = cf /\ pc' = (IF unread' # unread THEN "write" ELSE "close")
        /\ server' = server /\ kind' = kind /\ ready' = ready /\ child' = child /\ backlog' = backlog
        /\ holders' = holders /\ reply' = reply /\ cl' = cl /\ got' = got /\ failed' = failed
    BY DEF ReadRequest, clients
  <1> PICK c \in Clients : c = cf
    BY <1>1 DEF Inv, Types, OwnWork
  <1>2. /\ unread' \in [Clients -> Nat] /\ \A d \in Clients : d # c => unread'[d] = unread[d]
        /\ \/ unread'[c] = unread[c] - 1 /\ unread[c] > 0 /\ pc' = "write"
           \/ unread' = unread /\ cl[c] = "gone" /\ pc' = "close"
    BY <1>1, ReadOne DEF Inv
  <1>3. Once' /\ \A p \in {"tcp", "udp"}, d \in Clients : Queued(p, d)' <=> Queued(p, d)
    BY <1>1, QueuesStay DEF Inv
  <1>4. Types' /\ OwnWork'
    BY <1>1, <1>2 DEF Inv, Types, OwnWork
  <1>5. ASSUME NEW d \in Clients, d # c PROVE OK(d)'
    <2>1. Same(d)
      BY <1>1, <1>2, <1>3, <1>5 DEF Same
    <2> QED BY <1>1, <2>1, SameOK DEF Inv
  <1>6. OK(c)'
    <2>1. OK(c) /\ ~Queued("tcp", c) /\ ~Queued("udp", c) /\ cl[c] # "off" /\ Fresh(c)
      BY <1>1 DEF Inv, OK, Waiting, Telling
    <2>2. Fresh(c)' /\ Said(c)' = Said(c) /\ Serving(c)' = Serving(c)
      BY <1>1, <2>1 DEF Fresh, Said, Serving
    <2>3. Waiting(c)' /\ Descriptors(c)' /\ Telling(c)'
      BY <1>1, <1>3, <2>1, <2>2 DEF OK, Waiting, Descriptors, Telling
    <2>4. ASSUME kind[c] = "short", c \notin failed PROVE Right(c)'
      <3>1. Right(c) /\ unread[c] \in Nat
        BY <2>1, <2>4 DEF OK, Inv, Types
      <3>2. pc' = "write" /\ unread'[c] = 0 /\ cl[c] = "sent"
        BY <1>1, <1>2, <2>1, <3>1 DEF Right, Unserved, Inv, Types
      <3>3. Halfway(c)' /\ ~Unserved(c)'
        BY <1>1, <1>3, <2>1, <3>2 DEF Halfway, Unserved, Fresh
      <3> QED BY <1>1, <3>1, <3>2, <3>3 DEF Right
    <2> QED BY <1>1, <2>3, <2>4 DEF OK
  <1>7. \A d \in Clients : OK(d)'
    BY <1>5, <1>6
  <1> QED BY <1>3, <1>4, <1>7 DEF Inv

\* What a write does: the words come to the end of what was said.
LEMMA WriteOne ==
    ASSUME Types, NEW c \in Clients, NEW w \in Seq(Words), Write(c, w), got' = got
    PROVE  /\ reply' \in [Clients -> Seq(Words)] /\ \A d \in Clients : d # c => reply'[d] = reply[d]
           /\ Said(c)' = Said(c) \o w
  <1>1. got[c] \in Seq(Words) /\ reply[c] \in Seq(Words) /\ reply'[c] = reply[c] \o w
    BY DEF Types, Write
  <1>2. reply[c] \o w \in Seq(Words) /\ got[c] \o (reply[c] \o w) = (got[c] \o reply[c]) \o w
    BY <1>1, WriteEnd
  <1>3. Said(c)' = Said(c) \o w
    BY <1>1, <1>2 DEF Said
  <1> QED BY <1>1, <1>2, <1>3 DEF Types, Write

\* The words that are written.
LEMMA TwoWords == ASSUME NEW a \in Words, NEW b \in Words PROVE <<a>> \o <<b>> = <<a, b>>
  <1>1. ASSUME NEW s \in Seq(Words), s = <<a>> PROVE Append(s, b) = <<a, b>>
    <2>1. Len(s) = 1 /\ s[1] = a
      BY <1>1
    <2>2. /\ Append(s, b) \in Seq(Words) /\ Len(Append(s, b)) = Len(s) + 1
          /\ \A i \in 1..Len(s) : Append(s, b)[i] = s[i]
          /\ Append(s, b)[Len(s) + 1] = b
      BY AppendProperties
    <2>3. ASSUME NEW t \in Seq(Words), t = <<a, b>> PROVE Append(s, b) = t
      <3>1. Len(t) = 2 /\ t[1] = a /\ t[2] = b
        BY <2>3
      <3>2. 1 + 1 = 2 /\ 1 \in 1..1 /\ \A i \in 1..2 : i = 1 \/ i = 2
        OBVIOUS
      <3>3. Append(s, b)[1] = a /\ Append(s, b)[2] = b
        BY <2>1, <2>2, <3>2
      <3>4. Len(Append(s, b)) = Len(t)
        BY <2>1, <2>2, <3>1, <3>2
      <3>5. \A i \in 1..Len(Append(s, b)) : Append(s, b)[i] = t[i]
        BY <3>1, <3>2, <3>3, <3>4
      <3> QED BY <2>2, <3>4, <3>5, SeqEqual
    <2>4. <<a, b>> \in Seq(Words)
      OBVIOUS
    <2> QED BY <2>3, <2>4
  <1>2. <<a>> \in Seq(Words) /\ \A g \in Seq(Words) : g \o <<b>> = Append(g, b)
    OBVIOUS
  <1> QED BY <1>1, <1>2
LEMMA Pieced ==
    /\ <<"prefix", "text">> \in Seq(Words) /\ <<"prefix">> \in Seq(Words) /\ <<"text">> \in Seq(Words)
    /\ <<>> \o <<"prefix", "text">> = Whole /\ <<>> \o <<"prefix">> = <<"prefix">>
    /\ <<"prefix">> \o <<"text">> = Whole
  <1>1. /\ <<"prefix", "text">> \in Seq(Words) /\ <<"prefix">> \in Seq(Words) /\ <<"text">> \in Seq(Words)
        /\ "prefix" \in Words /\ "text" \in Words
    BY DEF Words
  <1>2. \A g \in Seq(Words) : <<>> \o g = g
    OBVIOUS
  <1> QED BY <1>1, <1>2, TwoWords DEF Whole

LEMMA AnswerInv == ASSUME Inv, Answer PROVE Inv'
  <1> USE OneShotAssumption
  <1>1. /\ pc = "write" /\ pc' = "close" /\ cf' = cf /\ Write(cf, <<"prefix", "text">>)
        /\ server' = server /\ kind' = kind /\ ready' = ready /\ child' = child /\ backlog' = backlog
        /\ holders' = holders /\ unread' = unread /\ cl' = cl /\ got' = got /\ failed' = failed
    BY DEF Answer, clients
  <1> PICK c \in Clients : c = cf
    BY <1>1 DEF Inv, Types, OwnWork
  <1>2. /\ reply' \in [Clients -> Seq(Words)] /\ \A d \in Clients : d # c => reply'[d] = reply[d]
        /\ Said(c)' = Said(c) \o <<"prefix", "text">>
    BY <1>1, Pieced, WriteOne DEF Inv
  <1>3. Once' /\ \A p \in {"tcp", "udp"}, d \in Clients : Queued(p, d)' <=> Queued(p, d)
    BY <1>1, QueuesStay DEF Inv
  <1>4. Types' /\ OwnWork'
    BY <1>1, <1>2 DEF Inv, Types, OwnWork
  <1>5. ASSUME NEW d \in Clients, d # c PROVE OK(d)'
    <2>1. Same(d)
      BY <1>1, <1>2, <1>3, <1>5 DEF Same
    <2> QED BY <1>1, <2>1, SameOK DEF Inv
  <1>6. OK(c)'
    <2>1. OK(c) /\ ~Queued("tcp", c) /\ ~Queued("udp", c) /\ cl[c] # "off" /\ Fresh(c)
      BY <1>1 DEF Inv, OK, Waiting, Telling
    <2>2. Said(c)' = Whole
      BY <1>2, <2>1, Pieced DEF Said, Fresh
    <2>3. child[c] = "none" /\ ~Serving(c)' /\ ~Serving(c)
      BY <1>1, <2>1 DEF Fresh, Serving
    <2>4. Waiting(c)' /\ Descriptors(c)' /\ Telling(c)'
      BY <1>1, <1>3, <2>1, <2>2, <2>3 DEF OK, Waiting, Descriptors, Telling
    <2>5. ASSUME kind[c] = "short", c \notin failed PROVE Right(c)'
      <3>1. Right(c) /\ ~Unserved(c) /\ Halfway(c)
        BY <1>1, <2>1, <2>3, <2>5 DEF OK, Unserved, Halfway
      <3>2. ~Unserved(c)' /\ ~Halfway(c)' /\ cl[c] # "done"
        BY <1>1, <1>3, <2>1, <2>3, <3>1 DEF Unserved, Halfway, Right
      <3> QED BY <1>1, <2>1, <2>2, <3>1, <3>2 DEF Right
    <2> QED BY <1>1, <2>4, <2>5 DEF OK
  <1>7. \A d \in Clients : OK(d)'
    BY <1>5, <1>6
  <1> QED BY <1>3, <1>4, <1>7 DEF Inv

LEMMA HandleUdpInv == ASSUME Inv, HandleUdp PROVE Inv'
  <1> USE OneShotAssumption
  <1>0. PICK c : c = Head(backlog["udp"])
    OBVIOUS
  <1>1. /\ pc = "recv" /\ backlog["udp"] # <<>> /\ pc' = "select" /\ cf' = cf
        /\ \/ Write(c, <<"prefix", "text">>) /\ failed' = failed
           \/ Fail(c) /\ reply' = reply
        /\ backlog' = [backlog EXCEPT !["udp"] = Tail(@)]
        /\ server' = server /\ kind' = kind /\ ready' = ready /\ child' = child
        /\ holders' = holders /\ unread' = unread /\ cl' = cl /\ got' = got
    BY <1>0 DEF HandleUdp, clients
  <1>2. /\ c \in Clients /\ Queued("udp", c) /\ backlog' \in [{"tcp", "udp"} -> Seq(Clients)] /\ Once'
        /\ \A q \in {"tcp", "udp"}, d \in Clients : Queued(q, d)' <=> Queued(q, d) /\ (q # "udp" \/ d # c)
    BY <1>0, <1>1, QueueTail DEF Inv
  <1>3. /\ kind[c] = "udp" /\ cl[c] # "off" /\ Fresh(c) /\ cf # c /\ holders[c] = {} /\ Telling(c)
        /\ cf = Nobody
    BY <1>1, <1>2 DEF Inv, OK, Waiting, OwnWork
  <1>4. /\ reply' \in [Clients -> Seq(Words)] /\ \A d \in Clients : d # c => reply'[d] = reply[d]
        /\ Said(c)' \in {<<>>, Whole} /\ failed' \in SUBSET Clients /\ failed \subseteq failed'
    <2>1. CASE Write(c, <<"prefix", "text">>) /\ failed' = failed
      <3>1. /\ reply' \in [Clients -> Seq(Words)] /\ \A d \in Clients : d # c => reply'[d] = reply[d]
            /\ Said(c)' = Said(c) \o <<"prefix", "text">>
        BY <1>1, <1>2, <2>1, Pieced, WriteOne DEF Inv
      <3>2. Said(c) = <<>>
        BY <1>3 DEF Said, Fresh
      <3> QED BY <2>1, <3>1, <3>2, Pieced DEF Inv, Types
    <2>2. CASE Fail(c) /\ reply' = reply
      <3>1. Said(c)' = <<>>
        BY <1>1, <1>3, <2>2 DEF Said, Fresh
      <3> QED BY <1>2, <2>2, <3>1 DEF Fail, Inv, Types
    <2> QED BY <1>1, <2>1, <2>2
  <1>5. Types' /\ OwnWork'
    BY <1>1, <1>2, <1>4 DEF Inv, Types, OwnWork
  <1>6. ASSUME NEW d \in Clients, d # c PROVE OK(d)'
    <2>1. Same(d)
      BY <1>1, <1>2, <1>3, <1>4, <1>6 DEF Same
    <2> QED BY <1>1, <2>1, SameOK DEF Inv
  <1>7. OK(c)'
    <2>1. ~Queued("tcp", c)' /\ ~Queued("udp", c)'
      BY <1>2, <1>3 DEF Inv, OK, Waiting, Tcp
    <2>2. child'[c] = "none" /\ cf' # c /\ holders'[c] = {} /\ cl'[c] # "off" /\ kind'[c] = "udp"
      BY <1>1, <1>3 DEF Fresh
    <2> QED BY <1>4, <2>1, <2>2 DEF OK, Waiting, Descriptors, Serving, Telling
  <1>8. \A d \in Clients : OK(d)'
    BY <1>6, <1>7
  <1> QED BY <1>2, <1>5, <1>8 DEF Inv

----------------------------------------------------------------------------
(* The steps of a child *)

\* A child is not of a client that waits.
LEMMA ChildOf ==
    ASSUME Inv, NEW c \in Clients, child[c] # "none"
    PROVE  /\ OK(c) /\ server = "fork" /\ ~Queued("tcp", c) /\ ~Queued("udp", c) /\ cl[c] # "off"
           /\ kind[c] # "udp" /\ (cf = c => pc = "close")
  <1>1. OK(c) /\ server = "fork" /\ kind[c] # "udp" /\ pc \notin {"read", "write"}
    BY DEF Inv, OK, OwnWork, Telling, Types
  <1>2. ~Queued("tcp", c) /\ ~Queued("udp", c) /\ cl[c] # "off"
    BY <1>1 DEF OK, Waiting, Fresh
  <1>3. cf = c => pc = "close"
    BY <1>1, OneShotAssumption DEF OK, Telling, Fresh, Inv, OwnWork
  <1> QED BY <1>1, <1>2, <1>3

LEMMA ChildReadInv == ASSUME Inv, NEW c \in Clients, ChildRead(c) PROVE Inv'
  <1> USE OneShotAssumption
  <1>1. /\ child[c] = "read" /\ Read(c)
        /\ child' = [child EXCEPT ![c] = IF unread' # unread THEN "prefix" ELSE "exit"]
        /\ server' = server /\ kind' = kind /\ pc' = pc /\ cf' = cf /\ ready' = ready /\ backlog' = backlog
        /\ holders' = holders /\ reply' = reply /\ cl' = cl /\ got' = got /\ failed' = failed
    BY DEF ChildRead, clients, parent
  <1>2. /\ unread' \in [Clients -> Nat] /\ \A d \in Clients : d # c => unread'[d] = unread[d]
        /\ \/ unread'[c] = unread[c] - 1 /\ unread[c] > 0 /\ child'[c] = "prefix"
           \/ unread' = unread /\ cl[c] = "gone" /\ child'[c] = "exit"
    BY <1>1, ReadOne DEF Inv, Types
  <1>3. Once' /\ \A p \in {"tcp", "udp"}, d \in Clients : Queued(p, d)' <=> Queued(p, d)
    BY <1>1, QueuesStay DEF Inv
  <1>4. /\ OK(c) /\ server = "fork" /\ ~Queued("tcp", c) /\ ~Queued("udp", c) /\ cl[c] # "off"
        /\ kind[c] # "udp" /\ (cf = c => pc = "close")
    BY <1>1, ChildOf
  <1>5. Types' /\ OwnWork'
    BY <1>1, <1>2, <1>4 DEF Inv, Types, OwnWork
  <1>6. ASSUME NEW d \in Clients, d # c PROVE OK(d)'
    <2>1. Same(d)
      BY <1>1, <1>2, <1>3, <1>6 DEF Same, Inv, Types
    <2> QED BY <1>1, <2>1, SameOK DEF Inv
  <1>7. OK(c)'
    <2>1. Said(c) = <<>> /\ Said(c)' = Said(c) /\ Serving(c) /\ Serving(c)'
      BY <1>1, <1>2, <1>4 DEF OK, Telling, Said, Serving
    <2>2. Waiting(c)' /\ Descriptors(c)' /\ Telling(c)'
      BY <1>1, <1>2, <1>3, <1>4, <2>1 DEF OK, Waiting, Descriptors, Telling
    <2>3. ASSUME kind[c] = "short", c \notin failed PROVE Right(c)'
      <3>1. Right(c) /\ Unserved(c) /\ unread[c] \in Nat
        BY <1>1, <1>4, <2>3 DEF OK, Unserved, Inv, Types
      <3>2. child'[c] = "prefix" /\ unread'[c] = 0 /\ cl[c] = "sent"
        BY <1>2, <1>4, <3>1 DEF Right, Inv, Types
      <3>3. Halfway(c)' /\ ~Unserved(c)'
        BY <1>1, <1>3, <1>4, <3>2 DEF Halfway, Unserved
      <3> QED BY <1>1, <3>1, <3>2, <3>3 DEF Right
    <2> QED BY <1>1, <2>2, <2>3 DEF OK
  <1>8. \A d \in Clients : OK(d)'
    BY <1>6, <1>7
  <1> QED BY <1>3, <1>5, <1>8 DEF Inv

LEMMA ChildWriteInv == ASSUME Inv, NEW c \in Clients, ChildWrite(c) PROVE Inv'
  <1> USE OneShotAssumption
  <1>1. /\ child[c] \in {"prefix", "text"} /\ Write(c, <<child[c]>>)
        /\ child' = [child EXCEPT ![c] = IF @ = "prefix" THEN "text" ELSE "exit"]
        /\ server' = server /\ kind' = kind /\ pc' = pc /\ cf' = cf /\ ready' = ready /\ backlog' = backlog
        /\ holders' = holders /\ unread' = unread /\ cl' = cl /\ got' = got /\ failed' = failed
    BY DEF ChildWrite, clients, parent
  <1>2. /\ reply' \in [Clients -> Seq(Words)] /\ \A d \in Clients : d # c => reply'[d] = reply[d]
        /\ Said(c)' = Said(c) \o <<child[c]>>
    BY <1>1, Pieced, WriteOne DEF Inv
  <1>3. Once' /\ \A p \in {"tcp", "udp"}, d \in Clients : Queued(p, d)' <=> Queued(p, d)
    BY <1>1, QueuesStay DEF Inv
  <1>4. /\ OK(c) /\ server = "fork" /\ ~Queued("tcp", c) /\ ~Queued("udp", c) /\ cl[c] # "off"
        /\ kind[c] # "udp" /\ (cf = c => pc = "close")
    BY <1>1, ChildOf
  <1>5. /\ child'[c] \in {"text", "exit"} /\ child' \in [Clients -> {"none", "read", "prefix", "text", "exit", "gone"}]
        /\ child'[c] = "text" => Said(c)' = <<"prefix">>
        /\ child'[c] = "exit" => Said(c)' = Whole
    <2>1. child[c] = "prefix" => child'[c] = "text" /\ Said(c)' = <<"prefix">>
      BY <1>1, <1>2, <1>4, Pieced DEF OK, Telling, Inv, Types
    <2>2. child[c] = "text" => child'[c] = "exit" /\ Said(c)' = Whole
      BY <1>1, <1>2, <1>4, Pieced DEF OK, Telling, Inv, Types
    <2> QED BY <1>1, <2>1, <2>2 DEF Inv, Types
  <1>6. Types' /\ OwnWork'
    BY <1>1, <1>2, <1>4, <1>5 DEF Inv, Types, OwnWork
  <1>7. ASSUME NEW d \in Clients, d # c PROVE OK(d)'
    <2>1. Same(d)
      BY <1>1, <1>2, <1>3, <1>7 DEF Same, Inv, Types
    <2> QED BY <1>1, <2>1, SameOK DEF Inv
  <1>8. OK(c)'
    <2>1. Serving(c) /\ Serving(c)'
      BY <1>1, <1>5 DEF Serving
    <2>2. Waiting(c)' /\ Descriptors(c)' /\ Telling(c)'
      BY <1>1, <1>3, <1>4, <1>5, <2>1 DEF OK, Waiting, Descriptors, Telling
    <2>3. ASSUME kind[c] = "short", c \notin failed PROVE Right(c)'
      <3>1. Right(c) /\ ~Unserved(c) /\ Halfway(c) /\ cl[c] # "done"
        BY <1>1, <1>4, <2>3 DEF OK, Unserved, Halfway, Right
      <3>2. ~Unserved(c)' /\ (~Halfway(c)' => child'[c] = "exit")
        BY <1>1, <1>3, <1>4, <1>5 DEF Unserved, Halfway
      <3> QED BY <1>1, <1>4, <1>5, <3>1, <3>2 DEF Right
    <2> QED BY <1>1, <2>2, <2>3 DEF OK
  <1>9. \A d \in Clients : OK(d)'
    BY <1>7, <1>8
  <1> QED BY <1>3, <1>6, <1>9 DEF Inv

\* A child that ends, by itself or killed.
LEMMA ChildEndInv == ASSUME Inv, NEW c \in Clients, ChildExit(c) \/ ChildKilled(c) PROVE Inv'
  <1> USE OneShotAssumption
  <1>1. /\ Serving(c) /\ child' = [child EXCEPT ![c] = "gone"] /\ Exit(c)
        /\ \/ failed' = failed /\ child[c] = "exit"
           \/ failed' = failed \cup {c}
        /\ server' = server /\ kind' = kind /\ pc' = pc /\ cf' = cf /\ ready' = ready /\ backlog' = backlog
        /\ unread' = unread /\ cl' = cl /\ got' = got
    BY DEF ChildExit, ChildKilled, Fail, clients, parent, Serving
  <1>2. Loses(c, c)
    BY <1>1, ExitOne
  <1>3. Once' /\ \A p \in {"tcp", "udp"}, d \in Clients : Queued(p, d)' <=> Queued(p, d)
    BY <1>1, QueuesStay DEF Inv
  <1>4. /\ OK(c) /\ server = "fork" /\ ~Queued("tcp", c) /\ ~Queued("udp", c) /\ cl[c] # "off"
        /\ kind[c] # "udp" /\ (cf = c => pc = "close")
    BY <1>1, ChildOf DEF Serving
  <1>5. Types' /\ OwnWork'
    BY <1>1, <1>2, <1>4 DEF Inv, Types, OwnWork, Loses
  <1>6. ASSUME NEW d \in Clients, d # c PROVE OK(d)'
    <2>1. Same(d)
      BY <1>1, <1>2, <1>3, <1>6 DEF Same, Inv, Types, Loses
    <2> QED BY <1>1, <2>1, SameOK DEF Inv
  <1>7. OK(c)'
    <2>1. child'[c] = "gone" /\ ~Serving(c)'
      BY <1>1 DEF Inv, Types, Serving
    <2>2. holders'[c] = IF cf = c THEN {Server} ELSE {}
      BY <1>1, <1>2, <1>4 DEF OK, Descriptors, Loses, Inv, Types
    <2>3. Said(c)' \in {<<>>, <<"prefix">>, Whole}
      BY <1>1, <1>2, LosesBeginning
    <2>4. Waiting(c)' /\ Descriptors(c)' /\ Telling(c)'
      BY <1>1, <1>3, <1>4, <2>1, <2>2, <2>3 DEF Waiting, Descriptors, Telling
    <2>5. ASSUME kind[c] = "short", c \notin failed' PROVE Right(c)'
      <3>1. Right(c) /\ child[c] = "exit"
        BY <1>1, <1>4, <2>5 DEF OK
      <3>2. ~Unserved(c) /\ ~Halfway(c) /\ ~Unserved(c)' /\ ~Halfway(c)'
        BY <1>1, <1>3, <1>4, <2>1, <3>1 DEF Unserved, Halfway
      <3>3. reply'[c] = reply[c]
        BY <1>2, <1>4, <3>1, <3>2 DEF Right, Loses
      <3>4. Said(c)' = Said(c)
        BY <1>1, <3>3 DEF Said
      <3> QED BY <1>1, <3>1, <3>2, <3>3, <3>4 DEF Right
    <2> QED BY <1>1, <2>4, <2>5 DEF OK
  <1>8. \A d \in Clients : OK(d)'
    BY <1>6, <1>7
  <1> QED BY <1>3, <1>5, <1>8 DEF Inv

----------------------------------------------------------------------------
(* The steps of the clients *)

LEMMA ConnectInv == ASSUME Inv, NEW c \in Clients, Connect(c) PROVE Inv'
  <1>1. /\ kind[c] \in Tcp /\ cl[c] = "off" /\ cl' = [cl EXCEPT ![c] = "connected"] /\ Queue("tcp", c)
        /\ server' = server /\ kind' = kind /\ pc' = pc /\ cf' = cf /\ ready' = ready /\ child' = child
        /\ holders' = holders /\ unread' = unread /\ reply' = reply /\ got' = got /\ failed' = failed
    BY DEF Connect, parent
  <1>2. /\ OK(c) /\ ~Queued("tcp", c) /\ ~Queued("udp", c) /\ Fresh(c) /\ cf # c /\ holders[c] = {}
        /\ kind[c] # "udp"
    BY <1>1 DEF Inv, OK, Waiting, Tcp
  <1>3. /\ backlog' \in [{"tcp", "udp"} -> Seq(Clients)] /\ Once'
        /\ \A q \in {"tcp", "udp"}, d \in Clients : Queued(q, d)' <=> Queued(q, d) \/ (q = "tcp" /\ d = c)
    BY <1>1, <1>2, QueueEnd DEF Inv
  <1>4. Types' /\ OwnWork'
    BY <1>1, <1>3 DEF Inv, Types, OwnWork
  <1>5. ASSUME NEW d \in Clients, d # c PROVE OK(d)'
    <2>1. Same(d)
      BY <1>1, <1>3, <1>5 DEF Same, Inv, Types
    <2> QED BY <1>1, <2>1, SameOK DEF Inv
  <1>6. OK(c)'
    <2>1. cl'[c] = "connected" /\ Queued("tcp", c)' /\ ~Queued("udp", c)'
      BY <1>1, <1>2, <1>3 DEF Inv, Types
    <2>2. Fresh(c)' /\ Said(c)' = Said(c) /\ ~Serving(c) /\ ~Serving(c)'
      BY <1>1, <1>2 DEF Fresh, Said, Serving
    <2>3. Waiting(c)' /\ Descriptors(c)' /\ Telling(c)'
      BY <1>1, <1>2, <2>1, <2>2 DEF OK, Waiting, Descriptors, Telling
    <2>4. ASSUME kind[c] = "short", c \notin failed PROVE Right(c)'
      <3>1. unread[c] = 0
        BY <1>1, <1>2, <2>4 DEF OK, Right
      <3>2. Unserved(c)'
        BY <2>1 DEF Unserved
      <3> QED BY <1>1, <2>1, <3>1, <3>2 DEF Right
    <2> QED BY <1>1, <2>3, <2>4 DEF OK
  <1>7. \A d \in Clients : OK(d)'
    BY <1>5, <1>6
  <1> QED BY <1>3, <1>4, <1>7 DEF Inv

LEMMA SendToInv == ASSUME Inv, NEW c \in Clients, SendTo(c) PROVE Inv'
  <1>1. /\ kind[c] = "udp" /\ cl[c] = "off" /\ cl' = [cl EXCEPT ![c] = "sent"]
        /\ \/ Queue("udp", c) /\ failed' = failed
           \/ failed' = failed \cup {c} /\ backlog' = backlog
        /\ server' = server /\ kind' = kind /\ pc' = pc /\ cf' = cf /\ ready' = ready /\ child' = child
        /\ holders' = holders /\ unread' = unread /\ reply' = reply /\ got' = got
    BY DEF SendTo, parent, Fail
  <1>2. OK(c) /\ ~Queued("tcp", c) /\ ~Queued("udp", c) /\ Fresh(c) /\ cf # c /\ holders[c] = {}
    BY <1>1 DEF Inv, OK, Waiting
  <1>3. /\ backlog' \in [{"tcp", "udp"} -> Seq(Clients)] /\ Once' /\ ~Queued("tcp", c)'
        /\ \A q \in {"tcp", "udp"}, d \in Clients : d # c => (Queued(q, d)' <=> Queued(q, d))
    <2>1. CASE Queue("udp", c)
      BY <1>2, <2>1, QueueEnd DEF Inv
    <2>2. CASE backlog' = backlog
      BY <1>2, <2>2, QueuesStay DEF Inv, Types
    <2> QED BY <1>1, <2>1, <2>2
  <1>4. Types' /\ OwnWork'
    BY <1>1, <1>3 DEF Inv, Types, OwnWork
  <1>5. ASSUME NEW d \in Clients, d # c PROVE OK(d)'
    <2>1. Same(d)
      BY <1>1, <1>3, <1>5 DEF Same, Inv, Types
    <2> QED BY <1>1, <2>1, SameOK DEF Inv
  <1>6. OK(c)'
    <2>1. cl'[c] = "sent" /\ Fresh(c)' /\ Said(c)' = Said(c) /\ ~Serving(c) /\ ~Serving(c)'
      BY <1>1, <1>2 DEF Fresh, Said, Serving, Inv, Types
    <2> QED BY <1>1, <1>2, <1>3, <2>1 DEF OK, Waiting, Descriptors, Telling
  <1>7. \A d \in Clients : OK(d)'
    BY <1>5, <1>6
  <1> QED BY <1>3, <1>4, <1>7 DEF Inv

LEMMA SendInv == ASSUME Inv, NEW c \in Clients, Send(c) PROVE Inv'
  <1>1. /\ kind[c] \in {"short", "long"} /\ cl[c] = "connected" /\ cl' = [cl EXCEPT ![c] = "sent"]
        /\ unread' = [unread EXCEPT ![c] = Pieces[kind[c]]] /\ backlog' = backlog
        /\ server' = server /\ kind' = kind /\ pc' = pc /\ cf' = cf /\ ready' = ready /\ child' = child
        /\ holders' = holders /\ reply' = reply /\ got' = got /\ failed' = failed
    BY DEF Send, parent
  <1>2. Once' /\ \A p \in {"tcp", "udp"}, d \in Clients : Queued(p, d)' <=> Queued(p, d)
    BY <1>1, QueuesStay DEF Inv
  <1>3. Pieces[kind[c]] \in Nat /\ (kind[c] = "short" => Pieces[kind[c]] = 1)
    BY <1>1 DEF Pieces
  <1>4. Types' /\ OwnWork'
    BY <1>1, <1>3 DEF Inv, Types, OwnWork
  <1>5. ASSUME NEW d \in Clients, d # c PROVE OK(d)'
    <2>1. Same(d)
      BY <1>1, <1>2, <1>5 DEF Same, Inv, Types
    <2> QED BY <1>1, <2>1, SameOK DEF Inv
  <1>6. OK(c)'
    <2>1. OK(c) /\ cl'[c] = "sent" /\ Said(c)' = Said(c)
      BY <1>1 DEF Inv, Types, Said
    <2>2. Waiting(c)' /\ Descriptors(c)' /\ Telling(c)'
      BY <1>1, <1>2, <2>1 DEF OK, Waiting, Descriptors, Telling, Fresh, Serving
    <2>3. ASSUME kind[c] = "short", c \notin failed PROVE Right(c)'
      <3>1. Right(c) /\ unread'[c] = 1
        BY <1>1, <1>3, <2>1, <2>3 DEF OK, Inv, Types
      <3>2. Unserved(c) /\ Unserved(c)'
        BY <1>1, <1>2, <3>1 DEF Right, Unserved
      <3> QED BY <1>1, <2>1, <3>1, <3>2 DEF Right
    <2> QED BY <1>1, <2>2, <2>3 DEF OK
  <1>7. \A d \in Clients : OK(d)'
    BY <1>5, <1>6
  <1> QED BY <1>2, <1>4, <1>7 DEF Inv

LEMMA ReadReplyInv == ASSUME Inv, NEW c \in Clients, ReadReply(c) PROVE Inv'
  <1>1. /\ cl[c] = "sent" /\ reply[c] # <<>>
        /\ got' = [got EXCEPT ![c] = Append(@, Head(reply[c]))] /\ reply' = [reply EXCEPT ![c] = Tail(@)]
        /\ server' = server /\ kind' = kind /\ pc' = pc /\ cf' = cf /\ ready' = ready /\ child' = child
        /\ holders' = holders /\ backlog' = backlog /\ unread' = unread /\ cl' = cl /\ failed' = failed
    BY DEF ReadReply, parent
  <1>2. Once' /\ \A p \in {"tcp", "udp"}, d \in Clients : Queued(p, d)' <=> Queued(p, d)
    BY <1>1, QueuesStay DEF Inv
  <1>3. /\ Append(got[c], Head(reply[c])) \in Seq(Words) /\ Tail(reply[c]) \in Seq(Words)
        /\ Append(got[c], Head(reply[c])) \o Tail(reply[c]) = Said(c)
    BY <1>1, MoveHead DEF Inv, Types, Said
  <1>4. Types' /\ OwnWork'
    BY <1>1, <1>3 DEF Inv, Types, OwnWork
  <1>5. ASSUME NEW d \in Clients, d # c PROVE OK(d)'
    <2>1. Same(d)
      BY <1>1, <1>2, <1>5 DEF Same, Inv, Types
    <2> QED BY <1>1, <2>1, SameOK DEF Inv
  <1>6. OK(c)'
    <2>1. OK(c) /\ ~Fresh(c) /\ Said(c)' = Said(c)
      BY <1>1, <1>3 DEF Inv, Types, Said, Fresh
    <2>2. Waiting(c)' /\ Descriptors(c)' /\ Telling(c)'
      BY <1>1, <1>2, <2>1 DEF OK, Waiting, Descriptors, Telling, Serving
    <2>3. ASSUME kind[c] = "short", c \notin failed PROVE Right(c)'
      <3>1. Right(c) /\ (Unserved(c)' <=> Unserved(c)) /\ (Halfway(c)' <=> Halfway(c))
        BY <1>1, <1>2, <2>1, <2>3 DEF OK, Unserved, Halfway
      <3> QED BY <1>1, <2>1, <3>1 DEF Right
    <2> QED BY <1>1, <2>2, <2>3 DEF OK
  <1>7. \A d \in Clients : OK(d)'
    BY <1>5, <1>6
  <1> QED BY <1>2, <1>4, <1>7 DEF Inv

\* A client that comes to the end of the stream or leaves.
LEMMA EndInv == ASSUME Inv, NEW c \in Clients, EndOfFile(c) \/ Leave(c) PROVE Inv'
  <1> USE OneShotAssumption
  <1>1. /\ \/ /\ cl[c] = "sent" /\ reply[c] = <<>> /\ Accepted(c) /\ holders[c] = {}
              /\ cl' = [cl EXCEPT ![c] = "done"] /\ failed' = failed
           \/ /\ cl[c] # "off" /\ cl' = [cl EXCEPT ![c] = "gone"]
              /\ (kind[c] = "silent" /\ failed' = failed) \/ failed' = failed \cup {c}
        /\ server' = server /\ kind' = kind /\ pc' = pc /\ cf' = cf /\ ready' = ready /\ child' = child
        /\ holders' = holders /\ backlog' = backlog /\ unread' = unread /\ reply' = reply /\ got' = got
    BY DEF EndOfFile, Leave, Fail, parent, sockets
  <1>2. Once' /\ \A p \in {"tcp", "udp"}, d \in Clients : Queued(p, d)' <=> Queued(p, d)
    BY <1>1, QueuesStay DEF Inv
  <1>3. Types' /\ OwnWork'
    BY <1>1 DEF Inv, Types, OwnWork
  <1>4. ASSUME NEW d \in Clients, d # c PROVE OK(d)'
    <2>1. Same(d)
      BY <1>1, <1>2, <1>4 DEF Same, Inv, Types
    <2> QED BY <1>1, <2>1, SameOK DEF Inv
  <1>5. OK(c)'
    <2>1. OK(c) /\ cl[c] # "off" /\ cl'[c] \in {"done", "gone"} /\ Said(c)' = Said(c)
      BY <1>1 DEF Inv, Types, Said
    <2>2. Waiting(c)' /\ Descriptors(c)' /\ Telling(c)'
      BY <1>1, <1>2, <2>1 DEF OK, Waiting, Descriptors, Telling, Fresh, Serving
    <2>3. ASSUME kind[c] = "short", c \notin failed' PROVE Right(c)'
      <3>1. /\ Right(c) /\ cl[c] = "sent" /\ reply[c] = <<>> /\ Accepted(c) /\ holders[c] = {}
            /\ cl'[c] = "done"
        BY <1>1, <2>1, <2>3 DEF OK, Inv, Types
      <3>2. cf # c /\ ~Serving(c) /\ ~Queued("tcp", c)
        BY <2>1, <3>1 DEF OK, Descriptors, Accepted, Queued
      <3>3. ~Unserved(c) /\ ~Halfway(c) /\ ~Unserved(c)' /\ ~Halfway(c)'
        BY <1>1, <1>2, <3>2 DEF Unserved, Halfway, Serving
      <3> QED BY <1>1, <2>1, <3>1, <3>3 DEF Right
    <2> QED BY <1>1, <2>2, <2>3 DEF OK
  <1>6. \A d \in Clients : OK(d)'
    BY <1>4, <1>5
  <1> QED BY <1>2, <1>3, <1>6 DEF Inv

LEMMA StepInv == Inv /\ [Next]_vars => Inv'
  <1> SUFFICES ASSUME Inv, [Next]_vars PROVE Inv'
    OBVIOUS
  <1>1. CASE ServerStep
    BY <1>1, AcceptInv, ForkInv, ForkFailsInv, CloseConnectionInv, SelectInv, ReadRequestInv, AnswerInv,
       HandleUdpInv DEF ServerStep
  <1>2. ASSUME NEW c \in Clients, ChildStep(c) \/ ChildKilled(c) PROVE Inv'
    BY <1>2, ChildReadInv, ChildWriteInv, ChildEndInv DEF ChildStep
  <1>3. ASSUME NEW c \in Clients, ClientStep(c) \/ Connect(c) \/ SendTo(c) \/ Leave(c) PROVE Inv'
    BY <1>3, ConnectInv, SendToInv, SendInv, ReadReplyInv, EndInv DEF ClientStep
  <1>4. CASE UNCHANGED vars
    <2>1. /\ server' = server /\ kind' = kind /\ pc' = pc /\ cf' = cf /\ ready' = ready /\ child' = child
          /\ holders' = holders /\ backlog' = backlog /\ unread' = unread /\ reply' = reply
          /\ cl' = cl /\ got' = got /\ failed' = failed
      BY <1>4 DEF vars, parent, sockets, clients
    <2>2. Types' /\ OwnWork' /\ Once' /\ \A p \in {"tcp", "udp"}, d \in Clients : Queued(p, d)' <=> Queued(p, d)
      BY <2>1, QueuesStay DEF Inv, Types, OwnWork
    <2>3. ASSUME NEW d \in Clients PROVE OK(d)'
      <3>1. Same(d)
        BY <2>1, <2>2 DEF Same
      <3> QED BY <2>1, <3>1, SameOK DEF Inv
    <2> QED BY <2>2, <2>3 DEF Inv
  <1> QED BY <1>1, <1>2, <1>3, <1>4 DEF Next

\* What a client of either server has read is the beginning of one reply, and a
\* client whose line fits the buffer reads all of it before the end of the
\* stream, whoever closes the connection last, unless its fork, its child or the
\* client itself failed.
THEOREM ReplyIsWhole == Spec => []WholeReply
  <1>1. Inv => WholeReply
    <2> SUFFICES ASSUME Inv, NEW c \in Clients
                 PROVE  /\ Said(c) \in {<<>>, <<"prefix">>, Whole}
                        /\ cl[c] = "done" /\ kind[c] = "short" /\ c \notin failed => got[c] = Whole
      BY DEF WholeReply, Said
    <2>1. Said(c) \in {<<>>, <<"prefix">>, Whole}
      BY DEF Inv, OK, Telling
    <2>2. ASSUME cl[c] = "done", kind[c] = "short", c \notin failed PROVE got[c] = Whole
      <3>1. reply[c] = <<>> /\ Said(c) = Whole /\ got[c] \in Seq(Words)
        BY <2>2 DEF Inv, OK, Right, Types
      <3>2. got[c] \o <<>> = got[c]
        BY <3>1
      <3> QED BY <3>1, <3>2 DEF Said
    <2> QED BY <2>1, <2>2
  <1> QED BY <1>1, InitInv, StepInv, PTL DEF Spec
=============================================================================
