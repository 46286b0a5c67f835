---------------------------- MODULE MsgPoolProofs ----------------------------
(* lab16/2/3 for any number of clients and workers.  First, what becomes of  *)
(* a task the server said ok to, whatever the handler of SIGCHLD does to the *)
(* table meanwhile; then the table itself, as long as the handler has not    *)
(* run inside a change of it; last the bounds of the table and its count,    *)
(* which hold even if it has.                                                *)
EXTENDS MsgPool, FiniteSetTheorems, TLAPS

----------------------------------------------------------------------------
(* Tasks *)

\* The variables that a task meets on its way, and their types.
TaskTypes ==
    /\ queue \in Seq(Clients)
    /\ job \in [Workers -> SUBSET Clients]
    /\ cl \in [Clients -> {"off", "open", "sent", "gone", "ok", "err"}]
    /\ wstate \in [Workers -> {"none", "alive", "zombie", "gone"}]
    /\ cli \in SUBSET Clients /\ inbox \in SUBSET Clients
    /\ delivered \in SUBSET Clients /\ dropped \in SUBSET Clients /\ lost \in SUBSET Clients
    /\ discarded \in SUBSET Clients

\* A task is in the queue once, with one worker, and in one place at most.
AtWork(c) == \E w \in Workers : c \in job[w]
OnePlace ==
    /\ \A j, k \in 1..Len(queue) : queue[j] = queue[k] => j = k
    /\ \A c \in Clients : \A v, w \in Workers : c \in job[v] /\ c \in job[w] => v = w
    /\ \A c \in Clients :
          /\ InQueue(c) => ~AtWork(c) /\ c \notin delivered \cup dropped \cup lost \cup discarded
          /\ AtWork(c) => c \notin delivered \cup dropped \cup lost \cup discarded
          /\ c \in delivered => c \notin dropped \cup lost \cup discarded
          /\ c \in dropped => c \notin lost \cup discarded
          /\ c \in lost => c \notin discarded

\* A client is in the backlog or in hand only before it is answered.
Unanswered(c) == cl[c] \in {"open", "sent", "gone"}
InHand ==
    /\ \A c \in inbox : Unanswered(c) /\ c \notin cli
    /\ \A c \in cli : Unanswered(c)
    /\ pc \in {"read", "send", "reply"} => \E c \in Clients : cli = {c}
    /\ pc \notin {"read", "send", "reply"} => cli = {}

\* Exactly the tasks that main has sent, or believes to have sent, are somewhere.
Sent(c) == cl[c] = "ok" \/ (c \in cli /\ pc = "reply")
Somewhere(c) == InQueue(c) \/ AtWork(c) \/ c \in delivered \cup dropped \cup lost \cup discarded
AllSent == \A c \in Clients : Sent(c) <=> Somewhere(c)

Inv == TaskTypes /\ OnePlace /\ InHand /\ AllSent

LEMMA InitInv == Init => Inv
  <1> SUFFICES ASSUME Init PROVE Inv
    OBVIOUS
  <1>1. TaskTypes /\ OnePlace /\ InHand /\ AllSent
    BY DEF Init, TaskTypes, OnePlace, InHand, Unanswered, AllSent, Sent, Somewhere, InQueue, AtWork
  <1> QED BY <1>1 DEF Inv

\* Most steps of main, and the clock, leave the tasks where they are.
LEMMA TasksStay ==
    ASSUME Inv, UNCHANGED <<queue, job, delivered, dropped, lost, discarded, cl, cli, inbox>>,
           wstate' \in [Workers -> {"none", "alive", "zombie", "gone"}],
           pc' \notin {"read", "send", "reply"}, pc \notin {"read", "send", "reply"}
    PROVE  Inv'
  BY DEF Inv, TaskTypes, OnePlace, InHand, Unanswered, AllSent, Sent, Somewhere, InQueue, AtWork

LEMMA MainInv ==
    ASSUME Inv, \/ Boot \/ Resize \/ Fork \/ SpawnLoad \/ SpawnCount \/ SpawnStore
                \/ RemoveTest \/ RemovePick \/ RemoveLoad \/ RemoveStore
    PROVE  Inv'
  <1>1. UNCHANGED <<queue, job, delivered, dropped, lost, discarded, cl, cli, inbox>>
    BY DEF Boot, Resize, Fork, SpawnLoad, SpawnCount, SpawnStore, RemoveTest, RemovePick,
           RemoveLoad, RemoveStore, mainVars, tableVars, workVars, clientVars, rest
  <1>2. pc' \notin {"read", "send", "reply"} /\ pc \notin {"read", "send", "reply"}
    BY DEF Boot, Resize, Fork, SpawnLoad, SpawnCount, SpawnStore, RemoveTest, RemovePick,
           RemoveLoad, RemoveStore, Return
  <1>3. wstate' = wstate \/ wstate' = [wstate EXCEPT ![forks'] = "alive"]
    <2>1. CASE Fork
      BY <2>1 DEF Fork
    <2>2. CASE ~Fork
      BY <2>2 DEF Boot, Resize, SpawnLoad, SpawnCount, SpawnStore, RemoveTest, RemovePick,
                  RemoveLoad, RemoveStore, workVars
    <2> QED BY <2>1, <2>2
  <1>4. wstate' \in [Workers -> {"none", "alive", "zombie", "gone"}]
    BY <1>3 DEF Inv, TaskTypes
  <1> QED BY <1>1, <1>2, <1>4, TasksStay

LEMMA TickInv == ASSUME Inv, Tick PROVE Inv'
  BY DEF Tick, mainVars, tableVars, workVars, clientVars,
         Inv, TaskTypes, OnePlace, InHand, Unanswered, AllSent, Sent, Somewhere, InQueue, AtWork

LEMMA AcceptInv == ASSUME Inv, NEW c \in Clients, Accept(c) PROVE Inv'
  <1> USE DEF Inv, Accept, workVars, rest
  <1>1. TaskTypes'
    BY DEF TaskTypes
  <1>2. OnePlace'
    BY DEF OnePlace, InQueue, AtWork
  <1>3. InHand'
    BY DEF InHand, Unanswered, TaskTypes
  <1>4. AllSent'
    BY DEF AllSent, Sent, Somewhere, InQueue, AtWork, InHand, Unanswered, TaskTypes
  <1> QED BY <1>1, <1>2, <1>3, <1>4

LEMMA ReadInv == ASSUME Inv, Read PROVE Inv'
  <1> USE DEF Inv
  <1>1. PICK c \in Clients : cli = {c}
    BY DEF Read, InHand
  <1>2. /\ pc = "read" /\ UNCHANGED <<queue, wstate, job, delivered, dropped, lost, discarded, inbox>>
        /\ \/ pc' = "send" /\ UNCHANGED <<cli, cl>>
           \/ pc' = "size" /\ cli' = {} /\ cl' = [cl EXCEPT ![c] = "err"]
           \/ pc' = "size" /\ cli' = {} /\ UNCHANGED cl
    BY <1>1 DEF Read, workVars, rest
  <1>3. TaskTypes' /\ OnePlace'
    BY <1>2 DEF TaskTypes, OnePlace, InQueue, AtWork
  <1>4. InHand'
    BY <1>1, <1>2 DEF InHand, Unanswered, TaskTypes
  <1>5. \A d \in Clients : cl'[d] = "ok" <=> cl[d] = "ok"
    BY <1>1, <1>2 DEF InHand, Unanswered, TaskTypes
  <1>6. AllSent'
    BY <1>2, <1>5 DEF AllSent, Sent, Somewhere, InQueue, AtWork
  <1> QED BY <1>3, <1>4, <1>6

LEMMA SendInv == ASSUME Inv, Send PROVE Inv'
  <1> USE DEF Inv
  <1>1. PICK c \in Clients : cli = {c}
    BY DEF Send, InHand
  <1>2. /\ queue' = Append(queue, c) /\ pc = "send" /\ pc' = "reply"
        /\ UNCHANGED <<wstate, job, delivered, dropped, lost, discarded, cl, cli, inbox>>
    BY <1>1 DEF Send, mainVars, clientVars, rest
  <1>3. /\ Len(queue) \in Nat /\ queue' \in Seq(Clients) /\ Len(queue') = Len(queue) + 1
        /\ \A k \in 1..Len(queue') : \/ k \in 1..Len(queue) /\ queue'[k] = queue[k]
                                     \/ k = Len(queue) + 1 /\ queue'[k] = c
        /\ \A k \in 1..Len(queue) : k \in 1..Len(queue') /\ queue'[k] = queue[k]
        /\ Len(queue) + 1 \in 1..Len(queue') /\ queue'[Len(queue) + 1] = c
    BY <1>2 DEF TaskTypes
  <1>4. Unanswered(c) /\ ~Somewhere(c)
    BY <1>1, <1>2 DEF InHand, Unanswered, AllSent, Sent
  <1>5. \A d \in Clients : InQueue(d)' <=> (InQueue(d) \/ d = c)
    BY <1>3 DEF InQueue, TaskTypes
  <1>6. \A d \in Clients : AtWork(d)' <=> AtWork(d)
    BY <1>2 DEF AtWork
  <1>7. TaskTypes'
    BY <1>2, <1>3 DEF TaskTypes
  <1>8. OnePlace'
    <2>1. \A j, k \in 1..Len(queue') : queue'[j] = queue'[k] => j = k
      BY <1>3, <1>4 DEF OnePlace, Somewhere, InQueue, TaskTypes
    <2> QED BY <1>2, <1>4, <1>5, <1>6, <2>1 DEF OnePlace, Somewhere
  <1>9. InHand'
    BY <1>1, <1>2 DEF InHand, Unanswered
  <1>10. AllSent'
    BY <1>1, <1>2, <1>5, <1>6 DEF AllSent, Sent, Somewhere
  <1> QED BY <1>7, <1>8, <1>9, <1>10

LEMMA ReplyInv == ASSUME Inv, Reply PROVE Inv'
  <1> USE DEF Inv
  <1>1. PICK c \in Clients : cli = {c}
    BY DEF Reply, InHand
  <1>2. /\ cl' = [cl EXCEPT ![c] = "ok"] /\ cli' = {} /\ pc = "reply" /\ pc' = "size"
        /\ UNCHANGED <<queue, wstate, job, delivered, dropped, lost, discarded, inbox>>
    BY <1>1 DEF Reply, workVars, rest
  <1>3. TaskTypes' /\ OnePlace'
    BY <1>2 DEF TaskTypes, OnePlace, InQueue, AtWork
  <1>4. InHand'
    BY <1>1, <1>2 DEF InHand, Unanswered, TaskTypes
  <1>5. AllSent'
    BY <1>1, <1>2 DEF AllSent, Sent, Somewhere, InQueue, AtWork, TaskTypes
  <1> QED BY <1>3, <1>4, <1>5

\* Workers end: the tasks that they have are dropped.
LEMMA EndInv ==
    ASSUME Inv, NEW ws \in SUBSET Workers, End(ws),
           UNCHANGED <<queue, delivered, lost, discarded, cl, cli, inbox>>,
           \/ UNCHANGED pc
           \/ pc' \notin {"read", "send", "reply"} /\ pc \notin {"read", "send", "reply"}
    PROVE  Inv'
  <1> USE DEF Inv
  <1> DEFINE gone == UNION {job[w] : w \in ws}
  <1>1. /\ wstate' \in [Workers -> {"none", "alive", "zombie", "gone"}]
        /\ job' \in [Workers -> SUBSET Clients]
        /\ dropped' = dropped \cup gone /\ gone \subseteq Clients
        /\ \A v \in ws : job'[v] = {}
        /\ \A v \in Workers \ ws : job'[v] = job[v]
    BY DEF End, TaskTypes
  <1>2. \A c : c \in gone <=> \E w \in ws : c \in job[w]
    OBVIOUS
  <1> HIDE DEF gone
  <1>3. \A c \in Clients : AtWork(c)' <=> (AtWork(c) /\ c \notin gone)
    BY <1>1, <1>2 DEF AtWork, OnePlace
  <1>4. \A c \in gone : AtWork(c)
    BY <1>2 DEF AtWork
  <1>5. \A c \in Clients : InQueue(c)' <=> InQueue(c)
    BY DEF InQueue
  <1>6. TaskTypes'
    BY <1>1 DEF TaskTypes
  <1>7. OnePlace'
    <2>1. \A c \in Clients : \A u, v \in Workers : c \in job'[u] /\ c \in job'[v] => u = v
      BY <1>1 DEF OnePlace
    <2>2. \A c \in Clients :
             /\ InQueue(c)' => ~AtWork(c)' /\ c \notin delivered' \cup dropped' \cup lost' \cup discarded'
             /\ AtWork(c)' => c \notin delivered' \cup dropped' \cup lost' \cup discarded'
             /\ c \in delivered' => c \notin dropped' \cup lost' \cup discarded'
             /\ c \in dropped' => c \notin lost' \cup discarded'
             /\ c \in lost' => c \notin discarded'
      BY <1>1, <1>3, <1>4, <1>5 DEF OnePlace
    <2> QED BY <2>1, <2>2 DEF OnePlace
  <1>8. InHand'
    BY DEF InHand, Unanswered
  <1>9. AllSent'
    BY <1>1, <1>3, <1>4, <1>5 DEF AllSent, Sent, Somewhere
  <1> QED BY <1>6, <1>7, <1>8, <1>9

LEMMA RemoveKillInv == ASSUME Inv, RemoveKill PROVE Inv'
  <1> DEFINE ws == IF pid = 0 THEN Alive ELSE {pid} \cap Alive
  <1>1. ws \in SUBSET Workers
    BY DEF Alive
  <1>2. /\ End(ws) /\ UNCHANGED <<queue, delivered, lost, discarded, cl, cli, inbox>>
        /\ pc' \notin {"read", "send", "reply"} /\ pc \notin {"read", "send", "reply"}
    BY DEF RemoveKill, mainVars, clientVars
  <1> HIDE DEF ws
  <1> QED BY <1>1, <1>2, EndInv

LEMMA SigChldInv == ASSUME Inv, NEW w \in Workers, SigChld(w) PROVE Inv'
  <1> USE DEF Inv
  <1>1. /\ wstate' = [wstate EXCEPT ![w] = "gone"]
        /\ UNCHANGED <<queue, job, delivered, dropped, discarded, cl, cli, inbox>>
        /\ \/ UNCHANGED <<pc, lost>>
           \/ pc = "send" /\ pc' = "reply" /\ lost' = lost \cup cli
    BY DEF SigChld, mainVars, clientVars
  <1>2. CASE UNCHANGED <<pc, lost>>
    BY <1>1, <1>2 DEF TaskTypes, OnePlace, InHand, Unanswered, AllSent, Sent, Somewhere, InQueue, AtWork
  <1>3. CASE pc = "send" /\ pc' = "reply" /\ lost' = lost \cup cli
    <2>1. PICK c \in Clients : cli = {c}
      BY <1>3 DEF InHand, Unanswered
    <2>2. ~Somewhere(c)
      BY <1>3, <2>1 DEF InHand, Unanswered, AllSent, Sent
    <2>3. \A d \in Clients : (InQueue(d)' <=> InQueue(d)) /\ (AtWork(d)' <=> AtWork(d))
      BY <1>1 DEF InQueue, AtWork
    <2>4. TaskTypes' /\ InHand'
      BY <1>1, <1>3, <2>1 DEF TaskTypes, InHand, Unanswered
    <2>5. OnePlace'
      BY <1>1, <1>3, <2>1, <2>2, <2>3 DEF OnePlace, Somewhere
    <2>6. AllSent'
      BY <1>1, <1>3, <2>1, <2>3 DEF AllSent, Sent, Somewhere
    <2> QED BY <2>4, <2>5, <2>6
  <1> QED BY <1>1, <1>2, <1>3

LEMMA TakeInv == ASSUME Inv, NEW w \in Workers, Take(w) PROVE Inv'
  <1> USE DEF Inv
  <1> DEFINE c == Head(queue)
  <1>1. /\ job[w] = {} /\ queue # <<>> /\ queue' = Tail(queue)
        /\ job' = [job EXCEPT ![w] = {c}]
        /\ UNCHANGED <<pc, wstate, delivered, dropped, lost, discarded, cl, cli, inbox>>
    BY DEF Take, mainVars, clientVars, rest
  <1>2. /\ Len(queue) \in Nat \ {0} /\ Len(queue') = Len(queue) - 1 /\ queue' \in Seq(Clients)
        /\ c = queue[1] /\ c \in Clients
        /\ \A k \in 1..Len(queue') : queue'[k] = queue[k + 1] /\ k + 1 \in 1..Len(queue)
        /\ \A k \in 1..Len(queue) : k # 1 => k - 1 \in 1..Len(queue')
    BY <1>1 DEF TaskTypes
  <1> HIDE DEF c
  <1>3. job'[w] = {c} /\ \A v \in Workers : v # w => job'[v] = job[v]
    BY <1>1 DEF TaskTypes
  <1>4. InQueue(c) /\ 1 \in 1..Len(queue)
    BY <1>2 DEF InQueue, TaskTypes
  <1>5. \A d \in Clients : InQueue(d)' <=> (InQueue(d) /\ d # c)
    <2> SUFFICES ASSUME NEW d \in Clients
                 PROVE  (\E k \in 1..Len(queue') : queue'[k] = d)
                          <=> ((\E k \in 1..Len(queue) : queue[k] = d) /\ d # c)
      <3>1. DOMAIN queue = 1..Len(queue) /\ DOMAIN queue' = 1..Len(queue')
        BY <1>2 DEF TaskTypes
      <3> QED BY <3>1 DEF InQueue
    <2>1. ASSUME NEW k \in 1..Len(queue'), queue'[k] = d
          PROVE  (\E j \in 1..Len(queue) : queue[j] = d) /\ d # c
      <3>1. queue[k + 1] = d /\ k + 1 \in 1..Len(queue) /\ k + 1 # 1
        BY <1>2, <2>1
      <3> QED BY <1>2, <1>4, <3>1 DEF OnePlace
    <2>2. ASSUME NEW k \in 1..Len(queue), queue[k] = d, d # c
          PROVE  \E j \in 1..Len(queue') : queue'[j] = d
      <3>1. k # 1
        BY <1>2, <2>2
      <3>2. k - 1 \in 1..Len(queue') /\ queue'[k - 1] = queue[k]
        BY <1>2, <3>1
      <3> QED BY <2>2, <3>2
    <2> QED BY <2>1, <2>2
  <1>6. \A d \in Clients : AtWork(d)' <=> (AtWork(d) \/ d = c)
    BY <1>1, <1>3 DEF AtWork
  <1>7. TaskTypes'
    BY <1>1, <1>2 DEF TaskTypes
  <1>8. OnePlace'
    <2>1. \A j, k \in 1..Len(queue') : queue'[j] = queue'[k] => j = k
      <3> TAKE j, k \in 1..Len(queue')
      <3>1. queue[j + 1] = queue[k + 1] => j + 1 = k + 1
        BY <1>2 DEF OnePlace
      <3> QED BY <1>2, <3>1
    <2>2. \A d \in Clients : \A u, v \in Workers : d \in job'[u] /\ d \in job'[v] => u = v
      BY <1>3, <1>4 DEF OnePlace, AtWork
    <2>3. \A d \in Clients :
             /\ InQueue(d)' => ~AtWork(d)' /\ d \notin delivered' \cup dropped' \cup lost' \cup discarded'
             /\ AtWork(d)' => d \notin delivered' \cup dropped' \cup lost' \cup discarded'
             /\ d \in delivered' => d \notin dropped' \cup lost' \cup discarded'
             /\ d \in dropped' => d \notin lost' \cup discarded'
             /\ d \in lost' => d \notin discarded'
      BY <1>1, <1>4, <1>5, <1>6 DEF OnePlace
    <2> QED BY <2>1, <2>2, <2>3 DEF OnePlace
  <1>9. InHand'
    BY <1>1 DEF InHand, Unanswered
  <1>10. AllSent'
    BY <1>1, <1>4, <1>5, <1>6 DEF AllSent, Sent, Somewhere
  <1> QED BY <1>7, <1>8, <1>9, <1>10

LEMMA CallBackInv == ASSUME Inv, NEW w \in Workers, CallBack(w) PROVE Inv'
  <1> USE DEF Inv
  <1>1. /\ job' = [job EXCEPT ![w] = {}]
        /\ \/ delivered' = delivered \cup job[w] /\ discarded' = discarded
           \/ discarded' = discarded \cup job[w] /\ delivered' = delivered
        /\ UNCHANGED <<pc, queue, wstate, dropped, lost, cl, cli, inbox>>
    BY DEF CallBack, mainVars, clientVars, rest
  <1>2. /\ job'[w] = {} /\ job[w] \subseteq Clients
        /\ \A v \in Workers : v # w => job'[v] = job[v]
    BY <1>1 DEF TaskTypes
  <1>3. \A c \in Clients : AtWork(c)' <=> (AtWork(c) /\ c \notin job[w])
    BY <1>2 DEF AtWork, OnePlace
  <1>4. \A c \in job[w] : AtWork(c)
    BY DEF AtWork
  <1>5. \A c \in Clients : InQueue(c)' <=> InQueue(c)
    BY <1>1 DEF InQueue
  <1>6. TaskTypes'
    BY <1>1, <1>2 DEF TaskTypes
  <1>7. OnePlace'
    <2>1. \A c \in Clients : \A u, v \in Workers : c \in job'[u] /\ c \in job'[v] => u = v
      BY <1>2 DEF OnePlace
    <2>2. \A c \in Clients :
             /\ InQueue(c)' => ~AtWork(c)' /\ c \notin delivered' \cup dropped' \cup lost' \cup discarded'
             /\ AtWork(c)' => c \notin delivered' \cup dropped' \cup lost' \cup discarded'
             /\ c \in delivered' => c \notin dropped' \cup lost' \cup discarded'
             /\ c \in dropped' => c \notin lost' \cup discarded'
             /\ c \in lost' => c \notin discarded'
      BY <1>1, <1>3, <1>4, <1>5 DEF OnePlace
    <2> QED BY <1>1, <2>1, <2>2 DEF OnePlace
  <1>8. InHand'
    BY <1>1 DEF InHand, Unanswered
  <1>9. AllSent'
    BY <1>1, <1>3, <1>4, <1>5 DEF AllSent, Sent, Somewhere
  <1> QED BY <1>6, <1>7, <1>8, <1>9

LEMMA DieInv == ASSUME Inv, NEW w \in Workers, Die(w) PROVE Inv'
  <1>1. /\ {w} \in SUBSET Workers /\ End({w})
        /\ UNCHANGED <<pc, queue, delivered, lost, discarded, cl, cli, inbox>>
    BY DEF Die, mainVars, clientVars
  <1> QED BY <1>1, EndInv

LEMMA ClientInv == ASSUME Inv, NEW c \in Clients, Connect(c) \/ Say(c) PROVE Inv'
  <1> USE DEF Inv, mainVars, workVars, rest
  <1>1. /\ cl' \in [Clients -> {"off", "open", "sent", "gone", "ok", "err"}]
        /\ \A d \in Clients : cl'[d] = cl[d] \/ (d = c /\ Unanswered(d)' /\ cl[d] \in {"off", "open"})
        /\ UNCHANGED <<pc, cli, queue, wstate, job, delivered, dropped, lost, discarded>>
    BY DEF Connect, Say, TaskTypes, Unanswered
  <1>2. /\ inbox' \subseteq inbox \cup {c}
        /\ c \in inbox' => Unanswered(c)' /\ c \notin cli
    BY DEF Connect, Say, InHand, Unanswered, TaskTypes
  <1>3. TaskTypes' /\ OnePlace'
    BY <1>1, <1>2 DEF TaskTypes, OnePlace, InQueue, AtWork
  <1>4. InHand'
    BY <1>1, <1>2 DEF InHand, Unanswered, TaskTypes
  <1>5. \A d \in Clients : cl'[d] = "ok" <=> cl[d] = "ok"
    BY <1>1 DEF Unanswered
  <1>6. AllSent'
    BY <1>1, <1>5 DEF AllSent, Sent, Somewhere, InQueue, AtWork
  <1> QED BY <1>3, <1>4, <1>6

LEMMA StepInv == Inv /\ [Next]_vars => Inv'
  <1> SUFFICES ASSUME Inv, [Next]_vars PROVE Inv'
    OBVIOUS
  <1>1. CASE MainStep
    BY <1>1, MainInv, AcceptInv, ReadInv, SendInv, ReplyInv, RemoveKillInv DEF MainStep
  <1>2. CASE Tick
    BY <1>2, TickInv
  <1>3. ASSUME NEW w \in Workers, SigChld(w) \/ Take(w) \/ CallBack(w) \/ Die(w) PROVE Inv'
    BY <1>3, SigChldInv, TakeInv, CallBackInv, DieInv
  <1>4. ASSUME NEW c \in Clients, Connect(c) \/ Say(c) PROVE Inv'
    BY <1>4, ClientInv
  <1>5. CASE UNCHANGED vars
    BY <1>5 DEF vars, mainVars, tableVars, workVars, clientVars, rest,
                Inv, TaskTypes, OnePlace, InHand, Unanswered, AllSent, Sent, Somewhere, InQueue, AtWork
  <1> QED BY <1>1, <1>2, <1>3, <1>4, <1>5 DEF Next

\* A task that the server said ok to is in exactly one place, whatever the
\* handler of SIGCHLD does to the table and whoever dies: it is neither done
\* twice nor forgotten, unless the msgsnd that should have queued it was
\* interrupted or its call-back failed.
THEOREM AckedInOnePlace == Spec => []AckedOnce
  <1>1. Inv => AckedOnce
    <2> SUFFICES ASSUME Inv, NEW c \in Clients, cl[c] = "ok"
                 PROVE  Cardinality({k \in DOMAIN Places(c) : Places(c)[k]}) = 1
      BY DEF AckedOnce
    <2>1. Somewhere(c)
      BY DEF Inv, AllSent, Sent
    <2>2. \E n \in 1..6 : {k \in DOMAIN Places(c) : Places(c)[k]} = {n}
      <3> DEFINE p1 == InQueue(c)
                 p2 == AtWork(c)
                 p3 == c \in delivered
                 p4 == c \in dropped
                 p5 == c \in lost
                 p6 == c \in discarded
      <3>1. /\ p1 \/ p2 \/ p3 \/ p4 \/ p5 \/ p6
            /\ p1 => ~p2 /\ ~p3 /\ ~p4 /\ ~p5 /\ ~p6
            /\ p2 => ~p3 /\ ~p4 /\ ~p5 /\ ~p6
            /\ p3 => ~p4 /\ ~p5 /\ ~p6
            /\ p4 => ~p5 /\ ~p6
            /\ p5 => ~p6
        BY <2>1 DEF Inv, OnePlace, Somewhere
      <3>2. Places(c) = <<p1, p2, p3, p4, p5, p6>>
        BY DEF Places, AtWork
      <3> HIDE DEF p1, p2, p3, p4, p5, p6
      <3> QED BY <3>1, <3>2
    <2> QED BY <2>2, FS_Singleton
  <1> QED BY <1>1, InitInv, StepInv, PTL DEF Spec

----------------------------------------------------------------------------
(* The table *)

\* The rows that no statement is about to overwrite or to drop, and the workers
\* they should name: a worker just forked is not in the table yet.
Spawning == pc \in {"load", "count", "store"}
Removing == pc \in {"pick", "kill", "drop", "dropped"}
Held == IF pc \in {"store", "drop", "dropped"} THEN worker_cnt - 1 ELSE worker_cnt
Kept == ((Alive \cup Zombies) \ killed) \ (IF Spawning THEN {pid} ELSE {})
Due == Zombies \ killed

TableTypes ==
    /\ worker \in [0..(MAX - 1) -> 0..MaxForks] /\ worker_cnt \in 0..MAX
    /\ forks \in 0..MaxForks /\ boots \in 0..START /\ deaths \in Nat
    /\ wstate \in [Workers -> {"none", "alive", "zombie", "gone"}]
    /\ \A w \in Workers : wstate[w] = "none" <=> w > forks
    /\ killed \subseteq 1..forks

RowsExact ==
    /\ Held \in Nat
    /\ \A j, k \in 0..(Held - 1) : worker[j] = worker[k] => j = k
    /\ \A k \in 0..(Held - 1) : worker[k] \in Kept
    /\ \A w \in Kept : \E k \in 0..(Held - 1) : worker[k] = w

\* What main has computed for the statements to come.
Registers ==
    /\ Spawning => pid \in (Alive \cup Zombies) \ killed
    /\ pc \in {"load", "count"} => worker_cnt < MAX
    /\ pc = "count" => reg = worker_cnt
    /\ pc = "store" => reg = worker_cnt - 1
    /\ Removing => worker_cnt > START
    /\ pc = "kill" => pid = worker[worker_cnt - 1]
    /\ pc = "dropped" => reg = worker_cnt

\* Only the workers' own deaths take the count below START; those the handler has
\* not been told of are still counted.
Floor ==
    /\ Cardinality(Due) <= deaths
    /\ worker_cnt + (IF pc \in {"spawn", "load", "count"} THEN 1 ELSE 0)
         >= boots - deaths + Cardinality(Due)
    /\ pc \notin {"boot", "spawn", "load", "count", "store"} => boots = START

TableInv == TableTypes /\ RowsExact /\ Registers /\ Floor

LEMMA DueFinite ==
    ASSUME TableTypes
    PROVE  IsFiniteSet(Due) /\ Cardinality(Due) \in Nat /\ Due \subseteq Workers
  <1>1. IsFiniteSet(Workers)
    BY FS_Interval, MsgPoolSizes DEF Workers
  <1>2. Due \subseteq Workers
    BY DEF Due, Zombies
  <1> QED BY <1>1, <1>2, FS_Subset, FS_CardinalityType

LEMMA InitTable == Init => TableInv
  <1> SUFFICES ASSUME Init PROVE TableInv
    OBVIOUS
  <1> USE MsgPoolSizes DEF Init
  <1>1. TableTypes
    BY DEF TableTypes, Workers
  <1>2. Due = {} /\ Kept = {}
    BY DEF Due, Kept, Alive, Zombies
  <1>3. RowsExact
    BY <1>2 DEF RowsExact, Held
  <1>4. Registers
    BY DEF Registers, Spawning, Removing
  <1>5. Floor
    BY <1>2, FS_EmptySet DEF Floor
  <1> QED BY <1>1, <1>3, <1>4, <1>5 DEF TableInv

\* The steps that touch no worker and no row: they keep what is held and due.
Untouched == UNCHANGED <<worker, worker_cnt, forks, wstate, killed, deaths>>

LEMMA SameRows ==
    ASSUME RowsExact, worker' = worker, Held' = Held, Kept' = Kept
    PROVE  RowsExact'
  BY DEF RowsExact

\* The clients, the clock and the workers at their jobs.
LEMMA OthersTable ==
    ASSUME TableInv, Untouched, UNCHANGED <<pc, boots, pid, reg>>
    PROVE  TableInv'
  <1> USE DEF Untouched
  <1>1. Held' = Held /\ Kept' = Kept /\ Due' = Due
    BY DEF Held, Kept, Due, Alive, Zombies, Spawning
  <1>2. TableTypes' /\ Registers'
    BY DEF TableInv, TableTypes, Registers, Spawning, Removing, Alive, Zombies
  <1>3. RowsExact'
    BY <1>1, SameRows DEF TableInv
  <1>4. Floor'
    BY <1>1 DEF TableInv, Floor
  <1> QED BY <1>2, <1>3, <1>4 DEF TableInv

\* main between two changes of the table
LEMMA QuietTable ==
    ASSUME TableInv, Untouched, boots' = boots, ~Changing, ~Changing',
           pc \notin {"boot", "spawn"}, pc' # "boot"
    PROVE  TableInv'
  <1> USE DEF Untouched
  <1>1. Held' = Held /\ Kept' = Kept /\ Due' = Due
    BY DEF Held, Kept, Due, Alive, Zombies, Spawning, Changing
  <1>2. TableTypes'
    BY DEF TableInv, TableTypes
  <1>3. RowsExact'
    BY <1>1, SameRows DEF TableInv
  <1>4. Registers'
    BY DEF Registers, Spawning, Removing, Changing
  <1>5. Floor'
    BY <1>1, DueFinite, MsgPoolSizes DEF TableInv, TableTypes, Floor, Changing
  <1> QED BY <1>2, <1>3, <1>4, <1>5 DEF TableInv

LEMMA BootTable == ASSUME TableInv, Boot PROVE TableInv'
  <1>1. /\ Untouched /\ pc = "boot"
        /\ \/ boots < START /\ pc' = "spawn" /\ boots' = boots + 1
           \/ boots >= START /\ pc' = "accept" /\ boots' = boots
    BY MsgPoolSizes DEF Boot, Untouched, tableVars, workVars, rest, TableInv, TableTypes
  <1>2. Held' = Held /\ Kept' = Kept /\ Due' = Due
    BY <1>1 DEF Untouched, Held, Kept, Due, Alive, Zombies, Spawning
  <1>3. TableTypes'
    BY <1>1, MsgPoolSizes DEF Untouched, TableInv, TableTypes
  <1>4. RowsExact'
    BY <1>1, <1>2, SameRows DEF Untouched, TableInv
  <1>5. Registers'
    BY <1>1 DEF Registers, Spawning, Removing
  <1>6. Floor'
    <2>1. /\ Cardinality(Due) \in Nat /\ Cardinality(Due') = Cardinality(Due)
          /\ worker_cnt' = worker_cnt /\ worker_cnt \in Nat
          /\ deaths' = deaths /\ deaths \in Nat /\ boots \in 0..START
      BY <1>1, <1>2, DueFinite, MsgPoolSizes DEF Untouched, TableInv, TableTypes
    <2>2. Cardinality(Due) <= deaths /\ worker_cnt >= boots - deaths + Cardinality(Due)
      BY <1>1, <2>1 DEF TableInv, Floor
    <2>3. /\ worker_cnt' + (IF pc' \in {"spawn", "load", "count"} THEN 1 ELSE 0)
               >= boots' - deaths' + Cardinality(Due')
          /\ pc' \notin {"boot", "spawn", "load", "count", "store"} => boots' = START
      BY <1>1, <2>1, <2>2, MsgPoolSizes
    <2> QED BY <2>1, <2>2, <2>3 DEF Floor
  <1> QED BY <1>3, <1>4, <1>5, <1>6 DEF TableInv

LEMMA ResizeTable ==
    ASSUME TableInv, \/ Resize \/ Send \/ Read \/ Reply \/ \E c \in Clients : Accept(c)
    PROVE  TableInv'
  <1>1. Untouched /\ boots' = boots
    BY DEF Untouched, Resize, Send, Read, Reply, Accept, mainVars, tableVars, workVars, rest
  <1>2. /\ ~Changing /\ ~Changing' /\ pc \notin {"boot", "spawn"} /\ pc' # "boot"
    BY DEF Changing, Resize, Send, Read, Reply, Accept
  <1> QED BY <1>1, <1>2, QuietTable

LEMMA ForkTable == ASSUME TableInv, Fork PROVE TableInv'
  <1>1. CASE worker_cnt >= MAX
    <2>1. /\ Untouched /\ boots' = boots /\ pc = "spawn" /\ pc' \in {"boot", "accept"}
          /\ pc' = "accept" => boots = START
      BY <1>1, MsgPoolSizes DEF Fork, Return, Untouched, tableVars, TableInv, TableTypes
    <2>2. Held' = Held /\ Kept' = Kept /\ Due' = Due
      BY <2>1 DEF Untouched, Held, Kept, Due, Alive, Zombies, Spawning
    <2>3. TableTypes'
      BY <2>1 DEF Untouched, TableInv, TableTypes
    <2>4. RowsExact'
      BY <2>1, <2>2, SameRows DEF Untouched, TableInv
    <2>5. Registers'
      BY <2>1 DEF Registers, Spawning, Removing
    <2>6. Floor'
      BY <1>1, <2>1, <2>2, DueFinite, MsgPoolSizes
         DEF Untouched, TableInv, TableTypes, Floor
    <2> QED BY <2>3, <2>4, <2>5, <2>6 DEF TableInv
  <1>2. CASE worker_cnt < MAX
    <2>1. /\ UNCHANGED <<worker, worker_cnt, killed, deaths, boots>>
          /\ pc = "spawn" /\ pc' = "load" /\ forks < MaxForks /\ forks' = forks + 1
          /\ pid' = forks + 1 /\ wstate' = [wstate EXCEPT ![forks + 1] = "alive"]
      BY <1>2, MsgPoolSizes DEF Fork, tableVars, TableInv, TableTypes
    <2>2. /\ forks + 1 \in Workers /\ forks + 1 \notin killed /\ wstate[forks + 1] = "none"
          /\ wstate'[forks + 1] = "alive"
          /\ \A w \in Workers : w # forks + 1 => wstate'[w] = wstate[w]
      BY <2>1, MsgPoolSizes DEF TableInv, TableTypes, Workers
    <2>3. Alive' = Alive \cup {forks + 1} /\ Zombies' = Zombies
      BY <2>2 DEF Alive, Zombies
    <2>4. Held' = Held /\ Kept' = Kept /\ Due' = Due
      BY <2>1, <2>2, <2>3 DEF Held, Kept, Due, Alive, Zombies, Spawning
    <2>5. TableTypes'
      BY <2>1, <2>2, MsgPoolSizes DEF TableInv, TableTypes, Workers
    <2>6. RowsExact'
      BY <2>1, <2>4, SameRows DEF TableInv
    <2>7. Registers'
      BY <1>2, <2>1, <2>2, <2>3 DEF Registers, Spawning, Removing
    <2>8. Floor'
      BY <2>1, <2>4 DEF TableInv, Floor
    <2> QED BY <2>5, <2>6, <2>7, <2>8 DEF TableInv
  <1> QED BY <1>1, <1>2, MsgPoolSizes DEF TableInv, TableTypes

LEMMA SpawnLoadTable == ASSUME TableInv, SpawnLoad PROVE TableInv'
  <1>1. /\ Untouched /\ UNCHANGED <<boots, pid>>
        /\ pc = "load" /\ pc' = "count" /\ reg' = worker_cnt
    BY DEF SpawnLoad, Untouched, tableVars, workVars, rest
  <1>2. Held' = Held /\ Kept' = Kept /\ Due' = Due
    BY <1>1 DEF Untouched, Held, Kept, Due, Alive, Zombies, Spawning
  <1>3. TableTypes'
    BY <1>1 DEF Untouched, TableInv, TableTypes
  <1>4. RowsExact'
    BY <1>1, <1>2, SameRows DEF Untouched, TableInv
  <1>5. Registers'
    BY <1>1 DEF Untouched, TableInv, Registers, Spawning, Removing, Alive, Zombies
  <1>6. Floor'
    BY <1>1, <1>2 DEF Untouched, TableInv, Floor
  <1> QED BY <1>3, <1>4, <1>5, <1>6 DEF TableInv

LEMMA SpawnCountTable == ASSUME TableInv, SpawnCount PROVE TableInv'
  <1>1. /\ UNCHANGED <<worker, forks, wstate, killed, deaths, boots, pid, reg>>
        /\ pc = "count" /\ pc' = "store" /\ worker_cnt' = reg + 1
    BY DEF SpawnCount, mainVars, workVars, rest
  <1>2. worker_cnt < MAX /\ reg = worker_cnt /\ worker_cnt \in Nat
    BY <1>1, MsgPoolSizes DEF TableInv, TableTypes, Registers
  <1>3. Held' = Held /\ Kept' = Kept /\ Due' = Due
    BY <1>1, <1>2 DEF Held, Kept, Due, Alive, Zombies, Spawning
  <1>4. TableTypes'
    BY <1>1, <1>2, MsgPoolSizes DEF TableInv, TableTypes
  <1>5. RowsExact'
    BY <1>1, <1>3, SameRows DEF TableInv
  <1>6. Registers'
    BY <1>1, <1>2 DEF TableInv, Registers, Spawning, Removing, Alive, Zombies
  <1>7. Floor'
    BY <1>1, <1>2, <1>3 DEF TableInv, Floor
  <1> QED BY <1>4, <1>5, <1>6, <1>7 DEF TableInv

LEMMA SpawnStoreTable == ASSUME TableInv, SpawnStore PROVE TableInv'
  <1>1. /\ UNCHANGED <<worker_cnt, forks, wstate, killed, deaths, boots>>
        /\ pc = "store" /\ pc' \in {"boot", "accept"}
        /\ pc' = "accept" => boots >= START
        /\ worker' = [worker EXCEPT ![reg] = pid]
    BY MsgPoolSizes DEF SpawnStore, Return, mainVars, workVars, rest, TableInv, TableTypes
  <1>2. /\ reg = worker_cnt - 1 /\ reg \in 0..(MAX - 1) /\ Held = reg /\ Held' = reg + 1
        /\ pid \in (Alive \cup Zombies) \ killed /\ pid \in 0..MaxForks
    <2>1. Held = worker_cnt - 1 /\ Held' = worker_cnt
      BY <1>1 DEF Held
    <2>2. worker_cnt - 1 \in Nat /\ worker_cnt \in 0..MAX
      BY <2>1 DEF TableInv, TableTypes, RowsExact
    <2>3. reg = worker_cnt - 1
      BY <1>1, <2>2 DEF TableInv, TableTypes, Registers
    <2>4. pid \in (Alive \cup Zombies) \ killed
      BY <1>1 DEF TableInv, Registers, Spawning
    <2>5. Alive \cup Zombies \subseteq 0..MaxForks
      BY MsgPoolSizes DEF Alive, Zombies, Workers
    <2> QED BY <2>1, <2>2, <2>3, <2>4, <2>5, MsgPoolSizes
  <1>3. worker'[reg] = pid /\ \A k \in 0..(MAX - 1) : k # reg => worker'[k] = worker[k]
    BY <1>1, <1>2 DEF TableInv, TableTypes
  <1>4. Kept' = Kept \cup {pid} /\ pid \notin Kept /\ Due' = Due
    BY <1>1, <1>2 DEF Kept, Due, Alive, Zombies, Spawning
  <1>5. TableTypes'
    BY <1>1, <1>2, MsgPoolSizes DEF TableInv, TableTypes
  <1>6. RowsExact'
    <2>1. \A k \in 0..(Held' - 1) : \/ k \in 0..(Held - 1) /\ worker'[k] = worker[k]
                                    \/ k = reg /\ worker'[k] = pid
      BY <1>2, <1>3, MsgPoolSizes
    <2>2. \A k \in 0..(Held - 1) : k \in 0..(Held' - 1) /\ worker'[k] = worker[k]
      BY <1>2, <1>3, MsgPoolSizes
    <2>3. Held' \in Nat /\ reg \in 0..(Held' - 1)
      BY <1>2, MsgPoolSizes
    <2>4. \A j, k \in 0..(Held' - 1) : worker'[j] = worker'[k] => j = k
      BY <1>4, <2>1 DEF TableInv, RowsExact
    <2>5. \A k \in 0..(Held' - 1) : worker'[k] \in Kept'
      BY <1>4, <2>1 DEF TableInv, RowsExact
    <2>6. \A w \in Kept' : \E k \in 0..(Held' - 1) : worker'[k] = w
      <3>1. \A w \in Kept : \E k \in 0..(Held - 1) : worker[k] = w
        BY DEF TableInv, RowsExact
      <3>2. \A w \in Kept : \E k \in 0..(Held' - 1) : worker'[k] = w
        BY <2>2, <3>1
      <3> QED BY <1>3, <1>4, <2>3, <3>2
    <2> QED BY <2>3, <2>4, <2>5, <2>6 DEF RowsExact
  <1>7. Registers'
    BY <1>1 DEF Registers, Spawning, Removing
  <1>8. Floor'
    BY <1>1, <1>4, DueFinite, MsgPoolSizes DEF TableInv, TableTypes, Floor
  <1> QED BY <1>5, <1>6, <1>7, <1>8 DEF TableInv

LEMMA RemoveTestTable == ASSUME TableInv, RemoveTest PROVE TableInv'
  <1>1. /\ Untouched /\ boots' = boots /\ pc = "remove"
        /\ \/ pc' = "accept"
           \/ pc' = "pick" /\ worker_cnt > START
    BY MsgPoolSizes DEF RemoveTest, Untouched, mainVars, tableVars, workVars, rest,
                        TableInv, TableTypes
  <1>2. Held' = Held /\ Kept' = Kept /\ Due' = Due
    BY <1>1 DEF Untouched, Held, Kept, Due, Alive, Zombies, Spawning
  <1>3. TableTypes'
    BY <1>1 DEF Untouched, TableInv, TableTypes
  <1>4. RowsExact'
    BY <1>1, <1>2, SameRows DEF Untouched, TableInv
  <1>5. Registers'
    BY <1>1 DEF Untouched, Registers, Spawning, Removing
  <1>6. Floor'
    BY <1>1, <1>2 DEF Untouched, TableInv, Floor
  <1> QED BY <1>3, <1>4, <1>5, <1>6 DEF TableInv

LEMMA RemovePickTable == ASSUME TableInv, RemovePick \/ RemoveLoad PROVE TableInv'
  <1>1. /\ Untouched /\ boots' = boots
        /\ \/ pc = "pick" /\ pc' = "kill" /\ pid' = worker[worker_cnt - 1]
           \/ pc = "drop" /\ pc' = "dropped" /\ reg' = worker_cnt
    BY DEF RemovePick, RemoveLoad, Untouched, tableVars, workVars, rest
  <1>2. Held' = Held /\ Kept' = Kept /\ Due' = Due
    BY <1>1 DEF Untouched, Held, Kept, Due, Alive, Zombies, Spawning
  <1>3. TableTypes'
    BY <1>1 DEF Untouched, TableInv, TableTypes
  <1>4. RowsExact'
    BY <1>1, <1>2, SameRows DEF Untouched, TableInv
  <1>5. Registers'
    BY <1>1 DEF Untouched, TableInv, Registers, Spawning, Removing
  <1>6. Floor'
    BY <1>1, <1>2 DEF Untouched, TableInv, Floor
  <1> QED BY <1>3, <1>4, <1>5, <1>6 DEF TableInv

\* kill() takes the worker of the last row out of the table's account, whether it
\* is alive or has died without the handler's knowledge.
LEMMA RemoveKillTable == ASSUME TableInv, RemoveKill PROVE TableInv'
  <1>0. pc = "kill"
    BY DEF RemoveKill
  <1>2. worker_cnt > START /\ pid = worker[worker_cnt - 1] /\ worker_cnt \in Nat
    BY <1>0, MsgPoolSizes DEF TableInv, TableTypes, Registers, Removing
  <1>1. /\ UNCHANGED <<worker, worker_cnt, forks, deaths, boots, reg>>
        /\ pc = "kill" /\ pc' = "drop" /\ killed' = killed \cup {pid}
        /\ \/ pid \in Alive /\ wstate' = [wstate EXCEPT ![pid] = "zombie"]
           \/ pid \notin Alive /\ wstate' = wstate
    <2>1. Held = worker_cnt /\ worker_cnt - 1 \in 0..(Held - 1)
      BY <1>0, <1>2, MsgPoolSizes DEF Held
    <2>2. pid \in Workers
      BY <1>2, <2>1 DEF TableInv, RowsExact, Kept, Alive, Zombies
    <2>3. pid # 0
      BY <2>2, MsgPoolSizes DEF Workers
    <2>4. /\ UNCHANGED <<worker, worker_cnt, forks, deaths, boots, reg>>
          /\ pc' = "drop" /\ killed' = killed \cup {pid}
          /\ wstate' = [w \in Workers |-> IF w \in {pid} \cap Alive THEN "zombie" ELSE wstate[w]]
      BY <2>3 DEF RemoveKill, End, mainVars, tableVars
    <2> QED BY <1>0, <2>2, <2>4 DEF TableInv, TableTypes
  <1>3. Held = worker_cnt /\ Held' = worker_cnt - 1 /\ worker_cnt - 1 \in 0..(Held - 1)
    BY <1>1, <1>2, MsgPoolSizes DEF Held
  <1>4. pid \in (Alive \cup Zombies) \ killed /\ Kept = (Alive \cup Zombies) \ killed
    BY <1>1, <1>2, <1>3 DEF TableInv, RowsExact, Kept, Spawning
  <1>5. pid \in Workers /\ wstate[pid] # "none"
    BY <1>4 DEF Alive, Zombies
  <1>6. /\ Alive' \cup Zombies' = Alive \cup Zombies
        /\ Zombies' \ {pid} = Zombies \ {pid}
    BY <1>1, <1>5 DEF TableInv, TableTypes, Alive, Zombies
  <1>7. Kept' = Kept \ {pid} /\ Due' = Due \ {pid}
    BY <1>1, <1>4, <1>6 DEF Kept, Due, Spawning
  <1>8. TableTypes'
    <2>1. pid \in 1..forks
      BY <1>5, MsgPoolSizes DEF TableInv, TableTypes, Workers
    <2>2. wstate' \in [Workers -> {"none", "alive", "zombie", "gone"}]
      BY <1>1 DEF TableInv, TableTypes
    <2>3. \A w \in Workers : wstate'[w] = "none" <=> wstate[w] = "none"
      BY <1>1, <1>5 DEF TableInv, TableTypes
    <2> QED BY <1>1, <2>1, <2>2, <2>3 DEF TableInv, TableTypes
  <1>9. RowsExact'
    <2>1. Held' \in Nat /\ \A k \in 0..(Held' - 1) : k \in 0..(Held - 1) /\ k # worker_cnt - 1
      BY <1>2, <1>3, MsgPoolSizes
    <2>2. \A j, k \in 0..(Held' - 1) : worker[j] = worker[k] => j = k
      BY <2>1 DEF TableInv, RowsExact
    <2>3. \A k \in 0..(Held' - 1) : worker[k] \in Kept \ {pid}
      BY <1>2, <1>3, <2>1 DEF TableInv, RowsExact
    <2>4. ASSUME NEW w \in Kept \ {pid} PROVE \E k \in 0..(Held' - 1) : worker[k] = w
      <3>1. PICK k \in 0..(Held - 1) : worker[k] = w
        BY DEF TableInv, RowsExact
      <3>2. k # worker_cnt - 1
        BY <1>2, <3>1
      <3>3. k \in 0..(Held' - 1)
        BY <1>2, <1>3, <3>2
      <3> QED BY <3>1, <3>3
    <2> QED BY <1>1, <1>7, <2>1, <2>2, <2>3, <2>4 DEF RowsExact
  <1>10. Registers'
    BY <1>1, <1>2 DEF Registers, Spawning, Removing
  <1>11. Floor'
    <2>1. /\ Cardinality(Due') <= Cardinality(Due) /\ Cardinality(Due') \in Nat
          /\ Cardinality(Due) \in Nat /\ deaths \in Nat
      <3>0. deaths \in Nat
        BY DEF TableInv, TableTypes
      <3>1. IsFiniteSet(Due) /\ Cardinality(Due) \in Nat
        BY DueFinite DEF TableInv
      <3>2. IsFiniteSet(Due') /\ Cardinality(Due') \in Nat
        BY <1>7, <3>1, FS_RemoveElement, FS_CardinalityType
      <3>3. Cardinality(Due') = IF pid \in Due THEN Cardinality(Due) - 1 ELSE Cardinality(Due)
        BY <1>7, <3>1, FS_RemoveElement
      <3> QED BY <3>0, <3>1, <3>2, <3>3
    <2>2. worker_cnt >= boots - deaths + Cardinality(Due) /\ Cardinality(Due) <= deaths
      BY <1>1, <1>2, DueFinite DEF TableInv, TableTypes, Floor
    <2>3. worker_cnt >= boots - deaths + Cardinality(Due')
      BY <2>1, <2>2, DueFinite, MsgPoolSizes DEF TableInv, TableTypes
    <2>4. Cardinality(Due') <= deaths
      BY <2>1, <2>2
    <2>5. boots = START
      BY <1>1 DEF TableInv, Floor
    <2> QED BY <1>1, <2>3, <2>4, <2>5, MsgPoolSizes DEF TableInv, TableTypes, Floor
  <1> QED BY <1>8, <1>9, <1>10, <1>11 DEF TableInv

LEMMA RemoveStoreTable == ASSUME TableInv, RemoveStore PROVE TableInv'
  <1>1. /\ UNCHANGED <<worker, forks, wstate, killed, deaths, boots>>
        /\ pc = "dropped" /\ pc' = "accept" /\ worker_cnt' = reg - 1
    BY DEF RemoveStore, mainVars, workVars, rest
  <1>2. /\ worker_cnt > START /\ worker_cnt \in 0..MAX /\ worker_cnt' = worker_cnt - 1
    BY <1>1 DEF TableInv, TableTypes, Registers, Removing
  <1>3. Held' = Held /\ Kept' = Kept /\ Due' = Due
    BY <1>1, <1>2 DEF Held, Kept, Due, Alive, Zombies, Spawning
  <1>4. TableTypes'
    BY <1>1, <1>2, MsgPoolSizes DEF TableInv, TableTypes
  <1>5. RowsExact'
    BY <1>1, <1>3, SameRows DEF TableInv
  <1>6. Registers'
    BY <1>1 DEF Registers, Spawning, Removing
  <1>7. Floor'
    <2>1. worker_cnt - 1 >= boots - deaths + Cardinality(Due)
      <3>1. boots = START /\ Cardinality(Due) <= deaths
        BY <1>1 DEF TableInv, Floor
      <3>2. Cardinality(Due) \in Nat /\ deaths \in Nat
        BY DueFinite DEF TableInv, TableTypes
      <3> QED BY <1>2, <3>1, <3>2, MsgPoolSizes
    <2> QED BY <1>1, <1>2, <1>3, <2>1 DEF TableInv, Floor
  <1> QED BY <1>4, <1>5, <1>6, <1>7 DEF TableInv

\* A worker dies by itself: its row stays until the handler runs.
LEMMA DieTable == ASSUME TableInv, NEW w \in Workers, Die(w) PROVE TableInv'
  <1>1. /\ UNCHANGED <<worker, worker_cnt, forks, killed, boots, pc, pid, reg>>
        /\ deaths' = deaths + 1 /\ w \in Alive
        /\ wstate' = [wstate EXCEPT ![w] = "zombie"]
    BY DEF Die, End, mainVars, tableVars, TableInv, TableTypes
  <1>2. Alive' = Alive \ {w} /\ Zombies' = Zombies \cup {w}
    BY <1>1 DEF TableInv, TableTypes, Alive, Zombies
  <1>3. /\ Held' = Held /\ Kept' = Kept
        /\ Due' = Due \/ (Due' = Due \cup {w} /\ w \notin Due)
    BY <1>1, <1>2 DEF Held, Kept, Due, Spawning
  <1>4. TableTypes'
    BY <1>1 DEF TableInv, TableTypes, Alive
  <1>5. RowsExact'
    BY <1>1, <1>3, SameRows DEF TableInv
  <1>6. Registers'
    BY <1>1, <1>2 DEF TableInv, Registers, Spawning, Removing
  <1>7. Floor'
    <2>1. \/ Cardinality(Due') = Cardinality(Due)
          \/ Cardinality(Due') = Cardinality(Due) + 1
      BY <1>3, DueFinite, FS_AddElement DEF TableInv
    <2>2. /\ Cardinality(Due) \in Nat /\ deaths \in Nat /\ worker_cnt \in Nat /\ boots \in Nat
      BY DueFinite, MsgPoolSizes DEF TableInv, TableTypes
    <2> QED BY <1>1, <2>1, <2>2 DEF TableInv, Floor
  <1> QED BY <1>4, <1>5, <1>6, <1>7 DEF TableInv

\* The handler outside a change of the table: the row of a worker that died by
\* itself closes up, one that was killed has no row any more.
LEMMA SigChldTable ==
    ASSUME TableInv, NEW w \in Workers, SigChld(w), ~Changing
    PROVE  TableInv'
  <1>1. /\ UNCHANGED <<forks, killed, deaths, boots, pid, reg>> /\ Forget(w)
        /\ wstate[w] = "zombie" /\ wstate' = [wstate EXCEPT ![w] = "gone"]
        /\ pc' = pc \/ (pc = "send" /\ pc' = "reply")
    BY DEF SigChld, mainVars
  <1>2. ~Changing' /\ ~Spawning /\ ~Spawning' /\ ~Removing'
        /\ Held = worker_cnt /\ Held' = worker_cnt'
    BY <1>1 DEF Changing, Spawning, Removing, Held
  <1>3. Alive' = Alive /\ Zombies' = Zombies \ {w} /\ w \in Zombies
    BY <1>1 DEF TableInv, TableTypes, Alive, Zombies
  <1>4. Kept' = Kept \ {w} /\ Due' = Due \ {w} /\ (w \in Kept <=> w \notin killed)
        /\ (w \in Due <=> w \notin killed)
    BY <1>1, <1>2, <1>3 DEF Kept, Due, Alive, Zombies
  <1>5. Registers'
    BY <1>2 DEF Registers, Spawning, Removing, Changing
  <1>6. /\ wstate' \in [Workers -> {"none", "alive", "zombie", "gone"}]
        /\ \A v \in Workers : wstate'[v] = "none" <=> wstate[v] = "none"
    BY <1>1 DEF TableInv, TableTypes
  <1>7. /\ \A k \in 0..(worker_cnt - 1) : worker[k] \in Kept
        /\ \A j, k \in 0..(worker_cnt - 1) : worker[j] = worker[k] => j = k
        /\ \A v \in Kept : \E k \in 0..(worker_cnt - 1) : worker[k] = v
    BY <1>2 DEF TableInv, RowsExact
  <1>8. CASE w \in killed
    <2>1. At(w) = {}
      BY <1>4, <1>7, <1>8 DEF At
    <2>2. UNCHANGED <<worker, worker_cnt>>
      BY <1>1, <2>1 DEF Forget, tableVars
    <2>3. Held' = Held /\ Kept' = Kept /\ Due' = Due
      BY <1>2, <1>4, <1>8, <2>2
    <2>4. TableTypes'
      BY <1>1, <1>6, <2>2 DEF TableInv, TableTypes
    <2>5. RowsExact'
      BY <2>2, <2>3, SameRows DEF TableInv
    <2>6. Floor'
      BY <1>1, <2>2, <2>3 DEF TableInv, Floor
    <2> QED BY <1>5, <2>4, <2>5, <2>6 DEF TableInv
  <1>9. CASE w \notin killed
    <2>1. PICK f \in 0..(worker_cnt - 1) : worker[f] = w
      BY <1>4, <1>7, <1>9
    <2>2. At(w) = {f}
      BY <1>7, <2>1 DEF At
    <2>3. First(w) = f
      BY <2>1, <2>2 DEF First
    <2>4. /\ worker' = [k \in DOMAIN worker |->
                          IF k >= f /\ k < worker_cnt - 1 THEN worker[k + 1] ELSE worker[k]]
          /\ worker_cnt' = worker_cnt - 1
      BY <1>1, <2>2, <2>3 DEF Forget
    <2>5. /\ worker_cnt \in Nat /\ worker_cnt <= MAX /\ worker_cnt' \in Nat /\ f \in Nat
          /\ f < worker_cnt /\ MAX \in Nat
          /\ \A k \in 0..(MAX - 1) : worker[k] \in 0..MaxForks
      BY <2>1, <2>4, MsgPoolSizes DEF TableInv, TableTypes
    \* where a row of the new table comes from, and where an old row goes
    <2>6. ASSUME NEW k \in 0..(worker_cnt' - 1)
          PROVE  /\ k >= f => k + 1 \in 0..(worker_cnt - 1) /\ k + 1 # f /\ worker'[k] = worker[k + 1]
                 /\ k < f => k \in 0..(worker_cnt - 1) /\ k # f /\ worker'[k] = worker[k]
      BY <2>4, <2>5 DEF TableInv, TableTypes
    <2>7. ASSUME NEW k \in 0..(worker_cnt - 1)
          PROVE  /\ k > f => k - 1 \in 0..(worker_cnt' - 1) /\ worker'[k - 1] = worker[k]
                 /\ k < f => k \in 0..(worker_cnt' - 1) /\ worker'[k] = worker[k]
      <3>1. k > f => k - 1 \in 0..(worker_cnt' - 1) /\ k - 1 >= f /\ (k - 1) + 1 = k
        BY <2>4, <2>5
      <3>2. k < f => k \in 0..(worker_cnt' - 1)
        BY <2>4, <2>5
      <3> QED BY <2>6, <3>1, <3>2
    <2>8. TableTypes'
      <3>1. worker' \in [0..(MAX - 1) -> 0..MaxForks]
        <4>1. DOMAIN worker = 0..(MAX - 1)
          BY DEF TableInv, TableTypes
        <4>2. ASSUME NEW k \in 0..(MAX - 1)
              PROVE  (IF k >= f /\ k < worker_cnt - 1 THEN worker[k + 1] ELSE worker[k])
                        \in 0..MaxForks
          BY <2>5
        <4> QED BY <2>4, <4>1, <4>2
      <3>2. worker_cnt' \in 0..MAX
        BY <2>4, <2>5
      <3> QED BY <1>1, <1>6, <3>1, <3>2 DEF TableInv, TableTypes
    <2>9. RowsExact'
      <3>1. \A j, k \in 0..(worker_cnt' - 1) : worker'[j] = worker'[k] => j = k
        <4> SUFFICES ASSUME NEW j \in 0..(worker_cnt' - 1), NEW k \in 0..(worker_cnt' - 1),
                            worker'[j] = worker'[k]
                     PROVE  j = k
          OBVIOUS
        <4>1. CASE j >= f /\ k >= f
          <5>1. j + 1 = k + 1
            BY <1>7, <2>6, <4>1
          <5> QED BY <5>1, <2>5
        <4>2. CASE j < f /\ k < f
          BY <1>7, <2>6, <4>2
        <4>3. CASE j >= f /\ k < f
          <5>1. j + 1 = k
            BY <1>7, <2>6, <4>3
          <5> QED BY <5>1, <4>3, <2>5
        <4>4. CASE j < f /\ k >= f
          <5>1. k + 1 = j
            BY <1>7, <2>6, <4>4
          <5> QED BY <5>1, <4>4, <2>5
        <4> QED BY <4>1, <4>2, <4>3, <4>4, <2>5
      <3>2. ASSUME NEW k \in 0..(worker_cnt' - 1) PROVE worker'[k] \in Kept \ {w}
        <4>1. CASE k >= f
          BY <1>7, <2>1, <2>6, <4>1
        <4>2. CASE k < f
          BY <1>7, <2>1, <2>6, <4>2
        <4> QED BY <4>1, <4>2, <2>5
      <3>3. ASSUME NEW v \in Kept \ {w} PROVE \E k \in 0..(worker_cnt' - 1) : worker'[k] = v
        <4>1. PICK k \in 0..(worker_cnt - 1) : worker[k] = v
          BY <1>7
        <4>2. k > f \/ k < f
          BY <2>1, <2>5, <4>1
        <4>3. CASE k > f
          <5>1. k - 1 \in 0..(worker_cnt' - 1) /\ worker'[k - 1] = v
            BY <2>7, <4>1, <4>3
          <5> QED BY <5>1
        <4>4. CASE k < f
          <5>1. k \in 0..(worker_cnt' - 1) /\ worker'[k] = v
            BY <2>7, <4>1, <4>4
          <5> QED BY <5>1
        <4> QED BY <4>2, <4>3, <4>4
      <3> QED BY <1>2, <1>4, <2>5, <3>1, <3>2, <3>3 DEF RowsExact
    <2>10. Floor'
      <3>1. IsFiniteSet(Due) /\ Cardinality(Due) \in Nat
        BY DueFinite DEF TableInv
      <3>2. Cardinality(Due') = Cardinality(Due) - 1
        BY <1>4, <1>9, <3>1, FS_RemoveElement
      <3>3. deaths \in Nat /\ boots \in Nat
        BY MsgPoolSizes DEF TableInv, TableTypes
      <3>4. CASE pc' = pc
        BY <1>1, <2>4, <2>5, <3>1, <3>2, <3>3, <3>4 DEF TableInv, Floor
      <3>5. CASE pc = "send" /\ pc' = "reply"
        BY <1>1, <2>4, <2>5, <3>1, <3>2, <3>3, <3>5 DEF TableInv, Floor
      <3> QED BY <1>1, <3>4, <3>5
    <2> QED BY <1>5, <2>8, <2>9, <2>10 DEF TableInv
  <1> QED BY <1>8, <1>9

LEMMA StepTable == (~raced => TableInv) /\ [Next]_vars => (~raced' => TableInv')
  <1> SUFFICES ASSUME ~raced => TableInv, [Next]_vars, ~raced' PROVE TableInv'
    OBVIOUS
  <1>1. ~raced /\ TableInv
    <2>1. raced' = raced \/ (\E w \in Workers : raced' = (raced \/ Changing))
      BY DEF Next, MainStep, Boot, Accept, Read, Send, Reply, Resize, Fork, SpawnLoad, SpawnCount,
             SpawnStore, RemoveTest, RemovePick, RemoveKill, RemoveLoad, RemoveStore, SigChld,
             Take, CallBack, Die, Connect, Say, Tick, vars, rest
    <2>2. ASSUME raced' = raced PROVE ~raced
      BY <2>2, Zenon
    <2>3. ASSUME raced' = (raced \/ Changing) PROVE ~raced
      BY <2>3, Zenon
    <2> QED BY <2>1, <2>2, <2>3, Zenon
  <1>2. CASE MainStep
    BY <1>1, <1>2, BootTable, ResizeTable, ForkTable, SpawnLoadTable, SpawnCountTable,
       SpawnStoreTable, RemoveTestTable, RemovePickTable, RemoveKillTable, RemoveStoreTable
       DEF MainStep
  <1>3. CASE Tick
    BY <1>1, <1>3, OthersTable DEF Tick, Untouched, mainVars, tableVars, workVars
  <1>4. ASSUME NEW w \in Workers, SigChld(w) PROVE TableInv'
    <2>1. ~Changing
      BY <1>4 DEF SigChld
    <2> QED BY <1>1, <1>4, <2>1, SigChldTable
  <1>5. ASSUME NEW w \in Workers, Take(w) \/ CallBack(w) PROVE TableInv'
    BY <1>1, <1>5, OthersTable DEF Take, CallBack, Untouched, mainVars, tableVars, rest
  <1>6. ASSUME NEW w \in Workers, Die(w) PROVE TableInv'
    BY <1>1, <1>6, DieTable
  <1>7. ASSUME NEW c \in Clients, Connect(c) \/ Say(c) PROVE TableInv'
    BY <1>1, <1>7, OthersTable DEF Connect, Say, Untouched, mainVars, tableVars, workVars, rest
  <1>8. CASE UNCHANGED vars
    BY <1>1, <1>8, OthersTable DEF vars, Untouched, mainVars, tableVars, workVars, rest
  <1> QED BY <1>2, <1>3, <1>4, <1>5, <1>6, <1>7, <1>8 DEF Next

\* The rows are as many as the count says: no two of them name the same worker.
LEMMA RowCount ==
    ASSUME NEW n \in Nat, NEW f, \A j, k \in 0..(n - 1) : f[j] = f[k] => j = k
    PROVE  Cardinality({f[k] : k \in 0..(n - 1)}) = n
  <1> DEFINE S == {f[k] : k \in 0..(n - 1)}
             g == [k \in 0..(n - 1) |-> f[k]]
  <1>1. g \in Bijection(0..(n - 1), S)
    <2>1. g \in Injection(0..(n - 1), S)
      BY DEF Injection, IsInjective
    <2>2. g \in Surjection(0..(n - 1), S)
      BY DEF Surjection
    <2> QED BY <2>1, <2>2 DEF Bijection
  <1>2. IsFiniteSet(0..(n - 1)) /\ Cardinality(0..(n - 1)) = n
    BY FS_Interval
  <1>3. ExistsBijection(0..(n - 1), S)
    BY <1>1 DEF ExistsBijection
  <1> QED BY <1>2, <1>3, FS_Bijection

\* As long as the handler has not run inside a change of the table, the table of
\* lab16/2/3 is the set of the workers that serve or whose end is still to be
\* told, each in one row, and the pool is not below START but for the workers
\* that died by themselves: the removals of the handler and of remove_one_worker
\* never take the same worker twice, and no new worker is lost.
THEOREM TableOfWorkers == Spec => []TableExact
  <1>1. (~raced => TableInv) => TableExact
    <2> SUFFICES ASSUME TableInv, ~Changing PROVE
           /\ Rows = (Alive \cup Zombies) \ killed
           /\ Cardinality(Rows) = worker_cnt
           /\ boots = START /\ pc # "spawn" => worker_cnt >= START - deaths
      BY DEF TableExact
    <2>1. Held = worker_cnt /\ Kept = (Alive \cup Zombies) \ killed /\ worker_cnt \in Nat
      BY MsgPoolSizes DEF TableInv, TableTypes, Held, Kept, Spawning, Changing
    <2>2. Rows = (Alive \cup Zombies) \ killed
      BY <2>1 DEF TableInv, RowsExact, Rows
    <2>3. Cardinality(Rows) = worker_cnt
      BY <2>1, RowCount DEF TableInv, RowsExact, Rows
    <2>4. boots = START /\ pc # "spawn" => worker_cnt >= START - deaths
      BY <2>1, DueFinite, MsgPoolSizes DEF TableInv, TableTypes, Floor, Changing
    <2> QED BY <2>2, <2>3, <2>4
  <1>2. Init => (~raced => TableInv)
    BY InitTable
  <1> QED BY <1>1, <1>2, StepTable, PTL DEF Spec

----------------------------------------------------------------------------
(* The count *)

\* Whatever the handler does inside a change of the table, the count stays in
\* 0..MAX.  The argument counts the workers that the first n rows name and whose
\* death, if they died, was handled: the handler takes a row only with a zombie, so
\* it takes none of them, and only a death by itself can make one of them less.
Serving(f, dead, n) == {f[k] : k \in 0..(n - 1)} \ dead
Served(f, dead, n) == Cardinality(Serving(f, dead, n))

LEMMA ServedBound ==
    ASSUME NEW f, NEW dead, NEW n \in Nat
    PROVE  /\ IsFiniteSet(Serving(f, dead, n))
           /\ Served(f, dead, n) \in Nat /\ Served(f, dead, n) <= n
  <1> DEFINE S == {f[k] : k \in 0..(n - 1)}
             g == [k \in 0..(n - 1) |-> f[k]]
  <1>1. g \in Surjection(0..(n - 1), S)
    BY DEF Surjection
  <1>2. IsFiniteSet(0..(n - 1)) /\ Cardinality(0..(n - 1)) = n
    BY FS_Interval
  <1>3. IsFiniteSet(S) /\ Cardinality(S) <= n
    BY <1>1, <1>2, FS_Surjection
  <1>4. Serving(f, dead, n) \in SUBSET S
    BY DEF Serving
  <1> HIDE DEF S
  <1>5. /\ IsFiniteSet(Serving(f, dead, n)) /\ Served(f, dead, n) <= Cardinality(S)
        /\ Cardinality(S) \in Nat /\ Served(f, dead, n) \in Nat
    BY <1>3, <1>4, FS_Subset, FS_CardinalityType DEF Served
  <1> QED BY <1>3, <1>5

\* More rows, or fewer dead workers, serve no less.
LEMMA ServedGrows ==
    ASSUME NEW f, NEW dead, NEW m \in Nat, NEW g, NEW dead2, NEW n \in Nat,
           Serving(f, dead, m) \subseteq Serving(g, dead2, n)
    PROVE  Served(f, dead, m) <= Served(g, dead2, n)
  BY ServedBound, FS_Subset DEF Served

\* One row or one death more or less makes a difference of at most one.
LEMMA ServedLess ==
    ASSUME NEW f, NEW dead, NEW m \in Nat, NEW g, NEW dead2, NEW n \in Nat, NEW w,
           Serving(g, dead2, n) \ {w} \subseteq Serving(f, dead, m)
    PROVE  Served(g, dead2, n) <= Served(f, dead, m) + 1
  <1>1. /\ IsFiniteSet(Serving(f, dead, m)) /\ IsFiniteSet(Serving(g, dead2, n))
        /\ Served(f, dead, m) \in Nat /\ Served(g, dead2, n) \in Nat
    BY ServedBound
  <1>2. Cardinality(Serving(g, dead2, n) \ {w}) >= Served(g, dead2, n) - 1
    <2>1. Cardinality(Serving(g, dead2, n) \ {w})
             = IF w \in Serving(g, dead2, n) THEN Served(g, dead2, n) - 1 ELSE Served(g, dead2, n)
      BY <1>1, FS_RemoveElement, Zenon DEF Served
    <2> QED BY <1>1, <2>1
  <1>3. Cardinality(Serving(g, dead2, n) \ {w}) <= Served(f, dead, m)
    BY <1>1, FS_Subset DEF Served
  <1>4. Cardinality(Serving(g, dead2, n) \ {w}) \in Nat
    BY <1>1, FS_RemoveElement, FS_CardinalityType
  <1> QED BY <1>1, <1>2, <1>3, <1>4

\* A row that names one more.
LEMMA ServedMore ==
    ASSUME NEW f, NEW dead, NEW m \in Nat, NEW g, NEW dead2, NEW n \in Nat, NEW w,
           w \notin Serving(f, dead, m),
           Serving(f, dead, m) \cup {w} \subseteq Serving(g, dead2, n)
    PROVE  Served(f, dead, m) + 1 <= Served(g, dead2, n)
  <1>1. /\ IsFiniteSet(Serving(f, dead, m)) /\ IsFiniteSet(Serving(g, dead2, n))
        /\ Served(f, dead, m) \in Nat /\ Served(g, dead2, n) \in Nat
    BY ServedBound
  <1>2. Cardinality(Serving(f, dead, m) \cup {w}) = Served(f, dead, m) + 1
    BY <1>1, FS_AddElement DEF Served
  <1>3. Cardinality(Serving(f, dead, m) \cup {w}) <= Served(g, dead2, n)
    BY <1>1, FS_Subset DEF Served
  <1> QED BY <1>1, <1>2, <1>3

LEMMA ServedMono ==
    ASSUME NEW f, NEW dead, NEW m \in Nat, NEW n \in Nat, m <= n
    PROVE  Served(f, dead, m) <= Served(f, dead, n)
  <1>1. 0..(m - 1) \subseteq 0..(n - 1)
    OBVIOUS
  <1>2. Serving(f, dead, m) \subseteq Serving(f, dead, n)
    BY <1>1 DEF Serving
  <1> QED BY <1>2, ServedGrows

LEMMA ServedLast ==
    ASSUME NEW f, NEW dead, NEW n \in Nat
    PROVE  /\ Served(f, dead, n + 1) <= Served(f, dead, n) + 1
           /\ f[n] \in dead => Served(f, dead, n + 1) = Served(f, dead, n)
  <1>1. \A k \in 0..((n + 1) - 1) : k \in 0..(n - 1) \/ k = n
    OBVIOUS
  <1>2. Serving(f, dead, n + 1) \ {f[n]} \subseteq Serving(f, dead, n)
    BY <1>1 DEF Serving
  <1>3. Served(f, dead, n + 1) <= Served(f, dead, n) + 1
    BY <1>2, ServedLess
  <1>4. ASSUME f[n] \in dead PROVE Served(f, dead, n + 1) = Served(f, dead, n)
    <2>1. Serving(f, dead, n + 1) \subseteq Serving(f, dead, n)
      BY <1>1, <1>4 DEF Serving
    <2>2. Served(f, dead, n + 1) <= Served(f, dead, n)
      BY <2>1, ServedGrows
    <2>3. Served(f, dead, n) <= Served(f, dead, n + 1)
      BY ServedMono
    <2> QED BY <2>2, <2>3, ServedBound
  <1> QED BY <1>3, <1>4

\* The types that TaskTypes leaves, and that no slot names a worker not forked yet.
CountTypes ==
    /\ pc \in {"boot", "accept", "read", "send", "reply", "size", "spawn", "load", "count", "store",
               "remove", "pick", "kill", "drop", "dropped", "ended"}
    /\ boots \in 0..START /\ pid \in 0..MaxForks /\ reg \in 0..MAX
    /\ worker \in [0..(MAX - 1) -> 0..MaxForks] /\ worker_cnt \in 0..MAX
    /\ last \in 0..MaxTime /\ now \in 1..MaxTime /\ Len(queue) <= QueueCap
    /\ forks \in 0..MaxForks /\ killed \in SUBSET (0..MaxForks)
    /\ deaths \in 0..MaxDeaths /\ raced \in BOOLEAN
    /\ \A k \in 0..(MAX - 1) : worker[k] <= forks

\* n rows are accounted for by the first m: but for workers that died by
\* themselves, each names one that serves.
Covered(n, m) == n <= Served(worker, Zombies, m) + deaths
DeadPid == IF pid \in Zombies THEN 1 ELSE 0

\* A spawn: the count was read, then stored, and the new pid is in no slot yet.
CoverSpawn ==
    /\ pc = "load" => worker_cnt < MAX /\ Covered(worker_cnt + DeadPid, worker_cnt)
    /\ pc = "count" => worker_cnt <= reg /\ reg < MAX /\ Covered(reg + DeadPid, worker_cnt)
    /\ pc = "store" =>
         /\ reg < MAX
         /\ \/ worker_cnt = reg + 1 /\ Covered(reg + DeadPid, reg)
            \/ worker_cnt <= reg /\ Covered(worker_cnt, worker_cnt)
    /\ Spawning => pid <= forks /\ \A k \in 0..(MAX - 1) : worker[k] # pid

\* A removal: if the worker is dead and its row still there the count may be one
\* more than is covered.
CoverRemove ==
    /\ pc \in {"pick", "kill"} => Served(worker, Zombies, worker_cnt) >= START + 1 - deaths
    /\ pc = "kill" /\ pid \in Alive => worker[worker_cnt - 1] = pid
    /\ pc \in {"drop", "dropped"} => Served(worker, Zombies, worker_cnt) >= START - deaths
    /\ pc = "drop" =>
         \/ Covered(worker_cnt, worker_cnt)
         \/ Covered(worker_cnt - 1, worker_cnt) /\ worker[worker_cnt - 1] \in Zombies
    /\ pc = "dropped" =>
         /\ worker_cnt <= reg
         /\ \/ Covered(reg, worker_cnt)
            \/ /\ Covered(reg - 1, worker_cnt)
               /\ worker_cnt < reg \/ worker[worker_cnt - 1] \in Zombies

Cover ==
    /\ pc \notin {"load", "count", "store", "drop", "dropped", "ended"}
         => Covered(worker_cnt, worker_cnt)
    /\ CoverSpawn /\ CoverRemove

CountInv == CountTypes /\ Cover

LEMMA InitCount == Init => CountInv
  <1> SUFFICES ASSUME Init PROVE CountInv
    OBVIOUS
  <1> USE MsgPoolSizes DEF Init
  <1>1. CountTypes
    <2>1. /\ worker \in [0..(MAX - 1) -> 0..MaxForks]
          /\ \A k \in 0..(MAX - 1) : worker[k] <= forks
      OBVIOUS
    <2>2. /\ boots \in 0..START /\ pid \in 0..MaxForks /\ reg \in 0..MAX /\ worker_cnt \in 0..MAX
          /\ last \in 0..MaxTime /\ now \in 1..MaxTime /\ Len(queue) <= QueueCap
          /\ forks \in 0..MaxForks /\ killed \in SUBSET (0..MaxForks)
          /\ deaths \in 0..MaxDeaths /\ raced \in BOOLEAN
      OBVIOUS
    <2>3. pc = "boot"
      OBVIOUS
    <2> QED BY <2>1, <2>2, <2>3 DEF CountTypes
  <1>2. Cover
    BY ServedBound DEF Cover, Covered, CoverSpawn, CoverRemove, Spawning
  <1> QED BY <1>1, <1>2 DEF CountInv

\* The facts about numbers that every step needs.
LEMMA CountNumbers ==
    ASSUME CountInv
    PROVE  /\ {worker_cnt, reg, deaths, forks, MAX, START, MaxForks, MaxDeaths} \subseteq Nat
           /\ worker_cnt <= MAX /\ reg <= MAX /\ deaths <= MaxDeaths /\ MaxDeaths < START
           /\ DeadPid \in {0, 1}
           /\ \A n \in Nat : /\ Served(worker, Zombies, n) \in Nat
                             /\ Served(worker, Zombies, n) <= n
  BY MsgPoolSizes, ServedBound DEF CountInv, CountTypes, DeadPid

\* The steps that touch no worker, no row and no register.
LEMMA SameCover ==
    ASSUME CountInv, Untouched, UNCHANGED <<pc, pid, reg>>
    PROVE  Cover'
  <1>1. Alive' = Alive /\ Zombies' = Zombies
    BY DEF Untouched, Alive, Zombies
  <1> QED BY <1>1 DEF Untouched, CountInv, Cover, Covered, CoverSpawn, CoverRemove, DeadPid,
                      Spawning

LEMMA QuietCover ==
    ASSUME CountInv, Untouched,
           pc \notin {"load", "count", "store", "drop", "dropped", "ended"}, ~Changing'
    PROVE  Cover'
  <1>1. Alive' = Alive /\ Zombies' = Zombies
    BY DEF Untouched, Alive, Zombies
  <1> QED BY <1>1 DEF Untouched, Changing, CountInv, Cover, Covered, CoverSpawn, CoverRemove,
                      Spawning

LEMMA MainCount ==
    ASSUME TaskTypes', CountInv, Boot \/ Send \/ Read \/ Reply \/ Resize \/ \E c \in Clients : Accept(c)
    PROVE  CountInv'
  <1>1. Untouched /\ UNCHANGED <<pid, reg, raced, now>>
    BY DEF Untouched, Boot, Resize, Send, Read, Reply, Accept, mainVars, tableVars, workVars, rest
  <1>2. /\ pc \notin {"load", "count", "store", "drop", "dropped", "ended"} /\ ~Changing'
        /\ pc' \in {"spawn", "accept", "read", "send", "reply", "size", "remove"}
    BY DEF Changing, Boot, Resize, Send, Read, Reply, Accept
  <1>3. boots' \in 0..START /\ last' \in 0..MaxTime
    <2>1. boots \in 0..START /\ last \in 0..MaxTime /\ now \in 0..MaxTime
      BY MsgPoolSizes DEF CountInv, CountTypes
    <2>2. CASE Boot
      BY <2>1, <2>2, MsgPoolSizes DEF Boot
    <2>3. CASE ~Boot
      BY <2>1, <2>3 DEF Resize, Send, Read, Reply, Accept, mainVars
    <2> QED BY <2>2, <2>3
  <1>4. Len(queue') <= QueueCap
    <2>1. CASE Send
      <3>1. PICK c \in cli : queue' = Append(queue, c) /\ Len(queue) < QueueCap
        BY <2>1 DEF Send
      <3> QED BY <3>1, MsgPoolSizes DEF TaskTypes
    <2>2. CASE ~Send
      BY <2>2 DEF Boot, Resize, Read, Reply, Accept, workVars, CountInv, CountTypes
    <2> QED BY <2>1, <2>2
  <1>5. CountTypes'
    BY <1>1, <1>2, <1>3, <1>4 DEF CountInv, CountTypes, Untouched
  <1>6. Cover'
    BY <1>1, <1>2, QuietCover
  <1> QED BY <1>5, <1>6 DEF CountInv

LEMMA ForkCount == ASSUME CountInv, TaskTypes, Fork PROVE CountInv'
  <1>1. CASE worker_cnt >= MAX
    <2>1. /\ Untouched /\ pc = "spawn" /\ pc' \in {"boot", "accept"} /\ ~Changing'
          /\ UNCHANGED <<boots, pid, reg, last, now, queue, raced>>
      BY <1>1 DEF Fork, Return, Untouched, tableVars, Changing
    <2>2. CountTypes'
      BY <2>1 DEF CountInv, CountTypes, Untouched
    <2>3. Cover'
      BY <2>1, QuietCover
    <2> QED BY <2>2, <2>3 DEF CountInv
  <1>2. CASE worker_cnt < MAX
    <2>1. /\ UNCHANGED <<worker, worker_cnt, killed, deaths, boots, reg, last, now, queue, raced>>
          /\ pc = "spawn" /\ pc' = "load" /\ forks < MaxForks /\ forks' = forks + 1
          /\ pid' = forks + 1 /\ wstate' = [wstate EXCEPT ![forks + 1] = "alive"]
      BY <1>2, CountNumbers DEF Fork, tableVars
    <2>2. \A k \in 0..(MAX - 1) : worker[k] <= forks /\ worker[k] \in Nat
      BY MsgPoolSizes DEF CountInv, CountTypes
    <2>3. CountTypes'
      <3>1. /\ forks' \in 0..MaxForks /\ pid' \in 0..MaxForks
            /\ \A k \in 0..(MAX - 1) : worker[k] <= forks'
        BY <2>1, <2>2, CountNumbers
      <3> QED BY <2>1, <3>1 DEF CountInv, CountTypes
    <2>4. pid' \notin Zombies' /\ Zombies' \subseteq Zombies
      BY <2>1 DEF Zombies, TaskTypes
    <2>5. Served(worker, Zombies, worker_cnt) <= Served(worker, Zombies', worker_cnt)
      <3>1. Serving(worker, Zombies, worker_cnt) \subseteq Serving(worker, Zombies', worker_cnt)
        BY <2>4 DEF Serving
      <3> QED BY <3>1, ServedGrows, CountNumbers
    <2>6. Covered(worker_cnt, worker_cnt)
      BY <2>1 DEF CountInv, Cover
    <2>7. DeadPid' = 0
      BY <2>4 DEF DeadPid
    <2>8. Served(worker, Zombies', worker_cnt) \in Nat
      BY ServedBound, CountNumbers
    <2>9. Covered(worker_cnt + DeadPid, worker_cnt)'
      BY <2>1, <2>5, <2>6, <2>7, <2>8, CountNumbers DEF Covered
    <2>10. pid' <= forks' /\ \A k \in 0..(MAX - 1) : worker[k] # pid'
      BY <2>1, <2>2, CountNumbers
    <2>11. Cover'
      BY <1>2, <2>1, <2>9, <2>10 DEF Cover, CoverSpawn, CoverRemove
    <2> QED BY <2>3, <2>11 DEF CountInv
  <1> QED BY <1>1, <1>2, CountNumbers

LEMMA SpawnLoadCount == ASSUME CountInv, SpawnLoad PROVE CountInv'
  <1>1. /\ Untouched /\ pc = "load" /\ pc' = "count" /\ reg' = worker_cnt
        /\ UNCHANGED <<boots, pid, last, now, queue, raced>>
    BY DEF SpawnLoad, Untouched, tableVars, workVars, rest
  <1>2. Alive' = Alive /\ Zombies' = Zombies
    BY <1>1 DEF Untouched, Alive, Zombies
  <1>3. CountTypes'
    BY <1>1 DEF CountInv, CountTypes, Untouched
  <1>4. Cover'
    BY <1>1, <1>2, CountNumbers
       DEF Untouched, CountInv, Cover, Covered, CoverSpawn, CoverRemove, DeadPid, Spawning
  <1> QED BY <1>3, <1>4 DEF CountInv

LEMMA SpawnCountCount == ASSUME CountInv, SpawnCount PROVE CountInv'
  <1>1. /\ UNCHANGED <<worker, wstate, deaths, pid, reg>>
        /\ pc = "count" /\ pc' = "store" /\ worker_cnt' = reg + 1
        /\ UNCHANGED <<boots, last, now, queue, raced, forks, killed>>
    BY DEF SpawnCount, mainVars, workVars, rest
  <1>2. Alive' = Alive /\ Zombies' = Zombies
    BY <1>1 DEF Alive, Zombies
  <1>3. /\ worker_cnt <= reg /\ reg < MAX /\ Covered(reg + DeadPid, worker_cnt)
        /\ pid <= forks /\ \A k \in 0..(MAX - 1) : worker[k] # pid
    BY <1>1 DEF CountInv, Cover, CoverSpawn, Spawning
  <1>4. CountTypes'
    <2>1. worker_cnt' \in 0..MAX
      BY <1>1, <1>3, CountNumbers
    <2> QED BY <1>1, <2>1 DEF CountInv, CountTypes
  <1>5. Served(worker, Zombies, worker_cnt) <= Served(worker, Zombies, reg)
    BY <1>3, CountNumbers, ServedMono
  <1>6. Covered(reg + DeadPid, reg)
    BY <1>3, <1>5, CountNumbers DEF Covered
  <1>7. Cover'
    BY <1>1, <1>2, <1>3, <1>6
       DEF Cover, Covered, CoverSpawn, CoverRemove, DeadPid, Spawning
  <1> QED BY <1>4, <1>7 DEF CountInv

LEMMA SpawnStoreCount == ASSUME CountInv, SpawnStore PROVE CountInv'
  <1>1. /\ UNCHANGED <<worker_cnt, wstate, deaths, pid, reg>>
        /\ pc = "store" /\ pc' \in {"boot", "accept"}
        /\ worker' = [worker EXCEPT ![reg] = pid]
        /\ UNCHANGED <<boots, last, now, queue, raced, forks, killed>>
    BY DEF SpawnStore, Return, mainVars, workVars, rest
  <1>2. Alive' = Alive /\ Zombies' = Zombies
    BY <1>1 DEF Alive, Zombies
  <1>3. /\ reg < MAX
        /\ \/ worker_cnt = reg + 1 /\ Covered(reg + DeadPid, reg)
           \/ worker_cnt <= reg /\ Covered(worker_cnt, worker_cnt)
        /\ pid <= forks /\ \A k \in 0..(MAX - 1) : worker[k] # pid
    BY <1>1 DEF CountInv, Cover, CoverSpawn, Spawning
  <1>4. worker'[reg] = pid /\ \A k \in 0..(MAX - 1) : k # reg => worker'[k] = worker[k]
    BY <1>1, <1>3, CountNumbers DEF CountInv, CountTypes
  <1>6. CountTypes'
    <2>1. \A k \in 0..(MAX - 1) : worker'[k] <= forks
      BY <1>3, <1>4 DEF CountInv, CountTypes
    <2>2. worker' \in [0..(MAX - 1) -> 0..MaxForks]
      BY <1>1 DEF CountInv, CountTypes
    <2> QED BY <1>1, <2>1, <2>2 DEF CountInv, CountTypes
  <1>7. Covered(worker_cnt, worker_cnt)'
    <2>1. ASSUME NEW n \in Nat, n <= reg
          PROVE  Serving(worker', Zombies, n) = Serving(worker, Zombies, n)
      <3>1. \A k \in 0..(n - 1) : k \in 0..(MAX - 1) /\ k # reg
        BY <1>3, <2>1, CountNumbers
      <3> QED BY <1>4, <3>1 DEF Serving
    <2>2. CASE worker_cnt <= reg /\ Covered(worker_cnt, worker_cnt)
      BY <1>1, <1>2, <2>1, <2>2, CountNumbers DEF Covered, Served
    <2>3. CASE worker_cnt = reg + 1 /\ Covered(reg + DeadPid, reg)
      <3>1. Served(worker', Zombies, reg) = Served(worker, Zombies, reg)
        BY <2>1, CountNumbers DEF Served
      <3>2. CASE pid \in Zombies
        <4>1. Served(worker', Zombies, reg + 1) = Served(worker', Zombies, reg)
          BY <1>4, <3>2, ServedLast, CountNumbers
        <4> QED BY <1>1, <1>2, <2>3, <3>1, <3>2, <4>1, CountNumbers DEF Covered, DeadPid
      <3>3. CASE pid \notin Zombies
        <4>1. pid \notin Serving(worker', Zombies, reg)
          <5>1. \A k \in 0..(reg - 1) : worker[k] # pid
            BY <1>3, CountNumbers
          <5> QED BY <2>1, <5>1, CountNumbers DEF Serving
        <4>2. Serving(worker', Zombies, reg) \cup {pid} \subseteq Serving(worker', Zombies, reg + 1)
          <5>1. reg \in 0..((reg + 1) - 1) /\ 0..(reg - 1) \subseteq 0..((reg + 1) - 1)
            BY CountNumbers
          <5> QED BY <1>4, <3>3, <5>1 DEF Serving
        <4>3. Served(worker', Zombies, reg) + 1 <= Served(worker', Zombies, reg + 1)
          BY <4>1, <4>2, ServedMore, CountNumbers
        <4>4. Served(worker', Zombies, reg + 1) \in Nat
          BY ServedBound, CountNumbers
        <4> QED BY <1>1, <1>2, <2>3, <3>1, <3>3, <4>3, <4>4, CountNumbers DEF Covered, DeadPid
      <3> QED BY <3>2, <3>3
    <2> QED BY <1>3, <2>2, <2>3
  <1>8. Cover'
    BY <1>1, <1>7 DEF Cover, CoverSpawn, CoverRemove, Spawning
  <1> QED BY <1>6, <1>8 DEF CountInv

LEMMA RemoveTestCount == ASSUME CountInv, RemoveTest PROVE CountInv'
  <1>1. /\ Untouched /\ pc = "remove"
        /\ \/ pc' = "accept"
           \/ pc' = "pick" /\ worker_cnt > START
        /\ UNCHANGED <<boots, pid, reg, last, now, queue, raced>>
    BY CountNumbers DEF RemoveTest, Untouched, mainVars, tableVars, workVars, rest
  <1>2. Alive' = Alive /\ Zombies' = Zombies
    BY <1>1 DEF Untouched, Alive, Zombies
  <1>3. CountTypes'
    BY <1>1 DEF CountInv, CountTypes, Untouched
  <1>4. Covered(worker_cnt, worker_cnt)
    BY <1>1 DEF CountInv, Cover
  <1>5. worker_cnt > START => Served(worker, Zombies, worker_cnt) >= START + 1 - deaths
    BY <1>4, CountNumbers DEF Covered
  <1>6. Cover'
    BY <1>1, <1>2, <1>4, <1>5
       DEF Untouched, Cover, Covered, CoverSpawn, CoverRemove, Spawning
  <1> QED BY <1>3, <1>6 DEF CountInv

LEMMA RemovePickCount == ASSUME CountInv, RemovePick PROVE CountInv'
  <1>1. /\ Untouched /\ pc = "pick" /\ pc' = "kill" /\ pid' = worker[worker_cnt - 1]
        /\ UNCHANGED <<boots, reg, last, now, queue, raced>>
    BY DEF RemovePick, Untouched, tableVars, workVars, rest
  <1>2. Alive' = Alive /\ Zombies' = Zombies
    BY <1>1 DEF Untouched, Alive, Zombies
  <1>3. Covered(worker_cnt, worker_cnt) /\ Served(worker, Zombies, worker_cnt) >= START + 1 - deaths
    BY <1>1 DEF CountInv, Cover, CoverRemove
  <1>4. worker_cnt - 1 \in 0..(MAX - 1)
    BY <1>3, CountNumbers
  <1>5. pid' \in 0..MaxForks
    BY <1>1, <1>4 DEF CountInv, CountTypes
  <1>6. CountTypes'
    BY <1>1, <1>5 DEF CountInv, CountTypes, Untouched
  <1>7. Cover'
    BY <1>1, <1>2, <1>3 DEF Untouched, Cover, Covered, CoverSpawn, CoverRemove, Spawning
  <1> QED BY <1>6, <1>7 DEF CountInv

LEMMA RemoveLoadCount == ASSUME CountInv, RemoveLoad PROVE CountInv'
  <1>1. /\ Untouched /\ pc = "drop" /\ pc' = "dropped" /\ reg' = worker_cnt
        /\ UNCHANGED <<boots, pid, last, now, queue, raced>>
    BY DEF RemoveLoad, Untouched, tableVars, workVars, rest
  <1>2. Alive' = Alive /\ Zombies' = Zombies
    BY <1>1 DEF Untouched, Alive, Zombies
  <1>3. CountTypes'
    BY <1>1 DEF CountInv, CountTypes, Untouched
  <1>4. Cover'
    BY <1>1, <1>2, CountNumbers
       DEF Untouched, CountInv, Cover, Covered, CoverSpawn, CoverRemove, Spawning
  <1> QED BY <1>3, <1>4 DEF CountInv

LEMMA RemoveStoreCount == ASSUME CountInv, RemoveStore PROVE CountInv'
  <1>1. /\ UNCHANGED <<worker, wstate, deaths, pid, reg>>
        /\ pc = "dropped" /\ pc' = "accept" /\ worker_cnt' = reg - 1
        /\ UNCHANGED <<boots, last, now, queue, raced, forks, killed>>
    BY DEF RemoveStore, mainVars, workVars, rest
  <1>2. Alive' = Alive /\ Zombies' = Zombies
    BY <1>1 DEF Alive, Zombies
  <1>3. /\ Served(worker, Zombies, worker_cnt) >= START - deaths
        /\ worker_cnt <= reg
        /\ \/ Covered(reg, worker_cnt)
           \/ /\ Covered(reg - 1, worker_cnt)
              /\ worker_cnt < reg \/ worker[worker_cnt - 1] \in Zombies
    BY <1>1 DEF CountInv, Cover, CoverRemove
  <1>4. worker_cnt \in Nat \ {0} /\ reg - 1 \in Nat /\ reg - 1 <= MAX
    BY <1>3, CountNumbers
  <1>5. /\ Served(worker, Zombies, reg) <= Served(worker, Zombies, reg - 1) + 1
        /\ worker[reg - 1] \in Zombies
             => Served(worker, Zombies, reg) = Served(worker, Zombies, reg - 1)
    <2>1. (reg - 1) + 1 = reg
      BY <1>4, CountNumbers
    <2> QED BY <1>4, <2>1, ServedLast
  <1>6. Served(worker, Zombies, worker_cnt) <= Served(worker, Zombies, reg)
    BY <1>3, CountNumbers, ServedMono
  <1>7. worker_cnt < reg => Served(worker, Zombies, worker_cnt) <= Served(worker, Zombies, reg - 1)
    BY <1>4, CountNumbers, ServedMono
  <1>8. /\ Served(worker, Zombies, reg - 1) \in Nat /\ Served(worker, Zombies, reg) \in Nat
        /\ Served(worker, Zombies, worker_cnt) \in Nat
    BY <1>4, CountNumbers
  <1>9. Covered(reg - 1, reg - 1)
    <2>1. CASE Covered(reg, worker_cnt)
      BY <1>5, <1>6, <1>8, <2>1, CountNumbers DEF Covered
    <2>2. CASE Covered(reg - 1, worker_cnt) /\ worker_cnt < reg
      BY <1>7, <1>8, <2>2, CountNumbers DEF Covered
    <2>3. CASE Covered(reg - 1, worker_cnt) /\ worker_cnt = reg /\ worker[worker_cnt - 1] \in Zombies
      BY <1>5, <1>8, <2>3, CountNumbers DEF Covered
    <2> QED BY <1>3, <2>1, <2>2, <2>3, CountNumbers
  <1>10. CountTypes'
    <2>1. worker_cnt' \in 0..MAX
      BY <1>1, <1>4, CountNumbers
    <2> QED BY <1>1, <2>1 DEF CountInv, CountTypes
  <1>11. Cover'
    BY <1>1, <1>2, <1>9 DEF Cover, Covered, CoverSpawn, CoverRemove, Spawning
  <1> QED BY <1>10, <1>11 DEF CountInv

\* The kill of a worker that serves leaves its row covered by nobody; the kill of
\* one that is dead changes nothing; kill(0) ends the server.
LEMMA RemoveKillCount == ASSUME CountInv, TaskTypes, RemoveKill PROVE CountInv'
  <1>1. /\ UNCHANGED <<worker, worker_cnt, forks, deaths, pid, reg>>
        /\ pc = "kill" /\ pc' = (IF pid = 0 THEN "ended" ELSE "drop") /\ killed' = killed \cup {pid}
        /\ UNCHANGED <<boots, last, now, queue, raced>>
        /\ wstate' = [w \in Workers |-> IF w \in (IF pid = 0 THEN Alive ELSE {pid} \cap Alive)
                                        THEN "zombie" ELSE wstate[w]]
    BY DEF RemoveKill, End, mainVars, tableVars
  <1>2. CountTypes'
    BY <1>1 DEF CountInv, CountTypes
  <1>3. CASE pid = 0
    BY <1>1, <1>2, <1>3 DEF CountInv, Cover, CoverSpawn, CoverRemove, Spawning
  <1>4. CASE pid # 0
    <2>1. /\ Covered(worker_cnt, worker_cnt)
          /\ Served(worker, Zombies, worker_cnt) >= START + 1 - deaths
          /\ pid \in Alive => worker[worker_cnt - 1] = pid
      BY <1>1 DEF CountInv, Cover, CoverRemove
    <2>2. pc' = "drop"
      BY <1>1, <1>4
    <2>3. CASE pid \in Alive
      <3>1. Zombies' = Zombies \cup {pid}
        BY <1>1, <1>4, <2>3 DEF TaskTypes, Alive, Zombies
      <3>2. Served(worker, Zombies, worker_cnt) <= Served(worker, Zombies', worker_cnt) + 1
        <4>1. Serving(worker, Zombies, worker_cnt) \ {pid} \subseteq Serving(worker, Zombies', worker_cnt)
          BY <3>1 DEF Serving
        <4> QED BY <4>1, ServedLess, CountNumbers
      <3>3. Served(worker, Zombies', worker_cnt) \in Nat
        BY ServedBound, CountNumbers
      <3>4. /\ Served(worker, Zombies', worker_cnt) >= START - deaths
            /\ worker_cnt - 1 <= Served(worker, Zombies', worker_cnt) + deaths
            /\ worker[worker_cnt - 1] \in Zombies'
        BY <2>1, <2>3, <3>1, <3>2, <3>3, CountNumbers DEF Covered
      <3>5. Cover'
        BY <1>1, <2>2, <3>4 DEF Cover, Covered, CoverSpawn, CoverRemove, Spawning
      <3> QED BY <1>2, <3>5 DEF CountInv
    <2>4. CASE pid \notin Alive
      <3>1. Zombies' = Zombies
        BY <1>1, <1>4, <2>4 DEF TaskTypes, Zombies
      <3>2. Served(worker, Zombies, worker_cnt) >= START - deaths
        BY <2>1, CountNumbers
      <3>3. Cover'
        BY <1>1, <2>1, <2>2, <3>1, <3>2 DEF Cover, Covered, CoverSpawn, CoverRemove, Spawning
      <3> QED BY <1>2, <3>3 DEF CountInv
    <2> QED BY <2>3, <2>4
  <1> QED BY <1>3, <1>4

\* A death by itself is one more death for at most one that serves less.
LEMMA DieCount == ASSUME CountInv, TaskTypes, NEW w \in Workers, Die(w) PROVE CountInv'
  <1>1. /\ UNCHANGED <<worker, worker_cnt, forks, killed, boots, pc, pid, reg>>
        /\ deaths' = deaths + 1 /\ deaths < MaxDeaths /\ w \in Alive
        /\ wstate' = [wstate EXCEPT ![w] = "zombie"]
        /\ UNCHANGED <<last, now, queue, raced>>
    BY DEF Die, End, mainVars, tableVars, TaskTypes
  <1>2. Alive' = Alive \ {w} /\ Zombies' = Zombies \cup {w}
    BY <1>1 DEF TaskTypes, Alive, Zombies
  <1>3. CountTypes'
    <2>1. deaths' \in 0..MaxDeaths
      BY <1>1, CountNumbers
    <2> QED BY <1>1, <2>1 DEF CountInv, CountTypes
  <1>4. ASSUME NEW n \in Nat
        PROVE  /\ Served(worker, Zombies', n) \in Nat
               /\ Served(worker, Zombies, n) + deaths <= Served(worker, Zombies', n) + deaths'
    <2>1. Serving(worker, Zombies, n) \ {w} \subseteq Serving(worker, Zombies', n)
      BY <1>2 DEF Serving
    <2>2. Served(worker, Zombies, n) <= Served(worker, Zombies', n) + 1
      BY <2>1, ServedLess
    <2>3. Served(worker, Zombies', n) \in Nat
      BY ServedBound
    <2> QED BY <1>1, <2>2, <2>3, CountNumbers
  <1>5. ASSUME NEW n \in Nat, n <= MAX, Spawning
        PROVE  Served(worker, Zombies, n) + deaths - DeadPid
                 <= Served(worker, Zombies', n) + deaths' - DeadPid'
    <2>1. CASE w = pid
      <3>1. \A k \in 0..(n - 1) : k \in 0..(MAX - 1) /\ worker[k] # pid
        BY <1>5, CountNumbers DEF CountInv, Cover, CoverSpawn
      <3>2. Serving(worker, Zombies', n) = Serving(worker, Zombies, n)
        BY <1>2, <2>1, <3>1 DEF Serving
      <3>3. DeadPid = 0 /\ DeadPid' = 1
        BY <1>1, <1>2, <2>1 DEF DeadPid, Alive, Zombies
      <3> QED BY <1>1, <3>2, <3>3, CountNumbers DEF Served
    <2>2. CASE w # pid
      <3>1. DeadPid' = DeadPid
        BY <1>1, <1>2, <2>2 DEF DeadPid
      <3> QED BY <1>4, <3>1, CountNumbers, <1>1
    <2> QED BY <2>1, <2>2
  <1>6. DeadPid' \in {0, 1}
    BY DEF DeadPid
  <1>7. CoverSpawn'
    <2>1. CASE pc = "load"
      BY <1>1, <1>4, <1>5, <1>6, <2>1, CountNumbers
         DEF CountInv, Cover, CoverSpawn, Covered, Spawning
    <2>2. CASE pc = "count"
      BY <1>1, <1>4, <1>5, <1>6, <2>2, CountNumbers
         DEF CountInv, Cover, CoverSpawn, Covered, Spawning
    <2>3. CASE pc = "store"
      BY <1>1, <1>4, <1>5, <1>6, <2>3, CountNumbers
         DEF CountInv, Cover, CoverSpawn, Covered, Spawning
    <2> QED BY <1>1, <2>1, <2>2, <2>3 DEF CoverSpawn, Spawning
  <1>8. CoverRemove'
    <2>1. worker[worker_cnt - 1] \in Zombies => worker[worker_cnt - 1] \in Zombies'
      BY <1>2
    <2>2. pid \in Alive' => pid \in Alive
      BY <1>2
    <2>3. /\ Served(worker, Zombies', worker_cnt) \in Nat
          /\ Served(worker, Zombies, worker_cnt) + deaths
               <= Served(worker, Zombies', worker_cnt) + deaths'
      BY <1>4, CountNumbers
    <2> QED BY <1>1, <2>1, <2>2, <2>3, CountNumbers DEF CountInv, Cover, CoverRemove, Covered
  <1>9. pc \notin {"load", "count", "store", "drop", "dropped", "ended"}
          => Covered(worker_cnt, worker_cnt)'
    BY <1>1, <1>4, CountNumbers DEF CountInv, Cover, Covered
  <1> QED BY <1>1, <1>3, <1>7, <1>8, <1>9 DEF CountInv, Cover

\* The handler of a dead worker that has no row, or none any more.
LEMMA NoRowCount ==
    ASSUME CountInv, CountTypes', TaskTypes, NEW w \in Zombies, Zombies' = Zombies \ {w},
           Alive' = Alive, At(w) = {}, UNCHANGED <<worker, worker_cnt, deaths, pid, reg, forks>>,
           pc' = pc \/ (pc = "send" /\ pc' = "reply")
    PROVE  Cover'
  <1>1. ASSUME NEW n \in Nat
        PROVE  /\ Served(worker, Zombies', n) \in Nat /\ Served(worker, Zombies, n) \in Nat
               /\ Served(worker, Zombies, n) <= Served(worker, Zombies', n)
    <2>1. Serving(worker, Zombies, n) \subseteq Serving(worker, Zombies', n)
      BY DEF Serving
    <2> QED BY <2>1, ServedGrows, ServedBound
  <1>2. DeadPid' <= DeadPid /\ DeadPid' \in {0, 1} /\ DeadPid \in {0, 1}
    BY DEF DeadPid
  <1>7. deaths \in Nat /\ worker_cnt \in Nat /\ reg \in Nat
    BY CountNumbers
  <1>3. worker_cnt > 0 /\ worker[worker_cnt - 1] \in Zombies => worker[worker_cnt - 1] \in Zombies'
    BY CountNumbers DEF At
  <1>4. CoverSpawn'
    <2>1. ASSUME NEW n \in Nat, NEW m \in Nat, Covered(n + DeadPid, m)
          PROVE  n + DeadPid' <= Served(worker, Zombies', m) + deaths
      <3>1. n + DeadPid <= Served(worker, Zombies, m) + deaths
        BY <2>1 DEF Covered
      <3>2. /\ Served(worker, Zombies', m) \in Nat /\ Served(worker, Zombies, m) \in Nat
            /\ Served(worker, Zombies, m) <= Served(worker, Zombies', m)
        BY <1>1
      <3> QED BY <1>2, <1>7, <3>1, <3>2
    <2>2. ASSUME NEW n \in Nat, Covered(n, n) PROVE n <= Served(worker, Zombies', n) + deaths
      <3>1. n <= Served(worker, Zombies, n) + deaths
        BY <2>2 DEF Covered
      <3>2. /\ Served(worker, Zombies', n) \in Nat /\ Served(worker, Zombies, n) \in Nat
            /\ Served(worker, Zombies, n) <= Served(worker, Zombies', n)
        BY <1>1
      <3> QED BY <1>7, <3>1, <3>2
    <2> QED BY <1>7, <2>1, <2>2 DEF CountInv, Cover, CoverSpawn, Covered, Spawning
  <1>5. CoverRemove'
    <2>1. pc \in {"drop", "dropped"} => worker_cnt > 0
      BY CountNumbers DEF CountInv, Cover, CoverRemove
    <2>2. /\ Served(worker, Zombies', worker_cnt) \in Nat
          /\ Served(worker, Zombies, worker_cnt) <= Served(worker, Zombies', worker_cnt)
      BY <1>1, CountNumbers
    <2> QED BY <1>3, <2>1, <2>2, CountNumbers DEF CountInv, Cover, CoverRemove, Covered
  <1>6. pc' \notin {"load", "count", "store", "drop", "dropped", "ended"}
          => Covered(worker_cnt, worker_cnt)'
    <2>1. pc' \notin {"load", "count", "store", "drop", "dropped", "ended"}
            => worker_cnt <= Served(worker, Zombies, worker_cnt) + deaths
      BY DEF CountInv, Cover, Covered
    <2>2. /\ Served(worker, Zombies', worker_cnt) \in Nat /\ Served(worker, Zombies, worker_cnt) \in Nat
          /\ Served(worker, Zombies, worker_cnt) <= Served(worker, Zombies', worker_cnt)
      BY <1>1, <1>7
    <2>3. pc' \notin {"load", "count", "store", "drop", "dropped", "ended"}
            => worker_cnt <= Served(worker, Zombies', worker_cnt) + deaths
      BY <1>7, <2>1, <2>2
    <2> QED BY <2>3 DEF Covered
  <1> QED BY <1>4, <1>5, <1>6 DEF Cover

\* A set of numbers that is not empty has a least one.
LEMMA LeastOf ==
    ASSUME NEW T \in SUBSET Nat, T # {}
    PROVE  \E m \in T : \A k \in T : m <= k
  <1>1. PICK m \in T : \A k \in T : ~ (<<k, m>> \in OpToRel(<, Nat))
    BY NatLessThanWellFounded, WFMin
  <1>2. \A k \in T : ~ (k < m)
    BY <1>1 DEF OpToRel
  <1> QED BY <1>2

\* The handler of a dead worker in row f: of the rows that serve none is lost.
LEMMA RowGoneCount ==
    ASSUME CountInv, CountTypes', TaskTypes, NEW w \in Zombies, Zombies' = Zombies \ {w},
           Alive' = Alive, NEW f \in 0..(worker_cnt - 1), worker[f] = w,
           worker' = [k \in DOMAIN worker |->
                        IF k >= f /\ k < worker_cnt - 1 THEN worker[k + 1] ELSE worker[k]],
           worker_cnt' = worker_cnt - 1, UNCHANGED <<deaths, pid, reg, forks>>,
           pc' = pc \/ (pc = "send" /\ pc' = "reply")
    PROVE  Cover'
  <1> DEFINE top == worker_cnt - 1
  <1>1. /\ top \in Nat /\ f \in 0..top /\ worker_cnt = top + 1 /\ top < MAX
        /\ worker \in [0..(MAX - 1) -> 0..MaxForks] /\ MAX \in Nat
    <2>1. f \in Nat /\ worker_cnt \in Nat /\ f <= worker_cnt - 1 /\ worker_cnt <= MAX /\ MAX \in Nat
      BY CountNumbers
    <2>2. worker \in [0..(MAX - 1) -> 0..MaxForks]
      BY DEF CountInv, CountTypes
    <2> QED BY <2>1, <2>2
  <1> HIDE DEF top
  <1>2. /\ worker_cnt' = top
        /\ worker' = [k \in 0..(MAX - 1) |->
                        IF k >= f /\ k < top THEN worker[k + 1] ELSE worker[k]]
    BY <1>1 DEF top
  <1>3. \A k \in 0..(top - 1) : worker'[k] = IF k >= f THEN worker[k + 1] ELSE worker[k]
    <2> TAKE k \in 0..(top - 1)
    <2>1. k \in 0..(MAX - 1) /\ k < top
      BY <1>1
    <2> QED BY <1>2, <2>1
  <1>4. Served(worker, Zombies, top + 1) <= Served(worker', Zombies', top)
    <2>1. ASSUME NEW k \in 0..top, worker[k] # w
          PROVE  \E j \in 0..(top - 1) : worker'[j] = worker[k]
      <3>1. k # f /\ k \in Nat /\ f \in Nat
        BY <1>1, <2>1
      <3>2. CASE k < f
        <4>1. k \in 0..(top - 1) /\ ~(k >= f)
          BY <1>1, <3>1, <3>2
        <4> QED BY <1>3, <4>1
      <3>3. CASE k > f
        <4>1. k - 1 \in 0..(top - 1) /\ k - 1 >= f /\ (k - 1) + 1 = k
          BY <1>1, <3>1, <3>3
        <4> QED BY <1>3, <4>1
      <3> QED BY <3>1, <3>2, <3>3
    <2>2. (top + 1) - 1 = top
      BY <1>1
    <2>3. Serving(worker, Zombies, top + 1) \subseteq Serving(worker', Zombies', top)
      BY <2>1, <2>2 DEF Serving
    <2>4. top \in Nat /\ top + 1 \in Nat
      BY <1>1
    <2> QED BY <2>3, <2>4, ServedGrows
  <1>5. ASSUME NEW k \in 0..(MAX - 1) PROVE \E j \in 0..(MAX - 1) : worker'[k] = worker[j]
    <2>1. CASE k >= f /\ k < top
      <3>1. k + 1 \in 0..(MAX - 1)
        BY <1>1, <2>1, CountNumbers
      <3> QED BY <1>2, <2>1, <3>1
    <2>2. CASE ~(k >= f /\ k < top)
      BY <1>2, <2>2
    <2> QED BY <2>1, <2>2
  <1>6. worker[top] # w => top # 0 /\ worker'[top - 1] = worker[top]
    <2>1. ASSUME worker[top] # w PROVE top - 1 \in 0..(top - 1) /\ top - 1 >= f /\ (top - 1) + 1 = top
      BY <1>1, <2>1
    <2> QED BY <1>1, <1>3, <2>1
  <1>7. DeadPid' <= DeadPid /\ DeadPid' \in {0, 1} /\ DeadPid \in {0, 1}
    BY DEF DeadPid
  <1>8. /\ Served(worker', Zombies', top) \in Nat /\ Served(worker, Zombies, top + 1) \in Nat
        /\ \A n \in Nat : n <= top => Served(worker, Zombies, n) <= Served(worker', Zombies', top)
                                      /\ Served(worker, Zombies, n) \in Nat
    <2>1. top + 1 \in Nat /\ top \in Nat
      BY <1>1
    <2>2. Served(worker', Zombies', top) \in Nat /\ Served(worker, Zombies, top + 1) \in Nat
      BY <2>1, ServedBound
    <2>3. ASSUME NEW n \in Nat, n <= top
          PROVE  /\ Served(worker, Zombies, n) <= Served(worker', Zombies', top)
                 /\ Served(worker, Zombies, n) \in Nat
      <3>1. Served(worker, Zombies, n) <= Served(worker, Zombies, top + 1)
        BY <2>1, <2>3, ServedMono
      <3>2. Served(worker, Zombies, n) \in Nat
        BY ServedBound
      <3> QED BY <1>4, <2>2, <3>1, <3>2
    <2> QED BY <2>2, <2>3
  <1>9. /\ {reg, deaths, START, MAX} \subseteq Nat /\ deaths < START
    BY CountNumbers
  <1>10. Covered(worker_cnt, worker_cnt) => Covered(worker_cnt, worker_cnt)'
    BY <1>1, <1>2, <1>4, <1>8, <1>9 DEF Covered
  <1>11. CoverSpawn'
    <2>1. Spawning' => pid <= forks /\ \A k \in 0..(MAX - 1) : worker'[k] # pid
      BY <1>5 DEF CountInv, Cover, CoverSpawn, Spawning
    <2>2. CASE pc' = "load"
      <3>1. worker_cnt < MAX /\ Covered(worker_cnt + DeadPid, worker_cnt)
        BY <2>2 DEF CountInv, Cover, CoverSpawn
      <3>2. top < MAX /\ top + DeadPid' <= Served(worker', Zombies', top) + deaths
        BY <1>1, <1>4, <1>7, <1>8, <1>9, <3>1 DEF Covered
      <3> QED BY <1>2, <2>1, <2>2, <3>2 DEF CoverSpawn, Covered, Spawning
    <2>3. CASE pc' = "count"
      <3>1. worker_cnt <= reg /\ reg < MAX /\ Covered(reg + DeadPid, worker_cnt)
        BY <2>3 DEF CountInv, Cover, CoverSpawn
      <3>2. top <= reg /\ reg + DeadPid' <= Served(worker', Zombies', top) + deaths
        <4>1. reg + DeadPid <= Served(worker, Zombies, top + 1) + deaths /\ top + 1 <= reg
          BY <1>1, <3>1 DEF Covered
        <4>2. top \in Nat /\ reg \in Nat /\ deaths \in Nat
          BY <1>1, <1>9
        <4> QED BY <1>4, <1>7, <1>8, <4>1, <4>2
      <3> QED BY <1>2, <2>1, <2>3, <3>1, <3>2 DEF CoverSpawn, Covered, Spawning
    <2>4. CASE pc' = "store"
      <3>1. /\ reg < MAX
            /\ \/ worker_cnt = reg + 1 /\ Covered(reg + DeadPid, reg)
               \/ worker_cnt <= reg /\ Covered(worker_cnt, worker_cnt)
        BY <2>4 DEF CountInv, Cover, CoverSpawn
      <3>2. CASE worker_cnt = reg + 1 /\ Covered(reg + DeadPid, reg)
        <4>1. top = reg
          BY <1>1, <1>9, <3>2
        <4>2. top <= Served(worker', Zombies', top) + deaths
          <5>1. top + DeadPid <= Served(worker, Zombies, top) + deaths
            BY <3>2, <4>1 DEF Covered
          <5>2. /\ Served(worker, Zombies, top) <= Served(worker', Zombies', top)
                /\ Served(worker, Zombies, top) \in Nat /\ Served(worker', Zombies', top) \in Nat
                /\ top \in Nat /\ deaths \in Nat
            <6>1. top \in Nat /\ deaths \in Nat /\ top <= top
              BY <1>1, <1>9
            <6> QED BY <1>8, <6>1
          <5> QED BY <1>7, <5>1, <5>2
        <4> QED BY <1>1, <1>2, <1>9, <2>1, <2>4, <3>1, <4>1, <4>2 DEF CoverSpawn, Covered, Spawning
      <3>3. CASE worker_cnt <= reg /\ Covered(worker_cnt, worker_cnt)
        <4>1. worker_cnt' <= reg
          BY <1>1, <1>2, <1>9, <3>3
        <4> QED BY <1>10, <2>1, <2>4, <3>1, <3>3, <4>1 DEF CoverSpawn, Spawning
      <3> QED BY <3>1, <3>2, <3>3
    <2> QED BY <2>1, <2>2, <2>3, <2>4 DEF CoverSpawn, Spawning
  <1>12. CoverRemove'
    <2>1. ASSUME NEW n \in Int, Served(worker, Zombies, worker_cnt) >= n
          PROVE  Served(worker', Zombies', worker_cnt') >= n
      BY <1>1, <1>2, <1>4, <1>8, <2>1
    <2>2. pc' \in {"pick", "kill"} => Served(worker', Zombies', worker_cnt') >= START + 1 - deaths
      <3>1. START + 1 - deaths \in Int
        BY <1>9
      <3>2. pc' \in {"pick", "kill"} => Served(worker, Zombies, worker_cnt) >= START + 1 - deaths
        BY DEF CountInv, Cover, CoverRemove
      <3> QED BY <2>1, <3>1, <3>2
    <2>3. pc' \in {"drop", "dropped"} => Served(worker', Zombies', worker_cnt') >= START - deaths
      <3>1. START - deaths \in Int
        BY <1>9
      <3>2. pc' \in {"drop", "dropped"} => Served(worker, Zombies, worker_cnt) >= START - deaths
        BY DEF CountInv, Cover, CoverRemove
      <3> QED BY <2>1, <3>1, <3>2
    <2>4. ASSUME pc' = "kill", pid \in Alive PROVE worker'[worker_cnt' - 1] = pid
      <3>1. worker[top] = pid /\ pid # w
        BY <2>4 DEF CountInv, Cover, CoverRemove, Alive, Zombies, top
      <3> QED BY <1>2, <1>6, <3>1
    <2>5. ASSUME NEW n \in Nat, Covered(n - 1, worker_cnt)
          PROVE  n - 1 <= Served(worker', Zombies', worker_cnt') + deaths
      BY <1>1, <1>2, <1>4, <1>8, <1>9, <2>5 DEF Covered
    <2>6. ASSUME NEW n \in Nat, Covered(n, worker_cnt)
          PROVE  n <= Served(worker', Zombies', worker_cnt') + deaths
      BY <1>1, <1>2, <1>4, <1>8, <1>9, <2>6 DEF Covered
    <2>7. ASSUME pc' = "drop" PROVE Covered(worker_cnt, worker_cnt)'
      <3>1. Covered(worker_cnt, worker_cnt) \/ Covered(worker_cnt - 1, worker_cnt)
        BY <2>7 DEF CountInv, Cover, CoverRemove
      <3>2. worker_cnt \in Nat /\ worker_cnt' = worker_cnt - 1
        BY CountNumbers
      <3> QED BY <1>10, <2>5, <3>1, <3>2 DEF Covered
    <2>8. ASSUME pc' = "dropped"
          PROVE  /\ worker_cnt' <= reg
                 /\ Covered(reg, worker_cnt)' \/ (Covered(reg - 1, worker_cnt)' /\ worker_cnt' < reg)
      <3>1. worker_cnt <= reg /\ (Covered(reg, worker_cnt) \/ Covered(reg - 1, worker_cnt))
        BY <2>8 DEF CountInv, Cover, CoverRemove
      <3>2. worker_cnt' < reg
        BY <1>1, <1>2, <1>9, <3>1
      <3>3. worker_cnt' <= reg /\ reg \in Nat
        BY <1>1, <1>2, <1>9, <3>1
      <3>4. \/ reg <= Served(worker', Zombies', worker_cnt') + deaths
            \/ reg - 1 <= Served(worker', Zombies', worker_cnt') + deaths
        BY <2>5, <2>6, <3>1, <3>3
      <3> QED BY <3>2, <3>3, <3>4 DEF Covered
    <2> QED BY <2>2, <2>3, <2>4, <2>7, <2>8 DEF CoverRemove
  <1>13. pc' \notin {"load", "count", "store", "drop", "dropped", "ended"}
           => Covered(worker_cnt, worker_cnt)'
    BY <1>10 DEF CountInv, Cover
  <1> QED BY <1>11, <1>12, <1>13 DEF Cover

LEMMA SigChldCount == ASSUME CountInv, TaskTypes, NEW w \in Workers, SigChld(w) PROVE CountInv'
  <1>1. /\ UNCHANGED <<boots, pid, reg, last, now, queue, forks, killed, deaths>>
        /\ Forget(w) /\ wstate[w] = "zombie" /\ wstate' = [wstate EXCEPT ![w] = "gone"]
        /\ pc' = pc \/ (pc = "send" /\ pc' = "reply")
        /\ raced' \in BOOLEAN
    BY DEF SigChld, mainVars, CountInv, CountTypes, Changing
  <1>2. /\ Alive' = Alive /\ Zombies' = Zombies \ {w} /\ w \in Zombies
    BY <1>1 DEF TaskTypes, Alive, Zombies
  <1>3. CASE At(w) = {}
    <2>1. UNCHANGED <<worker, worker_cnt>>
      BY <1>1, <1>3 DEF Forget, tableVars
    <2>2. CountTypes'
      BY <1>1, <2>1 DEF CountInv, CountTypes
    <2>3. Cover'
      BY <1>1, <1>2, <1>3, <2>1, <2>2, NoRowCount
    <2> QED BY <2>2, <2>3 DEF CountInv
  <1>4. CASE At(w) # {}
    <2>1. At(w) \in SUBSET Nat
      BY CountNumbers DEF At
    <2>2. First(w) \in At(w)
      BY <1>4, <2>1, LeastOf DEF First
    <2> DEFINE f == First(w)
    <2>3. f \in 0..(worker_cnt - 1) /\ worker[f] = w
      BY <2>2 DEF At
    <2>4. /\ worker' = [k \in DOMAIN worker |->
                          IF k >= f /\ k < worker_cnt - 1 THEN worker[k + 1] ELSE worker[k]]
          /\ worker_cnt' = worker_cnt - 1
      BY <1>1, <1>4 DEF Forget
    <2> HIDE DEF f
    <2>5. ASSUME NEW k \in 0..(MAX - 1)
          PROVE  /\ (IF k >= f /\ k < worker_cnt - 1 THEN worker[k + 1] ELSE worker[k])
                       \in 0..MaxForks
                 /\ (IF k >= f /\ k < worker_cnt - 1 THEN worker[k + 1] ELSE worker[k]) <= forks
      <3>1. k < worker_cnt - 1 => k + 1 \in 0..(MAX - 1)
        BY CountNumbers
      <3> QED BY <3>1 DEF CountInv, CountTypes
    <2>6. DOMAIN worker = 0..(MAX - 1)
      BY DEF CountInv, CountTypes
    <2>7. worker' \in [0..(MAX - 1) -> 0..MaxForks] /\ \A k \in 0..(MAX - 1) : worker'[k] <= forks
      BY <2>4, <2>5, <2>6
    <2>8. worker_cnt' \in 0..MAX
      BY <2>3, <2>4, CountNumbers
    <2>9. CountTypes'
      BY <1>1, <2>7, <2>8 DEF CountInv, CountTypes
    <2>10. Cover'
      BY <1>1, <1>2, <2>3, <2>4, <2>9, RowGoneCount
    <2> QED BY <2>9, <2>10 DEF CountInv
  <1> QED BY <1>3, <1>4

LEMMA OthersCount ==
    ASSUME CountInv, TaskTypes,
           \/ Tick
           \/ \E w \in Workers : Take(w) \/ CallBack(w)
           \/ \E c \in Clients : Connect(c) \/ Say(c)
           \/ UNCHANGED vars
    PROVE  CountInv'
  <1>1. /\ Untouched /\ UNCHANGED <<pc, boots, pid, reg, last, raced>>
        /\ now' = now \/ (now < MaxTime /\ now' = now + 1)
    BY DEF Tick, Take, CallBack, Connect, Say, vars, Untouched, mainVars, tableVars, workVars, rest
  <1>2. Len(queue') <= QueueCap
    <2>1. CASE \E w \in Workers : Take(w)
      <3>1. queue' = Tail(queue) /\ queue # <<>>
        BY <2>1 DEF Take
      <3>2. Len(queue') = Len(queue) - 1
        BY <3>1 DEF TaskTypes
      <3>3. Len(queue) \in Nat /\ Len(queue) <= QueueCap
        BY DEF TaskTypes, CountInv, CountTypes
      <3> QED BY <3>2, <3>3, MsgPoolSizes
    <2>2. CASE ~ \E w \in Workers : Take(w)
      <3>1. queue' = queue
        BY <2>2 DEF Tick, CallBack, Connect, Say, vars, workVars
      <3> QED BY <3>1 DEF CountInv, CountTypes
    <2> QED BY <2>1, <2>2
  <1>3. now' \in 1..MaxTime
    <2>1. now \in 1..MaxTime /\ MaxTime \in Nat
      BY MsgPoolSizes DEF CountInv, CountTypes
    <2>2. now' = now \/ (now < MaxTime /\ now' = now + 1)
      BY <1>1
    <2> QED BY <2>1, <2>2
  <1>4. CountTypes'
    BY <1>1, <1>2, <1>3 DEF Untouched, CountInv, CountTypes
  <1>5. Cover'
    BY <1>1, SameCover
  <1> QED BY <1>4, <1>5 DEF CountInv

\* The worker table of lab16/2/3 stays within its bounds whatever the handler of
\* SIGCHLD does to it while main changes it: no removal that the handler and
\* remove_one_worker both count takes an index below 0, and no spawn goes over MAX.
THEOREM CountInRange == Spec => []TypeOK
  <1>1. Inv /\ CountInv => TypeOK
    BY MsgPoolSizes DEF Inv, TaskTypes, CountInv, CountTypes, TypeOK
  <1>2. Inv /\ CountInv /\ [Next]_vars => CountInv'
    <2> SUFFICES ASSUME Inv, CountInv, [Next]_vars PROVE CountInv'
      OBVIOUS
    <2>1. TaskTypes /\ TaskTypes'
      BY StepInv DEF Inv
    <2>2. CASE MainStep
      BY <2>1, <2>2, MainCount, ForkCount, SpawnLoadCount, SpawnCountCount, SpawnStoreCount,
         RemoveTestCount, RemovePickCount, RemoveKillCount, RemoveLoadCount, RemoveStoreCount
         DEF MainStep
    <2>3. ASSUME NEW w \in Workers, SigChld(w) \/ Die(w) PROVE CountInv'
      BY <2>1, <2>3, SigChldCount, DieCount
    <2>4. CASE \/ Tick
               \/ \E w \in Workers : Take(w) \/ CallBack(w)
               \/ \E c \in Clients : Connect(c) \/ Say(c)
               \/ UNCHANGED vars
      BY <2>1, <2>4, OthersCount
    <2> QED BY <2>2, <2>3, <2>4 DEF Next
  <1> QED BY <1>1, <1>2, InitInv, StepInv, InitCount, PTL DEF Spec
=============================================================================
