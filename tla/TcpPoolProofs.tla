---------------------------- MODULE TcpPoolProofs ----------------------------
(* The pool of lab16/2/2 for any number of clients and workers: nobody is    *)
(* sent to a worker that is at work, and none that somebody was sent to is   *)
(* killed.                                                                   *)
EXTENDS TcpPool, TLAPS

----------------------------------------------------------------------------
(* The inductive invariant *)

\* Forks start at the bottom of the workers, and the boot leaves room in the table.
Counted ==
    /\ \A w \in Workers : /\ wstate[w] = "none" <=> w > forks
                          /\ wstate[w] = "none" => tokens[w] = 0
    /\ pc = "boot" => Len(table) < i /\ i <= Start + 1

\* Who waits for the dispatcher waits once, and is nowhere else.
Waiting(c) == c = cli \/ \E k \in 1..Len(backlog) : backlog[k] = c
Pending ==
    /\ pc \in {"drain", "reply"} <=> cli # NoClient
    /\ \A c \in Clients : Waiting(c) => at[c] = 0 /\ cl[c] \in {"queued", "crashed"}
    /\ \A j, k \in 1..Len(backlog) : backlog[j] # cli /\ (backlog[j] = backlog[k] => j = k)

\* A client has a claim on the worker it was sent to, until it has an answer; the
\* claim of one that was refused there is never given up.
Claims(c, w) == c \in conn[w] \/ (at[c] = w /\ cl[c] \in {"assigned", "vanished", "failed"})
Sent ==
    /\ \A w \in Workers : \A c \in conn[w] : at[c] = w /\ cl[c] \in {"connected", "crashed"}
    /\ \A c \in Clients : cl[c] \in {"assigned", "vanished", "failed"} => at[c] \in Workers

\* A worker with a claim on it has nothing to report, and its row is busy.
Claimed ==
    \A c \in Clients, w \in Workers : Claims(c, w) =>
        /\ tokens[w] = 0 /\ wstate[w] \in {"accept", "dead"}
        /\ \E k \in 1..Len(table) : table[k].id = w /\ table[k].busy
        /\ \A d \in Clients : Claims(d, w) => d = c

\* A worker reports once each time, and is idle in the table only after that.
Reports ==
    /\ \A w \in Workers : /\ tokens[w] \in {0, 1}
                          /\ tokens[w] = 1 => wstate[w] # "free"
    /\ \A k \in 1..Len(table) : ~table[k].busy =>
          tokens[table[k].id] = 0 /\ wstate[table[k].id] # "free"

\* Why a row is busy.
Accounted ==
    \A k \in 1..Len(table) : table[k].busy =>
        \/ wstate[table[k].id] \in {"free", "dead"} \/ tokens[table[k].id] > 0
        \/ \E c \in Clients : Claims(c, table[k].id)

Inv == /\ TypeOK /\ Counted /\ Pending /\ Sent /\ TableExact
       /\ Claimed /\ Reports /\ Accounted /\ RefusedOnlyByCrash

----------------------------------------------------------------------------
(* What the changes of the table do to its rows *)

LEMMA RowType ==
    ASSUME TypeOK
    PROVE  /\ Len(table) \in Nat
           /\ \A k \in 1..Len(table) : table[k] \in Row /\ table[k].id \in Workers
  <1>1. Len(table) \in Nat /\ \A k \in 1..Len(table) : table[k] \in Row
    BY DEF TypeOK
  <1>2. \A r \in Row : r.id \in Workers
    BY DEF Row
  <1> QED BY <1>1, <1>2

LEMMA RowAppended ==
    ASSUME TypeOK, NEW r \in Row, table' = Append(table, r)
    PROVE  /\ table' \in Seq(Row) /\ Len(table') = Len(table) + 1 /\ Len(table) \in Nat
           /\ \A k \in 1..Len(table) : table'[k] = table[k]
           /\ table'[Len(table) + 1] = r
  BY DEF TypeOK

LEMMA RowChanged ==
    ASSUME TypeOK, NEW k \in 1..Len(table), NEW r \in Row, table' = [table EXCEPT ![k] = r]
    PROVE  /\ table' \in Seq(Row) /\ Len(table') = Len(table) /\ Len(table) \in Nat
           /\ \A j \in 1..Len(table) : table'[j] = IF j = k THEN r ELSE table[j]
  BY DEF TypeOK

LEMMA RowRemoved ==
    ASSUME TypeOK, NEW k \in 1..Len(table),
           table' = [j \in 1..(Len(table) - 1) |-> IF j < k THEN table[j] ELSE table[j + 1]]
    PROVE  /\ table' \in Seq(Row) /\ Len(table') = Len(table) - 1 /\ Len(table) \in Nat
           /\ \A j \in 1..Len(table') :
                 \/ j < k /\ table'[j] = table[j]
                 \/ j >= k /\ table'[j] = table[j + 1]
           /\ \A j \in 1..Len(table) : j # k =>
                 \E m \in 1..Len(table') : table'[m] = table[j]
  <1>1. Len(table) \in Nat /\ \A j \in 1..Len(table) : table[j] \in Row
    BY DEF TypeOK
  <1>2. table' \in Seq(Row) /\ Len(table') = Len(table) - 1
    BY <1>1
  <1>3. \A j \in 1..Len(table') : \/ j < k /\ table'[j] = table[j]
                                  \/ j >= k /\ table'[j] = table[j + 1]
    BY <1>1, <1>2
  <1>4. ASSUME NEW j \in 1..Len(table), j # k
        PROVE  \E m \in 1..Len(table') : table'[m] = table[j]
    <2>1. CASE j < k
      <3>1. j \in 1..Len(table') /\ table'[j] = table[j]
        BY <1>1, <1>2, <2>1
      <3> QED BY <3>1
    <2>2. CASE j > k
      <3>1. j - 1 \in 1..Len(table') /\ table'[j - 1] = table[j]
        BY <1>1, <1>2, <2>2
      <3> QED BY <3>1
    <2>3. j < k \/ j > k
      BY <1>1, <1>4
    <2> QED BY <2>1, <2>2, <2>3
  <1> QED BY <1>1, <1>2, <1>3, <1>4

----------------------------------------------------------------------------
(* Parts of the invariant that several actions leave alone *)

SameClaims == \A c \in Clients, w \in Workers : Claims(c, w)' <=> Claims(c, w)
PoolInv == TableExact /\ Claimed /\ Reports /\ Accounted

\* Nothing happens to the workers and the claims on them.
LEMMA PoolStays ==
    ASSUME Inv, UNCHANGED <<table, wstate, tokens>>, SameClaims
    PROVE  PoolInv'
  <1> USE DEF Inv, PoolInv
  <1>1. TableExact' /\ Reports'
    BY DEF TableExact, Reports
  <1>2. Claimed'
    <2> SUFFICES ASSUME NEW c \in Clients, NEW w \in Workers, Claims(c, w)
                 PROVE  /\ tokens[w] = 0 /\ wstate[w] \in {"accept", "dead"}
                        /\ \E k \in 1..Len(table) : table[k].id = w /\ table[k].busy
                        /\ \A d \in Clients : Claims(d, w) => d = c
      BY DEF Claimed, SameClaims
    <2> QED BY DEF Claimed
  <1>3. Accounted'
    <2> SUFFICES ASSUME NEW k \in 1..Len(table), table[k].busy
                 PROVE  \/ wstate[table[k].id] \in {"free", "dead"} \/ tokens[table[k].id] > 0
                        \/ \E c \in Clients : Claims(c, table[k].id)'
      BY DEF Accounted
    <2>1. table[k].id \in Workers
      BY RowType
    <2> QED BY <2>1 DEF Accounted, SameClaims
  <1> QED BY <1>1, <1>2, <1>3

LEMMA ClientsStay ==
    ASSUME UNCHANGED <<conn, clients>>
    PROVE  SameClaims /\ (Sent => Sent')
  BY DEF clients, SameClaims, Claims, Sent

LEMMA RefusedStays ==
    ASSUME Inv, UNCHANGED <<wstate, clients>>
    PROVE  RefusedOnlyByCrash'
  BY DEF Inv, RefusedOnlyByCrash, clients

\* A worker is forked, or dies before it has a row.
LEMMA Spawned ==
    ASSUME Inv, spawn_worker, UNCHANGED <<now, tokens, conn>>, SameClaims
    PROVE  /\ PoolInv'
           /\ table' \in Seq(Row) /\ Len(table') <= Len(table) + 1
           /\ forks' \in 0..MaxForks /\ failures' \in 0..MaxFailures
           /\ wstate' \in [Workers -> {"none", "free", "accept", "dead", "killed"}]
           /\ \A w \in Workers : wstate'[w] = "none" <=> w > forks'
           /\ \A w \in Workers : wstate[w] # "none" => wstate'[w] = wstate[w]
  <1> USE PoolSizes DEF Inv, PoolInv
  <1>1. /\ forks \in Nat /\ forks' = forks + 1 /\ forks' \in Workers /\ forks' \in 0..MaxForks
        /\ failures' \in 0..MaxFailures
    BY DEF spawn_worker, Fail, TypeOK, Workers
  <1>2. wstate[forks'] = "none"
    BY <1>1 DEF Counted
  <1>3. tokens[forks'] \in {0, 1} /\ \A c \in Clients : ~Claims(c, forks')
    BY <1>1, <1>2 DEF Reports, Claimed
  <1>4. \A k \in 1..Len(table) : table[k].id # forks' /\ table[k].id \in Workers
    BY <1>2, RowType DEF TableExact
  <1> DEFINE r == [id |-> forks', busy |-> TRUE, last_free_ts |-> now]
  <1>5. r \in Row
    BY <1>1 DEF Row, TypeOK
  <1>6. \/ /\ table' = Append(table, r)
           /\ wstate' = [wstate EXCEPT ![forks'] = "free"]
        \/ /\ wstate' = [wstate EXCEPT ![forks'] = "dead"]
           /\ table' = table
    BY DEF spawn_worker
  <1>7. /\ wstate' \in [Workers -> {"none", "free", "accept", "dead", "killed"}]
        /\ wstate'[forks'] \in {"free", "dead"}
        /\ \A w \in Workers : w # forks' => wstate'[w] = wstate[w]
    BY <1>1, <1>6 DEF TypeOK
  <1>8. \A w \in Workers : wstate'[w] = "none" <=> w > forks'
    BY <1>1, <1>7 DEF Counted, Workers
  <1>9. CASE table' = table /\ wstate'[forks'] = "dead"
    <2>1. TableExact'
      BY <1>4, <1>7, <1>9 DEF TableExact
    <2>2. Reports'
      BY <1>4, <1>7, <1>9 DEF Reports
    <2>3. Claimed'
      <3> SUFFICES ASSUME NEW c \in Clients, NEW w \in Workers, Claims(c, w)
                   PROVE  /\ tokens[w] = 0 /\ wstate'[w] \in {"accept", "dead"}
                          /\ \E k \in 1..Len(table) : table[k].id = w /\ table[k].busy
                          /\ \A d \in Clients : Claims(d, w) => d = c
        BY <1>9 DEF Claimed, SameClaims
      <3> QED BY <1>3, <1>7 DEF Claimed
    <2>4. Accounted'
      <3> SUFFICES ASSUME NEW k \in 1..Len(table), table[k].busy
                   PROVE  \/ wstate'[table[k].id] \in {"free", "dead"} \/ tokens[table[k].id] > 0
                          \/ \E c \in Clients : Claims(c, table[k].id)
        BY <1>4, <1>9 DEF Accounted, SameClaims
      <3> QED BY <1>4, <1>7 DEF Accounted
    <2>5. table' \in Seq(Row) /\ Len(table') <= Len(table) + 1
      BY <1>9 DEF TypeOK
    <2> QED BY <1>1, <1>2, <1>7, <1>8, <2>1, <2>2, <2>3, <2>4, <2>5
  <1>10. CASE table' = Append(table, r) /\ wstate'[forks'] = "free"
    <2> HIDE DEF r
    <2>1. /\ table' \in Seq(Row) /\ Len(table') = Len(table) + 1 /\ Len(table) \in Nat
          /\ \A k \in 1..Len(table) : table'[k] = table[k]
          /\ table'[Len(table) + 1] = r
      BY <1>5, <1>10, RowAppended
    <2>2. r.id = forks' /\ r.busy
      BY DEF r
    <2>3. \A k \in 1..Len(table') : \/ k \in 1..Len(table) /\ table'[k] = table[k]
                                    \/ k = Len(table) + 1 /\ table'[k].id = forks' /\ table'[k].busy
      BY <2>1, <2>2
    <2>4. \A k \in 1..Len(table) : k \in 1..Len(table')
      BY <2>1
    <2>5. Len(table) + 1 \in 1..Len(table') /\ table'[Len(table) + 1].id = forks'
      BY <2>1, <2>2
    <2>6. TableExact'
      <3>1. \A j, k \in 1..Len(table') : table'[j].id = table'[k].id => j = k
        BY <1>4, <2>3 DEF TableExact
      <3>2. ASSUME NEW w \in Workers, wstate'[w] \in {"free", "accept"}
            PROVE  \E k \in 1..Len(table') : table'[k].id = w
        <4>1. CASE w = forks'
          BY <2>5, <4>1
        <4>2. CASE w # forks'
          BY <1>7, <2>1, <2>4, <3>2, <4>2 DEF TableExact
        <4> QED BY <4>1, <4>2
      <3>3. \A k \in 1..Len(table') : wstate'[table'[k].id] \in {"free", "accept", "dead"}
        BY <1>4, <1>7, <2>3 DEF TableExact
      <3> QED BY <3>1, <3>2, <3>3 DEF TableExact
    <2>7. Reports'
      <3>1. \A w \in Workers : tokens[w] \in {0, 1} /\ (tokens[w] = 1 => wstate'[w] # "free")
        <4>1. tokens[forks'] = 0
          BY <1>1, <1>2 DEF Counted
        <4> QED BY <1>7, <4>1 DEF Reports
      <3>2. \A k \in 1..Len(table') : ~table'[k].busy =>
                tokens[table'[k].id] = 0 /\ wstate'[table'[k].id] # "free"
        BY <1>4, <1>7, <2>3 DEF Reports
      <3> QED BY <3>1, <3>2 DEF Reports
    <2>8. Claimed'
      <3> SUFFICES ASSUME NEW c \in Clients, NEW w \in Workers, Claims(c, w)
                   PROVE  /\ tokens[w] = 0 /\ wstate'[w] \in {"accept", "dead"}
                          /\ \E k \in 1..Len(table') : table'[k].id = w /\ table'[k].busy
                          /\ \A d \in Clients : Claims(d, w) => d = c
        BY DEF Claimed, SameClaims
      <3>1. w # forks'
        BY <1>3
      <3>2. PICK k \in 1..Len(table) : table[k].id = w /\ table[k].busy
        BY DEF Claimed
      <3>3. k \in 1..Len(table') /\ table'[k].id = w /\ table'[k].busy
        BY <2>1, <2>4, <3>2
      <3> QED BY <1>7, <3>1, <3>3 DEF Claimed
    <2>9. Accounted'
      <3> SUFFICES ASSUME NEW k \in 1..Len(table'), table'[k].busy
                   PROVE  \/ wstate'[table'[k].id] \in {"free", "dead"} \/ tokens[table'[k].id] > 0
                          \/ \E c \in Clients : Claims(c, table'[k].id)
        BY <1>1, <1>4, <2>3 DEF Accounted, SameClaims
      <3>1. CASE table'[k].id = forks'
        BY <1>10, <3>1
      <3>2. CASE k \in 1..Len(table) /\ table'[k] = table[k]
        BY <1>4, <1>7, <3>2 DEF Accounted
      <3> QED BY <2>3, <3>1, <3>2
    <2> QED BY <1>1, <1>2, <1>7, <1>8, <2>1, <2>6, <2>7, <2>8, <2>9
  <1> QED BY <1>1, <1>6, <1>9, <1>10 DEF TypeOK

----------------------------------------------------------------------------
(* The initial states *)

LEMMA InitInv == Init => Inv
  <1> SUFFICES ASSUME Init PROVE Inv
    OBVIOUS
  <1> USE PoolSizes DEF Init, Workers
  <1>1. TypeOK
    BY DEF TypeOK, Row
  <1>2. Counted /\ Pending /\ Sent
    BY DEF Counted, Pending, Waiting, Sent
  <1>3. TableExact /\ Claimed /\ Reports /\ Accounted /\ RefusedOnlyByCrash
    BY DEF TableExact, Claimed, Claims, Reports, Accounted, RefusedOnlyByCrash
  <1> QED BY <1>1, <1>2, <1>3 DEF Inv

----------------------------------------------------------------------------
(* The dispatcher *)

LEMMA BootSpawnInv == ASSUME Inv, BootSpawn PROVE Inv'
  <1> USE PoolSizes DEF Inv
  <1>1. spawn_worker /\ UNCHANGED <<now, tokens, conn>> /\ SameClaims /\ Sent'
    BY ClientsStay DEF BootSpawn
  <1>2. /\ PoolInv'
        /\ table' \in Seq(Row) /\ Len(table') <= Len(table) + 1
        /\ forks' \in 0..MaxForks /\ failures' \in 0..MaxFailures
        /\ wstate' \in [Workers -> {"none", "free", "accept", "dead", "killed"}]
        /\ \A w \in Workers : wstate'[w] = "none" <=> w > forks'
        /\ \A w \in Workers : wstate[w] # "none" => wstate'[w] = wstate[w]
    BY <1>1, Spawned
  <1>3. Len(table) \in Nat /\ Len(table') \in Nat
    BY <1>2 DEF TypeOK
  <1>4. TypeOK'
    BY <1>2, <1>3 DEF BootSpawn, clients, TypeOK, Counted
  <1>5. Counted'
    BY <1>2, <1>3 DEF BootSpawn, TypeOK, Counted
  <1>6. Pending'
    BY DEF BootSpawn, clients, Pending, Waiting
  <1>7. RefusedOnlyByCrash'
    BY <1>2 DEF BootSpawn, clients, RefusedOnlyByCrash, Sent
  <1> QED BY <1>1, <1>2, <1>4, <1>5, <1>6, <1>7 DEF PoolInv

\* The steps of the dispatcher that leave workers, rows and clients alone.
LEMMA AsideInv ==
    ASSUME Inv, BootDone \/ Accept \/ DrainDone \/ Keep \/ ReapDone \/ Tick
    PROVE  Inv'
  <1> USE DEF Inv
  <1>1. UNCHANGED <<table, wstate, tokens, conn, clients>>
    BY DEF BootDone, Accept, DrainDone, Keep, ReapDone, Tick, workers, clients, dispatcher
  <1>2. PoolInv' /\ Sent' /\ RefusedOnlyByCrash'
    BY <1>1, PoolStays, ClientsStay, RefusedStays
  <1>3. TypeOK'
    <2>1. CASE Accept
      <3>1. Head(backlog) \in Clients /\ Tail(backlog) \in Seq(Clients)
        BY <2>1 DEF Accept, TypeOK
      <3> QED BY <1>1, <2>1, <3>1 DEF Accept, TypeOK, clients
    <2>2. CASE BootDone \/ DrainDone \/ Keep \/ ReapDone
      BY <1>1, <2>2 DEF BootDone, DrainDone, Keep, ReapDone, TypeOK, clients
    <2>3. CASE Tick
      BY <1>1, <2>3, PoolSizes DEF Tick, TypeOK, clients, dispatcher
    <2> QED BY <2>1, <2>2, <2>3
  <1>4. Counted'
    BY <1>1 DEF TypeOK, Counted, BootDone, Accept, DrainDone, Keep, ReapDone, Tick, dispatcher
  <1>5. Pending'
    <2>1. CASE Accept
      <3>1. /\ Len(backlog) \in Nat \ {0} /\ cli' = backlog[1] /\ Len(backlog') = Len(backlog) - 1
            /\ backlog[1] \in Clients /\ \A k \in 1..Len(backlog') : backlog'[k] = backlog[k + 1]
        BY <2>1 DEF Accept, TypeOK
      <3>2. 1 \in 1..Len(backlog) /\ \A k \in 1..Len(backlog') : k + 1 \in 1..Len(backlog) /\ k + 1 # 1
        BY <3>1
      <3>3. cli' # NoClient /\ pc' = "drain"
        BY <2>1, <3>1, PoolSizes DEF Accept
      <3>4. \A c \in Clients : Waiting(c)' => at'[c] = 0 /\ cl'[c] \in {"queued", "crashed"}
        BY <1>1, <3>1, <3>2 DEF clients, Pending, Waiting
      <3>5. \A j, k \in 1..Len(backlog') : backlog'[j] # cli' /\ (backlog'[j] = backlog'[k] => j = k)
        <4> TAKE j, k \in 1..Len(backlog')
        <4>1. /\ backlog[j + 1] # backlog[1]
              /\ backlog[j + 1] = backlog[k + 1] => j + 1 = k + 1
          BY <3>2 DEF Pending
        <4> QED BY <3>1, <4>1
      <3> QED BY <3>3, <3>4, <3>5 DEF Pending
    <2>2. CASE BootDone \/ DrainDone \/ Keep \/ ReapDone \/ Tick
      BY <2>2 DEF BootDone, DrainDone, Keep, ReapDone, Tick, dispatcher, clients, Pending, Waiting
    <2> QED BY <2>1, <2>2
  <1> QED BY <1>2, <1>3, <1>4, <1>5 DEF PoolInv

LEMMA DrainInv == ASSUME Inv, drain_notify PROVE Inv'
  <1> USE DEF Inv
  <1> DEFINE w == table[i].id
             r == [table[i] EXCEPT !.busy = FALSE, !.last_free_ts = now]
  <1>1. i \in 1..Len(table) /\ w \in Workers /\ table[i] \in Row
    BY RowType DEF drain_notify, TypeOK
  <1>2. SameClaims /\ Sent' /\ RefusedOnlyByCrash'
    BY ClientsStay, RefusedStays DEF drain_notify, clients
  <1>3. Pending'
    BY DEF drain_notify, clients, Pending, Waiting
  <1>4. CASE tokens[w] = 0
    <2>1. UNCHANGED <<table, tokens>>
      BY <1>4 DEF drain_notify
    <2>2. PoolInv'
      BY <1>2, <2>1, PoolStays DEF drain_notify
    <2>3. TypeOK' /\ Counted'
      BY <2>1 DEF drain_notify, clients, TypeOK, Counted
    <2> QED BY <1>2, <1>3, <2>2, <2>3 DEF PoolInv
  <1>5. CASE tokens[w] = 1
    <2>1. r \in Row /\ r.id = w /\ ~r.busy
      BY <1>1 DEF Row, TypeOK
    <2>2. table' = [table EXCEPT ![i] = r] /\ tokens' = [tokens EXCEPT ![w] = 0]
      <3>1. table \in [1..Len(table) -> Row]
        BY DEF TypeOK
      <3>2. /\ table' = [table EXCEPT ![i].busy = FALSE, ![i].last_free_ts = now]
            /\ tokens' = [tokens EXCEPT ![w] = 0]
        <4>1. tokens[w] > 0
          BY <1>5
        <4> QED BY <4>1, Zenon DEF drain_notify
      <3>3. [table EXCEPT ![i].busy = FALSE, ![i].last_free_ts = now] = [table EXCEPT ![i] = r]
        <4>1. [table EXCEPT ![i].busy = FALSE][i] = [table[i] EXCEPT !.busy = FALSE]
          BY <1>1, <3>1
        <4>2. [table[i] EXCEPT !.busy = FALSE, !.last_free_ts = now]
                = [[table[i] EXCEPT !.busy = FALSE] EXCEPT !.last_free_ts = now]
          OBVIOUS
        <4> QED BY <1>1, <3>1, <4>1, <4>2
      <3> QED BY <3>2, <3>3
    <2> HIDE DEF r
    <2>3. /\ table' \in Seq(Row) /\ Len(table') = Len(table) /\ Len(table) \in Nat
          /\ \A j \in 1..Len(table) : table'[j] = IF j = i THEN r ELSE table[j]
      BY <1>1, <2>1, <2>2, RowChanged
    <2>4. /\ tokens' \in [Workers -> Nat] /\ tokens'[w] = 0
          /\ \A v \in Workers : v # w => tokens'[v] = tokens[v]
      BY <1>1, <2>2 DEF TypeOK
    <2>5. wstate[w] # "free" /\ wstate' = wstate /\ \A c \in Clients : ~Claims(c, w)
      BY <1>1, <1>5 DEF Reports, Claimed, drain_notify
    <2>6. \A j \in 1..Len(table) : table'[j].id = table[j].id /\ table[j].id \in Workers
      BY <2>1, <2>3, RowType
    <2>7. \A j \in 1..Len(table) : j # i => table[j].id # w /\ table'[j] = table[j]
      BY <1>1, <2>3 DEF TableExact
    <2> HIDE DEF w
    <2>8. TypeOK' /\ Counted'
      BY <2>3, <2>4, <2>5 DEF drain_notify, clients, TypeOK, Counted
    <2>9. TableExact'
      BY <2>3, <2>5, <2>6 DEF TableExact
    <2>10. Reports'
      <3>1. \A v \in Workers : tokens'[v] \in {0, 1} /\ (tokens'[v] = 1 => wstate[v] # "free")
        BY <2>4 DEF Reports
      <3>2. ASSUME NEW j \in 1..Len(table), ~table'[j].busy
            PROVE  tokens'[table[j].id] = 0 /\ wstate[table[j].id] # "free"
        <4>1. CASE j = i
          BY <2>4, <2>5, <4>1 DEF w
        <4>2. CASE j # i
          BY <2>4, <2>6, <2>7, <3>2, <4>2 DEF Reports
        <4> QED BY <4>1, <4>2
      <3> QED BY <2>3, <2>5, <2>6, <3>1, <3>2 DEF Reports
    <2>11. Claimed'
      <3> SUFFICES ASSUME NEW c \in Clients, NEW v \in Workers, Claims(c, v)
                   PROVE  /\ tokens'[v] = 0 /\ wstate[v] \in {"accept", "dead"}
                          /\ \E k \in 1..Len(table) : table'[k].id = v /\ table'[k].busy
                          /\ \A d \in Clients : Claims(d, v) => d = c
        BY <1>2, <2>3, <2>5 DEF Claimed, SameClaims
      <3>1. v # w
        BY <2>5
      <3>2. PICK k \in 1..Len(table) : table[k].id = v /\ table[k].busy
        BY DEF Claimed
      <3>3. table'[k] = table[k]
        BY <2>7, <3>1, <3>2 DEF w
      <3> QED BY <2>4, <3>1, <3>2, <3>3 DEF Claimed
    <2>12. Accounted'
      <3> SUFFICES ASSUME NEW k \in 1..Len(table), table'[k].busy
                   PROVE  \/ wstate[table[k].id] \in {"free", "dead"} \/ tokens'[table[k].id] > 0
                          \/ \E c \in Clients : Claims(c, table[k].id)
        BY <1>2, <2>3, <2>5, <2>6 DEF Accounted, SameClaims
      <3>1. k # i
        BY <1>1, <2>1, <2>3
      <3> QED BY <2>4, <2>6, <2>7, <3>1 DEF Accounted
    <2> QED BY <1>2, <1>3, <2>8, <2>9, <2>10, <2>11, <2>12
  <1> QED BY <1>1, <1>4, <1>5 DEF Reports

\* An idle row has no claim on its worker.
LEMMA IdleUnclaimed ==
    ASSUME Inv, NEW k \in 1..Len(table), ~table[k].busy, NEW c \in Clients
    PROVE  ~Claims(c, table[k].id)
  BY RowType DEF Inv, Claimed, TableExact

\* The client in hand has no claim yet.
LEMMA WaitingUnclaimed ==
    ASSUME Inv, pc = "reply"
    PROVE  /\ cli \in Clients /\ cl[cli] \in {"queued", "crashed"} /\ at[cli] = 0
           /\ \A w \in Workers : ~Claims(cli, w) /\ cli \notin conn[w]
  BY PoolSizes DEF Inv, TypeOK, Pending, Waiting, Claims, Sent, Workers

\* The dispatcher has told the client in hand something, and nobody else.
LEMMA Told ==
    ASSUME Inv, pc = "reply", NEW state, NEW w, Tell(cli, state, w), UNCHANGED <<backlog, conn>>
    PROVE  /\ Pending'
           /\ cl' = [cl EXCEPT ![cli] = state] /\ at' = [at EXCEPT ![cli] = w]
           /\ cl'[cli] = state /\ at'[cli] = w
           /\ \A d \in Clients : d # cli => cl'[d] = cl[d] /\ at'[d] = at[d]
           /\ \A d \in Clients, v \in Workers : d # cli => (Claims(d, v)' <=> Claims(d, v))
           /\ cli' \in Clients \cup {NoClient} /\ pc' = "reap" /\ i' = 1
  <1>1. cli \in Clients
    BY WaitingUnclaimed
  <1>2. /\ cl' = [cl EXCEPT ![cli] = state] /\ at' = [at EXCEPT ![cli] = w]
        /\ cl'[cli] = state /\ at'[cli] = w
        /\ \A d \in Clients : d # cli => cl'[d] = cl[d] /\ at'[d] = at[d]
    BY <1>1 DEF Tell, Inv, TypeOK
  <1>3. \A d \in Clients, v \in Workers : d # cli => (Claims(d, v)' <=> Claims(d, v))
    BY <1>2 DEF Claims
  <1>4. Pending'
    BY <1>2, PoolSizes DEF Tell, Inv, TypeOK, Pending, Waiting
  <1> QED BY <1>2, <1>3, <1>4 DEF Tell

LEMMA ReplyPortInv == ASSUME Inv, ReplyPort PROVE Inv'
  <1> USE DEF Inv
  <1>1. PICK k \in 1..Len(table) :
            /\ FirstIdle(k) /\ table' = [table EXCEPT ![k].busy = TRUE]
            /\ Tell(cli, IF cl[cli] = "crashed" THEN "vanished" ELSE "assigned", table[k].id)
    BY DEF ReplyPort
  <1> DEFINE w == table[k].id
             state == IF cl[cli] = "crashed" THEN "vanished" ELSE "assigned"
             r == [table[k] EXCEPT !.busy = TRUE]
  <1>2. pc = "reply" /\ UNCHANGED <<forks, now, backlog, wstate, tokens, conn, failures>>
    BY DEF ReplyPort, workers
  <1>3. /\ cli \in Clients /\ at[cli] = 0
        /\ \A v \in Workers : ~Claims(cli, v) /\ cli \notin conn[v]
    BY <1>2, WaitingUnclaimed
  <1>4. /\ Pending'
        /\ cl' = [cl EXCEPT ![cli] = state] /\ at' = [at EXCEPT ![cli] = w]
        /\ cl'[cli] = state /\ at'[cli] = w
        /\ \A d \in Clients : d # cli => cl'[d] = cl[d] /\ at'[d] = at[d]
        /\ \A d \in Clients, v \in Workers : d # cli => (Claims(d, v)' <=> Claims(d, v))
        /\ cli' \in Clients \cup {NoClient} /\ pc' = "reap" /\ i' = 1
    BY <1>1, <1>2, Told
  <1>5. w \in Workers /\ table[k] \in Row /\ ~table[k].busy
    BY <1>1, RowType DEF FirstIdle, Idle
  <1>6. r \in Row /\ r.id = w /\ r.busy
    BY <1>5 DEF Row
  <1>7. table' = [table EXCEPT ![k] = r]
    BY <1>1
  <1>8. state \in {"vanished", "assigned"}
    OBVIOUS
  <1> HIDE DEF r, state
  <1>9. /\ table' \in Seq(Row) /\ Len(table') = Len(table) /\ Len(table) \in Nat
        /\ \A j \in 1..Len(table) : table'[j] = IF j = k THEN r ELSE table[j]
    BY <1>6, <1>7, RowChanged
  <1>10. \A j \in 1..Len(table) : /\ table'[j].id = table[j].id /\ table[j].id \in Workers
                                  /\ j # k => table'[j] = table[j] /\ table[j].id # w
    BY <1>6, <1>9, RowType DEF TableExact
  <1>11. /\ \A d \in Clients : ~Claims(d, w)
         /\ tokens[w] = 0 /\ wstate[w] \in {"accept", "dead"}
    BY <1>5, IdleUnclaimed DEF Reports, TableExact
  <1> HIDE DEF w
  <1>12. \A d \in Clients, v \in Workers : Claims(d, v)' <=> (Claims(d, v) \/ (d = cli /\ v = w))
    <2>1. PICK c \in Clients : c = cli
      BY <1>3
    <2>2. \A v \in Workers : Claims(c, v)' <=> (v = w)
      BY <1>2, <1>3, <1>4, <1>8, <2>1 DEF Claims
    <2>3. \A v \in Workers : Claims(c, v)' <=> (Claims(c, v) \/ v = w)
      BY <1>3, <2>1, <2>2
    <2>4. ASSUME NEW d \in Clients, NEW v \in Workers, d # c
          PROVE  Claims(d, v)' <=> Claims(d, v)
      BY <1>4, <2>1, <2>4
    <2> QED BY <2>1, <2>3, <2>4
  <1>13. TypeOK'
    BY <1>2, <1>3, <1>4, <1>5, <1>8, <1>9 DEF TypeOK, Workers
  <1>14. Counted'
    BY <1>2, <1>4 DEF Counted
  <1>15. Sent'
    BY <1>2, <1>3, <1>4, <1>5, <1>8 DEF Sent
  <1>16. TableExact'
    BY <1>2, <1>9, <1>10 DEF TableExact
  <1>17. Reports'
    <2>1. \A j \in 1..Len(table) : ~table'[j].busy => ~table[j].busy
      BY <1>6, <1>9
    <2> QED BY <1>2, <1>9, <1>10, <2>1 DEF Reports
  <1>18. Claimed'
    <2> SUFFICES ASSUME NEW c \in Clients, NEW v \in Workers, Claims(c, v)'
                 PROVE  /\ tokens[v] = 0 /\ wstate[v] \in {"accept", "dead"}
                        /\ \E j \in 1..Len(table) : table'[j].id = v /\ table'[j].busy
                        /\ \A d \in Clients : Claims(d, v)' => d = c
      BY <1>2, <1>9 DEF Claimed
    <2>1. CASE v = w
      <3>1. c = cli /\ \A d \in Clients : Claims(d, v)' => d = c
        BY <1>11, <1>12, <2>1
      <3>2. table'[k].id = v /\ table'[k].busy
        BY <1>6, <1>9, <2>1
      <3> QED BY <1>11, <2>1, <3>1, <3>2
    <2>2. CASE v # w
      <3>1. Claims(c, v) /\ \A d \in Clients : Claims(d, v)' => Claims(d, v)
        BY <1>12, <2>2
      <3>2. PICK j \in 1..Len(table) : table[j].id = v /\ table[j].busy
        BY <3>1 DEF Claimed
      <3>3. table'[j] = table[j]
        BY <1>10, <2>2, <3>2 DEF w
      <3> QED BY <3>1, <3>2, <3>3 DEF Claimed
    <2> QED BY <2>1, <2>2
  <1>19. Accounted'
    <2> SUFFICES ASSUME NEW j \in 1..Len(table), table'[j].busy
                 PROVE  \/ wstate[table[j].id] \in {"free", "dead"} \/ tokens[table[j].id] > 0
                        \/ \E c \in Clients : Claims(c, table[j].id) \/ (c = cli /\ table[j].id = w)
      BY <1>2, <1>9, <1>10, <1>12 DEF Accounted
    <2>1. CASE j = k
      BY <1>3, <2>1 DEF w
    <2>2. CASE j # k
      BY <1>10, <2>2 DEF Accounted
    <2> QED BY <2>1, <2>2
  <1>20. RefusedOnlyByCrash'
    BY <1>2, <1>4, <1>8 DEF RefusedOnlyByCrash
  <1> QED BY <1>4, <1>13, <1>14, <1>15, <1>16, <1>17, <1>18, <1>19, <1>20

LEMMA ReplyBusyInv == ASSUME Inv, ReplyBusy PROVE Inv'
  <1> USE PoolSizes DEF Inv
  <1> DEFINE state == IF cl[cli] = "crashed" THEN "off" ELSE "busy"
  <1>1. pc = "reply" /\ UNCHANGED <<now, backlog, tokens, conn>> /\ Tell(cli, state, 0)
    BY DEF ReplyBusy
  <1>2. state \in {"off", "busy"}
    OBVIOUS
  <1> HIDE DEF state
  <1>3. /\ cli \in Clients /\ at[cli] = 0
        /\ \A v \in Workers : ~Claims(cli, v) /\ cli \notin conn[v]
    BY <1>1, WaitingUnclaimed
  <1>4. /\ Pending'
        /\ cl' = [cl EXCEPT ![cli] = state] /\ at' = [at EXCEPT ![cli] = 0]
        /\ cl'[cli] = state /\ at'[cli] = 0
        /\ \A d \in Clients : d # cli => cl'[d] = cl[d] /\ at'[d] = at[d]
        /\ \A d \in Clients, v \in Workers : d # cli => (Claims(d, v)' <=> Claims(d, v))
        /\ cli' \in Clients \cup {NoClient} /\ pc' = "reap" /\ i' = 1
    BY <1>1, Told
  <1>5. SameClaims
    <2>1. PICK c \in Clients : c = cli
      BY <1>3
    <2>2. \A v \in Workers : ~Claims(c, v)' /\ ~Claims(c, v)
      BY <1>1, <1>2, <1>3, <1>4, <2>1 DEF Claims
    <2> QED BY <1>4, <2>1, <2>2 DEF SameClaims
  <1>6. Sent'
    BY <1>1, <1>2, <1>3, <1>4 DEF Sent
  <1>7. /\ PoolInv'
        /\ table' \in Seq(Row) /\ Len(table') <= MaxWorkers
        /\ forks' \in 0..MaxForks /\ failures' \in 0..MaxFailures
        /\ wstate' \in [Workers -> {"none", "free", "accept", "dead", "killed"}]
        /\ \A w \in Workers : /\ wstate'[w] = "none" <=> w > forks'
                              /\ wstate'[w] = "none" => tokens[w] = 0
        /\ \A w \in Workers : wstate[w] # "none" => wstate'[w] = wstate[w]
    <2>1. CASE spawn_worker /\ Len(table) < MaxWorkers
      <3>1. /\ PoolInv'
            /\ table' \in Seq(Row) /\ Len(table') <= Len(table) + 1
            /\ forks' \in 0..MaxForks /\ failures' \in 0..MaxFailures
            /\ wstate' \in [Workers -> {"none", "free", "accept", "dead", "killed"}]
            /\ \A w \in Workers : wstate'[w] = "none" <=> w > forks'
            /\ \A w \in Workers : wstate[w] # "none" => wstate'[w] = wstate[w]
        BY <1>1, <1>5, <2>1, Spawned
      <3>2. Len(table) \in Nat /\ Len(table') \in Nat
        BY <3>1 DEF TypeOK
      <3> QED BY <2>1, <3>1, <3>2 DEF Counted
    <2>2. CASE UNCHANGED <<table, forks, wstate, failures>>
      <3>1. PoolInv'
        BY <1>1, <1>5, <2>2, PoolStays
      <3> QED BY <2>2, <3>1 DEF TypeOK, Counted
    <2> QED BY <2>1, <2>2 DEF ReplyBusy
  <1>8. TypeOK'
    BY <1>1, <1>2, <1>3, <1>4, <1>7 DEF TypeOK
  <1>9. Counted'
    BY <1>1, <1>4, <1>7 DEF Counted
  <1>10. RefusedOnlyByCrash'
    BY <1>2, <1>4, <1>7 DEF RefusedOnlyByCrash, Sent
  <1> QED BY <1>4, <1>6, <1>7, <1>8, <1>9, <1>10 DEF PoolInv

LEMMA RemoveInv == ASSUME Inv, Remove PROVE Inv'
  <1> USE DEF Inv
  <1> DEFINE w == table[i].id
  <1>1. /\ i \in 1..Len(table) /\ w \in Workers /\ ~table[i].busy
        /\ UNCHANGED <<pc, i, cli, forks, now, backlog, conn, clients, failures>>
    BY RowType DEF Remove, Removable, TypeOK
  <1>2. /\ wstate' = [wstate EXCEPT ![w] = "killed"] /\ tokens' = [tokens EXCEPT ![w] = 0]
        /\ table' = [k \in 1..(Len(table) - 1) |-> IF k < i THEN table[k] ELSE table[k + 1]]
    BY DEF Remove
  <1>3. /\ table' \in Seq(Row) /\ Len(table') = Len(table) - 1 /\ Len(table) \in Nat
        /\ \A j \in 1..Len(table') : \/ j < i /\ table'[j] = table[j]
                                     \/ j >= i /\ table'[j] = table[j + 1]
        /\ \A j \in 1..Len(table) : j # i =>
              \E m \in 1..Len(table') : table'[m] = table[j]
    BY <1>1, <1>2, RowRemoved
  <1>4. \A j \in 1..Len(table) : table[j].id \in Workers /\ (j # i => table[j].id # w)
    BY <1>1, RowType DEF TableExact
  <1>5. \A j \in 1..Len(table') : \E m \in 1..Len(table) :
            /\ table'[j] = table[m] /\ m # i /\ m = IF j < i THEN j ELSE j + 1
    BY <1>1, <1>3
  <1>6. /\ wstate' \in [Workers -> {"none", "free", "accept", "dead", "killed"}]
        /\ wstate'[w] = "killed" /\ tokens'[w] = 0 /\ tokens' \in [Workers -> Nat]
        /\ \A v \in Workers : v # w => wstate'[v] = wstate[v] /\ tokens'[v] = tokens[v]
    BY <1>1, <1>2 DEF TypeOK
  <1>7. \A c \in Clients : ~Claims(c, w)
    BY <1>1, IdleUnclaimed
  <1>8. wstate[w] # "none"
    BY <1>1 DEF TableExact
  <1> HIDE DEF w
  <1>9. \A j \in 1..Len(table') : table'[j].id \in Workers /\ table'[j].id # w
    BY <1>4, <1>5
  <1>10. SameClaims /\ Sent'
    BY <1>1, ClientsStay
  <1>11. TypeOK'
    BY <1>1, <1>3, <1>6, PoolSizes DEF TypeOK, clients
  <1>12. Counted'
    BY <1>1, <1>3, <1>6, <1>8 DEF TypeOK, Counted
  <1>13. Pending'
    BY <1>1 DEF clients, Pending, Waiting
  <1>14. TableExact'
    <2>1. \A j, k \in 1..Len(table') : table'[j].id = table'[k].id => j = k
      <3> TAKE j, k \in 1..Len(table')
      <3>1. PICK m \in 1..Len(table) : table'[j] = table[m] /\ m = IF j < i THEN j ELSE j + 1
        BY <1>5
      <3>2. PICK n \in 1..Len(table) : table'[k] = table[n] /\ n = IF k < i THEN k ELSE k + 1
        BY <1>5
      <3>3. table[m].id = table[n].id => m = n
        BY DEF TableExact
      <3> QED BY <1>1, <1>3, <3>1, <3>2, <3>3
    <2>2. ASSUME NEW v \in Workers, wstate'[v] \in {"free", "accept"}
          PROVE  \E k \in 1..Len(table') : table'[k].id = v
      <3>1. v # w /\ wstate[v] \in {"free", "accept"}
        BY <1>6, <2>2
      <3>2. PICK j \in 1..Len(table) : table[j].id = v
        BY <3>1 DEF TableExact
      <3>3. j # i
        BY <3>1, <3>2 DEF w
      <3> QED BY <1>3, <3>2, <3>3
    <2>3. \A k \in 1..Len(table') : wstate'[table'[k].id] \in {"free", "accept", "dead"}
      BY <1>5, <1>6, <1>9 DEF TableExact
    <2> QED BY <2>1, <2>2, <2>3 DEF TableExact
  <1>15. Reports'
    <2>1. \A v \in Workers : tokens'[v] \in {0, 1} /\ (tokens'[v] = 1 => wstate'[v] # "free")
      BY <1>6 DEF Reports
    <2>2. \A k \in 1..Len(table') : ~table'[k].busy =>
              tokens'[table'[k].id] = 0 /\ wstate'[table'[k].id] # "free"
      BY <1>5, <1>6, <1>9 DEF Reports
    <2> QED BY <2>1, <2>2 DEF Reports
  <1>16. Claimed'
    <2> SUFFICES ASSUME NEW c \in Clients, NEW v \in Workers, Claims(c, v)
                 PROVE  /\ tokens'[v] = 0 /\ wstate'[v] \in {"accept", "dead"}
                        /\ \E j \in 1..Len(table') : table'[j].id = v /\ table'[j].busy
                        /\ \A d \in Clients : Claims(d, v) => d = c
      BY <1>10 DEF Claimed, SameClaims
    <2>1. v # w
      BY <1>7
    <2>2. PICK j \in 1..Len(table) : table[j].id = v /\ table[j].busy
      BY DEF Claimed
    <2>3. PICK m \in 1..Len(table') : table'[m] = table[j]
      BY <1>3, <2>1, <2>2 DEF w
    <2> QED BY <1>6, <2>1, <2>2, <2>3 DEF Claimed
  <1>17. Accounted'
    <2> SUFFICES ASSUME NEW k \in 1..Len(table'), table'[k].busy
                 PROVE  \/ wstate'[table'[k].id] \in {"free", "dead"} \/ tokens'[table'[k].id] > 0
                        \/ \E c \in Clients : Claims(c, table'[k].id)
      BY <1>9, <1>10 DEF Accounted, SameClaims
    <2> QED BY <1>5, <1>6, <1>9 DEF Accounted
  <1>18. RefusedOnlyByCrash'
    <2> SUFFICES ASSUME NEW c \in Clients, cl[c] = "failed"
                 PROVE  wstate'[at[c]] = "dead"
      BY <1>1 DEF RefusedOnlyByCrash, clients
    <2>1. at[c] \in Workers /\ Claims(c, at[c])
      BY DEF Sent, Claims
    <2> QED BY <1>6, <1>7, <2>1 DEF RefusedOnlyByCrash
  <1> QED BY <1>10, <1>11, <1>12, <1>13, <1>14, <1>15, <1>16, <1>17, <1>18

----------------------------------------------------------------------------
(* Workers and clients *)

\* The dispatcher and the queue are left alone, and who waits in it.
LEMMA WaitingStays ==
    ASSUME Inv, UNCHANGED <<dispatcher, backlog>>,
           \A c \in Clients : cl[c] \in {"queued", "crashed"} /\ at[c] = 0 =>
               cl'[c] \in {"queued", "crashed"} /\ at'[c] = 0
    PROVE  Pending'
  BY DEF Inv, Pending, Waiting, dispatcher

LEMMA PostFreeInv == ASSUME Inv, NEW w \in Workers, PostFree(w) PROVE Inv'
  <1> USE DEF Inv
  <1>1. /\ wstate[w] = "free" /\ UNCHANGED <<dispatcher, now, backlog, conn, clients, failures>>
        /\ UNCHANGED <<pc, i, cli, table, forks>>
    BY DEF PostFree, dispatcher
  <1>2. tokens[w] = 0 /\ \A c \in Clients : ~Claims(c, w)
    BY <1>1 DEF Reports, Claimed
  <1>3. /\ wstate' = [wstate EXCEPT ![w] = "accept"] /\ tokens' = [tokens EXCEPT ![w] = 1]
    BY <1>2 DEF PostFree
  <1>4. /\ wstate'[w] = "accept" /\ tokens'[w] = 1
        /\ \A v \in Workers : v # w => wstate'[v] = wstate[v] /\ tokens'[v] = tokens[v]
    BY <1>3 DEF TypeOK
  <1>5. TypeOK' /\ Counted'
    BY <1>1, <1>3, <1>4 DEF TypeOK, Counted, clients
  <1>6. Pending'
    BY <1>1, WaitingStays DEF clients
  <1>7. SameClaims /\ Sent'
    BY <1>1, ClientsStay
  <1>8. TableExact'
    BY <1>1, <1>4, RowType DEF TableExact
  <1>9. Reports'
    BY <1>1, <1>4, RowType DEF Reports
  <1>10. Claimed'
    <2> SUFFICES ASSUME NEW c \in Clients, NEW v \in Workers, Claims(c, v)
                 PROVE  /\ tokens'[v] = 0 /\ wstate'[v] \in {"accept", "dead"}
                        /\ \E j \in 1..Len(table) : table[j].id = v /\ table[j].busy
                        /\ \A d \in Clients : Claims(d, v) => d = c
      BY <1>1, <1>7 DEF Claimed, SameClaims
    <2> QED BY <1>2, <1>4 DEF Claimed
  <1>11. Accounted'
    <2> SUFFICES ASSUME NEW k \in 1..Len(table), table[k].busy
                 PROVE  \/ wstate'[table[k].id] \in {"free", "dead"} \/ tokens'[table[k].id] > 0
                        \/ \E c \in Clients : Claims(c, table[k].id)
      BY <1>1, <1>7, RowType DEF Accounted, SameClaims
    <2> QED BY <1>4, RowType DEF Accounted
  <1>12. RefusedOnlyByCrash'
    BY <1>1, <1>4 DEF RefusedOnlyByCrash, Sent, clients
  <1> QED BY <1>5, <1>6, <1>7, <1>8, <1>9, <1>10, <1>11, <1>12

LEMMA ServeInv == ASSUME Inv, NEW w \in Workers, Serve(w) PROVE Inv'
  <1> USE DEF Inv
  <1>1. PICK c \in conn[w] :
            /\ conn' = [conn EXCEPT ![w] = @ \ {c}]
            /\ cl' = [cl EXCEPT ![c] = IF @ = "connected" THEN "done" ELSE "off"]
            /\ at' = [at EXCEPT ![c] = 0]
    BY DEF Serve
  <1>2. /\ wstate[w] = "accept" /\ wstate' = [wstate EXCEPT ![w] = "free"]
        /\ UNCHANGED <<pc, i, cli, table, forks, now, backlog, tokens, failures, dispatcher>>
    BY DEF Serve, dispatcher
  <1>3. c \in Clients /\ at[c] = w /\ cl[c] \in {"connected", "crashed"} /\ Claims(c, w)
    BY DEF TypeOK, Sent, Claims
  <1>4. /\ wstate'[w] = "free"
        /\ \A v \in Workers : v # w => wstate'[v] = wstate[v] /\ conn'[v] = conn[v]
        /\ conn'[w] = conn[w] \ {c}
        /\ cl'[c] \in {"done", "off"} /\ at'[c] = 0
        /\ \A d \in Clients : d # c => cl'[d] = cl[d] /\ at'[d] = at[d]
    BY <1>1, <1>2, <1>3 DEF TypeOK
  <1>5. tokens[w] = 0 /\ \A d \in Clients : Claims(d, w) => d = c
    BY <1>3 DEF Claimed
  <1>6. w # 0
    BY DEF Workers
  <1>7. \A d \in Clients, v \in Workers : Claims(d, v)' <=> (Claims(d, v) /\ v # w)
    <2> TAKE d \in Clients, v \in Workers
    <2>1. CASE d = c
      BY <1>3, <1>4, <2>1 DEF Claims, Sent
    <2>2. CASE d # c /\ v = w
      BY <1>4, <1>5, <2>2 DEF Claims
    <2>3. CASE d # c /\ v # w
      BY <1>4, <2>3 DEF Claims
    <2> QED BY <2>1, <2>2, <2>3
  <1>8. TypeOK' /\ Counted'
    <2>1. conn' \in [Workers -> SUBSET Clients] /\ at' \in [Clients -> 0..MaxForks]
      BY <1>1, PoolSizes DEF TypeOK
    <2>2. cl' \in [Clients -> {"off", "queued", "crashed", "assigned", "vanished",
                               "connected", "done", "busy", "failed"}]
      BY <1>1 DEF TypeOK
    <2> QED BY <1>2, <1>4, <2>1, <2>2 DEF TypeOK, Counted
  <1>9. Pending'
    <2>1. \A d \in Clients : cl[d] \in {"queued", "crashed"} /\ at[d] = 0 => d # c
      BY <1>3, <1>6
    <2> QED BY <1>2, <1>4, <2>1, WaitingStays
  <1>10. Sent'
    <2>1. \A v \in Workers : c \notin conn'[v]
      BY <1>3, <1>4 DEF Sent
    <2>2. \A v \in Workers : conn'[v] \subseteq conn[v] /\ conn[v] \subseteq Clients
      BY <1>4 DEF TypeOK
    <2> QED BY <1>2, <1>4, <2>1, <2>2 DEF Sent
  <1>11. TableExact'
    BY <1>2, <1>4, RowType DEF TableExact
  <1>12. Reports'
    <2>1. \A k \in 1..Len(table) : ~table[k].busy => table[k].id # w
      BY <1>3, IdleUnclaimed
    <2> QED BY <1>2, <1>4, <1>5, <2>1, RowType DEF Reports
  <1>13. Claimed'
    <2> SUFFICES ASSUME NEW d \in Clients, NEW v \in Workers, Claims(d, v), v # w
                 PROVE  /\ tokens[v] = 0 /\ wstate'[v] \in {"accept", "dead"}
                        /\ \E j \in 1..Len(table) : table[j].id = v /\ table[j].busy
                        /\ \A e \in Clients : Claims(e, v) => e = d
      BY <1>2, <1>7 DEF Claimed
    <2> QED BY <1>4 DEF Claimed
  <1>14. Accounted'
    <2> SUFFICES ASSUME NEW k \in 1..Len(table), table[k].busy
                 PROVE  \/ wstate'[table[k].id] \in {"free", "dead"} \/ tokens[table[k].id] > 0
                        \/ \E d \in Clients : Claims(d, table[k].id) /\ table[k].id # w
      BY <1>2, <1>7, RowType DEF Accounted
    <2> QED BY <1>4, RowType DEF Accounted
  <1>15. RefusedOnlyByCrash'
    BY <1>2, <1>4 DEF RefusedOnlyByCrash, Sent
  <1> QED BY <1>8, <1>9, <1>10, <1>11, <1>12, <1>13, <1>14, <1>15

LEMMA DieInv == ASSUME Inv, NEW w \in Workers, Die(w) PROVE Inv'
  <1> USE DEF Inv
  <1>1. /\ wstate[w] \in {"free", "accept"} /\ Fail
        /\ wstate' = [wstate EXCEPT ![w] = "dead"]
        /\ conn' = [conn EXCEPT ![w] = {}]
        /\ cl' = [c \in Clients |-> IF c \notin conn[w] THEN cl[c]
                                    ELSE IF cl[c] = "connected" THEN "failed" ELSE "off"]
        /\ UNCHANGED <<pc, i, cli, table, forks, now, backlog, tokens, at, dispatcher>>
    BY DEF Die, dispatcher
  <1>2. /\ wstate'[w] = "dead" /\ conn'[w] = {}
        /\ \A v \in Workers : v # w => wstate'[v] = wstate[v] /\ conn'[v] = conn[v]
    BY <1>1 DEF TypeOK
  <1>3. \A c \in Clients : \/ c \notin conn[w] /\ cl'[c] = cl[c]
                           \/ c \in conn[w] /\ cl'[c] \in {"failed", "off"} /\ at[c] = w
    BY <1>1 DEF Sent
  <1>4. \A d \in Clients, v \in Workers : /\ Claims(d, v)' => Claims(d, v)
                                          /\ v # w /\ Claims(d, v) => Claims(d, v)'
    <2> TAKE d \in Clients, v \in Workers
    <2>1. CASE d \in conn[w]
      <3>1. at[d] = w /\ cl[d] \in {"connected", "crashed"} /\ Claims(d, w)
        BY <2>1 DEF Sent, Claims
      <3> QED BY <1>1, <1>2, <1>3, <2>1, <3>1 DEF Claims, Sent
    <2>2. CASE d \notin conn[w]
      BY <1>1, <1>2, <1>3, <2>2 DEF Claims
    <2> QED BY <2>1, <2>2
  <1>5. TypeOK' /\ Counted'
    <2>1. conn' \in [Workers -> SUBSET Clients] /\ failures' \in 0..MaxFailures
      BY <1>1, PoolSizes DEF TypeOK, Fail
    <2>2. cl' \in [Clients -> {"off", "queued", "crashed", "assigned", "vanished",
                               "connected", "done", "busy", "failed"}]
      BY <1>1 DEF TypeOK
    <2> QED BY <1>1, <1>2, <2>1, <2>2 DEF TypeOK, Counted
  <1>6. Pending'
    <2>1. \A c \in conn[w] : at[c] # 0
      BY DEF Sent, Workers
    <2> QED BY <1>1, <1>3, <2>1, WaitingStays
  <1>7. Sent'
    BY <1>1, <1>2, <1>3 DEF Sent, TypeOK
  <1>8. TableExact'
    BY <1>1, <1>2, RowType DEF TableExact
  <1>9. Reports'
    BY <1>1, <1>2, RowType DEF Reports
  <1>10. Claimed'
    <2> SUFFICES ASSUME NEW d \in Clients, NEW v \in Workers, Claims(d, v)
                 PROVE  /\ tokens[v] = 0 /\ wstate'[v] \in {"accept", "dead"}
                        /\ \E j \in 1..Len(table) : table[j].id = v /\ table[j].busy
                        /\ \A e \in Clients : Claims(e, v) => e = d
      BY <1>1, <1>4 DEF Claimed
    <2> QED BY <1>2 DEF Claimed
  <1>11. Accounted'
    <2> SUFFICES ASSUME NEW k \in 1..Len(table), table[k].busy, table[k].id # w
                 PROVE  \/ wstate'[table[k].id] \in {"free", "dead"} \/ tokens[table[k].id] > 0
                        \/ \E d \in Clients : Claims(d, table[k].id)
      BY <1>1, <1>2, <1>4, RowType DEF Accounted
    <2> QED BY <1>2, RowType DEF Accounted
  <1>12. RefusedOnlyByCrash'
    BY <1>1, <1>2, <1>3 DEF RefusedOnlyByCrash, Sent
  <1> QED BY <1>5, <1>6, <1>7, <1>8, <1>9, <1>10, <1>11, <1>12

\* A step of a client changes no claim and nothing at the workers but their
\* connections.
LEMMA ClientStepInv ==
    ASSUME Inv, TypeOK', Pending', Sent', SameClaims, RefusedOnlyByCrash',
           UNCHANGED <<dispatcher, wstate, tokens>>
    PROVE  Inv'
  <1>1. UNCHANGED <<pc, i, cli, table, forks>>
    BY DEF dispatcher
  <1>2. PoolInv'
    BY <1>1, PoolStays
  <1>3. Counted'
    BY <1>1 DEF Inv, Counted
  <1> QED BY <1>2, <1>3 DEF Inv, PoolInv

LEMMA DialInv == ASSUME Inv, NEW c \in Clients, Dial(c) PROVE Inv'
  <1> USE DEF Inv
  <1>1. /\ cl[c] \in {"off", "done", "busy"} /\ backlog' = Append(backlog, c)
        /\ cl' = [cl EXCEPT ![c] = "queued"] /\ at' = [at EXCEPT ![c] = 0]
        /\ UNCHANGED <<pc, i, cli, table, forks, now, wstate, tokens, conn, failures, dispatcher>>
    BY DEF Dial, dispatcher, workers
  <1>2. /\ cl'[c] = "queued" /\ at'[c] = 0
        /\ \A d \in Clients : d # c => cl'[d] = cl[d] /\ at'[d] = at[d]
    BY <1>1 DEF TypeOK
  <1>3. /\ Len(backlog) \in Nat /\ Len(backlog') = Len(backlog) + 1
        /\ \A k \in 1..Len(backlog) : backlog'[k] = backlog[k]
        /\ backlog'[Len(backlog) + 1] = c
    BY <1>1 DEF TypeOK
  <1>4. ~Waiting(c) /\ \A w \in Workers : c \notin conn[w]
    BY <1>1 DEF Pending, Sent
  <1>5. TypeOK'
    BY <1>1, PoolSizes DEF TypeOK
  <1>6. SameClaims
    <2>1. \A w \in Workers : ~Claims(c, w) /\ ~Claims(c, w)'
      BY <1>1, <1>2, <1>4 DEF Claims
    <2>2. \A d \in Clients, w \in Workers : d # c => (Claims(d, w)' <=> Claims(d, w))
      BY <1>1, <1>2 DEF Claims
    <2> QED BY <2>1, <2>2 DEF SameClaims
  <1>7. Sent'
    BY <1>1, <1>2, <1>4 DEF Sent
  <1>8. Pending'
    <2>1. \A k \in 1..Len(backlog') : \/ k \in 1..Len(backlog) /\ backlog'[k] = backlog[k]
                                      \/ k = Len(backlog) + 1 /\ backlog'[k] = c
      BY <1>3
    <2>2. c # cli /\ \A k \in 1..Len(backlog) : backlog[k] # c
      BY <1>4 DEF Waiting
    <2>3. \A d \in Clients : Waiting(d)' => at'[d] = 0 /\ cl'[d] \in {"queued", "crashed"}
      BY <1>1, <1>2, <2>1 DEF Pending, Waiting
    <2>4. \A j, k \in 1..Len(backlog') : backlog'[j] # cli /\ (backlog'[j] = backlog'[k] => j = k)
      BY <2>1, <2>2 DEF Pending
    <2> QED BY <1>1, <2>3, <2>4 DEF Pending
  <1>9. RefusedOnlyByCrash'
    BY <1>1, <1>2 DEF RefusedOnlyByCrash
  <1> QED BY <1>1, <1>5, <1>6, <1>7, <1>8, <1>9, ClientStepInv

LEMMA ConnectInv == ASSUME Inv, NEW c \in Clients, Connect(c) PROVE Inv'
  <1> USE DEF Inv
  <1> DEFINE w == at[c]
  <1>1. /\ cl[c] = "assigned"
        /\ UNCHANGED <<pc, i, cli, table, forks, now, backlog, wstate, tokens, at, failures, dispatcher>>
    BY DEF Connect, dispatcher
  <1>2. w \in Workers /\ Claims(c, w) /\ \A v \in Workers : c \notin conn[v]
    BY <1>1 DEF Sent, Claims
  <1>3. wstate[w] \in {"accept", "dead"}
    BY <1>2 DEF Claimed
  <1>4. \/ /\ wstate[w] = "dead"
           /\ cl' = [cl EXCEPT ![c] = "failed"] /\ conn' = conn
        \/ /\ cl' = [cl EXCEPT ![c] = "connected"]
           /\ conn' = [conn EXCEPT ![w] = @ \cup {c}]
    BY <1>3 DEF Connect
  <1>5. \A d \in Clients : d # c => cl'[d] = cl[d] /\ at'[d] = at[d]
    BY <1>1, <1>4 DEF TypeOK
  <1>6. \/ wstate[w] = "dead" /\ cl'[c] = "failed" /\ conn' = conn
        \/ /\ cl'[c] = "connected" /\ conn'[w] = conn[w] \cup {c}
           /\ \A v \in Workers : v # w => conn'[v] = conn[v]
    BY <1>2, <1>4 DEF TypeOK
  <1>7. TypeOK'
    <2>1. conn' \in [Workers -> SUBSET Clients]
      <3>1. CASE conn' = conn
        BY <3>1 DEF TypeOK
      <3>2. CASE conn' = [conn EXCEPT ![w] = @ \cup {c}]
        BY <3>2 DEF TypeOK
      <3> QED BY <1>4, <3>1, <3>2
    <2>2. cl' \in [Clients -> {"off", "queued", "crashed", "assigned", "vanished",
                               "connected", "done", "busy", "failed"}]
      BY <1>4 DEF TypeOK
    <2> QED BY <1>1, <2>1, <2>2 DEF TypeOK
  <1>8. SameClaims
    <2>1. \A v \in Workers : Claims(c, v) <=> (v = w)
      BY <1>1, <1>2 DEF Claims
    <2>2. \A v \in Workers : Claims(c, v)' <=> (v = w)
      BY <1>1, <1>2, <1>6 DEF Claims
    <2>3. \A d \in Clients, v \in Workers : d # c => (Claims(d, v)' <=> Claims(d, v))
      BY <1>1, <1>2, <1>5, <1>6 DEF Claims
    <2> QED BY <2>1, <2>2, <2>3 DEF SameClaims
  <1>9. Sent'
    <2>1. \A v \in Workers : \A d \in conn'[v] : d \in conn[v] \/ (d = c /\ v = w)
      BY <1>6
    <2>2. cl'[c] \in {"failed", "connected"} /\ \A v \in Workers : conn[v] \subseteq Clients
      BY <1>6 DEF TypeOK
    <2>3. \A v \in Workers : \A d \in conn'[v] : at'[d] = v /\ cl'[d] \in {"connected", "crashed"}
      BY <1>1, <1>2, <1>5, <1>6, <2>1, <2>2 DEF Sent
    <2> QED BY <1>1, <1>2, <1>5, <2>2, <2>3 DEF Sent
  <1>10. Pending'
    <2>1. \A d \in Clients : cl[d] \in {"queued", "crashed"} /\ at[d] = 0 =>
              cl'[d] \in {"queued", "crashed"} /\ at'[d] = 0
      BY <1>1, <1>5
    <2> QED BY <1>1, <2>1, WaitingStays
  <1>11. RefusedOnlyByCrash'
    BY <1>1, <1>5, <1>6 DEF RefusedOnlyByCrash
  <1> QED BY <1>1, <1>7, <1>8, <1>9, <1>10, <1>11, ClientStepInv

LEMMA CrashInv == ASSUME Inv, NEW c \in Clients, Crash(c) PROVE Inv'
  <1> USE DEF Inv
  <1>1. /\ cl[c] \in {"queued", "assigned", "connected"} /\ Fail
        /\ cl' = [cl EXCEPT ![c] = IF @ = "assigned" THEN "vanished" ELSE "crashed"]
        /\ UNCHANGED <<pc, i, cli, table, forks, now, backlog, wstate, tokens, conn, at, dispatcher>>
    BY DEF Crash, dispatcher, workers
  <1>2. /\ cl'[c] = IF cl[c] = "assigned" THEN "vanished" ELSE "crashed"
        /\ \A d \in Clients : d # c => cl'[d] = cl[d]
    BY <1>1 DEF TypeOK
  <1>3. TypeOK'
    <2>1. failures' \in 0..MaxFailures
      BY <1>1, PoolSizes DEF TypeOK, Fail
    <2>2. cl' \in [Clients -> {"off", "queued", "crashed", "assigned", "vanished",
                               "connected", "done", "busy", "failed"}]
      BY <1>1 DEF TypeOK
    <2> QED BY <1>1, <2>1, <2>2 DEF TypeOK
  <1>4. SameClaims
    BY <1>1, <1>2 DEF SameClaims, Claims
  <1>5. Sent'
    BY <1>1, <1>2 DEF Sent, TypeOK
  <1>6. Pending'
    <2>1. \A d \in Clients : cl[d] \in {"queued", "crashed"} /\ at[d] = 0 =>
              cl'[d] \in {"queued", "crashed"} /\ at'[d] = 0
      BY <1>1, <1>2
    <2> QED BY <1>1, <2>1, WaitingStays
  <1>7. RefusedOnlyByCrash'
    BY <1>1, <1>2 DEF RefusedOnlyByCrash
  <1> QED BY <1>1, <1>3, <1>4, <1>5, <1>6, <1>7, ClientStepInv

----------------------------------------------------------------------------
(* The theorems *)

LEMMA StepInv == Inv /\ [Next]_vars => Inv'
  <1> SUFFICES ASSUME Inv, [Next]_vars PROVE Inv'
    OBVIOUS
  <1>1. CASE DispatcherStep
    BY <1>1, BootSpawnInv, AsideInv, DrainInv, ReplyPortInv, ReplyBusyInv, RemoveInv DEF DispatcherStep
  <1>2. CASE Tick
    BY <1>2, AsideInv
  <1>3. ASSUME NEW w \in Workers, PostFree(w) \/ Serve(w) \/ Die(w) PROVE Inv'
    BY <1>3, PostFreeInv, ServeInv, DieInv
  <1>4. ASSUME NEW c \in Clients, Dial(c) \/ Connect(c) \/ Crash(c) PROVE Inv'
    BY <1>4, DialInv, ConnectInv, CrashInv
  <1>5. CASE UNCHANGED vars
    BY <1>5 DEF vars, Inv, TypeOK, Counted, Pending, Waiting, Sent, TableExact, Claimed, Claims,
                Reports, Accounted, RefusedOnlyByCrash
  <1> QED BY <1>1, <1>2, <1>3, <1>4, <1>5 DEF Next

LEMMA InvHolds == Spec => []Inv
  BY InitInv, StepInv, PTL DEF Spec

\* Every variable keeps its type, the table its bound of MAX rows included.
THEOREM PoolType == Spec => []TypeOK
  <1>1. Inv => TypeOK
    BY DEF Inv
  <1> QED BY <1>1, InvHolds, PTL

\* The dispatcher hands out neither a worker at work nor the same one twice, for
\* any number of clients and workers, any timeout and any failures.
THEOREM OneClientEach == Spec => []Exclusive
  <1>1. Inv => Exclusive
    <2> SUFFICES ASSUME Inv, NEW w \in Workers
                 PROVE  /\ \A c, d \in Holders(w) : c = d
                        /\ tokens[w] <= 1
                        /\ tokens[w] = 1 => Holders(w) = {} /\ wstate[w] # "free"
                        /\ wstate[w] = "free" => Holders(w) = {}
                        /\ \A k \in 1..Len(table) : table[k].id = w /\ ~table[k].busy =>
                              Holders(w) = {} /\ tokens[w] = 0 /\ wstate[w] # "free"
      BY DEF Exclusive
    <2> USE DEF Inv
    <2>1. \A c \in Holders(w) : c \in Clients /\ Claims(c, w)
      BY DEF Holders, Claims, TypeOK
    <2>2. \A c, d \in Holders(w) : c = d
      BY <2>1 DEF Claimed
    <2>3. tokens[w] <= 1 /\ (tokens[w] = 1 => Holders(w) = {} /\ wstate[w] # "free")
      BY <2>1 DEF Claimed, Reports
    <2>4. wstate[w] = "free" => Holders(w) = {}
      BY <2>1 DEF Claimed
    <2>5. \A k \in 1..Len(table) : table[k].id = w /\ ~table[k].busy => Holders(w) = {}
      BY <2>1, IdleUnclaimed
    <2> QED BY <2>2, <2>3, <2>4, <2>5 DEF Reports
  <1> QED BY <1>1, InvHolds, PTL

\* The table names every living worker once, whatever is spawned, reaped or dies.
THEOREM TableIsExact == Spec => []TableExact
  <1>1. Inv => TableExact
    BY DEF Inv
  <1> QED BY <1>1, InvHolds, PTL

\* The reaper kills no worker that a client was sent to.
THEOREM NoneKilledInUse == Spec => []RefusedOnlyByCrash
  <1>1. Inv => RefusedOnlyByCrash
    BY DEF Inv
  <1> QED BY <1>1, InvHolds, PTL

\* A row is busy for a reason.
THEOREM EveryBusyRow == Spec => []BusyAccounted
  <1>1. Inv => BusyAccounted
    <2> SUFFICES ASSUME Inv, NEW k \in 1..Len(table), table[k].busy
                 PROVE  \/ wstate[table[k].id] \in {"free", "dead"} \/ tokens[table[k].id] > 0
                        \/ Holders(table[k].id) # {}
      BY DEF BusyAccounted
    <2> USE DEF Inv
    <2>1. CASE \E c \in Clients : Claims(c, table[k].id)
      <3>1. PICK c \in Clients : Claims(c, table[k].id)
        BY <2>1
      <3>2. c \in Holders(table[k].id) \/ (cl[c] = "failed" /\ at[c] = table[k].id)
        BY <3>1 DEF Claims, Holders
      <3> QED BY <3>2 DEF RefusedOnlyByCrash
    <2> QED BY <2>1 DEF Accounted
  <1> QED BY <1>1, InvHolds, PTL
=============================================================================
