--------------------------- MODULE ExchangeProofs ---------------------------
(* Theorems on Exchange, for any number of servers and clients, any number *)
(* of kills, and each of the four mechanisms.                              *)
EXTENDS Exchange, FiniteSetTheorems, SequenceTheorems, TLAPS

----------------------------------------------------------------------------
(* The programs.  All eight make their objects, exchange a greeting and a  *)
(* reply, and the servers remove the objects; where each call stands in    *)
(* them is all that the proofs use.                                        *)

Mechs == {"pmq", "smq", "pshm", "sshm"}
Used(m) == IF m \in Memory THEN Names ELSE {"s2c", "c2s"}

\* The place of the call that makes a name, or opens it: the same in both programs.
MadeAt(m, n) == CASE m = "pmq"  -> IF n = "s2c" THEN 1 ELSE 2
                  [] m = "smq"  -> 1
                  [] m = "pshm" -> IF n = "mem" THEN 1 ELSE IF n = "s2c" THEN 2 ELSE 3
                  [] m = "sshm" -> IF n = "mem" THEN 1 ELSE 2
\* The place of the call of the server that unlinks it.
GoneAt(m, n) == CASE m = "pmq"  -> IF n = "s2c" THEN 5 ELSE 6
                  [] m = "smq"  -> 4
                  [] m = "pshm" -> IF n = "s2c" THEN 8 ELSE IF n = "c2s" THEN 9 ELSE 10
                  [] m = "sshm" -> IF n = "mem" THEN 8 ELSE 9
\* Where the server sends its greeting, the client receives it, and both end.
Greets(m) == CASE m = "pmq" -> 3 [] m = "smq" -> 2 [] m = "pshm" -> 5 [] m = "sshm" -> 5
Hears(m)  == CASE m = "pmq" -> 3 [] m = "smq" -> 2 [] m = "pshm" -> 4 [] m = "sshm" -> 3
Replies(m) == IF m \in Memory THEN Hears(m) + 3 ELSE Hears(m) + 1
ServerEnd(m) == CASE m = "pmq" -> 6 [] m = "smq" -> 4 [] m = "pshm" -> 10 [] m = "sshm" -> 9

\* The order of the calls.
LEMMA Places ==
    ASSUME NEW m \in Mechs
    PROVE  /\ Greets(m) \in Nat /\ Hears(m) \in Nat /\ Replies(m) \in Nat /\ ServerEnd(m) \in Nat
           /\ Greets(m) + 1 < ServerEnd(m) /\ Hears(m) < Replies(m)
           /\ \A n \in Used(m) :
                 /\ MadeAt(m, n) \in Nat /\ GoneAt(m, n) \in Nat
                 /\ 1 <= MadeAt(m, n) /\ MadeAt(m, n) < Hears(m) /\ MadeAt(m, n) < Greets(m)
                 /\ Greets(m) + 1 < GoneAt(m, n) /\ GoneAt(m, n) <= ServerEnd(m)
                 /\ m \in Memory => /\ MadeAt(m, n) < Greets(m) - 1
                                    /\ Greets(m) + 2 < GoneAt(m, n)
           /\ Used(m) \subseteq Names /\ {"s2c", "c2s"} \subseteq Used(m)
           /\ m \in Memory => Hears(m) + 2 < Replies(m) /\ "mem" \in Used(m)
  BY DEF Mechs, Used, Names, MadeAt, GoneAt, Greets, Hears, Replies, ServerEnd, Memory

\* Which call of a server stands where.
ServerCall(m, k, call) ==
    /\ call.op \in {"create", "reset", "write", "send", "receive", "read", "unlink"}
    /\ call.op = "create" <=> \E n \in Used(m) : MadeAt(m, n) = k
    /\ call.op = "unlink" <=> \E n \in Used(m) : GoneAt(m, n) = k
    /\ call.op = "send" <=> k = Greets(m)
    /\ call.op = "receive" <=> k = Greets(m) + 1
    /\ call.op = "write" <=> m \in Memory /\ k = Greets(m) - 1
    /\ call.op = "read" <=> m \in Memory /\ k = Greets(m) + 2
    /\ call.op = "create" => call.on = {n \in Used(m) : MadeAt(m, n) = k}
    /\ call.op = "unlink" => call.on = {n \in Used(m) : GoneAt(m, n) = k}
    /\ call.op = "send" => call.on = {"s2c"}
    /\ call.op = "receive" => call.on = {"c2s"}
    /\ call.op = "reset" => /\ m \in Memory /\ k < Greets(m) /\ call.on = {"s2c", "c2s"}
                            /\ MadeAt(m, "s2c") < k /\ MadeAt(m, "c2s") < k
ClientCall(m, k, call) ==
    /\ call.op \in {"open", "await", "receive", "read", "write", "send"}
    /\ call.op \in {"open", "await"} <=> \E n \in Used(m) : MadeAt(m, n) = k
    /\ call.op = "receive" <=> k = Hears(m)
    /\ call.op = "send" <=> k = Replies(m)
    /\ call.op = "read" <=> m \in Memory /\ k = Hears(m) + 1
    /\ call.op = "write" <=> m \in Memory /\ k = Hears(m) + 2
    /\ call.op \in {"open", "await"} => call.on = {n \in Used(m) : MadeAt(m, n) = k}
    /\ call.op = "receive" => call.on = {"s2c"}
    /\ call.op = "send" => call.on = {"c2s"}

\* The programs of the POSIX queues.
LEMMA ProgramsOfPmq ==
    LET m == "pmq" IN
    /\ Len(ServerProgram(m)) = ServerEnd(m) /\ Len(ClientProgram(m)) = Replies(m)
    /\ \A k \in 1..ServerEnd(m) : ServerCall(m, k, ServerProgram(m)[k])
    /\ \A k \in 1..Replies(m) : ClientCall(m, k, ClientProgram(m)[k])
  <1> DEFINE m == "pmq"
  <1>1. /\ ServerEnd(m) = 6 /\ Replies(m) = 4 /\ Hears(m) = 3 /\ Greets(m) = 3
        /\ m \notin Memory /\ Used(m) = {"s2c", "c2s"} /\ MadeAt(m, "s2c") = 1
        /\ MadeAt(m, "c2s") = 2 /\ GoneAt(m, "s2c") = 5 /\ GoneAt(m, "c2s") = 6
    BY DEF Memory, Names, Used, MadeAt, GoneAt, Greets, Hears, Replies, ServerEnd
  <1>2. /\ ServerProgram(m) =
             <<Do("create", {"s2c"}), Do("create", {"c2s"}), Do("send", {"s2c"}),
               Do("receive", {"c2s"}), Do("unlink", {"s2c"}), Do("unlink", {"c2s"})>>
        /\ ClientProgram(m) =
             <<Do("await", {"s2c"}), Do("await", {"c2s"}), Do("receive", {"s2c"}),
               Do("send", {"c2s"})>>
    BY DEF ServerProgram, ClientProgram
  <1>3. Len(ServerProgram(m)) = ServerEnd(m) /\ Len(ClientProgram(m)) = Replies(m)
    BY <1>1, <1>2
  <1>4. /\ ServerCall(m, 1, Do("create", {"s2c"}))
        /\ ServerCall(m, 2, Do("create", {"c2s"}))
        /\ ServerCall(m, 3, Do("send", {"s2c"}))
        /\ ServerCall(m, 4, Do("receive", {"c2s"}))
        /\ ServerCall(m, 5, Do("unlink", {"s2c"}))
        /\ ServerCall(m, 6, Do("unlink", {"c2s"}))
    BY <1>1 DEF ServerCall, Do
  <1>5. /\ ClientCall(m, 1, Do("await", {"s2c"}))
        /\ ClientCall(m, 2, Do("await", {"c2s"}))
        /\ ClientCall(m, 3, Do("receive", {"s2c"}))
        /\ ClientCall(m, 4, Do("send", {"c2s"}))
    BY <1>1 DEF ClientCall, Do
  <1> HIDE DEF m
  <1>6. \A k \in 1..6 : ServerCall(m, k, ServerProgram(m)[k])
    BY <1>2, <1>4
  <1>7. \A k \in 1..4 : ClientCall(m, k, ClientProgram(m)[k])
    BY <1>2, <1>5
  <1> QED BY <1>1, <1>3, <1>6, <1>7 DEF m

\* The programs of the System V queue.
LEMMA ProgramsOfSmq ==
    LET m == "smq" IN
    /\ Len(ServerProgram(m)) = ServerEnd(m) /\ Len(ClientProgram(m)) = Replies(m)
    /\ \A k \in 1..ServerEnd(m) : ServerCall(m, k, ServerProgram(m)[k])
    /\ \A k \in 1..Replies(m) : ClientCall(m, k, ClientProgram(m)[k])
  <1> DEFINE m == "smq"
  <1>1. /\ ServerEnd(m) = 4 /\ Replies(m) = 3 /\ Hears(m) = 2 /\ Greets(m) = 2
        /\ m \notin Memory /\ Used(m) = {"s2c", "c2s"} /\ MadeAt(m, "s2c") = 1
        /\ MadeAt(m, "c2s") = 1 /\ GoneAt(m, "s2c") = 4 /\ GoneAt(m, "c2s") = 4
    BY DEF Memory, Names, Used, MadeAt, GoneAt, Greets, Hears, Replies, ServerEnd
  <1>2. /\ ServerProgram(m) =
             <<Do("create", {"s2c", "c2s"}), Do("send", {"s2c"}),
               Do("receive", {"c2s"}), Do("unlink", {"s2c", "c2s"})>>
        /\ ClientProgram(m) =
             <<Do("await", {"s2c", "c2s"}), Do("receive", {"s2c"}),
               Do("send", {"c2s"})>>
    BY DEF ServerProgram, ClientProgram
  <1>3. Len(ServerProgram(m)) = ServerEnd(m) /\ Len(ClientProgram(m)) = Replies(m)
    BY <1>1, <1>2
  <1>4. /\ ServerCall(m, 1, Do("create", {"s2c", "c2s"}))
        /\ ServerCall(m, 2, Do("send", {"s2c"}))
        /\ ServerCall(m, 3, Do("receive", {"c2s"}))
        /\ ServerCall(m, 4, Do("unlink", {"s2c", "c2s"}))
    BY <1>1 DEF ServerCall, Do
  <1>5. /\ ClientCall(m, 1, Do("await", {"s2c", "c2s"}))
        /\ ClientCall(m, 2, Do("receive", {"s2c"}))
        /\ ClientCall(m, 3, Do("send", {"c2s"}))
    BY <1>1 DEF ClientCall, Do
  <1> HIDE DEF m
  <1>6. \A k \in 1..4 : ServerCall(m, k, ServerProgram(m)[k])
    BY <1>2, <1>4
  <1>7. \A k \in 1..3 : ClientCall(m, k, ClientProgram(m)[k])
    BY <1>2, <1>5
  <1> QED BY <1>1, <1>3, <1>6, <1>7 DEF m

\* The programs of the POSIX memory and semaphores.
LEMMA ProgramsOfPshm ==
    LET m == "pshm" IN
    /\ Len(ServerProgram(m)) = ServerEnd(m) /\ Len(ClientProgram(m)) = Replies(m)
    /\ \A k \in 1..ServerEnd(m) : ServerCall(m, k, ServerProgram(m)[k])
    /\ \A k \in 1..Replies(m) : ClientCall(m, k, ClientProgram(m)[k])
  <1> DEFINE m == "pshm"
  <1>1. /\ ServerEnd(m) = 10 /\ Replies(m) = 7 /\ Hears(m) = 4 /\ Greets(m) = 5
        /\ m \in Memory /\ Used(m) = {"mem", "s2c", "c2s"} /\ MadeAt(m, "mem") = 1
        /\ MadeAt(m, "s2c") = 2 /\ MadeAt(m, "c2s") = 3 /\ GoneAt(m, "mem") = 10
        /\ GoneAt(m, "s2c") = 8 /\ GoneAt(m, "c2s") = 9
    BY DEF Memory, Names, Used, MadeAt, GoneAt, Greets, Hears, Replies, ServerEnd
  <1>2. /\ ServerProgram(m) =
             <<Do("create", {"mem"}), Do("create", {"s2c"}), Do("create", {"c2s"}),
               Do("write", {"mem"}), Do("send", {"s2c"}), Do("receive", {"c2s"}),
               Do("read", {"mem"}), Do("unlink", {"s2c"}), Do("unlink", {"c2s"}),
               Do("unlink", {"mem"})>>
        /\ ClientProgram(m) =
             <<Do("open", {"mem"}), Do("open", {"s2c"}), Do("open", {"c2s"}),
               Do("receive", {"s2c"}), Do("read", {"mem"}), Do("write", {"mem"}),
               Do("send", {"c2s"})>>
    BY DEF ServerProgram, ClientProgram
  <1>3. Len(ServerProgram(m)) = ServerEnd(m) /\ Len(ClientProgram(m)) = Replies(m)
    BY <1>1, <1>2
  <1>4. /\ ServerCall(m, 1, Do("create", {"mem"}))
        /\ ServerCall(m, 2, Do("create", {"s2c"}))
        /\ ServerCall(m, 3, Do("create", {"c2s"}))
        /\ ServerCall(m, 4, Do("write", {"mem"}))
        /\ ServerCall(m, 5, Do("send", {"s2c"}))
        /\ ServerCall(m, 6, Do("receive", {"c2s"}))
        /\ ServerCall(m, 7, Do("read", {"mem"}))
        /\ ServerCall(m, 8, Do("unlink", {"s2c"}))
        /\ ServerCall(m, 9, Do("unlink", {"c2s"}))
        /\ ServerCall(m, 10, Do("unlink", {"mem"}))
    BY <1>1 DEF ServerCall, Do
  <1>5. /\ ClientCall(m, 1, Do("open", {"mem"}))
        /\ ClientCall(m, 2, Do("open", {"s2c"}))
        /\ ClientCall(m, 3, Do("open", {"c2s"}))
        /\ ClientCall(m, 4, Do("receive", {"s2c"}))
        /\ ClientCall(m, 5, Do("read", {"mem"}))
        /\ ClientCall(m, 6, Do("write", {"mem"}))
        /\ ClientCall(m, 7, Do("send", {"c2s"}))
    BY <1>1 DEF ClientCall, Do
  <1> HIDE DEF m
  <1>6. \A k \in 1..10 : ServerCall(m, k, ServerProgram(m)[k])
    BY <1>2, <1>4
  <1>7. \A k \in 1..7 : ClientCall(m, k, ClientProgram(m)[k])
    BY <1>2, <1>5
  <1> QED BY <1>1, <1>3, <1>6, <1>7 DEF m

\* The programs of the System V memory and semaphores.
LEMMA ProgramsOfSshm ==
    LET m == "sshm" IN
    /\ Len(ServerProgram(m)) = ServerEnd(m) /\ Len(ClientProgram(m)) = Replies(m)
    /\ \A k \in 1..ServerEnd(m) : ServerCall(m, k, ServerProgram(m)[k])
    /\ \A k \in 1..Replies(m) : ClientCall(m, k, ClientProgram(m)[k])
  <1> DEFINE m == "sshm"
  <1>1. /\ ServerEnd(m) = 9 /\ Replies(m) = 6 /\ Hears(m) = 3 /\ Greets(m) = 5
        /\ m \in Memory /\ Used(m) = {"mem", "s2c", "c2s"} /\ MadeAt(m, "mem") = 1
        /\ MadeAt(m, "s2c") = 2 /\ MadeAt(m, "c2s") = 2 /\ GoneAt(m, "mem") = 8
        /\ GoneAt(m, "s2c") = 9 /\ GoneAt(m, "c2s") = 9
    BY DEF Memory, Names, Used, MadeAt, GoneAt, Greets, Hears, Replies, ServerEnd
  <1>2. /\ ServerProgram(m) =
             <<Do("create", {"mem"}), Do("create", {"s2c", "c2s"}),
               Do("reset", {"s2c", "c2s"}), Do("write", {"mem"}), Do("send", {"s2c"}),
               Do("receive", {"c2s"}), Do("read", {"mem"}), Do("unlink", {"mem"}),
               Do("unlink", {"s2c", "c2s"})>>
        /\ ClientProgram(m) =
             <<Do("open", {"mem"}), Do("open", {"s2c", "c2s"}), Do("receive", {"s2c"}),
               Do("read", {"mem"}), Do("write", {"mem"}), Do("send", {"c2s"})>>
    BY DEF ServerProgram, ClientProgram
  <1>3. Len(ServerProgram(m)) = ServerEnd(m) /\ Len(ClientProgram(m)) = Replies(m)
    BY <1>1, <1>2
  <1>4. /\ ServerCall(m, 1, Do("create", {"mem"}))
        /\ ServerCall(m, 2, Do("create", {"s2c", "c2s"}))
        /\ ServerCall(m, 3, Do("reset", {"s2c", "c2s"}))
        /\ ServerCall(m, 4, Do("write", {"mem"}))
        /\ ServerCall(m, 5, Do("send", {"s2c"}))
        /\ ServerCall(m, 6, Do("receive", {"c2s"}))
        /\ ServerCall(m, 7, Do("read", {"mem"}))
        /\ ServerCall(m, 8, Do("unlink", {"mem"}))
        /\ ServerCall(m, 9, Do("unlink", {"s2c", "c2s"}))
    BY <1>1 DEF ServerCall, Do
  <1>5. /\ ClientCall(m, 1, Do("open", {"mem"}))
        /\ ClientCall(m, 2, Do("open", {"s2c", "c2s"}))
        /\ ClientCall(m, 3, Do("receive", {"s2c"}))
        /\ ClientCall(m, 4, Do("read", {"mem"}))
        /\ ClientCall(m, 5, Do("write", {"mem"}))
        /\ ClientCall(m, 6, Do("send", {"c2s"}))
    BY <1>1 DEF ClientCall, Do
  <1> HIDE DEF m
  <1>6. \A k \in 1..9 : ServerCall(m, k, ServerProgram(m)[k])
    BY <1>2, <1>4
  <1>7. \A k \in 1..6 : ClientCall(m, k, ClientProgram(m)[k])
    BY <1>2, <1>5
  <1> QED BY <1>1, <1>3, <1>6, <1>7 DEF m

\* The programs, by the places of their calls.
LEMMA Programs ==
    ASSUME NEW m \in Mechs
    PROVE  /\ Len(ServerProgram(m)) = ServerEnd(m) /\ Len(ClientProgram(m)) = Replies(m)
           /\ \A k \in 1..ServerEnd(m) : ServerCall(m, k, ServerProgram(m)[k])
           /\ \A k \in 1..Replies(m) : ClientCall(m, k, ClientProgram(m)[k])
  BY ProgramsOfPmq, ProgramsOfSmq, ProgramsOfPshm, ProgramsOfSshm DEF Mechs

----------------------------------------------------------------------------
(* What holds in every execution, whoever is killed.                       *)

End(p) == IF p \in Servers THEN ServerEnd(mech) ELSE Replies(mech)
Types ==
    /\ mech \in Mechs
    /\ status \in [Procs -> {"idle", "run", "done", "failed", "killed"}]
    /\ pc \in [Procs -> Nat]
    /\ gens \in [Names -> Nat] /\ link \in [Names -> Nat]
    /\ fd \in [Procs -> [Names -> Nat]]
    /\ box \in [Names -> [Generations -> Seq(Procs)]]
    /\ text \in [Generations -> Procs \cup {Nobody}]
    /\ heard \in [Procs -> Procs \cup {Nobody}]
    /\ err \subseteq Procs
Progress ==
    \A p \in Procs : /\ 1 <= pc[p] /\ pc[p] <= End(p) + 1
                     /\ status[p] = "done" <=> pc[p] = End(p) + 1
                     /\ status[p] = "idle" => pc[p] = 1
OneServer == \A s, t \in Servers : status[s] = "run" /\ status[t] = "run" => s = t

\* Who is past the call that makes or opens a name has an object of it, and no
\* object is made but by the one such call of some server.
Has(p, n) == pc[p] > MadeAt(mech, n)
Opened ==
    \A n \in Used(mech) :
        /\ link[n] <= gens[n]
        /\ \A p \in Procs : IF Has(p, n) THEN fd[p][n] \in 1..gens[n] ELSE fd[p][n] = 0
        /\ gens[n] <= Cardinality({s \in Servers : Has(s, n)})

\* A queue carries greetings in one direction and replies in the other.
QueueInv ==
    mech \notin Memory =>
        /\ \A g \in Generations : box["s2c"][g] \in Seq(Servers) /\ box["c2s"][g] \in Seq(Clients)
        /\ \A s \in Servers : pc[s] > Greets(mech) + 1 => heard[s] \in Clients
        /\ \A c \in Clients : pc[c] > Hears(mech) => heard[c] \in Servers
AlwaysInv == Types /\ Progress /\ OneServer /\ Opened /\ QueueInv

----------------------------------------------------------------------------
(* What holds while nobody has been killed and no client has mixed up two  *)
(* runs.                                                                   *)

\* One server after the other, each with a generation of its own: runs are over,
\* and the objects of the one that runs are the next generation.
Runs(over) ==
    /\ \A n \in Used(mech) :
          /\ gens[n] = IF \E s \in Servers : status[s] = "run" /\ Has(s, n) THEN over + 1 ELSE over
          /\ link[n] = IF \E s \in Servers : /\ status[s] = "run" /\ Has(s, n)
                                             /\ pc[s] <= GoneAt(mech, n)
                       THEN over + 1 ELSE 0
          /\ \A s \in Servers : IF status[s] = "run"
                                THEN Has(s, n) => fd[s][n] = over + 1
                                ELSE fd[s][n] <= over
          /\ \A g \in Generations : g > gens[n] => box[n][g] = <<>>
    /\ \A s \in Servers : status[s] \in {"idle", "run", "done"}
OneEach ==
    /\ \A s, t \in Servers : \A m, n \in Used(mech) :
          fd[s][m] # 0 /\ fd[t][n] # 0 => (fd[s][m] = fd[t][n] <=> s = t)
    /\ \A c \in Clients : \A n \in Used(mech) :
          fd[c][n] # 0 => \E s \in Servers : fd[s][n] = fd[c][n]

\* The clients that have received the greeting of s.
Takers(s) == {c \in Clients \ err : pc[c] > Hears(mech) /\ fd[c]["s2c"] = fd[s]["s2c"]}
Box(s, n) == box[n][fd[s][n]]

\* The greeting is in its queue, or one client has taken it; the reply of that
\* client is still to come, or in its queue, or the server has taken it.
Talk(s) ==
    /\ pc[s] <= Greets(mech) =>
          /\ Has(s, "s2c") => Box(s, "s2c") = <<>> /\ Takers(s) = {}
          /\ Has(s, "c2s") => Box(s, "c2s") = <<>>
    /\ pc[s] > Greets(mech) =>
          \/ /\ pc[s] = Greets(mech) + 1 /\ Takers(s) = {}
             /\ Box(s, "s2c") = <<s>> /\ Box(s, "c2s") = <<>>
          \/ \E c \in Clients :
                /\ Takers(s) = {c} /\ Box(s, "s2c") = <<>>
                /\ IF pc[c] <= Replies(mech) THEN pc[s] = Greets(mech) + 1 /\ Box(s, "c2s") = <<>>
                   ELSE Box(s, "c2s") = IF pc[s] = Greets(mech) + 1 THEN <<c>> ELSE <<>>

\* The memory has the greeting until the one client has written its reply, and
\* that until the server has read it.
Written(s) ==
    mech \in Memory /\ Greets(mech) <= pc[s] /\ pc[s] <= Greets(mech) + 2 =>
        /\ \A c \in Takers(s) : pc[c] > Hears(mech) + 2 => text[fd[s]["mem"]] = c
        /\ (\A c \in Takers(s) : pc[c] <= Hears(mech) + 2) => text[fd[s]["mem"]] = s

\* Where server and client have printed what they were told.
Told(p) == pc[p] > (IF p \in Servers THEN Greets(mech) + 1 ELSE Hears(mech))
                   + IF mech \in Memory THEN 1 ELSE 0
Hearing(s) ==
    /\ IF Told(s) THEN heard[s] \in Takers(s) ELSE heard[s] = Nobody
    /\ \A c \in Takers(s) : Told(c) => heard[c] = s
Silence == \A c \in Clients \ err : ~Told(c) => heard[c] = Nobody

\* A call on the semaphores fails only when the server is through.
Errors ==
    \A p \in err :
        /\ p \in Clients /\ pc[p] > Hears(mech) /\ mech \in SysV
        /\ \A s \in Servers : fd[s]["s2c"] = fd[p]["s2c"] => status[s] = "done"
OrderInv ==
    /\ \E over \in Nat : Runs(over)
    /\ OneEach /\ Silence /\ Errors
    /\ \A s \in Servers : Talk(s) /\ Written(s) /\ Hearing(s)

----------------------------------------------------------------------------
(* What a call may be, by its place.                                       *)

Step(p) == pc' = [pc EXCEPT ![p] = pc[p] + 1]
           /\ status' = [status EXCEPT ![p] = IF pc[p] = End(p) THEN "done" ELSE "run"]
At(p) == Program(p)[pc[p]]

\* A process that runs is at a call of its program.
LEMMA CallAt ==
    ASSUME Types, Progress, NEW p \in Procs, status[p] = "run"
    PROVE  /\ pc[p] \in 1..End(p) /\ pc[p] \in Nat /\ End(p) \in Nat
           /\ p \in Servers => ServerCall(mech, pc[p], At(p))
           /\ p \in Clients => ClientCall(mech, pc[p], At(p))
           /\ Len(Program(p)) = End(p)
           /\ Advance(p) => Step(p)
  <1>1. mech \in Mechs /\ pc[p] \in Nat /\ p \in Servers \cup Clients
    BY DEF Types, Procs
  <1>2. End(p) \in Nat
    BY <1>1, Places DEF End
  <1>3. 1 <= pc[p] /\ pc[p] <= End(p) + 1 /\ pc[p] # End(p) + 1
    BY DEF Progress
  <1>4. pc[p] \in 1..End(p)
    BY <1>1, <1>2, <1>3
  <1>5. p \in Clients => p \notin Servers
    BY ExchangeProcs
  <1>6. Len(Program(p)) = End(p)
    BY <1>1, Programs DEF Program, End
  <1>7. /\ p \in Servers => ServerCall(mech, pc[p], At(p))
        /\ p \in Clients => ClientCall(mech, pc[p], At(p))
    BY <1>1, <1>4, <1>5, Programs DEF Program, End, At
  <1> QED BY <1>1, <1>2, <1>4, <1>6, <1>7 DEF Advance, Step

\* After a step the process has what its call has made or opened.
LEMMA HasNext ==
    ASSUME Types, Progress, NEW p \in Procs, Step(p), mech' = mech, NEW n \in Used(mech), NEW q \in Procs
    PROVE  Has(q, n)' <=> Has(q, n) \/ (q = p /\ MadeAt(mech, n) = pc[p])
  <1>1. MadeAt(mech, n) \in Nat /\ pc[p] \in Nat /\ pc[q] \in Nat /\ pc \in [Procs -> Nat]
    BY Places DEF Types
  <1>2. pc'[q] = IF q = p THEN pc[p] + 1 ELSE pc[q]
    BY <1>1 DEF Step
  <1> QED BY <1>1, <1>2 DEF Has

\* The three ways in which a process moves: on, out, and in.
Moves(p) ==
    /\ mech' = mech
    /\ \/ status[p] = "run" /\ Step(p)
       \/ /\ status[p] = "run" /\ pc' = pc
          /\ \E new \in {"failed", "killed"} : status' = [status EXCEPT ![p] = new]
       \/ /\ status[p] = "idle" /\ pc' = pc /\ status' = [status EXCEPT ![p] = "run"]
          /\ p \in Servers => \A s \in Servers : status[s] # "run"

\* Moving keeps the order of each program, and one server at a time.
LEMMA MovesKeep ==
    ASSUME Types, Progress, OneServer, NEW p \in Procs, Moves(p)
    PROVE  /\ status' \in [Procs -> {"idle", "run", "done", "failed", "killed"}]
           /\ pc' \in [Procs -> Nat] /\ Progress' /\ OneServer'
  <1>1. /\ pc \in [Procs -> Nat] /\ mech' = mech /\ \A q \in Procs : End(q)' = End(q)
        /\ \A q \in Procs : End(q) \in Nat
        /\ status \in [Procs -> {"idle", "run", "done", "failed", "killed"}]
    BY Places DEF Types, Moves, End
  <1>2. /\ status' \in [Procs -> {"idle", "run", "done", "failed", "killed"}]
        /\ pc' \in [Procs -> Nat]
    BY <1>1 DEF Moves, Step
  <1>3. Progress'
    <2> SUFFICES ASSUME NEW q \in Procs
                 PROVE  /\ 1 <= pc'[q] /\ pc'[q] <= End(q) + 1
                        /\ status'[q] = "done" <=> pc'[q] = End(q) + 1
                        /\ status'[q] = "idle" => pc'[q] = 1
      BY <1>1 DEF Progress
    <2>1. /\ 1 <= pc[q] /\ pc[q] <= End(q) + 1
          /\ status[q] = "done" <=> pc[q] = End(q) + 1
          /\ status[q] = "idle" => pc[q] = 1
          /\ pc[q] \in Nat /\ End(q) \in Nat
      BY <1>1 DEF Progress
    <2>2. CASE q # p
      <3>1. pc'[q] = pc[q] /\ status'[q] = status[q]
        BY <1>1, <2>2 DEF Moves, Step
      <3> QED BY <2>1, <3>1
    <2>3. CASE q = p /\ status[p] = "run" /\ Step(p)
      <3>1. pc'[q] = pc[q] + 1 /\ status'[q] = IF pc[q] = End(q) THEN "done" ELSE "run"
        BY <1>1, <2>3 DEF Step
      <3>2. pc[q] # End(q) + 1
        BY <2>1, <2>3
      <3> QED BY <2>1, <3>1, <3>2
    <2>4. CASE q = p /\ pc' = pc /\ status[p] \in {"run", "idle"}
               /\ \E new \in {"failed", "killed", "run"} : status' = [status EXCEPT ![p] = new]
      <3>1. pc'[q] = pc[q] /\ status'[q] \in {"failed", "killed", "run"}
        BY <1>1, <2>4
      <3> QED BY <2>1, <2>4, <3>1
    <2> QED BY <2>2, <2>3, <2>4 DEF Moves
  <1>4. OneServer'
    <2>1. \A q \in Procs : status'[q] = "run" =>
             \/ status[q] = "run"
             \/ q = p /\ (p \in Servers => \A s \in Servers : status[s] # "run")
      BY <1>1 DEF Moves, Step
    <2> QED BY <2>1 DEF OneServer, Procs
  <1> QED BY <1>2, <1>3, <1>4

\* Every action moves one process.
LEMMA ActionMoves ==
    ASSUME Types, Progress, NEW p \in Procs, Start(p) \/ Kill(p) \/ Call(p)
    PROVE  Moves(p)
  <1>1. CASE Start(p)
    BY <1>1 DEF Start, Moves
  <1>2. CASE Kill(p)
    BY <1>2 DEF Kill, Moves
  <1>3. CASE Call(p)
    <2>1. status[p] = "run" /\ mech' = mech
      BY <1>3 DEF Call, Create, Open, Reset, Write, Read, Send, Receive, Fail, Unlink, Calls
    <2>2. Advance(p) \/ Exit(p)
      BY <1>3 DEF Call, Create, Open, Reset, Write, Read, Send, Receive, Fail, Unlink
    <2> QED BY <2>1, <2>2, CallAt DEF Moves, Exit
  <1> QED BY <1>1, <1>2, <1>3

\* A generation that is in use is one that there may be.
LEMMA InUse ==
    ASSUME Types, Opened, NEW p \in Procs, NEW n \in Used(mech), Has(p, n)
    PROVE  fd[p][n] \in Generations /\ gens[n] <= Cardinality(Servers) /\ n \in Names
  <1>1. n \in Names /\ mech \in Mechs
    BY Places DEF Types
  <1>2. gens[n] \in Nat /\ fd[p][n] \in 1..gens[n]
    BY <1>1 DEF Types, Opened
  <1> DEFINE makers == {s \in Servers : Has(s, n)}
  <1>3. /\ IsFiniteSet(makers) /\ Cardinality(makers) <= Cardinality(Servers)
        /\ Cardinality(Servers) \in Nat /\ Cardinality(makers) \in Nat
    <2>1. IsFiniteSet(Servers) /\ makers \in SUBSET Servers
      BY ExchangeProcs
    <2> QED BY <2>1, FS_Subset, FS_CardinalityType
  <1>4. gens[n] <= Cardinality(makers)
    BY DEF Opened
  <1> QED BY <1>1, <1>2, <1>3, <1>4 DEF Generations

\* Other calls than those that make or open names leave what each process has.
LEMMA HasSame ==
    ASSUME Types, Progress, NEW p \in Procs, mech' = mech,
           \/ pc' = pc
           \/ status[p] = "run" /\ Step(p) /\ At(p).op \notin {"create", "open", "await"}
    PROVE  \A n \in Used(mech), q \in Procs : Has(q, n)' <=> Has(q, n)
  <1>1. CASE pc' = pc
    BY <1>1 DEF Has
  <1>2. CASE status[p] = "run" /\ Step(p) /\ At(p).op \notin {"create", "open", "await"}
    <2>1. \A n \in Used(mech) : MadeAt(mech, n) # pc[p]
      BY <1>2, CallAt DEF ServerCall, ClientCall, Procs
    <2> QED BY <1>2, <2>1, HasNext
  <1> QED BY <1>1, <1>2

\* What a call on existing objects leaves alone.
LEMMA KeepsObjects ==
    ASSUME Types, Progress, NEW p \in Procs,
           \/ Start(p) \/ Kill(p) \/ Reset(p) \/ Write(p) \/ Read(p) \/ Send(p) \/ Receive(p)
           \/ Fail(p) \/ Unlink(p) \/ (Open(p) /\ Exit(p))
    PROVE  /\ mech' = mech /\ gens' = gens /\ (fd' = fd \/ Open(p))
           /\ \A n \in Used(mech), q \in Procs : Has(q, n)' <=> Has(q, n)
           /\ \A n \in Names : link'[n] = link[n] \/ link'[n] = 0
  <1>1. mech' = mech /\ gens' = gens /\ (fd' = fd \/ Open(p))
    BY DEF Start, Kill, Reset, Write, Read, Send, Receive, Fail, Unlink, Open, objects
  <1>2. \A n \in Names : link'[n] = link[n] \/ link'[n] = 0
    BY DEF Start, Kill, Reset, Write, Read, Send, Receive, Fail, Unlink, Open, objects
  <1>3. \/ pc' = pc
        \/ status[p] = "run" /\ Advance(p) /\ At(p).op \notin {"create", "open", "await"}
    BY DEF Start, Kill, Reset, Write, Read, Send, Receive, Fail, Unlink, Open, Exit, Calls, At
  <1>4. \A n \in Used(mech), q \in Procs : Has(q, n)' <=> Has(q, n)
    BY <1>1, <1>3, CallAt, HasSame
  <1> QED BY <1>1, <1>2, <1>4

\* What Create does: the names of the call are linked, those that were not to a
\* new object.
LEMMA CreateDoes ==
    ASSUME Types, Progress, NEW p \in Procs, Create(p)
    PROVE  /\ p \in Servers /\ status[p] = "run" /\ Step(p) /\ mech' = mech
           /\ UNCHANGED <<box, text, heard, err>>
           /\ gens' \in [Names -> Nat] /\ link' \in [Names -> Nat]
           /\ fd' \in [Procs -> [Names -> Nat]]
           /\ At(p).op = "create" /\ Greets(mech) > pc[p]
           /\ \A n \in Used(mech) :
                 IF MadeAt(mech, n) = pc[p]
                 THEN /\ gens'[n] = (IF link[n] = 0 THEN gens[n] + 1 ELSE gens[n])
                      /\ link'[n] = (IF link[n] = 0 THEN gens[n] + 1 ELSE link[n])
                      /\ fd'[p][n] = link'[n]
                 ELSE gens'[n] = gens[n] /\ link'[n] = link[n] /\ fd'[p][n] = fd[p][n]
           /\ \A q \in Procs : q # p => fd'[q] = fd[q]
  <1>1. status[p] = "run" /\ At(p).op = "create" /\ Advance(p) /\ mech' = mech
    BY DEF Create, Calls, At
  <1>2. p \in Servers /\ Step(p) /\ mech \in Mechs
    BY <1>1, CallAt DEF ClientCall, Procs, Types
  <1>3. On(p) = {n \in Used(mech) : MadeAt(mech, n) = pc[p]} /\ \E n \in Used(mech) : MadeAt(mech, n) = pc[p]
    BY <1>1, <1>2, CallAt DEF ServerCall, On, At
  <1>4. /\ gens \in [Names -> Nat] /\ link \in [Names -> Nat] /\ fd \in [Procs -> [Names -> Nat]]
        /\ Used(mech) \subseteq Names
    BY <1>2, Places DEF Types
  <1> DEFINE new == {n \in On(p) : link[n] = 0}
  <1>5. /\ gens' = [n \in Names |-> gens[n] + (IF n \in new THEN 1 ELSE 0)]
        /\ link' = [n \in Names |-> IF n \in new THEN gens'[n] ELSE link[n]]
        /\ fd' = [fd EXCEPT ![p] = [n \in Names |-> IF n \in On(p) THEN link'[n] ELSE fd[p][n]]]
        /\ UNCHANGED <<box, text, heard, err>>
    BY DEF Create
  <1>6. gens' \in [Names -> Nat]
    BY <1>4, <1>5
  <1>7. link' \in [Names -> Nat]
    BY <1>4, <1>5, <1>6
  <1>8. fd' \in [Procs -> [Names -> Nat]]
    BY <1>4, <1>5, <1>7
  <1>9. ASSUME NEW n \in Used(mech)
        PROVE  IF MadeAt(mech, n) = pc[p]
               THEN /\ gens'[n] = (IF link[n] = 0 THEN gens[n] + 1 ELSE gens[n])
                    /\ link'[n] = (IF link[n] = 0 THEN gens[n] + 1 ELSE link[n])
                    /\ fd'[p][n] = link'[n]
               ELSE gens'[n] = gens[n] /\ link'[n] = link[n] /\ fd'[p][n] = fd[p][n]
    <2>1. n \in Names /\ gens[n] \in Nat /\ link[n] \in Nat
      BY <1>4
    <2>2. n \in new <=> MadeAt(mech, n) = pc[p] /\ link[n] = 0
      BY <1>3
    <2>3. n \in On(p) <=> MadeAt(mech, n) = pc[p]
      BY <1>3
    <2> HIDE DEF new
    <2>4. /\ gens'[n] = gens[n] + (IF n \in new THEN 1 ELSE 0)
          /\ link'[n] = (IF n \in new THEN gens'[n] ELSE link[n])
          /\ fd'[p][n] = IF n \in On(p) THEN link'[n] ELSE fd[p][n]
      BY <1>4, <1>5, <2>1
    <2> QED BY <2>1, <2>2, <2>3, <2>4
  <1>10. Greets(mech) > pc[p]
    <2>1. PICK n \in Used(mech) : MadeAt(mech, n) = pc[p]
      BY <1>3
    <2> QED BY <1>2, <2>1, Places
  <1>11. \A q \in Procs : q # p => fd'[q] = fd[q]
    BY <1>4, <1>5
  <1> QED BY <1>1, <1>2, <1>5, <1>6, <1>7, <1>8, <1>9, <1>10, <1>11

\* What Open does when the names are there.
LEMMA OpenDoes ==
    ASSUME Types, Progress, NEW p \in Procs, Open(p), ~Exit(p)
    PROVE  /\ p \in Clients /\ status[p] = "run" /\ Step(p) /\ mech' = mech
           /\ UNCHANGED <<link, gens, box, text, heard, err>>
           /\ fd' \in [Procs -> [Names -> Nat]]
           /\ At(p).op \in {"open", "await"} /\ Hears(mech) > pc[p]
           /\ \A n \in Used(mech) :
                 IF MadeAt(mech, n) = pc[p] THEN link[n] # 0 /\ fd'[p][n] = link[n]
                 ELSE fd'[p][n] = fd[p][n]
           /\ \A n \in Names : fd'[p][n] = fd[p][n]
                               \/ (n \in Used(mech) /\ MadeAt(mech, n) = pc[p])
           /\ \A q \in Procs : q # p => fd'[q] = fd[q]
  <1>1. status[p] = "run" /\ At(p).op \in {"open", "await"} /\ mech' = mech
    BY DEF Open, Calls, At
  <1>2. p \in Clients /\ mech \in Mechs
    BY <1>1, CallAt DEF ServerCall, Procs, Types
  <1>3. On(p) = {n \in Used(mech) : MadeAt(mech, n) = pc[p]} /\ \E n \in Used(mech) : MadeAt(mech, n) = pc[p]
    BY <1>1, <1>2, CallAt DEF ClientCall, On, At
  <1>4. /\ link \in [Names -> Nat] /\ fd \in [Procs -> [Names -> Nat]] /\ Used(mech) \subseteq Names
    BY <1>2, Places DEF Types
  <1>5. /\ \A n \in On(p) : link[n] # 0
        /\ fd' = [fd EXCEPT ![p] = [n \in Names |-> IF n \in On(p) THEN link[n] ELSE fd[p][n]]]
        /\ Advance(p) /\ UNCHANGED <<link, gens, box, text, heard, err>>
    BY DEF Open
  <1>6. Step(p)
    BY <1>1, <1>5, CallAt
  <1>7. fd' \in [Procs -> [Names -> Nat]]
    BY <1>4, <1>5
  <1>8. \A n \in Names : fd'[p][n] = IF n \in On(p) THEN link[n] ELSE fd[p][n]
    BY <1>4, <1>5
  <1>9. Hears(mech) > pc[p]
    <2>1. PICK n \in Used(mech) : MadeAt(mech, n) = pc[p]
      BY <1>3
    <2> QED BY <1>2, <2>1, Places
  <1>10. \A q \in Procs : q # p => fd'[q] = fd[q]
    BY <1>4, <1>5
  <1> QED BY <1>1, <1>2, <1>3, <1>4, <1>5, <1>6, <1>7, <1>8, <1>9, <1>10

\* Opened is kept.
LEMMA OpenedKept ==
    ASSUME Types, Progress, Opened, NEW p \in Procs, Start(p) \/ Kill(p) \/ Call(p)
    PROVE  Opened'
  <1>0. \A n \in Used(mech) : /\ n \in Names /\ gens[n] \in Nat /\ link[n] \in Nat
                              /\ MadeAt(mech, n) \in Nat /\ \A q \in Procs : pc[q] \in Nat
    BY Places DEF Types
  <1>1. CASE \/ Start(p) \/ Kill(p) \/ Reset(p) \/ Write(p) \/ Read(p) \/ Send(p) \/ Receive(p)
             \/ Fail(p) \/ Unlink(p) \/ (Open(p) /\ Exit(p))
    <2>1. /\ mech' = mech /\ gens' = gens
          /\ \A n \in Used(mech), q \in Procs : Has(q, n)' <=> Has(q, n)
          /\ \A n \in Names : link'[n] = link[n] \/ link'[n] = 0
      BY <1>1, KeepsObjects
    <2>2. fd' = fd
      <3>1. CASE Open(p) /\ Exit(p)
        <4>1. pc' = pc /\ status[p] = "run" /\ pc[p] \in Nat /\ pc \in [Procs -> Nat]
          BY <3>1 DEF Exit, Open, Calls, Types
        <4>2. ~Advance(p)
          BY <4>1 DEF Advance
        <4> QED BY <3>1, <4>2 DEF Open
      <3> QED BY <1>1, <3>1 DEF Start, Kill, Reset, Write, Read, Send, Receive, Fail, Unlink, objects
    <2>3. ASSUME NEW n \in Used(mech)
          PROVE  /\ link'[n] <= gens[n]
                 /\ \A q \in Procs : IF Has(q, n)' THEN fd[q][n] \in 1..gens[n] ELSE fd[q][n] = 0
                 /\ gens[n] <= Cardinality({s \in Servers : Has(s, n)'})
      <3>1. {s \in Servers : Has(s, n)'} = {s \in Servers : Has(s, n)}
        BY <2>1 DEF Procs
      <3> QED BY <1>0, <2>1, <3>1 DEF Opened
    <2> QED BY <2>1, <2>2, <2>3 DEF Opened
  <1>2. CASE Create(p)
    <2> DEFINE old(n) == {s \in Servers : Has(s, n)}
               now(n) == {s \in Servers : Has(s, n)'}
    <2>1. ASSUME NEW n \in Used(mech), MadeAt(mech, n) = pc[p]
          PROVE  /\ now(n) = old(n) \cup {p} /\ p \notin old(n)
                 /\ Cardinality(now(n)) = Cardinality(old(n)) + 1
                 /\ Cardinality(old(n)) \in Nat
      <3>1. now(n) = old(n) \cup {p}
        BY <1>2, <2>1, CreateDoes, HasNext DEF Procs
      <3>2. p \notin old(n)
        BY <1>0, <2>1 DEF Has
      <3>3. IsFiniteSet(old(n))
        BY ExchangeProcs, FS_Subset
      <3> HIDE DEF old, now
      <3> QED BY <3>1, <3>2, <3>3, FS_AddElement, FS_CardinalityType
    <2>2. ASSUME NEW n \in Used(mech), MadeAt(mech, n) # pc[p] PROVE now(n) = old(n)
      BY <1>2, <2>2, CreateDoes, HasNext DEF Procs
    <2> HIDE DEF old, now
    <2>3. ASSUME NEW n \in Used(mech)
          PROVE  /\ link'[n] <= gens'[n]
                 /\ \A q \in Procs : IF Has(q, n)' THEN fd'[q][n] \in 1..(gens'[n]) ELSE fd'[q][n] = 0
                 /\ gens'[n] <= Cardinality(now(n))
      <3>1. /\ link[n] <= gens[n] /\ gens[n] \in Nat /\ link[n] \in Nat
            /\ \A q \in Procs : IF Has(q, n) THEN fd[q][n] \in 1..gens[n] ELSE fd[q][n] = 0
            /\ gens[n] <= Cardinality(old(n))
        BY <1>0 DEF Opened, old
      <3>2. CASE MadeAt(mech, n) = pc[p]
        <4>1. /\ gens'[n] = (IF link[n] = 0 THEN gens[n] + 1 ELSE gens[n])
              /\ link'[n] = (IF link[n] = 0 THEN gens[n] + 1 ELSE link[n])
              /\ fd'[p][n] = link'[n]
              /\ \A q \in Procs : q # p => fd'[q] = fd[q]
          BY <1>2, <3>2, CreateDoes
        <4>2. gens[n] <= gens'[n] /\ gens'[n] <= gens[n] + 1 /\ link'[n] \in 1..(gens'[n])
          BY <3>1, <4>1
        <4>3. Cardinality(now(n)) = Cardinality(old(n)) + 1 /\ Cardinality(old(n)) \in Nat
          BY <2>1, <3>2
        <4>4. ASSUME NEW q \in Procs
              PROVE  IF Has(q, n)' THEN fd'[q][n] \in 1..(gens'[n]) ELSE fd'[q][n] = 0
          <5>1. Has(q, n)' <=> Has(q, n) \/ q = p
            BY <1>2, <3>2, CreateDoes, HasNext
          <5>2. \A k \in 1..gens[n] : k \in 1..(gens'[n])
            BY <3>1, <4>1
          <5> QED BY <3>1, <4>1, <4>2, <5>1, <5>2
        <4> QED BY <3>1, <4>1, <4>2, <4>3, <4>4
      <3>3. CASE MadeAt(mech, n) # pc[p]
        <4>1. /\ gens'[n] = gens[n] /\ link'[n] = link[n] /\ fd'[p][n] = fd[p][n]
              /\ \A q \in Procs : q # p => fd'[q] = fd[q]
          BY <1>2, <3>3, CreateDoes
        <4>2. \A q \in Procs : Has(q, n)' <=> Has(q, n)
          BY <1>2, <3>3, CreateDoes, HasNext
        <4> QED BY <2>2, <3>1, <3>3, <4>1, <4>2
      <3> QED BY <3>2, <3>3
    <2>4. mech' = mech
      BY <1>2, CreateDoes
    <2> QED BY <2>3, <2>4 DEF Opened, now
  <1>3. CASE Open(p) /\ ~Exit(p)
    <2>1. /\ mech' = mech /\ gens' = gens /\ link' = link
          /\ \A q \in Procs : q # p => fd'[q] = fd[q]
      BY <1>3, OpenDoes
    <2>2. ASSUME NEW n \in Used(mech)
          PROVE  /\ \A q \in Procs : IF Has(q, n)' THEN fd'[q][n] \in 1..gens[n] ELSE fd'[q][n] = 0
                 /\ {s \in Servers : Has(s, n)'} = {s \in Servers : Has(s, n)}
      <3>1. \A q \in Procs : Has(q, n)' <=> Has(q, n) \/ (q = p /\ MadeAt(mech, n) = pc[p])
        BY <1>3, OpenDoes, HasNext
      <3>2. p \notin Servers
        BY <1>3, OpenDoes, ExchangeProcs
      <3>3. MadeAt(mech, n) = pc[p] => fd'[p][n] \in 1..gens[n]
        <4>1. link[n] <= gens[n] /\ gens[n] \in Nat /\ link[n] \in Nat
          BY <1>0 DEF Opened
        <4>2. MadeAt(mech, n) = pc[p] => link[n] # 0 /\ fd'[p][n] = link[n]
          BY <1>3, OpenDoes
        <4> QED BY <4>1, <4>2
      <3>4. MadeAt(mech, n) # pc[p] => fd'[p][n] = fd[p][n]
        BY <1>3, OpenDoes
      <3>5. ASSUME NEW q \in Procs
            PROVE  IF Has(q, n)' THEN fd'[q][n] \in 1..gens[n] ELSE fd'[q][n] = 0
        BY <2>1, <3>1, <3>3, <3>4 DEF Opened
      <3>6. {s \in Servers : Has(s, n)'} = {s \in Servers : Has(s, n)}
        BY <3>1, <3>2 DEF Procs
      <3> QED BY <3>5, <3>6
    <2> QED BY <2>1, <2>2 DEF Opened
  <1> QED BY <1>1, <1>2, <1>3 DEF Call

\* The direction in which a process sends, and the one in which it receives.
Out(p) == IF p \in Servers THEN "s2c" ELSE "c2s"
In(p) == IF p \in Servers THEN "c2s" ELSE "s2c"

\* Where send and receive are, and that the process has the objects they need.
LEMMA TalkAt ==
    ASSUME Types, Progress, Opened, NEW p \in Procs, status[p] = "run"
    PROVE  /\ At(p).op = "send" => /\ On(p) = {Out(p)} /\ Has(p, Out(p))
                                   /\ pc[p] = IF p \in Servers THEN Greets(mech) ELSE Replies(mech)
           /\ At(p).op = "receive" => /\ On(p) = {In(p)} /\ Has(p, In(p))
                                      /\ pc[p] = IF p \in Servers THEN Greets(mech) + 1 ELSE Hears(mech)
           /\ {"s2c", "c2s"} \subseteq Used(mech)
  <1>1. mech \in Mechs /\ pc[p] \in Nat
    BY DEF Types
  <1>2. /\ {"s2c", "c2s"} \subseteq Used(mech)
        /\ \A n \in {"s2c", "c2s"} : /\ MadeAt(mech, n) \in Nat /\ MadeAt(mech, n) < Greets(mech)
                                     /\ MadeAt(mech, n) < Hears(mech)
        /\ Greets(mech) \in Nat /\ Hears(mech) \in Nat /\ Replies(mech) \in Nat
        /\ Hears(mech) < Replies(mech)
    BY <1>1, Places
  <1>3. CASE p \in Servers
    <2>1. ServerCall(mech, pc[p], At(p))
      BY <1>3, CallAt
    <2> QED BY <1>1, <1>2, <1>3, <2>1 DEF ServerCall, On, At, Has, In, Out
  <1>4. CASE p \in Clients /\ p \notin Servers
    <2>1. ClientCall(mech, pc[p], At(p))
      BY <1>4, CallAt
    <2> QED BY <1>1, <1>2, <1>4, <2>1 DEF ClientCall, On, At, Has, In, Out
  <1> QED BY <1>3, <1>4 DEF Procs

\* What Send does.
LEMMA SendDoes ==
    ASSUME Types, Progress, Opened, NEW p \in Procs, Send(p)
    PROVE  LET n == Out(p) IN
           /\ status[p] = "run" /\ Step(p) /\ fd[p][n] \in Generations /\ Has(p, n) /\ n \in Used(mech)
           /\ pc[p] = IF p \in Servers THEN Greets(mech) ELSE Replies(mech)
           /\ UNCHANGED <<mech, link, gens, fd, text, heard, err>>
           /\ At(p).op = "send" /\ (mech \in SysV => link[n] = fd[p][n])
           /\ box' = [box EXCEPT ![n][fd[p][n]] = Append(@, p)]
  <1> DEFINE n == Out(p)
  <1>1. status[p] = "run" /\ At(p).op = "send" /\ Advance(p)
    BY DEF Send, Calls, At
  <1>2. On(p) = {n} /\ Has(p, n) /\ n \in Used(mech)
        /\ pc[p] = IF p \in Servers THEN Greets(mech) ELSE Replies(mech)
    BY <1>1, TalkAt DEF Out
  <1>3. fd[p][n] \in Generations
    BY <1>2, InUse
  <1>4. UNCHANGED <<mech, link, gens, fd, text, heard, err>>
    BY DEF Send, objects
  <1>5. /\ box' = [box EXCEPT ![n][fd[p][n]] = Append(@, p)]
        /\ mech \in SysV => link[n] = fd[p][n]
    BY <1>2 DEF Send, Object, Gone
  <1> QED BY <1>1, <1>2, <1>3, <1>4, <1>5, CallAt

\* The same of Receive.
LEMMA ReceiveDoes ==
    ASSUME Types, Progress, Opened, NEW p \in Procs, Receive(p)
    PROVE  LET n == In(p) IN
           /\ status[p] = "run" /\ Step(p) /\ fd[p][n] \in Generations /\ Has(p, n) /\ n \in Used(mech)
           /\ pc[p] = IF p \in Servers THEN Greets(mech) + 1 ELSE Hears(mech)
           /\ UNCHANGED <<mech, link, gens, fd, text, err>> /\ At(p).op = "receive"
           /\ box[n][fd[p][n]] # <<>>
           /\ box' = [box EXCEPT ![n][fd[p][n]] = Tail(@)]
           /\ heard' = IF mech \in Memory THEN heard
                       ELSE [heard EXCEPT ![p] = Head(box[n][fd[p][n]])]
  <1> DEFINE n == In(p)
  <1>1. status[p] = "run" /\ At(p).op = "receive" /\ Advance(p)
    BY DEF Receive, Calls, At
  <1>2. On(p) = {n} /\ Has(p, n) /\ n \in Used(mech)
        /\ pc[p] = IF p \in Servers THEN Greets(mech) + 1 ELSE Hears(mech)
    BY <1>1, TalkAt DEF In
  <1>3. fd[p][n] \in Generations
    BY <1>2, InUse
  <1>4. UNCHANGED <<mech, link, gens, fd, text, err>>
    BY DEF Receive, objects
  <1>5. /\ box[n][fd[p][n]] # <<>>
        /\ box' = [box EXCEPT ![n][fd[p][n]] = Tail(@)]
        /\ heard' = IF mech \in Memory THEN heard
                    ELSE [heard EXCEPT ![p] = Head(box[n][fd[p][n]])]
    BY <1>2 DEF Receive, Object
  <1> QED BY <1>1, <1>2, <1>3, <1>4, <1>5, CallAt

\* What Write and Read do: only programs with a memory call them.
LEMMA MemoryDoes ==
    ASSUME Types, Progress, Opened, NEW p \in Procs, Write(p) \/ Read(p)
    PROVE  /\ status[p] = "run" /\ Step(p) /\ mech \in Memory /\ "mem" \in Used(mech)
           /\ fd[p]["mem"] \in Generations /\ Has(p, "mem")
           /\ UNCHANGED <<mech, link, gens, fd, box, err>> /\ At(p).op \in {"write", "read"}
           /\ Write(p) => /\ pc[p] = IF p \in Servers THEN Greets(mech) - 1 ELSE Hears(mech) + 2
                          /\ heard' = heard /\ text' = [text EXCEPT ![fd[p]["mem"]] = p]
           /\ Read(p) => /\ pc[p] = IF p \in Servers THEN Greets(mech) + 2 ELSE Hears(mech) + 1
                         /\ text' = text /\ heard' = [heard EXCEPT ![p] = text[fd[p]["mem"]]]
  <1>1. /\ status[p] = "run" /\ At(p).op \in {"write", "read"} /\ Advance(p)
        /\ Write(p) => At(p).op = "write"
        /\ Read(p) => At(p).op = "read"
    BY DEF Write, Read, Calls, At
  <1>2. mech \in Mechs /\ pc[p] \in Nat
    BY DEF Types
  <1>3. /\ mech \in Memory
        /\ At(p).op = "write" => pc[p] = IF p \in Servers THEN Greets(mech) - 1 ELSE Hears(mech) + 2
        /\ At(p).op = "read" => pc[p] = IF p \in Servers THEN Greets(mech) + 2 ELSE Hears(mech) + 1
    <2>1. CASE p \in Servers
      BY <1>1, <2>1, CallAt DEF ServerCall
    <2>2. CASE p \in Clients /\ p \notin Servers
      BY <1>1, <2>2, CallAt DEF ClientCall
    <2> QED BY <2>1, <2>2 DEF Procs
  <1>4. "mem" \in Used(mech) /\ Has(p, "mem")
    <2>1. /\ "mem" \in Used(mech) /\ MadeAt(mech, "mem") \in Nat /\ Greets(mech) \in Nat
          /\ Hears(mech) \in Nat
          /\ MadeAt(mech, "mem") < Hears(mech) /\ MadeAt(mech, "mem") < Greets(mech) - 1
      BY <1>2, <1>3, Places
    <2> QED BY <1>1, <1>2, <1>3, <2>1 DEF Has
  <1>5. fd[p]["mem"] \in Generations
    BY <1>4, InUse
  <1>6. UNCHANGED <<mech, link, gens, fd, box, err>>
    BY DEF Write, Read, objects
  <1>7. /\ Write(p) => heard' = heard /\ text' = [text EXCEPT ![fd[p]["mem"]] = p]
        /\ Read(p) => text' = text /\ heard' = [heard EXCEPT ![p] = text[fd[p]["mem"]]]
    BY DEF Write, Read, Object
  <1> QED BY <1>1, <1>3, <1>4, <1>5, <1>6, <1>7, CallAt

\* What Reset does: the server of sshm empties both semaphores.
LEMMA ResetDoes ==
    ASSUME Types, Progress, Opened, NEW p \in Procs, Reset(p)
    PROVE  /\ status[p] = "run" /\ Step(p) /\ mech \in Memory /\ p \in Servers /\ pc[p] < Greets(mech)
           /\ pc[p] # Greets(mech) - 1 /\ At(p).op = "reset"
           /\ UNCHANGED <<mech, link, gens, fd, text, heard, err>>
           /\ box' \in [Names -> [Generations -> Seq(Procs)]]
           /\ \A n \in {"s2c", "c2s"} : n \in Used(mech) /\ Has(p, n) /\ fd[p][n] \in Generations
           /\ \A n \in Names, g \in Generations :
                 box'[n][g] = IF n \in {"s2c", "c2s"} /\ g = fd[p][n] THEN <<>> ELSE box[n][g]
  <1>1. status[p] = "run" /\ At(p).op = "reset" /\ Advance(p)
    BY DEF Reset, Calls, At
  <1>2. p \in Servers
    BY <1>1, CallAt DEF ClientCall, Procs
  <1>3. /\ mech \in Memory /\ pc[p] < Greets(mech) /\ pc[p] # Greets(mech) - 1 /\ On(p) = {"s2c", "c2s"}
        /\ MadeAt(mech, "s2c") < pc[p] /\ MadeAt(mech, "c2s") < pc[p]
    BY <1>1, <1>2, CallAt DEF ServerCall, On, At
  <1>4. mech \in Mechs /\ pc[p] \in Nat /\ box \in [Names -> [Generations -> Seq(Procs)]]
    BY DEF Types
  <1>5. \A n \in {"s2c", "c2s"} : n \in Used(mech) /\ Has(p, n)
    <2>1. /\ {"s2c", "c2s"} \subseteq Used(mech)
          /\ \A n \in {"s2c", "c2s"} : MadeAt(mech, n) \in Nat
      BY <1>4, Places
    <2> QED BY <1>3, <1>4, <2>1 DEF Has
  <1>6. \A n \in {"s2c", "c2s"} : fd[p][n] \in Generations
    BY <1>5, InUse
  <1>7. box' = [n \in Names |-> IF n \in {"s2c", "c2s"} THEN [box[n] EXCEPT ![fd[p][n]] = <<>>]
                                ELSE box[n]]
    BY <1>3 DEF Reset, Object
  <1>8. UNCHANGED <<mech, link, gens, fd, text, heard, err>>
    BY DEF Reset, objects
  <1>9. box' \in [Names -> [Generations -> Seq(Procs)]]
    <2>1. <<>> \in Seq(Procs)
      OBVIOUS
    <2> QED BY <1>4, <1>6, <1>7, <2>1
  <1>10. \A n \in Names, g \in Generations :
            box'[n][g] = IF n \in {"s2c", "c2s"} /\ g = fd[p][n] THEN <<>> ELSE box[n][g]
    BY <1>4, <1>6, <1>7
  <1> QED BY <1>1, <1>2, <1>3, <1>5, <1>6, <1>8, <1>9, <1>10, CallAt

\* The rest of the types.
LEMMA TypesKept ==
    ASSUME Types, Progress, OneServer, Opened, NEW p \in Procs, Start(p) \/ Kill(p) \/ Call(p)
    PROVE  Types'
  <1>1. /\ mech' = mech /\ pc' \in [Procs -> Nat]
        /\ status' \in [Procs -> {"idle", "run", "done", "failed", "killed"}]
    BY ActionMoves, MovesKeep DEF Moves
  <1>2. CASE Start(p) \/ Kill(p)
    BY <1>1, <1>2 DEF Types, Start, Kill, objects
  <1>3. CASE Create(p)
    BY <1>1, <1>3, CreateDoes DEF Types
  <1>4. CASE Open(p)
    <2>1. CASE ~Exit(p)
      BY <1>1, <1>4, <2>1, OpenDoes DEF Types
    <2>2. CASE Exit(p)
      <3>1. fd' = fd
        <4>1. pc' = pc /\ pc[p] \in Nat /\ pc \in [Procs -> Nat]
          BY <2>2 DEF Exit, Types
        <4>2. ~Advance(p)
          BY <4>1 DEF Advance
        <4> QED BY <1>4, <4>2 DEF Open
      <3> QED BY <1>1, <1>4, <3>1 DEF Types, Open
    <2> QED BY <2>1, <2>2
  <1>5. CASE Reset(p)
    BY <1>1, <1>5, ResetDoes DEF Types
  <1>6. CASE Write(p) \/ Read(p)
    <2>1. /\ fd[p]["mem"] \in Generations /\ UNCHANGED <<link, gens, fd, box, err>>
          /\ \/ heard' = heard /\ text' = [text EXCEPT ![fd[p]["mem"]] = p]
             \/ text' = text /\ heard' = [heard EXCEPT ![p] = text[fd[p]["mem"]]]
      BY <1>6, MemoryDoes
    <2>2. text[fd[p]["mem"]] \in Procs \cup {Nobody}
      BY <2>1 DEF Types
    <2>3. text' \in [Generations -> Procs \cup {Nobody}] /\ heard' \in [Procs -> Procs \cup {Nobody}]
      BY <2>1, <2>2 DEF Types
    <2> QED BY <1>1, <2>1, <2>3 DEF Types
  <1>7. CASE Send(p)
    <2> DEFINE n == Out(p)
    <2>1. /\ n \in Names /\ fd[p][n] \in Generations /\ UNCHANGED <<link, gens, fd, text, heard, err>>
          /\ box' = [box EXCEPT ![n][fd[p][n]] = Append(@, p)]
      BY <1>7, SendDoes DEF Names, Out
    <2>2. Append(box[n][fd[p][n]], p) \in Seq(Procs)
      BY <2>1 DEF Types
    <2> HIDE DEF n
    <2>3. box' \in [Names -> [Generations -> Seq(Procs)]]
      BY <2>1, <2>2 DEF Types
    <2> QED BY <1>1, <2>1, <2>3 DEF Types
  <1>8. CASE Receive(p)
    <2> DEFINE n == In(p)
               b == box[n][fd[p][n]]
    <2>1. /\ n \in Names /\ fd[p][n] \in Generations /\ UNCHANGED <<link, gens, fd, text, err>>
          /\ box' = [box EXCEPT ![n][fd[p][n]] = Tail(@)] /\ b # <<>>
          /\ heard' = IF mech \in Memory THEN heard ELSE [heard EXCEPT ![p] = Head(b)]
      BY <1>8, ReceiveDoes DEF Names, In
    <2>2. b \in Seq(Procs)
      BY <2>1 DEF Types
    <2>3. Tail(b) \in Seq(Procs) /\ Head(b) \in Procs
      BY <2>1, <2>2
    <2> HIDE DEF n
    <2>4. box' \in [Names -> [Generations -> Seq(Procs)]]
      BY <2>1, <2>3 DEF Types
    <2>5. heard' \in [Procs -> Procs \cup {Nobody}]
      BY <2>1, <2>3 DEF Types
    <2> QED BY <1>1, <2>1, <2>4, <2>5 DEF Types
  <1>9. CASE Fail(p)
    BY <1>1, <1>9 DEF Types, Fail, objects
  <1>10. CASE Unlink(p)
    BY <1>1, <1>10 DEF Types, Unlink
  <1> QED BY <1>2, <1>3, <1>4, <1>5, <1>6, <1>7, <1>8, <1>9, <1>10 DEF Call

\* What the queues of lab13 carry, whoever is killed.
LEMMA QueueKept ==
    ASSUME AlwaysInv, NEW p \in Procs, Start(p) \/ Kill(p) \/ Call(p)
    PROVE  QueueInv'
  <1> USE DEF AlwaysInv
  <1>0. mech' = mech /\ Moves(p) /\ mech \in Mechs
    BY ActionMoves DEF Moves, Types
  <1> SUFFICES ASSUME mech \notin Memory PROVE QueueInv'
    BY <1>0 DEF QueueInv
  <1>1. /\ pc \in [Procs -> Nat] /\ Greets(mech) \in Nat /\ Hears(mech) \in Nat
        /\ Hears(mech) < Replies(mech) /\ Replies(mech) \in Nat
        /\ heard \in [Procs -> Procs \cup {Nobody}]
        /\ box \in [Names -> [Generations -> Seq(Procs)]]
    BY <1>0, Places DEF Types
  <1>2. /\ \A g \in Generations : box["s2c"][g] \in Seq(Servers) /\ box["c2s"][g] \in Seq(Clients)
        /\ \A s \in Servers : pc[s] > Greets(mech) + 1 => heard[s] \in Clients
        /\ \A c \in Clients : pc[c] > Hears(mech) => heard[c] \in Servers
    BY DEF QueueInv
  <1> DEFINE Boxes == \A g \in Generations : box'["s2c"][g] \in Seq(Servers) /\ box'["c2s"][g] \in Seq(Clients)
             Heard(s) == /\ s \in Servers /\ pc'[s] > Greets(mech) + 1 => heard'[s] \in Clients
                         /\ s \in Clients /\ pc'[s] > Hears(mech) => heard'[s] \in Servers
  <1>3. CASE Receive(p)
    <2> DEFINE n == In(p)
               b == box[n][fd[p][n]]
    <2>1. /\ n \in Names /\ fd[p][n] \in Generations
          /\ box' = [box EXCEPT ![n][fd[p][n]] = Tail(@)] /\ b # <<>>
          /\ heard' = [heard EXCEPT ![p] = Head(b)]
          /\ pc' = [pc EXCEPT ![p] = pc[p] + 1]
      BY <1>3, ReceiveDoes DEF Names, In, Step
    <2>2. /\ p \in Servers => Head(b) \in Clients /\ Tail(b) \in Seq(Clients) /\ n = "c2s"
          /\ p \notin Servers => Head(b) \in Servers /\ Tail(b) \in Seq(Servers) /\ n = "s2c"
      BY <1>2, <2>1 DEF In
    <2> HIDE DEF b
    <2>3. Boxes
      <3>1. \A g \in Generations, k \in {"s2c", "c2s"} :
               box'[k][g] = IF k = n /\ g = fd[p][n] THEN Tail(b) ELSE box[k][g]
        BY <1>1, <2>1 DEF Names, b
      <3> HIDE DEF n
      <3> QED BY <1>2, <2>2, <3>1
    <2>4. ASSUME NEW q \in Procs PROVE Heard(q)
      <3>1. CASE q = p
        <4>1. heard'[q] = Head(b)
          BY <1>1, <2>1, <3>1
        <4> QED BY <2>2, <3>1, <4>1, ExchangeProcs
      <3>2. CASE q # p
        <4>1. heard'[q] = heard[q] /\ pc'[q] = pc[q]
          BY <1>1, <2>1, <3>2
        <4> QED BY <1>2, <4>1
      <3> QED BY <3>1, <3>2
    <2> QED BY <1>0, <2>3, <2>4 DEF QueueInv, Procs
  <1>4. CASE Send(p)
    <2> DEFINE n == Out(p)
    <2>1. /\ n \in Names /\ fd[p][n] \in Generations /\ heard' = heard
          /\ box' = [box EXCEPT ![n][fd[p][n]] = Append(@, p)]
          /\ pc[p] = (IF p \in Servers THEN Greets(mech) ELSE Replies(mech))
          /\ pc' = [pc EXCEPT ![p] = pc[p] + 1]
      BY <1>4, SendDoes DEF Names, Out, Step
    <2>2. /\ p \in Servers => n = "s2c"
          /\ p \notin Servers => n = "c2s" /\ p \in Clients
      BY DEF Out, Procs
    <2>3. \A g \in Generations, k \in {"s2c", "c2s"} :
             box'[k][g] = IF k = n /\ g = fd[p][n] THEN Append(box[n][fd[p][n]], p) ELSE box[k][g]
      BY <1>1, <2>1 DEF Names
    <2>4. /\ p \in Servers => Append(box["s2c"][fd[p][n]], p) \in Seq(Servers)
          /\ p \notin Servers => Append(box["c2s"][fd[p][n]], p) \in Seq(Clients)
      BY <1>2, <2>1, <2>2
    <2> HIDE DEF n
    <2>5. Boxes
      BY <1>2, <2>2, <2>3, <2>4
    <2>6. ASSUME NEW q \in Procs PROVE Heard(q)
      <3>1. CASE q = p
        <4>1. /\ p \in Servers => ~(pc[p] + 1 > Greets(mech) + 1) /\ p \notin Clients
              /\ p \notin Servers => pc[p] > Hears(mech)
          BY <1>1, <2>1, ExchangeProcs
        <4>2. pc'[p] = pc[p] + 1
          BY <1>1, <2>1
        <4> QED BY <1>2, <2>1, <3>1, <4>1, <4>2
      <3>2. CASE q # p
        <4>1. pc'[q] = pc[q]
          BY <1>1, <2>1, <3>2
        <4> QED BY <1>2, <2>1, <4>1
      <3> QED BY <3>1, <3>2
    <2> QED BY <1>0, <2>5, <2>6 DEF QueueInv, Procs
  <1>5. CASE ~Receive(p) /\ ~Send(p)
    <2>1. ~Reset(p) /\ ~Write(p) /\ ~Read(p)
      BY ResetDoes, MemoryDoes
    <2>2. box' = box /\ heard' = heard
      BY <1>5, <2>1 DEF Start, Kill, Call, Create, Open, Fail, Unlink
    <2>3. pc' = pc \/ (status[p] = "run" /\ Step(p) /\ At(p).op # "receive")
      <3>1. Fail(p) => pc' = pc
        BY DEF Fail, Exit
      <3>2. Start(p) \/ Kill(p) => pc' = pc
        BY DEF Start, Kill
      <3>3. Create(p) \/ Open(p) \/ Unlink(p) => At(p).op # "receive"
        BY DEF Create, Open, Unlink, Calls, At
      <3> QED BY <1>0, <1>5, <2>1, <3>1, <3>2, <3>3 DEF Call, Moves
    <2>4. ASSUME NEW q \in Procs PROVE Heard(q)
      <3>1. CASE pc'[q] = pc[q]
        BY <1>2, <2>2, <3>1
      <3>2. CASE pc'[q] # pc[q]
        <4>1. q = p /\ status[p] = "run" /\ Step(p) /\ pc'[p] = pc[p] + 1 /\ pc[p] \in Nat
              /\ At(p).op # "receive"
          BY <1>1, <2>3, <3>2 DEF Step
        <4>2. /\ p \in Servers => pc[p] # Greets(mech) + 1
              /\ p \in Clients => pc[p] # Hears(mech)
          BY <4>1, CallAt DEF ServerCall, ClientCall
        <4>3. /\ \A a, b \in Nat : a # b + 1 /\ a + 1 > b + 1 => a > b + 1
              /\ \A a, b \in Nat : a # b /\ a + 1 > b => a > b
          OBVIOUS
        <4>4. p \in Servers /\ pc[p] + 1 > Greets(mech) + 1 => pc[p] > Greets(mech) + 1
          BY <1>1, <4>1, <4>2, <4>3
        <4>5. p \in Clients /\ pc[p] + 1 > Hears(mech) => pc[p] > Hears(mech)
          BY <1>1, <4>1, <4>2, <4>3
        <4> QED BY <1>2, <2>2, <4>1, <4>4, <4>5
      <3> QED BY <3>1, <3>2
    <2> QED BY <1>0, <1>2, <2>2, <2>4 DEF QueueInv, Procs
  <1> QED BY <1>3, <1>4, <1>5

\* All of it holds at first, and is kept.
LEMMA AlwaysStarts == Init => AlwaysInv
  <1> SUFFICES ASSUME Init PROVE AlwaysInv
    OBVIOUS
  <1>1. Types
    BY DEF Init, Types, Mechs, Procs
  <1>2. /\ \A p \in Procs : End(p) \in Nat /\ 1 <= End(p)
        /\ \A n \in Used(mech) : n \in Names /\ MadeAt(mech, n) \in Nat /\ 1 <= MadeAt(mech, n)
        /\ Greets(mech) \in Nat /\ Hears(mech) \in Nat /\ 1 <= Hears(mech)
    <2>1. mech \in Mechs
      BY <1>1 DEF Types
    <2>2. "s2c" \in Used(mech)
      BY <2>1, Places
    <2> QED BY <2>1, <2>2, Places DEF End
  <1>3. Progress /\ OneServer
    BY <1>2 DEF Init, Progress, OneServer, Procs
  <1>4. Opened
    <2>1. \A p \in Procs, n \in Used(mech) : ~Has(p, n)
      BY <1>2 DEF Init, Has
    <2>2. \A n \in Used(mech) : {s \in Servers : Has(s, n)} = {}
      BY <2>1 DEF Procs
    <2>3. \A n \in Used(mech) : /\ link[n] = 0 /\ gens[n] = 0
                                /\ \A p \in Procs : fd[p][n] = 0
      BY <1>2 DEF Init
    <2>4. Cardinality({}) = 0
      BY FS_EmptySet
    <2>5. ASSUME NEW n \in Used(mech)
          PROVE  gens[n] <= Cardinality({s \in Servers : Has(s, n)}) /\ link[n] <= gens[n]
      <3>1. Cardinality({s \in Servers : Has(s, n)}) = 0
        BY <2>2, <2>4
      <3> QED BY <2>3, <3>1
    <2> QED BY <2>1, <2>3, <2>5 DEF Opened
  <1>5. QueueInv
    <2>1. \A S : <<>> \in Seq(S)
      OBVIOUS
    <2> QED BY <1>2, <2>1 DEF Init, QueueInv, Procs, Names
  <1> QED BY <1>1, <1>3, <1>4, <1>5 DEF AlwaysInv

\* Every step keeps it.
LEMMA AlwaysStep == AlwaysInv /\ [Next]_vars => AlwaysInv'
  <1> SUFFICES ASSUME AlwaysInv, [Next]_vars PROVE AlwaysInv'
    OBVIOUS
  <1>1. ASSUME NEW p \in Procs, Start(p) \/ Kill(p) \/ Call(p) PROVE AlwaysInv'
    <2>1. Types /\ Progress /\ OneServer /\ Opened
      BY DEF AlwaysInv
    <2>2. Progress' /\ OneServer'
      BY <1>1, <2>1, ActionMoves, MovesKeep
    <2> QED BY <1>1, <2>1, <2>2, OpenedKept, TypesKept, QueueKept DEF AlwaysInv
  <1>2. CASE UNCHANGED vars
    <2>1. /\ mech' = mech /\ status' = status /\ pc' = pc /\ link' = link /\ gens' = gens
          /\ fd' = fd /\ box' = box /\ text' = text /\ heard' = heard /\ err' = err
      BY <1>2 DEF vars, objects
    <2>2. Types'
      BY <2>1 DEF AlwaysInv, Types
    <2>3. Progress' /\ OneServer'
      BY <2>1 DEF AlwaysInv, Progress, OneServer, End
    <2>4. Opened'
      <3>1. \A n \in Names : {s \in Servers : Has(s, n)'} = {s \in Servers : Has(s, n)}
        BY <2>1 DEF Has
      <3> QED BY <2>1, <3>1 DEF AlwaysInv, Opened, Has
    <2>5. QueueInv'
      BY <2>1 DEF AlwaysInv, QueueInv
    <2> QED BY <2>2, <2>3, <2>4, <2>5 DEF AlwaysInv
  <1> QED BY <1>1, <1>2 DEF Next

----------------------------------------------------------------------------
(* While nobody is killed and no client has mixed up two runs.             *)

Act(p) == Start(p) \/ Call(p)
Before == AlwaysInv /\ Orderly /\ OrderInv

\* A step concerns one process, and the objects.
LEMMA Footprint ==
    ASSUME AlwaysInv, NEW p \in Procs, Start(p) \/ Kill(p) \/ Call(p)
    PROVE  /\ mech' = mech /\ err \subseteq err'
           /\ \A q \in Procs : q # p => /\ pc'[q] = pc[q] /\ status'[q] = status[q]
                                        /\ heard'[q] = heard[q] /\ fd'[q] = fd[q]
                                        /\ q \in err' <=> q \in err
  <1> USE DEF AlwaysInv
  <1>1. Moves(p)
    BY ActionMoves
  <1>2. /\ pc \in [Procs -> Nat] /\ fd \in [Procs -> [Names -> Nat]]
        /\ status \in [Procs -> {"idle", "run", "done", "failed", "killed"}]
        /\ heard \in [Procs -> Procs \cup {Nobody}]
    BY DEF Types
  <1>3. \A q \in Procs : q # p => pc'[q] = pc[q] /\ status'[q] = status[q]
    BY <1>1, <1>2 DEF Moves, Step
  <1>4. \A q \in Procs : q # p => heard'[q] = heard[q]
    <2>1. CASE Receive(p)
      <3>1. heard' = heard \/ \E h : heard' = [heard EXCEPT ![p] = h]
        BY <2>1 DEF Receive
      <3> QED BY <1>2, <3>1
    <2>2. CASE Read(p)
      BY <1>2, <2>2 DEF Read
    <2>3. CASE ~Receive(p) /\ ~Read(p)
      BY <2>3 DEF Start, Kill, Call, Create, Open, Reset, Write, Send, Fail, Unlink
    <2> QED BY <2>1, <2>2, <2>3
  <1>5. \A q \in Procs : q # p => fd'[q] = fd[q]
    <2>1. CASE Create(p)
      BY <1>2, <2>1, CreateDoes
    <2>2. CASE Open(p)
      BY <1>2, <2>2 DEF Open
    <2>3. CASE ~Create(p) /\ ~Open(p)
      BY <2>3 DEF Start, Kill, Call, Reset, Write, Read, Send, Receive, Fail, Unlink, objects
    <2> QED BY <2>1, <2>2, <2>3
  <1>6. err' = err \/ err' = err \cup {p}
    BY DEF Start, Kill, Call, Create, Open, Reset, Write, Read, Send, Receive, Fail, Unlink
  <1> QED BY <1>1, <1>3, <1>4, <1>5, <1>6 DEF Moves

\* A client keeps what it has opened.
LEMMA ClientKeeps ==
    ASSUME AlwaysInv, NEW p \in Procs, Start(p) \/ Kill(p) \/ Call(p),
           NEW c \in Clients, NEW n \in Names, fd[c][n] # 0
    PROVE  fd'[c][n] = fd[c][n]
  <1> USE DEF AlwaysInv
  <1>1. CASE c # p
    BY <1>1, Footprint DEF Procs
  <1>2. CASE c = p /\ Open(p) /\ ~Exit(p)
    <2>1. fd'[c][n] = fd[c][n] \/ (n \in Used(mech) /\ MadeAt(mech, n) = pc[p])
      BY <1>2, OpenDoes
    <2>2. ~(n \in Used(mech) /\ MadeAt(mech, n) = pc[p])
      <3> SUFFICES ASSUME n \in Used(mech), MadeAt(mech, n) = pc[p] PROVE FALSE
        OBVIOUS
      <3>1. ~Has(p, n)
        BY DEF Has, Types
      <3> QED BY <1>2, <3>1 DEF Opened
    <2> QED BY <2>1, <2>2
  <1>3. CASE c = p /\ Open(p) /\ Exit(p)
    <2>1. pc' = pc /\ pc[p] \in Nat /\ pc \in [Procs -> Nat]
      BY <1>3 DEF Exit, Types
    <2>2. ~Advance(p)
      BY <2>1 DEF Advance
    <2> QED BY <1>3, <2>2 DEF Open
  <1>4. CASE c = p /\ ~Open(p)
    <2>1. ~Create(p)
      BY <1>4, CreateDoes, ExchangeProcs
    <2> QED BY <1>4, <2>1 DEF Start, Kill, Call, Reset, Write, Read, Send, Receive, Fail, Unlink, objects
  <1> QED BY <1>1, <1>2, <1>3, <1>4

\* Who has been killed or has mixed up two runs stays so.
LEMMA OrderlyBefore ==
    ASSUME AlwaysInv, NEW p \in Procs, Start(p) \/ Kill(p) \/ Call(p), Orderly'
    PROVE  Orderly /\ Act(p)
  <1>1. Types /\ Moves(p)
    BY ActionMoves DEF AlwaysInv
  <1>2. \A q \in Procs : status[q] = "killed" => status'[q] = "killed"
    BY <1>1 DEF Moves, Step, Types
  <1>3. Killed = {}
    BY <1>2 DEF Orderly, Killed
  <1>4. ~Kill(p)
    <2> SUFFICES ASSUME Kill(p) PROVE FALSE
      OBVIOUS
    <2>1. status'[p] = "killed"
      BY <1>1 DEF Kill, Types
    <2> QED BY <2>1 DEF Orderly, Killed
  <1>5. ASSUME NEW c \in Clients, Mixed(c) PROVE Mixed(c)'
    <2>1. PICK m, n \in Names : fd[c][m] # 0 /\ fd[c][n] # 0 /\ fd[c][m] # fd[c][n]
      BY <1>5 DEF Mixed
    <2>2. fd'[c][m] = fd[c][m] /\ fd'[c][n] = fd[c][n]
      BY <2>1, ClientKeeps
    <2> QED BY <2>1, <2>2 DEF Mixed
  <1> QED BY <1>3, <1>4, <1>5 DEF Orderly, Act

\* To be past the call is to have an object.
LEMMA HasIs ==
    ASSUME AlwaysInv, NEW q \in Procs, NEW n \in Used(mech)
    PROVE  Has(q, n) <=> fd[q][n] # 0
  <1>1. gens[n] \in Nat
    BY Places DEF AlwaysInv, Types
  <1>2. ~(0 \in 1..gens[n])
    BY <1>1
  <1> QED BY <1>2 DEF AlwaysInv, Opened

\* A process has an object exactly if its descriptor is one, of some generation.
Held == \A q \in Procs, n \in Used(mech) : IF Has(q, n) THEN fd[q][n] \in Generations ELSE fd[q][n] = 0
\* It holds wherever the invariant does, so after a step too.
LEMMA HeldAlways == AlwaysInv => Held
  BY HasIs, InUse DEF AlwaysInv, Held

\* A client that has opened its queue or semaphore has that of some server.
LEMMA Owner ==
    ASSUME Before, NEW c \in Clients, NEW n \in Used(mech), Has(c, n)
    PROVE  \E s \in Servers : fd[s][n] = fd[c][n] /\ Has(s, n)
  <1>1. fd[c][n] # 0
    BY HasIs DEF Before, Procs
  <1>2. PICK s \in Servers : fd[s][n] = fd[c][n]
    BY <1>1 DEF Before, OrderInv, OneEach
  <1>3. Has(s, n)
    BY <1>1, <1>2 DEF Before, AlwaysInv, Opened, Procs
  <1> QED BY <1>2, <1>3

\* With one object of a server it has all of that server's.
LEMMA OwnAll ==
    ASSUME Before, NEW c \in Clients, NEW s \in Servers, NEW m \in Used(mech), NEW n \in Used(mech),
           Has(c, m), Has(c, n), Has(s, m), Has(s, n), fd[s][m] = fd[c][m]
    PROVE  fd[s][n] = fd[c][n]
  <1>1. fd[c][m] # 0 /\ fd[c][n] # 0 /\ fd[s][m] # 0 /\ fd[s][n] # 0
    BY HasIs DEF Before, Procs
  <1>2. fd[s][m] = fd[s][n]
    BY <1>1 DEF Before, OrderInv, OneEach
  <1>3. m \in Names /\ n \in Names
    BY Places DEF Before, AlwaysInv, Types
  <1>4. fd[c][m] = fd[c][n]
    BY <1>1, <1>3 DEF Before, Orderly, Mixed
  <1> QED BY <1>2, <1>4

\* No two servers have an object in common.
LEMMA Apart ==
    ASSUME Before, NEW s \in Servers, NEW t \in Servers, NEW n \in Used(mech), Has(s, n), Has(t, n),
           fd[s][n] = fd[t][n]
    PROVE  s = t
  BY HasIs DEF Before, OrderInv, OneEach, Procs

\* The numbers of the calls, once more.
LEMMA Numbers ==
    ASSUME AlwaysInv
    PROVE  /\ mech \in Mechs /\ Greets(mech) \in Nat /\ Hears(mech) \in Nat /\ Replies(mech) \in Nat
           /\ ServerEnd(mech) \in Nat /\ Hears(mech) < Replies(mech) /\ Greets(mech) + 1 < ServerEnd(mech)
           /\ \A p \in Procs : pc[p] \in Nat
           /\ {"s2c", "c2s"} \subseteq Used(mech)
           /\ mech \in Memory => "mem" \in Used(mech) /\ Hears(mech) + 2 < Replies(mech)
           /\ \A p \in Procs, n \in Used(mech) : pc[p] >= Hears(mech) => Has(p, n)
           /\ \A p \in Procs, n \in Used(mech) : pc[p] >= Greets(mech) => Has(p, n)
           /\ mech \in Memory => \A p \in Procs, n \in Used(mech) : pc[p] >= Greets(mech) - 1 => Has(p, n)
           /\ \A n \in Used(mech) : /\ MadeAt(mech, n) \in Nat /\ GoneAt(mech, n) \in Nat
                                    /\ Greets(mech) + 1 < GoneAt(mech, n)
                                    /\ GoneAt(mech, n) <= ServerEnd(mech)
                                    /\ mech \in Memory => Greets(mech) + 2 < GoneAt(mech, n)
  <1>1. mech \in Mechs /\ \A p \in Procs : pc[p] \in Nat
    BY DEF AlwaysInv, Types
  <1>2. /\ \A p \in Procs, n \in Used(mech) : pc[p] >= Hears(mech) => Has(p, n)
        /\ \A p \in Procs, n \in Used(mech) : pc[p] >= Greets(mech) => Has(p, n)
        /\ mech \in Memory => \A p \in Procs, n \in Used(mech) : pc[p] >= Greets(mech) - 1 => Has(p, n)
    BY <1>1, Places DEF Has
  <1> QED BY <1>1, <1>2, Places

\* A client that has received has everything, its server the object it came by.
LEMMA TakerHas ==
    ASSUME AlwaysInv, NEW s \in Servers, NEW c \in Takers(s)
    PROVE  /\ c \in Clients /\ c \notin err /\ pc[c] > Hears(mech) /\ fd[c]["s2c"] = fd[s]["s2c"]
           /\ Has(s, "s2c") /\ \A n \in Used(mech) : Has(c, n)
  <1>1. c \in Clients /\ c \notin err /\ pc[c] > Hears(mech) /\ fd[c]["s2c"] = fd[s]["s2c"]
    BY DEF Takers
  <1>2. \A n \in Used(mech) : Has(c, n)
    BY <1>1, Numbers DEF Procs
  <1>3. fd[c]["s2c"] # 0
    BY <1>1, <1>2, Numbers, HasIs DEF Procs
  <1>4. Has(s, "s2c")
    BY <1>1, <1>3, Numbers DEF AlwaysInv, Opened, Procs
  <1> QED BY <1>1, <1>2, <1>4

----------------------------------------------------------------------------
(* What a step leaves of the conversations of the others.                  *)

Conv(s) == Talk(s) /\ Written(s) /\ Hearing(s)

\* A conversation is kept when nothing it speaks of changes.
LEMMA ViewKept ==
    ASSUME AlwaysInv, NEW s \in Servers, Conv(s), mech' = mech,
           pc'[s] = pc[s], fd'[s] = fd[s], heard'[s] = heard[s], Takers(s)' = Takers(s),
           \A c \in Takers(s) : pc'[c] = pc[c] /\ heard'[c] = heard[c],
           \A n \in {"s2c", "c2s"} : Has(s, n) => box'[n][fd[s][n]] = box[n][fd[s][n]],
           mech \in Memory /\ Has(s, "mem") => text'[fd[s]["mem"]] = text[fd[s]["mem"]]
    PROVE  Conv(s)'
  <1>1. \A n \in Used(mech) : Has(s, n)' <=> Has(s, n)
    BY DEF Has
  <1>2. \A n \in {"s2c", "c2s"} : Has(s, n) => Box(s, n)' = Box(s, n)
    BY DEF Box
  <1>3. /\ pc[s] \in Nat /\ Greets(mech) \in Nat /\ {"s2c", "c2s"} \subseteq Used(mech)
        /\ pc[s] > Greets(mech) => Has(s, "s2c") /\ Has(s, "c2s")
        /\ mech \in Memory /\ Greets(mech) <= pc[s] => Has(s, "mem")
    BY Numbers DEF Procs
  <1>4. Talk(s)'
    <2>1. CASE pc[s] <= Greets(mech)
      <3>1. ~(pc[s] > Greets(mech))
        BY <1>3, <2>1
      <3> QED BY <1>1, <1>2, <1>3, <2>1, <3>1 DEF Conv, Talk
    <2>2. CASE pc[s] > Greets(mech)
      <3>1. ~(pc[s] <= Greets(mech))
        BY <1>3, <2>2
      <3>2. Box(s, "s2c")' = Box(s, "s2c") /\ Box(s, "c2s")' = Box(s, "c2s")
        BY <1>2, <1>3, <2>2
      <3>3. CASE /\ pc[s] = Greets(mech) + 1 /\ Takers(s) = {}
                 /\ Box(s, "s2c") = <<s>> /\ Box(s, "c2s") = <<>>
        BY <3>1, <3>2, <3>3 DEF Talk
      <3>4. CASE \E c \in Clients :
                    /\ Takers(s) = {c} /\ Box(s, "s2c") = <<>>
                    /\ IF pc[c] <= Replies(mech) THEN pc[s] = Greets(mech) + 1 /\ Box(s, "c2s") = <<>>
                       ELSE Box(s, "c2s") = IF pc[s] = Greets(mech) + 1 THEN <<c>> ELSE <<>>
        <4>1. PICK c \in Clients :
                    /\ Takers(s) = {c} /\ Box(s, "s2c") = <<>>
                    /\ IF pc[c] <= Replies(mech) THEN pc[s] = Greets(mech) + 1 /\ Box(s, "c2s") = <<>>
                       ELSE Box(s, "c2s") = IF pc[s] = Greets(mech) + 1 THEN <<c>> ELSE <<>>
          BY <3>4
        <4>2. pc'[c] = pc[c] /\ Takers(s)' = {c}
          BY <4>1
        <4> QED BY <3>1, <3>2, <4>1, <4>2 DEF Talk
      <3> QED BY <2>2, <3>3, <3>4 DEF Conv, Talk
    <2> QED BY <1>3, <2>1, <2>2
  <1>5. Written(s)'
    BY <1>3 DEF Conv, Written
  <1>6. Hearing(s)'
    <2>1. Told(s)' <=> Told(s)
      BY DEF Told
    <2>2. \A c \in Takers(s) : Told(c)' <=> Told(c)
      BY DEF Told
    <2> QED BY <2>1, <2>2 DEF Conv, Hearing
  <1> QED BY <1>4, <1>5, <1>6 DEF Conv

\* The conversation of a server other than the one whose step it is, and with
\* which it has not begun.
LEMMA OthersKept ==
    ASSUME AlwaysInv, NEW p \in Procs, Act(p), NEW s \in Servers, s # p, Conv(s),
           p \notin Takers(s), p \notin Takers(s)',
           \A n \in {"s2c", "c2s"} : Has(s, n) => box'[n][fd[s][n]] = box[n][fd[s][n]],
           mech \in Memory /\ Has(s, "mem") => text'[fd[s]["mem"]] = text[fd[s]["mem"]]
    PROVE  Conv(s)'
  <1>1. /\ mech' = mech
        /\ \A q \in Procs : q # p => /\ pc'[q] = pc[q] /\ status'[q] = status[q]
                                     /\ heard'[q] = heard[q] /\ fd'[q] = fd[q]
                                     /\ q \in err' <=> q \in err
    BY Footprint DEF Act
  <1>2. Takers(s)' = Takers(s)
    BY <1>1 DEF Takers, Procs
  <1>3. \A c \in Takers(s) : pc'[c] = pc[c] /\ heard'[c] = heard[c]
    BY <1>1 DEF Takers, Procs
  <1> QED BY <1>1, <1>2, <1>3, ViewKept DEF Procs

\* Order is kept by a step that changes nothing but what its process is doing.
LEMMA StillKept ==
    ASSUME Before, mech' = mech, pc' = pc, fd' = fd, box' = box, text' = text, heard' = heard,
           err' = err, \A s \in Servers : status[s] = "done" => status'[s] = "done"
    PROVE  OneEach' /\ Silence' /\ Errors' /\ \A s \in Servers : Conv(s)'
  <1>1. OneEach' /\ Silence' /\ Errors'
    BY DEF Before, OrderInv, OneEach, Silence, Errors, Told
  <1>2. ASSUME NEW s \in Servers PROVE Conv(s)'
    <2>1. Takers(s)' = Takers(s)
      BY DEF Takers
    <2> QED BY <2>1, ViewKept DEF Before, OrderInv, Conv
  <1> QED BY <1>1, <1>2

\* The names and generations are kept by a step that makes and removes none.
LEMMA RunsSame ==
    ASSUME AlwaysInv, NEW over \in Nat, Runs(over), mech' = mech, gens' = gens, link' = link,
           \A s \in Servers :
              /\ fd'[s] = fd[s] /\ status'[s] \in {"idle", "run", "done"}
              /\ status[s] = "run" => status'[s] = "run"
              /\ status[s] # "run" /\ status'[s] = "run" => \A n \in Used(mech) : ~Has(s, n)'
              /\ \A n \in Used(mech) :
                    /\ Has(s, n)' <=> Has(s, n)
                    /\ status[s] = "run" => (pc'[s] <= GoneAt(mech, n) <=> pc[s] <= GoneAt(mech, n)),
           \A n \in Used(mech), g \in Generations : g > gens[n] => box'[n][g] = box[n][g]
    PROVE  Runs(over)'
  <1>1. \A n \in Used(mech), s \in Servers :
           /\ status'[s] = "run" /\ Has(s, n)' <=> status[s] = "run" /\ Has(s, n)
           /\ status'[s] = "run" /\ Has(s, n)' /\ pc'[s] <= GoneAt(mech, n)
                 <=> status[s] = "run" /\ Has(s, n) /\ pc[s] <= GoneAt(mech, n)
    OBVIOUS
  <1>2. ASSUME NEW n \in Used(mech)
        PROVE  /\ gens'[n] = IF \E s \in Servers : status'[s] = "run" /\ Has(s, n)' THEN over + 1 ELSE over
               /\ link'[n] = IF \E s \in Servers : /\ status'[s] = "run" /\ Has(s, n)'
                                                   /\ pc'[s] <= GoneAt(mech, n)
                             THEN over + 1 ELSE 0
    <2>1. /\ gens[n] = IF \E s \in Servers : status[s] = "run" /\ Has(s, n) THEN over + 1 ELSE over
          /\ link[n] = IF \E s \in Servers : /\ status[s] = "run" /\ Has(s, n)
                                             /\ pc[s] <= GoneAt(mech, n)
                       THEN over + 1 ELSE 0
      BY DEF Runs
    <2> QED BY <1>1, <2>1
  <1>3. ASSUME NEW n \in Used(mech), NEW s \in Servers
        PROVE  IF status'[s] = "run" THEN Has(s, n)' => fd'[s][n] = over + 1 ELSE fd'[s][n] <= over
    BY DEF Runs
  <1>4. ASSUME NEW n \in Used(mech), NEW g \in Generations, g > gens'[n] PROVE box'[n][g] = <<>>
    BY <1>4 DEF Runs
  <1> QED BY <1>2, <1>3, <1>4 DEF Runs

\* A server between making its objects and removing them.
LEMMA ServerMid ==
    ASSUME AlwaysInv, NEW p \in Procs, p \in Servers, status[p] = "run",
           At(p).op \in {"reset", "write", "send", "receive", "read"}
    PROVE  pc[p] < End(p) /\ \A n \in Used(mech) : pc[p] < GoneAt(mech, n)
  <1>1. ServerCall(mech, pc[p], At(p))
    BY CallAt DEF AlwaysInv
  <1>2. \/ pc[p] <= Greets(mech) + 1
        \/ mech \in Memory /\ pc[p] = Greets(mech) + 2
    BY <1>1, Numbers DEF ServerCall
  <1>3. pc[p] \in Nat /\ {"s2c", "c2s"} \subseteq Used(mech) /\ End(p) = ServerEnd(mech)
    BY Numbers DEF End
  <1>4. \A n \in Used(mech) : pc[p] < GoneAt(mech, n)
    BY <1>2, <1>3, Numbers
  <1>5. GoneAt(mech, "s2c") <= ServerEnd(mech) /\ GoneAt(mech, "s2c") \in Nat /\ ServerEnd(mech) \in Nat
    BY <1>3, Numbers
  <1> QED BY <1>3, <1>4, <1>5

\* The calls on existing objects make no run begin or end.
LEMMA RunsMid ==
    ASSUME Before, NEW over \in Nat, Runs(over), NEW p \in Procs,
           \/ Start(p) \/ Open(p) \/ Reset(p) \/ Write(p) \/ Read(p) \/ Send(p) \/ Receive(p)
           \/ Fail(p) /\ p \in Clients,
           \A n \in Used(mech), g \in Generations : g > gens[n] => box'[n][g] = box[n][g]
    PROVE  Runs(over)'
  <1> USE DEF Before
  <1>1. Act(p) /\ Types /\ Progress /\ Moves(p)
    BY ActionMoves DEF AlwaysInv, Act, Call
  <1>2. mech' = mech /\ gens' = gens /\ link' = link
    BY DEF Start, Open, Reset, Write, Read, Send, Receive, Fail, objects
  <1>3. \A q \in Procs : q # p => pc'[q] = pc[q] /\ status'[q] = status[q] /\ fd'[q] = fd[q]
    BY <1>1, Footprint DEF Act
  <1> DEFINE Fine(s) ==
              /\ fd'[s] = fd[s] /\ status'[s] \in {"idle", "run", "done"}
              /\ status[s] = "run" => status'[s] = "run"
              /\ status[s] # "run" /\ status'[s] = "run" => \A n \in Used(mech) : ~Has(s, n)'
              /\ \A n \in Used(mech) :
                    /\ Has(s, n)' <=> Has(s, n)
                    /\ status[s] = "run" => (pc'[s] <= GoneAt(mech, n) <=> pc[s] <= GoneAt(mech, n))
  <1>4. ASSUME NEW s \in Servers, s # p PROVE Fine(s)
    <2>1. pc'[s] = pc[s] /\ status'[s] = status[s] /\ fd'[s] = fd[s]
      BY <1>3, <1>4 DEF Procs
    <2>2. status[s] \in {"idle", "run", "done"}
      BY DEF Runs
    <2> QED BY <1>2, <2>1, <2>2 DEF Has
  <1>5. ASSUME p \in Servers PROVE Fine(p)
    <2>1. CASE Start(p)
      <3>1. pc' = pc /\ status'[p] = "run" /\ status[p] = "idle" /\ fd' = fd
        BY <1>1, <2>1 DEF Start, objects, Types
      <3>2. \A n \in Used(mech) : ~Has(p, n)
        <4>1. pc[p] = 1
          BY <3>1 DEF AlwaysInv, Progress
        <4> QED BY <1>1, <4>1, Places DEF Has, Types
      <3> QED BY <1>2, <3>1, <3>2 DEF Has
    <2>2. CASE ~Start(p)
      <3>1. ~Open(p)
        <4>1. Open(p) => status[p] = "run" /\ At(p).op \in {"open", "await"}
          BY DEF Open, Calls, At
        <4> QED BY <1>1, <1>5, <4>1, CallAt DEF ServerCall
      <3>2. /\ status[p] = "run" /\ Advance(p) /\ fd' = fd
            /\ At(p).op \in {"reset", "write", "send", "receive", "read"}
        BY <1>5, <2>2, <3>1, ExchangeProcs
           DEF Reset, Write, Read, Send, Receive, Calls, At, objects
      <3>3. Step(p) /\ pc[p] \in Nat /\ End(p) \in Nat
        BY <1>1, <3>2, CallAt
      <3>4. pc[p] < End(p) /\ \A n \in Used(mech) : pc[p] < GoneAt(mech, n) /\ GoneAt(mech, n) \in Nat
        BY <1>5, <3>2, ServerMid, Numbers
      <3>5. pc'[p] = pc[p] + 1 /\ status'[p] = "run"
        BY <1>1, <3>3, <3>4 DEF Step, Types
      <3>6. \A n \in Used(mech) : Has(p, n)' <=> Has(p, n)
        BY <1>1, <1>2, <3>2, <3>3, HasSame
      <3>7. \A n \in Used(mech) : pc[p] + 1 <= GoneAt(mech, n) /\ pc[p] <= GoneAt(mech, n)
        BY <3>3, <3>4
      <3> QED BY <3>2, <3>5, <3>6, <3>7
    <2> QED BY <2>1, <2>2
  <1> HIDE DEF Fine
  <1>6. \A s \in Servers : Fine(s)
    BY <1>4, <1>5
  <1> QED BY <1>2, <1>6, RunsSame DEF Fine

\* Who has not been told anything has printed nothing, after a step too.
LEMMA SilenceKept ==
    ASSUME Before, NEW p \in Procs, Act(p), heard'[p] = heard[p] \/ (p \in Clients => Told(p)')
    PROVE  Silence'
  <1> SUFFICES ASSUME NEW c \in Clients, c \notin err', ~Told(c)' PROVE heard'[c] = Nobody
    BY DEF Silence
  <1>1. /\ mech' = mech /\ c \notin err
        /\ \A q \in Procs : q # p => pc'[q] = pc[q] /\ heard'[q] = heard[q]
    BY Footprint DEF Before, Act
  <1>2. pc'[c] \in Nat /\ pc[c] \in Nat /\ pc[c] <= pc'[c]
    <2>1. Moves(p) /\ pc \in [Procs -> Nat]
      BY ActionMoves DEF Before, Act, AlwaysInv, Types
    <2> QED BY <2>1 DEF Moves, Step, Procs
  <1>3. ~Told(c)
    <2>1. CASE mech \in Memory
      BY <1>1, <1>2, <2>1, Numbers DEF Told, Before
    <2>2. CASE mech \notin Memory
      BY <1>1, <1>2, <2>2, Numbers DEF Told, Before
    <2> QED BY <2>1, <2>2
  <1>4. heard'[c] = heard[c]
    BY <1>1 DEF Procs
  <1> QED BY <1>1, <1>3, <1>4 DEF Before, OrderInv, Silence

\* Errors are kept by a step that adds none and makes no object.
LEMMA ErrorsKept ==
    ASSUME Before, NEW p \in Procs, Act(p), err' = err, fd' = fd \/ Open(p)
    PROVE  Errors'
  <1> SUFFICES ASSUME NEW q \in err
               PROVE  /\ q \in Clients /\ pc'[q] > Hears(mech)' /\ mech' \in SysV
                      /\ \A s \in Servers : fd'[s]["s2c"] = fd'[q]["s2c"] => status'[s] = "done"
    BY DEF Errors
  <1>1. /\ q \in Clients /\ pc[q] > Hears(mech) /\ mech \in SysV
        /\ \A s \in Servers : fd[s]["s2c"] = fd[q]["s2c"] => status[s] = "done"
    BY DEF Before, OrderInv, Errors
  <1>2. Moves(p) /\ Types /\ mech' = mech
    BY Footprint, ActionMoves DEF Before, Act, AlwaysInv
  <1>3. pc'[q] > Hears(mech)
    <2>1. pc[q] \in Nat /\ pc'[q] \in Nat /\ pc[q] <= pc'[q]
      <3>1. q \in Procs /\ pc \in [Procs -> Nat]
        BY <1>1, <1>2 DEF Procs, Types
      <3>2. pc'[q] = pc[q] \/ pc'[q] = pc[q] + 1
        BY <1>2, <3>1 DEF Moves, Step
      <3> QED BY <3>1, <3>2
    <2> QED BY <1>1, <2>1, Numbers DEF Before
  <1>4. \A s \in Servers : status[s] = "done" => status'[s] = "done"
    BY <1>2 DEF Moves, Step, Procs, Types
  <1>5. fd'[q]["s2c"] = fd[q]["s2c"] /\ \A s \in Servers : fd'[s] = fd[s]
    <2>1. CASE fd' = fd
      BY <2>1
    <2>2. CASE Open(p)
      <3>1. fd[q]["s2c"] # 0
        BY <1>1, Numbers, HasIs DEF Before, Procs
      <3>2. fd'[q]["s2c"] = fd[q]["s2c"]
        BY <1>1, <3>1, ClientKeeps DEF Before, Act, Names
      <3>3. p \notin Servers
        <4>1. status[p] = "run" /\ At(p).op \in {"open", "await"}
          BY <2>2 DEF Open, Calls, At
        <4> QED BY <4>1, CallAt DEF Before, AlwaysInv, ServerCall
      <3> QED BY <3>2, <3>3, Footprint DEF Before, Act, Procs
    <2> QED BY <2>1, <2>2
  <1> QED BY <1>1, <1>2, <1>3, <1>4, <1>5

----------------------------------------------------------------------------
(* The calls on existing objects.                                          *)

\* The server that a client talks to, and those it does not.
LEMMA MyServer ==
    ASSUME Before, NEW p \in Clients, pc[p] >= Hears(mech)
    PROVE  \E s \in Servers :
              /\ fd[s]["s2c"] = fd[p]["s2c"] /\ Has(s, "s2c")
              /\ \A n \in Used(mech) : Has(s, n) => fd[s][n] = fd[p][n]
              /\ \A t \in Servers, n \in Used(mech) : t # s /\ Has(t, n) => fd[t][n] # fd[p][n]
  <1>1. /\ "s2c" \in Used(mech) /\ Used(mech) \subseteq Names
        /\ \A n \in Used(mech) : Has(p, n)
    BY Numbers, Places DEF Before, Procs
  <1>2. PICK s \in Servers : fd[s]["s2c"] = fd[p]["s2c"] /\ Has(s, "s2c")
    BY <1>1, Owner
  <1>3. \A n \in Used(mech) : Has(s, n) => fd[s][n] = fd[p][n]
    BY <1>1, <1>2, OwnAll
  <1>4. ASSUME NEW t \in Servers, NEW n \in Used(mech), t # s, Has(t, n), fd[t][n] = fd[p][n]
        PROVE  FALSE
    <2>1. fd[p][n] # 0 /\ fd[p]["s2c"] # 0
      BY <1>1, HasIs DEF Before, Procs
    <2>2. fd[p][n] = fd[p]["s2c"]
      BY <1>1, <2>1 DEF Before, Orderly, Mixed
    <2> QED BY <1>1, <1>2, <1>4, <2>1, <2>2 DEF Before, OrderInv, OneEach
  <1> QED BY <1>2, <1>3, <1>4

\* The one client that has taken a server's greeting.
LEMMA Taken ==
    ASSUME Before, NEW s \in Servers, NEW c \in Takers(s)
    PROVE  /\ Takers(s) = {c} /\ pc[s] > Greets(mech) /\ Box(s, "s2c") = <<>>
           /\ IF pc[c] <= Replies(mech) THEN pc[s] = Greets(mech) + 1 /\ Box(s, "c2s") = <<>>
              ELSE Box(s, "c2s") = IF pc[s] = Greets(mech) + 1 THEN <<c>> ELSE <<>>
           /\ \A n \in Used(mech) : Has(s, n) /\ Has(c, n) /\ fd[s][n] = fd[c][n]
  <1>1. Talk(s) /\ Has(s, "s2c")
    BY TakerHas DEF Before, OrderInv
  <1>2. pc[s] > Greets(mech)
    BY <1>1, Numbers DEF Talk, Before, Procs
  <1>3. /\ Takers(s) = {c} /\ Box(s, "s2c") = <<>>
        /\ IF pc[c] <= Replies(mech) THEN pc[s] = Greets(mech) + 1 /\ Box(s, "c2s") = <<>>
           ELSE Box(s, "c2s") = IF pc[s] = Greets(mech) + 1 THEN <<c>> ELSE <<>>
    BY <1>1, <1>2 DEF Talk
  <1>4. \A n \in Used(mech) : Has(s, n) /\ Has(c, n)
    BY <1>2, Numbers, TakerHas DEF Before, Procs
  <1>5. c \in Clients /\ fd[c]["s2c"] = fd[s]["s2c"] /\ "s2c" \in Used(mech)
    BY TakerHas, Numbers DEF Before
  <1>6. \A n \in Used(mech) : fd[s][n] = fd[c][n]
    BY <1>4, <1>5, OwnAll
  <1> QED BY <1>2, <1>3, <1>4, <1>6

\* A call on one's own objects does not touch a conversation with others.
LEMMA StrangerKept ==
    ASSUME Before, NEW p \in Procs, Act(p), fd' = fd, p \in Clients => Has(p, "s2c"),
           NEW s \in Servers, s # p, \A n \in Used(mech) : Has(s, n) => fd[s][n] # fd[p][n],
           \A n \in Used(mech), g \in Generations : g # fd[p][n] => box'[n][g] = box[n][g],
           mech \in Memory => \A g \in Generations : g # fd[p]["mem"] => text'[g] = text[g]
    PROVE  Conv(s)'
  <1>1. AlwaysInv /\ Types /\ Opened /\ {"s2c", "c2s"} \subseteq Used(mech)
        /\ (mech \in Memory => "mem" \in Used(mech))
    BY Numbers DEF Before, AlwaysInv
  <1>2. p \notin Takers(s)
    BY <1>1, TakerHas
  <1>3. p \notin Takers(s)'
    <2> SUFFICES ASSUME p \in Clients, fd[p]["s2c"] = fd[s]["s2c"] PROVE FALSE
      BY DEF Takers
    <2>1. fd[p]["s2c"] # 0
      BY <1>1, HasIs
    <2>2. Has(s, "s2c")
      BY <1>1, <2>1, HasIs DEF Procs
    <2> QED BY <1>1, <2>2
  <1>4. \A n \in Used(mech) : Has(s, n) => fd[s][n] \in Generations
    BY <1>1, InUse DEF Procs
  <1>5. \A n \in {"s2c", "c2s"} : Has(s, n) => box'[n][fd[s][n]] = box[n][fd[s][n]]
    BY <1>1, <1>4
  <1>6. mech \in Memory /\ Has(s, "mem") => text'[fd[s]["mem"]] = text[fd[s]["mem"]]
    BY <1>1, <1>4
  <1>7. Conv(s)
    BY DEF Before, OrderInv, Conv
  <1> QED BY <1>1, <1>2, <1>3, <1>5, <1>6, <1>7, OthersKept

\* What is left to show of a call on existing objects: the conversation that the
\* process takes part in.
LEMMA ObjectStep ==
    ASSUME Before, NEW p \in Procs,
           \/ Reset(p) \/ Write(p) \/ Read(p) \/ Send(p) \/ Receive(p)
           \/ Fail(p) /\ p \in Clients,
           \A n \in Used(mech), g \in Generations : g # fd[p][n] => box'[n][g] = box[n][g],
           mech \in Memory => \A g \in Generations : g # fd[p]["mem"] => text'[g] = text[g],
           heard'[p] = heard[p] \/ (p \in Clients => Told(p)'),
           err' = err \/ Errors',
           \A s \in Servers :
              s = p \/ (p \in Clients /\ Has(s, "s2c") /\ fd[s]["s2c"] = fd[p]["s2c"]) => Conv(s)'
    PROVE  OrderInv'
  <1>1. /\ Act(p) /\ AlwaysInv /\ Types /\ Progress /\ Opened /\ fd' = fd /\ status[p] = "run"
        /\ mech' = mech
        /\ At(p).op \in {"reset", "write", "read", "send", "receive"}
    BY DEF Before, AlwaysInv, Act, Call, Reset, Write, Read, Send, Receive, Fail, objects, Calls, At
  <1>2. p \in Clients => pc[p] >= Hears(mech) /\ Has(p, "s2c")
    <2> SUFFICES ASSUME p \in Clients PROVE pc[p] >= Hears(mech) /\ Has(p, "s2c")
      OBVIOUS
    <2>1. ClientCall(mech, pc[p], At(p))
      BY <1>1, CallAt
    <2>2. pc[p] \in {Hears(mech), Hears(mech) + 1, Hears(mech) + 2, Replies(mech)}
      BY <1>1, <2>1 DEF ClientCall
    <2> QED BY <1>1, <2>2, Numbers
  <1>3. PICK over \in Nat : Runs(over)
    BY DEF Before, OrderInv
  <1>4. \A n \in Used(mech), g \in Generations : g > gens[n] => box'[n][g] = box[n][g]
    <2> SUFFICES ASSUME NEW n \in Used(mech), NEW g \in Generations, g > gens[n]
                 PROVE  g # fd[p][n]
      OBVIOUS
    <2>1. gens[n] \in Nat /\ fd[p][n] \in 0..gens[n]
      <3>1. gens[n] \in Nat
        BY <1>1, Places DEF Types
      <3>2. fd[p][n] \in 1..gens[n] \/ fd[p][n] = 0
        BY <1>1 DEF Opened
      <3> QED BY <3>1, <3>2
    <2> QED BY <2>1 DEF Generations
  <1>5. Runs(over)'
    BY <1>3, <1>4, RunsMid
  <1>6. OneEach'
    BY <1>1 DEF Before, OrderInv, OneEach
  <1>7. Silence' /\ Errors'
    BY <1>1, SilenceKept, ErrorsKept
  <1>8. ASSUME NEW s \in Servers PROVE Conv(s)'
    <2>1. CASE p \in Servers /\ s # p
      <3>1. \A n \in Used(mech) : Has(s, n) => fd[s][n] # fd[p][n]
        BY <1>1, <2>1, Apart, HasIs DEF Procs
      <3>2. p \notin Clients
        BY <2>1, ExchangeProcs
      <3> QED BY <1>1, <2>1, <3>1, <3>2, StrangerKept
    <2>2. CASE p \in Clients
      <3>1. PICK t \in Servers :
              /\ fd[t]["s2c"] = fd[p]["s2c"] /\ Has(t, "s2c")
              /\ \A u \in Servers, n \in Used(mech) : u # t /\ Has(u, n) => fd[u][n] # fd[p][n]
        BY <1>2, <2>2, MyServer
      <3>2. s # p
        BY <2>2, ExchangeProcs
      <3>3. CASE s # t
        BY <1>1, <1>2, <2>2, <3>1, <3>2, <3>3, StrangerKept
      <3> QED BY <2>2, <3>1, <3>3
    <2> QED BY <2>1, <2>2 DEF Procs
  <1> QED BY <1>5, <1>6, <1>7, <1>8 DEF OrderInv, Conv

----------------------------------------------------------------------------
(* The conversation of the process whose call it is.                       *)

\* Reset empties what is empty.
LEMMA ResetStep ==
    ASSUME Before, NEW p \in Procs, Reset(p) PROVE OrderInv'
  <1>1. AlwaysInv /\ Types /\ Progress /\ Opened
    BY DEF Before, AlwaysInv
  <1>2. /\ Step(p) /\ mech \in Memory /\ p \in Servers /\ pc[p] < Greets(mech)
        /\ pc[p] # Greets(mech) - 1
        /\ UNCHANGED <<mech, fd, text, heard, err>>
        /\ \A n \in {"s2c", "c2s"} : n \in Used(mech) /\ Has(p, n) /\ fd[p][n] \in Generations
        /\ \A n \in Names, g \in Generations :
              box'[n][g] = IF n \in {"s2c", "c2s"} /\ g = fd[p][n] THEN <<>> ELSE box[n][g]
    BY <1>1, ResetDoes
  <1>3. Used(mech) \subseteq Names
    BY <1>1, Places DEF Types
  <1>4. Conv(p)'
    <2>1. pc'[p] = pc[p] + 1 /\ pc[p] \in Nat /\ Greets(mech) \in Nat /\ pc \in [Procs -> Nat]
      BY <1>1, <1>2, Numbers DEF Step, Types
    <2>2. /\ pc[p] <= Greets(mech) /\ pc'[p] < Greets(mech)
          /\ ~(pc'[p] > Greets(mech)) /\ ~(Greets(mech) <= pc'[p])
      BY <1>2, <2>1
    <2>3. Takers(p) = {}
      BY <1>2, <2>2 DEF Before, OrderInv, Talk
    <2>4. Takers(p)' = {}
      BY <1>1, <1>2, <2>3, Footprint, ExchangeProcs DEF Takers, Procs, Call
    <2>5. Box(p, "s2c")' = <<>> /\ Box(p, "c2s")' = <<>>
      BY <1>2 DEF Box, Names
    <2>6. heard'[p] = Nobody
      <3>1. ~Told(p)
        BY <1>2, <2>1 DEF Told
      <3> QED BY <1>2, <3>1 DEF Before, OrderInv, Hearing
    <2>7. ~Told(p)'
      BY <1>2, <2>1, <2>2 DEF Told
    <2> QED BY <1>2, <2>2, <2>4, <2>5, <2>6, <2>7 DEF Conv, Talk, Written, Hearing
  <1>5. \A s \in Servers :
           s = p \/ (p \in Clients /\ Has(s, "s2c") /\ fd[s]["s2c"] = fd[p]["s2c"]) => Conv(s)'
    BY <1>2, <1>4, ExchangeProcs
  <1>6. \A n \in Used(mech), g \in Generations : g # fd[p][n] => box'[n][g] = box[n][g]
    BY <1>2, <1>3
  <1> QED BY <1>2, <1>5, <1>6, ObjectStep

\* The memory gets the greeting of the server, or the reply of the one client.
LEMMA WriteStep ==
    ASSUME Before, NEW p \in Procs, Write(p) PROVE OrderInv'
  <1>1. AlwaysInv /\ Types /\ Progress /\ Opened
    BY DEF Before, AlwaysInv
  <1>2. /\ status[p] = "run" /\ Step(p) /\ mech \in Memory /\ "mem" \in Used(mech)
        /\ fd[p]["mem"] \in Generations /\ Has(p, "mem")
        /\ UNCHANGED <<mech, link, gens, fd, box, err>>
        /\ pc[p] = (IF p \in Servers THEN Greets(mech) - 1 ELSE Hears(mech) + 2)
        /\ heard' = heard /\ text' = [text EXCEPT ![fd[p]["mem"]] = p]
    BY <1>1, MemoryDoes
  <1>3. /\ pc'[p] = pc[p] + 1 /\ pc[p] \in Nat /\ Greets(mech) \in Nat /\ Hears(mech) \in Nat
        /\ Replies(mech) \in Nat /\ Hears(mech) + 2 < Replies(mech) /\ pc \in [Procs -> Nat]
        /\ text \in [Generations -> Procs \cup {Nobody}]
        /\ {"s2c", "c2s"} \subseteq Used(mech)
    BY <1>1, <1>2, Numbers DEF Step, Types
  <1>4. \A q \in Procs : q # p => pc'[q] = pc[q]
    BY <1>3, <1>2 DEF Step
  <1>5. /\ \A g \in Generations : g # fd[p]["mem"] => text'[g] = text[g]
        /\ text'[fd[p]["mem"]] = p
    BY <1>2, <1>3
  <1>6. ASSUME p \in Servers PROVE Conv(p)'
    <2>1. /\ pc[p] = Greets(mech) - 1 /\ pc'[p] = Greets(mech) /\ pc[p] <= Greets(mech)
          /\ pc'[p] <= Greets(mech) /\ ~(pc'[p] > Greets(mech))
      BY <1>2, <1>3, <1>6
    <2>2. \A n \in {"s2c", "c2s"} : Has(p, n)
      BY <1>1, <1>2, <1>3, <2>1, Numbers
    <2>3. Takers(p) = {} /\ Box(p, "s2c") = <<>> /\ Box(p, "c2s") = <<>>
      BY <1>6, <2>1, <2>2 DEF Before, OrderInv, Talk
    <2>4. Takers(p)' = {}
      BY <1>2, <1>4, <1>6, <2>3, ExchangeProcs DEF Takers, Procs
    <2>5. Box(p, "s2c")' = <<>> /\ Box(p, "c2s")' = <<>>
      BY <1>2, <2>3 DEF Box
    <2>6. ~Told(p) /\ ~Told(p)'
      BY <1>2, <1>3, <1>6, <2>1 DEF Told
    <2>7. heard'[p] = Nobody
      BY <1>2, <1>6, <2>6 DEF Before, OrderInv, Hearing
    <2> QED BY <1>2, <1>5, <2>1, <2>4, <2>5, <2>6, <2>7 DEF Conv, Talk, Written, Hearing
  <1>7. ASSUME p \in Clients, NEW s \in Servers, Has(s, "s2c"), fd[s]["s2c"] = fd[p]["s2c"]
        PROVE  Conv(s)'
    <2>1. /\ p \notin Servers /\ s # p /\ pc[p] = Hears(mech) + 2 /\ pc'[p] = Hears(mech) + 3
          /\ pc'[s] = pc[s]
      BY <1>2, <1>3, <1>4, <1>7, ExchangeProcs DEF Procs
    <2>2. CASE p \in err
      <3>1. status[s] = "done" /\ End(s) = ServerEnd(mech)
        BY <1>7, <2>2 DEF Before, OrderInv, Errors, End
      <3>2. pc[s] > Greets(mech) + 2
        <4>1. pc[s] = ServerEnd(mech) + 1
          BY <1>1, <3>1 DEF Progress, Procs
        <4>2. /\ GoneAt(mech, "s2c") \in Nat /\ Greets(mech) + 2 < GoneAt(mech, "s2c")
              /\ GoneAt(mech, "s2c") <= ServerEnd(mech) /\ ServerEnd(mech) \in Nat
          BY <1>1, <1>2, <1>3, Numbers
        <4> QED BY <1>3, <4>1, <4>2
      <3>3. ~(pc'[s] <= Greets(mech) + 2) /\ pc[s] \in Nat
        BY <1>1, <1>3, <2>1, <3>2, Numbers DEF Procs
      <3>4. Takers(s)' = Takers(s) /\ \A c \in Takers(s) : c # p
        BY <1>2, <1>4, <2>2 DEF Takers, Procs
      <3>5. Written(s)'
        BY <1>2, <3>3 DEF Written
      <3>6. Talk(s)
        BY DEF Before, OrderInv
      <3>7. Talk(s)' /\ Hearing(s)'
        <4>1. pc[s] > Greets(mech) /\ ~(pc[s] <= Greets(mech))
          BY <1>3, <3>2, <3>3
        <4>2. Box(s, "s2c")' = Box(s, "s2c") /\ Box(s, "c2s")' = Box(s, "c2s")
          BY <1>2 DEF Box
        <4>3. pc[s] # Greets(mech) + 1
          BY <1>3, <3>2, <3>3
        <4>4. PICK c \in Clients :
                 /\ Takers(s) = {c} /\ Box(s, "s2c") = <<>>
                 /\ IF pc[c] <= Replies(mech) THEN pc[s] = Greets(mech) + 1 /\ Box(s, "c2s") = <<>>
                    ELSE Box(s, "c2s") = IF pc[s] = Greets(mech) + 1 THEN <<c>> ELSE <<>>
          BY <3>6, <4>1, <4>3 DEF Talk
        <4>5. pc'[c] = pc[c]
          BY <1>4, <3>4, <4>4 DEF Procs
        <4>6. Talk(s)'
          BY <1>2, <2>1, <3>4, <4>1, <4>2, <4>4, <4>5 DEF Talk
        <4>7. /\ Told(s)' <=> Told(s)
              /\ \A d \in Takers(s) : Told(d)' <=> Told(d)
          BY <1>2, <1>4, <2>1, <3>4 DEF Told, Takers, Procs
        <4>8. Hearing(s)'
          BY <1>2, <3>4, <4>7 DEF Before, OrderInv, Hearing
        <4> QED BY <4>6, <4>8
      <3> QED BY <3>5, <3>7 DEF Conv
    <2>3. CASE p \notin err
      <3>1. p \in Takers(s) /\ pc[p] <= Replies(mech) /\ pc'[p] <= Replies(mech)
        BY <1>3, <1>7, <2>1, <2>3 DEF Takers
      <3>2. /\ Takers(s) = {p} /\ Box(s, "s2c") = <<>> /\ Box(s, "c2s") = <<>>
            /\ pc[s] = Greets(mech) + 1 /\ fd[s]["mem"] = fd[p]["mem"]
        BY <1>2, <3>1, Taken
      <3>3. Takers(s)' = {p}
        <4>1. pc'[p] > Hears(mech) /\ pc[p] > Hears(mech)
          BY <1>3, <2>1
        <4>2. Takers(s)' = Takers(s)
          BY <1>2, <1>4, <4>1 DEF Takers, Procs
        <4> QED BY <3>2, <4>2
      <3>4. Box(s, "s2c")' = <<>> /\ Box(s, "c2s")' = <<>>
        BY <1>2, <3>2 DEF Box
      <3>5. ~(pc'[s] <= Greets(mech)) /\ pc'[s] = Greets(mech) + 1
        BY <1>3, <2>1, <3>2
      <3>6. Talk(s)'
        BY <1>2, <1>7, <3>1, <3>3, <3>4, <3>5 DEF Talk
      <3>7. Written(s)'
        <4>1. pc'[p] > Hears(mech) + 2 /\ ~(pc'[p] <= Hears(mech) + 2)
          BY <1>3, <2>1
        <4>2. text'[fd'[s]["mem"]] = p
          BY <1>2, <1>5, <3>2
        <4> QED BY <1>2, <3>3, <4>1, <4>2 DEF Written
      <3>8. Hearing(s)'
        <4>1. Told(p) /\ (Told(s)' <=> Told(s))
          BY <1>2, <1>3, <2>1 DEF Told
        <4>2. heard[p] = s
          BY <3>1, <4>1 DEF Before, OrderInv, Hearing
        <4>3. IF Told(s) THEN heard[s] \in {p} ELSE heard[s] = Nobody
          BY <3>2 DEF Before, OrderInv, Hearing
        <4> QED BY <1>2, <3>3, <4>1, <4>2, <4>3 DEF Hearing
      <3> QED BY <3>6, <3>7, <3>8 DEF Conv
    <2> QED BY <2>2, <2>3
  <1> QED BY <1>2, <1>5, <1>6, <1>7, ObjectStep

\* The server reads the reply, the one client the greeting.
LEMMA ReadStep ==
    ASSUME Before, NEW p \in Procs, Read(p) PROVE OrderInv'
  <1>1. AlwaysInv /\ Types /\ Progress /\ Opened /\ Act(p)
    BY DEF Before, AlwaysInv, Act, Call
  <1>2. /\ status[p] = "run" /\ Step(p) /\ mech \in Memory /\ "mem" \in Used(mech)
        /\ fd[p]["mem"] \in Generations /\ Has(p, "mem")
        /\ UNCHANGED <<mech, link, gens, fd, box, err>>
        /\ pc[p] = (IF p \in Servers THEN Greets(mech) + 2 ELSE Hears(mech) + 1)
        /\ text' = text /\ heard' = [heard EXCEPT ![p] = text[fd[p]["mem"]]]
    BY <1>1, MemoryDoes
  <1>3. /\ pc'[p] = pc[p] + 1 /\ pc[p] \in Nat /\ Greets(mech) \in Nat /\ Hears(mech) \in Nat
        /\ Replies(mech) \in Nat /\ Hears(mech) + 2 < Replies(mech) /\ pc \in [Procs -> Nat]
        /\ heard \in [Procs -> Procs \cup {Nobody}] /\ {"s2c", "c2s"} \subseteq Used(mech)
    BY <1>1, <1>2, Numbers DEF Step, Types
  <1>4. \A q \in Procs : q # p => pc'[q] = pc[q] /\ heard'[q] = heard[q]
    BY <1>3, <1>2 DEF Step
  <1>5. heard'[p] = text[fd[p]["mem"]]
    BY <1>2, <1>3
  <1>6. Told(p)'
    <2>1. CASE p \in Servers
      BY <1>2, <1>3, <2>1 DEF Told
    <2>2. CASE p \notin Servers
      BY <1>2, <1>3, <2>2 DEF Told
    <2> QED BY <2>1, <2>2
  <1>7. ASSUME p \in Servers PROVE Conv(p)'
    <2>1. /\ pc[p] = Greets(mech) + 2 /\ pc'[p] = Greets(mech) + 3 /\ ~(pc[p] <= Greets(mech))
          /\ pc[p] > Greets(mech) /\ pc[p] # Greets(mech) + 1 /\ pc'[p] # Greets(mech) + 1
          /\ ~(pc'[p] <= Greets(mech)) /\ ~(pc'[p] <= Greets(mech) + 2) /\ Greets(mech) <= pc[p]
          /\ pc[p] <= Greets(mech) + 2
      BY <1>2, <1>3, <1>7
    <2>2. PICK c \in Clients :
             /\ Takers(p) = {c} /\ Box(p, "s2c") = <<>>
             /\ ~(pc[c] <= Replies(mech)) /\ Box(p, "c2s") = <<>>
      BY <2>1, <1>7 DEF Before, OrderInv, Talk
    <2>3. c # p /\ pc'[c] = pc[c] /\ heard'[c] = heard[c] /\ pc[c] \in Nat
      BY <1>1, <1>4, <1>7, ExchangeProcs, Numbers DEF Procs
    <2>4. Takers(p)' = {c}
      <3>1. Takers(p)' = Takers(p)
        BY <1>2, <1>4, <1>7, ExchangeProcs DEF Takers, Procs
      <3> QED BY <2>2, <3>1
    <2>5. Box(p, "s2c")' = <<>> /\ Box(p, "c2s")' = <<>>
      BY <1>2, <2>2 DEF Box
    <2>6. Talk(p)'
      BY <1>2, <2>1, <2>2, <2>3, <2>4, <2>5 DEF Talk
    <2>7. Written(p)'
      BY <1>2, <2>1 DEF Written
    <2>8. text[fd[p]["mem"]] = c
      <3>1. pc[c] > Hears(mech) + 2
        BY <1>3, <2>2, <2>3
      <3> QED BY <1>2, <1>7, <2>1, <2>2, <3>1 DEF Before, OrderInv, Written
    <2>9. Hearing(p)'
      <3>1. Told(c)' => Told(c)
        BY <1>2, <2>3 DEF Told
      <3>2. Told(c) => heard[c] = p
        BY <1>7, <2>2 DEF Before, OrderInv, Hearing
      <3> QED BY <1>5, <1>6, <2>3, <2>4, <2>8, <3>1, <3>2 DEF Hearing
    <2> QED BY <2>6, <2>7, <2>9 DEF Conv
  <1>8. ASSUME p \in Clients, NEW s \in Servers, Has(s, "s2c"), fd[s]["s2c"] = fd[p]["s2c"]
        PROVE  Conv(s)'
    <2>1. /\ p \notin Servers /\ s # p /\ pc[p] = Hears(mech) + 1 /\ pc'[p] = Hears(mech) + 2
          /\ pc'[s] = pc[s] /\ heard'[s] = heard[s]
      BY <1>2, <1>3, <1>4, <1>8, ExchangeProcs DEF Procs
    <2>2. CASE p \in err
      <3>1. p \notin Takers(s) /\ p \notin Takers(s)'
        BY <1>2, <2>2 DEF Takers
      <3> QED BY <1>1, <1>2, <2>1, <3>1, OthersKept DEF Before, OrderInv, Conv
    <2>3. CASE p \notin err
      <3>1. p \in Takers(s) /\ pc[p] <= Replies(mech) /\ pc'[p] <= Replies(mech)
        BY <1>3, <1>8, <2>1, <2>3 DEF Takers
      <3>2. /\ Takers(s) = {p} /\ Box(s, "s2c") = <<>> /\ Box(s, "c2s") = <<>>
            /\ pc[s] = Greets(mech) + 1 /\ fd[s]["mem"] = fd[p]["mem"]
        BY <1>2, <3>1, Taken
      <3>3. Takers(s)' = {p}
        <4>1. pc'[p] > Hears(mech) /\ pc[p] > Hears(mech)
          BY <1>3, <2>1
        <4>2. Takers(s)' = Takers(s)
          BY <1>2, <1>4, <4>1 DEF Takers, Procs
        <4> QED BY <3>2, <4>2
      <3>4. Box(s, "s2c")' = <<>> /\ Box(s, "c2s")' = <<>>
        BY <1>2, <3>2 DEF Box
      <3>5. ~(pc'[s] <= Greets(mech)) /\ pc'[s] = Greets(mech) + 1
        BY <1>3, <2>1, <3>2
      <3>6. Talk(s)'
        BY <1>2, <1>8, <3>1, <3>3, <3>4, <3>5 DEF Talk
      <3>7. text[fd[s]["mem"]] = s
        <4>1. /\ pc[p] <= Hears(mech) + 2 /\ Greets(mech) <= pc[s] /\ pc[s] <= Greets(mech) + 2
          BY <1>3, <2>1, <3>2
        <4> QED BY <1>2, <3>2, <4>1 DEF Before, OrderInv, Written
      <3>8. Written(s)'
        <4>1. ~(pc'[p] > Hears(mech) + 2)
          BY <1>3, <2>1
        <4> QED BY <1>2, <3>3, <3>7, <4>1 DEF Written
      <3>9. Hearing(s)'
        <4>1. Told(s)' <=> Told(s)
          BY <1>2, <2>1 DEF Told
        <4>2. heard'[p] = s
          BY <1>5, <3>2, <3>7
        <4> QED BY <2>1, <3>2, <3>3, <4>1, <4>2 DEF Before, OrderInv, Hearing
      <3> QED BY <3>6, <3>8, <3>9 DEF Conv
    <2> QED BY <2>2, <2>3
  <1> QED BY <1>2, <1>6, <1>7, <1>8, ObjectStep

\* The greeting goes into an empty queue, and so does the one reply.
LEMMA SendStep ==
    ASSUME Before, NEW p \in Procs, Send(p) PROVE OrderInv'
  <1>1. AlwaysInv /\ Types /\ Progress /\ Opened /\ Act(p)
    BY DEF Before, AlwaysInv, Act, Call
  <1> DEFINE n == Out(p)
  <1>2. /\ status[p] = "run" /\ Step(p) /\ fd[p][n] \in Generations /\ Has(p, n) /\ n \in Used(mech)
        /\ pc[p] = (IF p \in Servers THEN Greets(mech) ELSE Replies(mech))
        /\ UNCHANGED <<mech, link, gens, fd, text, heard, err>>
        /\ (mech \in SysV => link[n] = fd[p][n])
        /\ box' = [box EXCEPT ![n][fd[p][n]] = Append(@, p)] /\ n \in Names
    BY <1>1, SendDoes DEF Out, Names
  <1>3. /\ pc'[p] = pc[p] + 1 /\ pc[p] \in Nat /\ Greets(mech) \in Nat /\ Hears(mech) \in Nat
        /\ Replies(mech) \in Nat /\ Hears(mech) < Replies(mech) /\ pc \in [Procs -> Nat]
        /\ box \in [Names -> [Generations -> Seq(Procs)]]
        /\ {"s2c", "c2s"} \subseteq Used(mech) /\ Used(mech) \subseteq Names
        /\ mech \in Memory => Hears(mech) + 2 < Replies(mech)
    BY <1>1, <1>2, Numbers, Places DEF Step, Types
  <1>4. \A q \in Procs : q # p => pc'[q] = pc[q]
    BY <1>3, <1>2 DEF Step
  <1>5. \A k \in Names, g \in Generations :
           box'[k][g] = IF k = n /\ g = fd[p][n] THEN Append(box[n][fd[p][n]], p) ELSE box[k][g]
    BY <1>2, <1>3
  <1>6. Append(<<>>, p) = <<p>>
    OBVIOUS
  <1>7. ASSUME p \in Servers PROVE Conv(p)'
    <2>1. /\ n = "s2c" /\ pc[p] = Greets(mech) /\ pc'[p] = Greets(mech) + 1
          /\ pc[p] <= Greets(mech) /\ ~(pc'[p] <= Greets(mech)) /\ pc'[p] > Greets(mech)
      BY <1>2, <1>3, <1>7 DEF Out
    <2>2. Has(p, "s2c") /\ Has(p, "c2s") /\ fd[p]["c2s"] \in Generations
      BY <1>1, <1>3, <2>1, Numbers, InUse
    <2>3. Takers(p) = {} /\ Box(p, "s2c") = <<>> /\ Box(p, "c2s") = <<>>
      BY <1>7, <2>1, <2>2 DEF Before, OrderInv, Talk
    <2>4. Takers(p)' = {}
      BY <1>2, <1>4, <1>7, <2>3, ExchangeProcs DEF Takers, Procs
    <2>5. Box(p, "s2c")' = <<p>> /\ Box(p, "c2s")' = <<>>
      BY <1>2, <1>3, <1>5, <1>6, <2>1, <2>2, <2>3 DEF Box
    <2>6. Talk(p)'
      BY <1>2, <2>1, <2>4, <2>5 DEF Talk
    <2>7. Written(p)'
      <3>1. mech \in Memory => text[fd[p]["mem"]] = p
        <4>1. pc[p] <= Greets(mech) + 2 /\ Greets(mech) <= pc[p]
          BY <1>3, <2>1
        <4> QED BY <1>7, <2>3, <4>1 DEF Before, OrderInv, Written
      <3> QED BY <1>2, <2>4, <3>1 DEF Written
    <2>8. ~Told(p) /\ ~Told(p)'
      BY <1>2, <1>3, <1>7, <2>1 DEF Told
    <2>9. Hearing(p)'
      BY <1>2, <1>7, <2>4, <2>8 DEF Before, OrderInv, Hearing
    <2> QED BY <2>6, <2>7, <2>9 DEF Conv
  <1>8. ASSUME p \in Clients, NEW s \in Servers, Has(s, "s2c"), fd[s]["s2c"] = fd[p]["s2c"]
        PROVE  Conv(s)'
    <2>1. /\ p \notin Servers /\ s # p /\ n = "c2s" /\ pc[p] = Replies(mech)
          /\ pc'[p] = Replies(mech) + 1 /\ pc'[s] = pc[s]
      BY <1>2, <1>3, <1>4, <1>8, ExchangeProcs DEF Procs, Out
    <2>2. p \notin err
      <3> SUFFICES ASSUME p \in err PROVE FALSE
        OBVIOUS
      <3>1. status[s] = "done" /\ mech \in SysV
        BY <1>8 DEF Before, OrderInv, Errors
      <3>2. PICK over \in Nat : Runs(over)
        BY DEF Before, OrderInv
      <3>3. Has(s, "c2s") /\ fd[s]["c2s"] = fd[p]["c2s"] /\ Has(p, "c2s")
        <4>1. End(s) = ServerEnd(mech) /\ pc[s] = ServerEnd(mech) + 1
          BY <1>1, <3>1 DEF Progress, Procs, End
        <4>2. Has(s, "c2s")
          BY <1>1, <1>3, <4>1, Numbers DEF Procs
        <4>3. Has(p, "c2s") /\ Has(p, "s2c")
          BY <1>1, <1>3, <2>1, Numbers DEF Procs
        <4> QED BY <1>3, <1>8, <4>2, <4>3, OwnAll
      <3>4. fd[s]["c2s"] <= over /\ (link["c2s"] = over + 1 \/ link["c2s"] = 0)
        BY <1>3, <3>1, <3>2 DEF Runs
      <3>5. fd[s]["c2s"] # 0 /\ fd[s]["c2s"] \in Nat
        BY <1>1, <1>3, <3>3, HasIs DEF Procs, Types
      <3> QED BY <1>2, <2>1, <3>1, <3>2, <3>3, <3>4, <3>5
    <2>3. p \in Takers(s) /\ pc[p] <= Replies(mech) /\ ~(pc'[p] <= Replies(mech))
      BY <1>3, <1>8, <2>1, <2>2 DEF Takers
    <2>4. /\ Takers(s) = {p} /\ Box(s, "s2c") = <<>> /\ Box(s, "c2s") = <<>>
          /\ pc[s] = Greets(mech) + 1 /\ \A k \in Used(mech) : Has(s, k) /\ fd[s][k] = fd[p][k]
      BY <1>2, <2>3, Taken
    <2>5. Takers(s)' = {p}
      <3>1. pc'[p] > Hears(mech) /\ pc[p] > Hears(mech)
        BY <1>3, <2>1
      <3>2. Takers(s)' = Takers(s)
        BY <1>2, <1>4, <3>1 DEF Takers, Procs
      <3> QED BY <2>4, <3>2
    <2>6. fd[s]["s2c"] \in Generations /\ fd[s]["c2s"] \in Generations
      BY <1>1, <1>3, <2>4, InUse DEF Procs
    <2>7. Box(s, "s2c")' = <<>> /\ Box(s, "c2s")' = <<p>>
      BY <1>2, <1>3, <1>5, <1>6, <2>1, <2>4, <2>6 DEF Box
    <2>8. ~(pc'[s] <= Greets(mech)) /\ pc'[s] = Greets(mech) + 1
      BY <1>3, <2>1, <2>4
    <2>9. Talk(s)'
      BY <1>2, <1>8, <2>3, <2>5, <2>7, <2>8 DEF Talk
    <2>10. Written(s)'
      <3>1. CASE mech \in Memory
        <4>1. /\ pc[p] > Hears(mech) + 2 /\ Greets(mech) <= pc[s] /\ pc[s] <= Greets(mech) + 2
              /\ pc'[p] > Hears(mech) + 2 /\ ~(pc'[p] <= Hears(mech) + 2)
          BY <1>3, <2>1, <2>4, <3>1
        <4>2. text[fd[s]["mem"]] = p
          BY <2>4, <3>1, <4>1 DEF Before, OrderInv, Written
        <4> QED BY <1>2, <2>5, <4>1, <4>2 DEF Written
      <3>2. CASE mech \notin Memory
        BY <1>2, <3>2 DEF Written
      <3> QED BY <3>1, <3>2
    <2>11. Hearing(s)'
      <3>1. Told(p) /\ (Told(s)' <=> Told(s))
        BY <1>2, <1>3, <2>1 DEF Told
      <3>2. heard[p] = s
        BY <2>3, <3>1 DEF Before, OrderInv, Hearing
      <3> QED BY <1>2, <2>4, <2>5, <3>1, <3>2 DEF Before, OrderInv, Hearing
    <2> QED BY <2>9, <2>10, <2>11 DEF Conv
  <1>9. \A k \in Used(mech), g \in Generations : g # fd[p][k] => box'[k][g] = box[k][g]
    BY <1>3, <1>5
  <1> QED BY <1>2, <1>7, <1>8, <1>9, ObjectStep

\* The server takes the reply of the one client, a client the greeting of its
\* server, which nobody else has taken.
LEMMA ReceiveStep ==
    ASSUME Before, NEW p \in Procs, Receive(p) PROVE OrderInv'
  <1>1. AlwaysInv /\ Types /\ Progress /\ Opened /\ Act(p)
    BY DEF Before, AlwaysInv, Act, Call
  <1> DEFINE n == In(p)
             b == box[n][fd[p][n]]
  <1>2. /\ status[p] = "run" /\ Step(p) /\ fd[p][n] \in Generations /\ Has(p, n) /\ n \in Used(mech)
        /\ pc[p] = (IF p \in Servers THEN Greets(mech) + 1 ELSE Hears(mech))
        /\ UNCHANGED <<mech, link, gens, fd, text, err>> /\ b # <<>>
        /\ box' = [box EXCEPT ![n][fd[p][n]] = Tail(@)]
        /\ heard' = IF mech \in Memory THEN heard ELSE [heard EXCEPT ![p] = Head(b)]
        /\ n \in Names
    BY <1>1, ReceiveDoes DEF In, Names
  <1>3. /\ pc'[p] = pc[p] + 1 /\ pc[p] \in Nat /\ Greets(mech) \in Nat /\ Hears(mech) \in Nat
        /\ Replies(mech) \in Nat /\ Hears(mech) < Replies(mech) /\ pc \in [Procs -> Nat]
        /\ box \in [Names -> [Generations -> Seq(Procs)]]
        /\ heard \in [Procs -> Procs \cup {Nobody}]
        /\ {"s2c", "c2s"} \subseteq Used(mech) /\ Used(mech) \subseteq Names
        /\ mech \in Memory => Hears(mech) + 2 < Replies(mech)
    BY <1>1, <1>2, Numbers, Places DEF Step, Types
  <1>4. \A q \in Procs : q # p => pc'[q] = pc[q] /\ heard'[q] = heard[q]
    BY <1>3, <1>2 DEF Step
  <1>5. \A k \in Names, g \in Generations :
           box'[k][g] = IF k = n /\ g = fd[p][n] THEN Tail(b) ELSE box[k][g]
    BY <1>2, <1>3
  <1>6. heard'[p] = IF mech \in Memory THEN heard[p] ELSE Head(b)
    BY <1>2, <1>3
  <1>7. \A x : Tail(<<x>>) = <<>> /\ Head(<<x>>) = x
    OBVIOUS
  <1>8. /\ Told(p)' <=> mech \notin Memory
        /\ ~Told(p)
    <2>1. CASE p \in Servers
      BY <1>2, <1>3, <2>1 DEF Told
    <2>2. CASE p \notin Servers
      BY <1>2, <1>3, <2>2 DEF Told
    <2> QED BY <2>1, <2>2
  <1>9. ASSUME p \in Servers PROVE Conv(p)'
    <2>1. /\ n = "c2s" /\ pc[p] = Greets(mech) + 1 /\ pc'[p] = Greets(mech) + 2
          /\ pc[p] > Greets(mech) /\ ~(pc'[p] <= Greets(mech)) /\ pc'[p] # Greets(mech) + 1
          /\ Greets(mech) <= pc[p] /\ pc[p] <= Greets(mech) + 2
      BY <1>2, <1>3, <1>9 DEF In
    <2>2. Box(p, "c2s") = b /\ b # <<>>
      BY <1>2, <2>1 DEF Box
    <2>3. PICK c \in Clients :
             /\ Takers(p) = {c} /\ Box(p, "s2c") = <<>>
             /\ ~(pc[c] <= Replies(mech)) /\ Box(p, "c2s") = <<c>>
      BY <1>9, <2>1, <2>2 DEF Before, OrderInv, Talk
    <2>4. c # p /\ pc'[c] = pc[c] /\ heard'[c] = heard[c] /\ pc[c] \in Nat
      BY <1>1, <1>4, <1>9, ExchangeProcs, Numbers DEF Procs
    <2>5. Takers(p)' = {c}
      <3>1. Takers(p)' = Takers(p)
        BY <1>2, <1>4, <1>9, ExchangeProcs DEF Takers, Procs
      <3> QED BY <2>3, <3>1
    <2>6. Box(p, "s2c")' = <<>> /\ Box(p, "c2s")' = <<>>
      <3>1. fd[p]["s2c"] \in Generations
        BY <1>1, <1>3, <2>1, Numbers, InUse
      <3> QED BY <1>2, <1>3, <1>5, <1>7, <2>1, <2>2, <2>3, <3>1 DEF Box
    <2>7. Talk(p)'
      BY <1>2, <2>1, <2>3, <2>4, <2>5, <2>6 DEF Talk
    <2>8. Written(p)'
      BY <1>2, <1>9, <2>1, <2>3, <2>4, <2>5 DEF Before, OrderInv, Written
    <2>9. Hearing(p)'
      <3>1. Told(c)' <=> Told(c)
        BY <1>2, <2>4 DEF Told
      <3>2. Told(c) => heard[c] = p
        BY <1>9, <2>3 DEF Before, OrderInv, Hearing
      <3>3. IF Told(p)' THEN heard'[p] = c ELSE heard'[p] = Nobody
        <4>1. heard[p] = Nobody
          BY <1>8, <1>9 DEF Before, OrderInv, Hearing
        <4> QED BY <1>6, <1>7, <1>8, <2>2, <2>3, <4>1
      <3> QED BY <2>4, <2>5, <3>1, <3>2, <3>3 DEF Hearing
    <2> QED BY <2>7, <2>8, <2>9 DEF Conv
  <1>10. ASSUME p \in Clients, NEW s \in Servers, Has(s, "s2c"), fd[s]["s2c"] = fd[p]["s2c"]
         PROVE  Conv(s)'
    <2>1. /\ p \notin Servers /\ s # p /\ n = "s2c" /\ pc[p] = Hears(mech)
          /\ pc'[p] = Hears(mech) + 1 /\ pc'[s] = pc[s] /\ heard'[s] = heard[s] /\ pc[s] \in Nat
      BY <1>1, <1>2, <1>3, <1>4, <1>10, ExchangeProcs, Numbers DEF Procs, In
    <2>2. p \notin err
      BY <1>3, <2>1 DEF Before, OrderInv, Errors
    <2>3. Box(s, "s2c") = b /\ b # <<>>
      BY <1>2, <1>10, <2>1 DEF Box
    <2>4. Talk(s) /\ pc[s] > Greets(mech)
      BY <1>3, <1>10, <2>1, <2>3 DEF Before, OrderInv, Talk
    <2>5. /\ pc[s] = Greets(mech) + 1 /\ Takers(s) = {}
          /\ Box(s, "s2c") = <<s>> /\ Box(s, "c2s") = <<>>
      BY <2>3, <2>4 DEF Talk
    <2>6. Takers(s)' = {p}
      <3>1. pc'[p] > Hears(mech)
        BY <1>3, <2>1
      <3> QED BY <1>2, <1>4, <1>10, <2>2, <2>5, <3>1 DEF Takers, Procs
    <2>7. Box(s, "s2c")' = <<>> /\ Box(s, "c2s")' = <<>>
      <3>1. Has(s, "c2s")
        BY <1>1, <1>3, <2>4, <2>1, Numbers DEF Procs
      <3>2. fd[s]["s2c"] \in Generations /\ fd[s]["c2s"] \in Generations
        BY <1>1, <1>3, <1>10, <3>1, InUse DEF Procs
      <3> QED BY <1>2, <1>3, <1>5, <1>7, <1>10, <2>1, <2>3, <2>5, <3>2 DEF Box
    <2>8. Talk(s)'
      <3>1. pc'[p] <= Replies(mech) /\ ~(pc'[s] <= Greets(mech)) /\ pc'[s] = Greets(mech) + 1
        BY <1>3, <2>1, <2>5
      <3> QED BY <1>2, <1>10, <2>6, <2>7, <3>1 DEF Talk
    <2>9. Written(s)'
      <3>1. mech \in Memory => text[fd[s]["mem"]] = s
        <4>1. Greets(mech) <= pc[s] /\ pc[s] <= Greets(mech) + 2
          BY <1>3, <2>5
        <4> QED BY <2>5, <4>1 DEF Before, OrderInv, Written
      <3>2. ~(pc'[p] > Hears(mech) + 2)
        BY <1>3, <2>1
      <3> QED BY <1>2, <2>6, <3>1, <3>2 DEF Written
    <2>10. Hearing(s)'
      <3>1. ~Told(s) /\ ~Told(s)'
        BY <1>2, <1>3, <2>1, <2>5 DEF Told
      <3>2. Told(p)' => heard'[p] = s
        BY <1>6, <1>7, <1>8, <2>3, <2>5
      <3> QED BY <2>1, <2>6, <3>1, <3>2 DEF Before, OrderInv, Hearing
    <2> QED BY <2>8, <2>9, <2>10 DEF Conv
  <1>11. \A k \in Used(mech), g \in Generations : g # fd[p][k] => box'[k][g] = box[k][g]
    BY <1>3, <1>5
  <1>12. heard'[p] = heard[p] \/ (p \in Clients => Told(p)')
    BY <1>6, <1>8
  <1> QED BY <1>2, <1>9, <1>10, <1>11, <1>12, ObjectStep

\* A call fails in a client, and when its server is through.
LEMMA FailStep ==
    ASSUME Before, NEW p \in Procs, Fail(p) PROVE OrderInv'
  <1>1. AlwaysInv /\ Types /\ Progress /\ Opened /\ Act(p)
    BY DEF Before, AlwaysInv, Act, Call
  <1>2. /\ status[p] = "run" /\ At(p).op \in {"send", "receive"}
        /\ UNCHANGED <<mech, objects, box, text, heard>>
        /\ IF mech \in Memory THEN Advance(p) /\ err' = err \cup {p} ELSE Exit(p) /\ err' = err
    BY DEF Fail, Calls, At
  <1>3. PICK n \in {"s2c", "c2s"} :
           n = (IF At(p).op = "send" THEN Out(p) ELSE In(p)) /\ mech \in SysV /\ link[n] # fd[p][n]
    <2>1. On(p) = {IF At(p).op = "send" THEN Out(p) ELSE In(p)}
      BY <1>1, <1>2, TalkAt
    <2>2. \E n \in On(p) : mech \in SysV /\ link[n] # fd[p][n]
      BY DEF Fail, Gone, Object
    <2> QED BY <2>1, <2>2 DEF Out, In
  <1>4. /\ {"s2c", "c2s"} \subseteq Used(mech) /\ Greets(mech) \in Nat /\ Hears(mech) \in Nat
        /\ Replies(mech) \in Nat /\ Hears(mech) < Replies(mech) /\ pc[p] \in Nat
        /\ \A k \in {"s2c", "c2s"} : Has(p, k)
        /\ p \in Servers => pc[p] = Greets(mech) \/ pc[p] = Greets(mech) + 1
        /\ p \in Clients => pc[p] = Hears(mech) \/ pc[p] = Replies(mech)
    <2>1. /\ {"s2c", "c2s"} \subseteq Used(mech) /\ Greets(mech) \in Nat /\ Hears(mech) \in Nat
          /\ Replies(mech) \in Nat /\ Hears(mech) < Replies(mech) /\ pc[p] \in Nat
      BY <1>1, Numbers
    <2>2. /\ p \in Servers => pc[p] = Greets(mech) \/ pc[p] = Greets(mech) + 1
          /\ p \in Clients => pc[p] = Hears(mech) \/ pc[p] = Replies(mech)
      BY <1>1, <1>2, TalkAt, ExchangeProcs
    <2>3. pc[p] >= Greets(mech) \/ pc[p] >= Hears(mech)
      BY <2>1, <2>2 DEF Procs
    <2> QED BY <1>1, <2>1, <2>2, <2>3, Numbers
  <1>5. PICK over \in Nat : Runs(over)
    BY DEF Before, OrderInv
  \* A server that runs has the objects that are linked.
  <1>6. ASSUME NEW s \in Servers, status[s] = "run", NEW k \in {"s2c", "c2s"}, Has(s, k),
               pc[s] <= GoneAt(mech, k)
        PROVE  fd[s][k] = link[k]
    BY <1>4, <1>5, <1>6 DEF Runs
  <1>7. p \in Clients
    <2> SUFFICES ASSUME p \in Servers PROVE FALSE
      BY DEF Procs
    <2>1. pc[p] < GoneAt(mech, n)
      BY <1>1, <1>2, <1>4, ServerMid
    <2>2. pc[p] <= GoneAt(mech, n)
      BY <1>1, <1>4, <2>1, Numbers
    <2> QED BY <1>2, <1>3, <1>4, <1>6, <2>2
  <1>8. PICK s \in Servers :
           /\ fd[s]["s2c"] = fd[p]["s2c"] /\ Has(s, "s2c")
           /\ \A k \in Used(mech) : Has(s, k) => fd[s][k] = fd[p][k]
           /\ \A t \in Servers, k \in Used(mech) : t # s /\ Has(t, k) => fd[t][k] # fd[p][k]
    <2>1. pc[p] >= Hears(mech)
      BY <1>4, <1>7
    <2> QED BY <1>7, <2>1, MyServer
  <1>9. s # p
    BY <1>7, ExchangeProcs
  <1>10. CASE mech \notin Memory
    <2>1. /\ status' = [status EXCEPT ![p] = "failed"] /\ pc' = pc /\ err' = err
          /\ mech' = mech /\ fd' = fd /\ box' = box /\ text' = text /\ heard' = heard
      BY <1>2, <1>10 DEF Exit, objects
    <2>2. \A t \in Servers : status'[t] = status[t]
      BY <1>1, <1>7, <2>1, ExchangeProcs DEF Types, Procs
    <2>3. Runs(over)'
      BY <1>5, <1>7, <2>1, RunsMid
    <2> QED BY <2>1, <2>2, <2>3, StillKept DEF OrderInv, Conv
  <1>11. CASE mech \in Memory
    <2>1. /\ Step(p) /\ err' = err \cup {p}
          /\ mech' = mech /\ fd' = fd /\ box' = box /\ text' = text /\ heard' = heard
      BY <1>1, <1>2, <1>11, CallAt DEF objects
    <2>2. /\ pc'[p] = pc[p] + 1 /\ \A q \in Procs : q # p => pc'[q] = pc[q]
          /\ \A t \in Servers : status'[t] = status[t]
      BY <1>1, <1>7, <2>1, ExchangeProcs DEF Step, Types, Procs
    <2>3. p \notin Takers(s)
      <3> SUFFICES ASSUME p \in Takers(s) PROVE FALSE
        OBVIOUS
      <3>1. pc[p] = Replies(mech) /\ pc[p] <= Replies(mech)
        BY <1>4, <1>7 DEF Takers
      <3>2. pc[s] = Greets(mech) + 1 /\ \A k \in Used(mech) : Has(s, k) /\ fd[s][k] = fd[p][k]
        BY <3>1, Taken
      <3>3. status[s] = "run"
        <4>1. status[s] \in {"idle", "run", "done"}
          BY <1>5 DEF Runs
        <4>2. /\ status[s] = "done" => pc[s] = ServerEnd(mech) + 1
              /\ status[s] = "idle" => pc[s] = 1
          BY <1>1 DEF Progress, End, Procs
        <4>3. Greets(mech) + 1 # ServerEnd(mech) + 1 /\ Greets(mech) + 1 # 1
          <5>1. "s2c" \in Used(mech) /\ mech \in Mechs
            BY <1>1, Numbers
          <5>2. 1 <= MadeAt(mech, "s2c") /\ MadeAt(mech, "s2c") < Greets(mech) /\ MadeAt(mech, "s2c") \in Nat
            BY <5>1, Places
          <5> QED BY <1>1, <1>4, <5>2, Numbers
        <4> QED BY <3>2, <4>1, <4>2, <4>3
      <3>4. pc[s] <= GoneAt(mech, n)
        BY <1>1, <1>4, <3>2, Numbers
      <3> QED BY <1>3, <1>4, <1>6, <3>2, <3>3, <3>4
    <2>4. p \in err \/ pc[p] = Hears(mech)
      BY <1>4, <1>7, <1>8, <2>3 DEF Takers
    <2>5. Errors'
      <3> SUFFICES ASSUME NEW q \in err \cup {p}
                   PROVE  /\ q \in Clients /\ pc'[q] > Hears(mech) /\ mech \in SysV
                          /\ \A t \in Servers : fd[t]["s2c"] = fd[q]["s2c"] => status[t] = "done"
        BY <2>1, <2>2 DEF Errors
      <3>1. CASE q \in err
        <4>1. /\ q \in Clients /\ pc[q] > Hears(mech) /\ mech \in SysV
              /\ \A t \in Servers : fd[t]["s2c"] = fd[q]["s2c"] => status[t] = "done"
          BY <3>1 DEF Before, OrderInv, Errors
        <4>2. pc'[q] > Hears(mech)
          BY <1>4, <2>2, <4>1 DEF Procs
        <4> QED BY <4>1, <4>2
      <3>2. CASE q = p /\ p \notin err
        <4>1. pc[p] = Hears(mech) /\ pc'[p] > Hears(mech) /\ At(p).op = "receive" /\ n = "s2c"
          <5>1. pc[p] = Hears(mech)
            BY <2>4, <3>2
          <5>2. At(p).op # "send"
            BY <1>1, <1>2, <1>4, <1>7, <5>1, TalkAt, ExchangeProcs
          <5> QED BY <1>2, <1>3, <1>4, <1>7, <2>2, <5>1, <5>2, ExchangeProcs DEF In
        <4>2. ASSUME NEW t \in Servers, fd[t]["s2c"] = fd[p]["s2c"] PROVE status[t] = "done"
          <5>1. t = s
            <6>1. Has(t, "s2c")
              BY <1>1, <1>4, <4>2, HasIs DEF Procs
            <6> QED BY <1>4, <1>8, <4>2, <6>1
          <5>2. status[s] # "run"
            <6> SUFFICES ASSUME status[s] = "run" PROVE FALSE
              OBVIOUS
            <6>1. ~(pc[s] <= GoneAt(mech, "s2c"))
              BY <1>3, <1>6, <1>8, <4>1
            <6>2. pc[s] <= ServerEnd(mech) /\ pc[s] \in Nat
              BY <1>1, CallAt DEF Procs, End
            <6>3. mech = "sshm"
              BY <1>3, <1>11 DEF SysV, Memory
            <6> QED BY <6>1, <6>2, <6>3 DEF GoneAt, ServerEnd
          <5>3. status[s] \in {"run", "done"}
            <6>1. status[s] \in {"idle", "run", "done"}
              BY <1>5 DEF Runs
            <6>2. status[s] # "idle"
              <7>1. status[s] = "idle" => pc[s] = 1
                BY <1>1 DEF Progress, Procs
              <7>2. 1 <= MadeAt(mech, "s2c") /\ MadeAt(mech, "s2c") \in Nat /\ pc[s] \in Nat
                BY <1>1, <1>4, Numbers, Places DEF Procs
              <7> QED BY <1>8, <7>1, <7>2 DEF Has
            <6> QED BY <6>1, <6>2
          <5> QED BY <5>1, <5>2, <5>3
        <4> QED BY <1>3, <1>7, <3>2, <4>1, <4>2
      <3> QED BY <3>1, <3>2
    <2>6. ASSUME NEW t \in Servers, Has(t, "s2c"), fd[t]["s2c"] = fd[p]["s2c"] PROVE Conv(t)'
      <3>1. t = s
        BY <1>4, <1>8, <2>6
      <3>2. p \notin Takers(s)'
        BY <2>1 DEF Takers
      <3> QED BY <1>1, <1>9, <2>1, <2>3, <3>1, <3>2, OthersKept DEF Before, OrderInv, Conv
    <2> QED BY <1>7, <2>1, <2>5, <2>6, ObjectStep, ExchangeProcs
  <1> QED BY <1>10, <1>11

----------------------------------------------------------------------------
(* The beginning and the end of a run.                                     *)

\* A server starts when no other runs.
LEMMA StartStep ==
    ASSUME Before, NEW p \in Procs, Start(p) PROVE OrderInv'
  <1>1. /\ mech' = mech /\ pc' = pc /\ fd' = fd /\ box' = box /\ text' = text /\ heard' = heard
        /\ err' = err /\ \A s \in Servers : status[s] = "done" => status'[s] = "done"
    BY DEF Start, objects, Before, AlwaysInv, Types, Procs
  <1>2. PICK over \in Nat : Runs(over)
    BY DEF Before, OrderInv
  <1>3. Runs(over)'
    BY <1>1, <1>2, RunsMid
  <1> QED BY <1>1, <1>3, StillKept DEF OrderInv, Conv

\* What a client opens belongs to the server that runs.
LEMMA OpenStep ==
    ASSUME Before, NEW p \in Procs, Open(p) PROVE OrderInv'
  <1>1. AlwaysInv /\ Types /\ Progress /\ Opened /\ Act(p)
    BY DEF Before, AlwaysInv, Act, Call
  <1>2. PICK over \in Nat : Runs(over)
    BY DEF Before, OrderInv
  <1>3. Runs(over)'
    <2>1. box' = box
      BY DEF Open
    <2> QED BY <1>2, <2>1, RunsMid
  <1>4. CASE Exit(p)
    <2>1. /\ mech' = mech /\ pc' = pc /\ fd' = fd /\ box' = box /\ text' = text /\ heard' = heard
          /\ err' = err /\ status' = [status EXCEPT ![p] = "failed"] /\ status[p] = "run"
      <3>1. pc' = pc /\ status' = [status EXCEPT ![p] = "failed"] /\ pc[p] \in Nat /\ pc \in [Procs -> Nat]
        BY <1>1, <1>4 DEF Exit, Types
      <3>2. ~Advance(p)
        BY <3>1 DEF Advance
      <3> QED BY <3>1, <3>2 DEF Open, Calls
    <2>2. \A s \in Servers : status[s] = "done" => status'[s] = "done"
      BY <1>1, <2>1 DEF Types, Procs
    <2> QED BY <1>3, <2>1, <2>2, StillKept DEF OrderInv, Conv
  <1>5. CASE ~Exit(p)
    <2>1. /\ p \in Clients /\ status[p] = "run" /\ Step(p) /\ mech' = mech
          /\ UNCHANGED <<link, gens, box, text, heard, err>>
          /\ Hears(mech) > pc[p]
          /\ \A n \in Used(mech) :
                IF MadeAt(mech, n) = pc[p] THEN link[n] # 0 /\ fd'[p][n] = link[n]
                ELSE fd'[p][n] = fd[p][n]
          /\ \A q \in Procs : q # p => fd'[q] = fd[q]
      BY <1>1, <1>5, OpenDoes
    <2>2. /\ pc'[p] = pc[p] + 1 /\ ~(pc[p] > Hears(mech)) /\ ~(pc'[p] > Hears(mech)) /\ p \notin Servers
      <3>1. pc'[p] = pc[p] + 1 /\ pc[p] \in Nat /\ Hears(mech) \in Nat
        BY <1>1, <2>1, Numbers DEF Step, Types
      <3> QED BY <2>1, <3>1, ExchangeProcs
    <2>3. OneEach'
      <3>1. \A s \in Servers : fd'[s] = fd[s]
        BY <2>1, <2>2 DEF Procs
      <3>2. ASSUME NEW c \in Clients, NEW n \in Used(mech), fd'[c][n] # 0
            PROVE  \E s \in Servers : fd[s][n] = fd'[c][n]
        <4>1. CASE fd'[c][n] = fd[c][n]
          BY <3>2, <4>1 DEF Before, OrderInv, OneEach
        <4>2. CASE fd'[c][n] # fd[c][n]
          <5>1. link[n] # 0 /\ fd'[c][n] = link[n]
            BY <2>1, <4>2 DEF Procs
          <5>2. PICK s \in Servers : /\ status[s] = "run" /\ Has(s, n) /\ link[n] = over + 1
            BY <1>2, <5>1 DEF Runs
          <5> QED BY <1>2, <5>1, <5>2 DEF Runs
        <4> QED BY <4>1, <4>2
      <3>3. \A s, t \in Servers : \A m, n \in Used(mech) :
               fd'[s][m] # 0 /\ fd'[t][n] # 0 => (fd'[s][m] = fd'[t][n] <=> s = t)
        BY <3>1 DEF Before, OrderInv, OneEach
      <3> QED BY <2>1, <3>1, <3>2, <3>3 DEF OneEach
    <2>4. Silence' /\ Errors'
      BY <1>1, <2>1, SilenceKept, ErrorsKept
    <2>5. ASSUME NEW s \in Servers PROVE Conv(s)'
      <3>1. p \notin Takers(s) /\ p \notin Takers(s)' /\ s # p
        BY <2>1, <2>2 DEF Takers
      <3> QED BY <1>1, <2>1, <3>1, OthersKept DEF Before, OrderInv, Conv
    <2> QED BY <1>3, <2>3, <2>4, <2>5 DEF OrderInv, Conv
  <1> QED BY <1>4, <1>5

\* A server makes new objects: all that was linked before has been removed.
LEMMA CreateStep ==
    ASSUME Before, AlwaysInv', NEW p \in Procs, Create(p) PROVE OrderInv'
  <1>1. AlwaysInv /\ Types /\ Progress /\ Opened /\ OneServer /\ Act(p)
    BY DEF Before, AlwaysInv, Act, Call
  <1>2. /\ p \in Servers /\ p \notin Clients /\ status[p] = "run" /\ Step(p) /\ mech' = mech
        /\ UNCHANGED <<box, text, heard, err>> /\ Greets(mech) > pc[p]
        /\ \A n \in Used(mech) :
              IF MadeAt(mech, n) = pc[p]
              THEN /\ gens'[n] = (IF link[n] = 0 THEN gens[n] + 1 ELSE gens[n])
                   /\ link'[n] = (IF link[n] = 0 THEN gens[n] + 1 ELSE link[n])
                   /\ fd'[p][n] = link'[n]
              ELSE gens'[n] = gens[n] /\ link'[n] = link[n] /\ fd'[p][n] = fd[p][n]
        /\ \A q \in Procs : q # p => fd'[q] = fd[q]
    BY <1>1, CreateDoes, ExchangeProcs
  <1>3. PICK over \in Nat : Runs(over)
    BY DEF Before, OrderInv
  <1>4. /\ pc'[p] = pc[p] + 1 /\ pc[p] \in Nat /\ Greets(mech) \in Nat /\ pc \in [Procs -> Nat]
        /\ pc[p] + 1 <= Greets(mech)
        /\ \A n \in Used(mech) : /\ pc[p] <= GoneAt(mech, n) /\ pc'[p] <= GoneAt(mech, n)
                                 /\ n \in Names /\ gens[n] \in Nat
        /\ status'[p] = "run"
        /\ \A q \in Procs : q # p => pc'[q] = pc[q] /\ status'[q] = status[q]
    <2>1. /\ pc'[p] = pc[p] + 1 /\ pc[p] \in Nat /\ Greets(mech) \in Nat /\ pc \in [Procs -> Nat]
          /\ ServerEnd(mech) \in Nat /\ Greets(mech) + 1 < ServerEnd(mech) /\ End(p) = ServerEnd(mech)
      BY <1>1, <1>2, Numbers DEF Step, Types, End
    <2>2. pc[p] + 1 <= Greets(mech) /\ pc[p] # End(p)
      BY <1>2, <2>1
    <2>3. \A n \in Used(mech) : /\ pc[p] <= GoneAt(mech, n) /\ pc'[p] <= GoneAt(mech, n)
                                /\ n \in Names /\ gens[n] \in Nat
      <3>1. \A n \in Used(mech) : GoneAt(mech, n) \in Nat /\ Greets(mech) + 1 < GoneAt(mech, n)
        BY <1>1, Numbers
      <3>2. \A n \in Used(mech) : n \in Names /\ gens[n] \in Nat
        BY <1>1, Places DEF Types
      <3> QED BY <2>1, <2>2, <3>1, <3>2
    <2>4. status'[p] = "run" /\ \A q \in Procs : q # p => pc'[q] = pc[q] /\ status'[q] = status[q]
      BY <1>1, <1>2, <2>2, Footprint DEF Step, Types, Call
    <2> QED BY <2>1, <2>2, <2>3, <2>4
  <1>5. \A s \in Servers : s # p => status[s] # "run" /\ status'[s] # "run"
    BY <1>1, <1>2, <1>4 DEF OneServer, Procs
  <1>6. ASSUME NEW n \in Used(mech)
        PROVE  /\ Has(p, n)' <=> Has(p, n) \/ MadeAt(mech, n) = pc[p]
               /\ \A q \in Procs : q # p => (Has(q, n)' <=> Has(q, n))
               /\ MadeAt(mech, n) = pc[p] => ~Has(p, n)
               /\ gens[n] = (IF Has(p, n) THEN over + 1 ELSE over)
               /\ link[n] = (IF Has(p, n) THEN over + 1 ELSE 0)
               /\ gens'[n] = (IF Has(p, n)' THEN over + 1 ELSE over)
               /\ link'[n] = (IF Has(p, n)' THEN over + 1 ELSE 0)
               /\ Has(p, n)' => fd'[p][n] = over + 1
    <2>1. \A q \in Procs : Has(q, n)' <=> Has(q, n) \/ (q = p /\ MadeAt(mech, n) = pc[p])
      BY <1>1, <1>2, HasNext
    <2>2. MadeAt(mech, n) = pc[p] => ~Has(p, n)
      BY <1>4 DEF Has
    <2>3. /\ gens[n] = (IF Has(p, n) THEN over + 1 ELSE over)
          /\ link[n] = (IF Has(p, n) THEN over + 1 ELSE 0)
      BY <1>2, <1>3, <1>4, <1>5 DEF Runs
    <2>4. Has(p, n) => fd[p][n] = over + 1
      BY <1>2, <1>3 DEF Runs
    <2>5. CASE MadeAt(mech, n) = pc[p]
      <3>1. gens'[n] = over + 1 /\ link'[n] = over + 1 /\ fd'[p][n] = over + 1
        BY <1>2, <2>2, <2>3, <2>5
      <3> QED BY <2>1, <2>2, <2>3, <2>5, <3>1
    <2>6. CASE MadeAt(mech, n) # pc[p]
      BY <1>2, <2>1, <2>3, <2>4, <2>6
    <2> QED BY <2>5, <2>6
  <1>7. \A n \in Used(mech), s \in Servers : s # p => fd'[s][n] = fd[s][n] /\ fd[s][n] <= over
    BY <1>2, <1>3, <1>5 DEF Runs, Procs
  <1>0. \A q \in Procs, n \in Used(mech) :
           /\ Has(q, n)' <=> fd'[q][n] # 0
           /\ Has(q, n)' => fd'[q][n] \in Generations
    <2>1. Held'
      BY HeldAlways, PTL
    <2>2. ~(0 \in Generations)
      BY DEF Generations
    <2> QED BY <1>2, <2>1, <2>2 DEF Held
  <1>8. \A n \in Used(mech) : fd'[p][n] # 0 => fd'[p][n] = over + 1
    BY <1>0, <1>2, <1>6 DEF Procs
  <1>9. Runs(over)'
    <2>1. ASSUME NEW n \in Used(mech)
          PROVE  /\ gens'[n] = IF \E s \in Servers : status'[s] = "run" /\ Has(s, n)' THEN over + 1 ELSE over
                 /\ link'[n] = IF \E s \in Servers : /\ status'[s] = "run" /\ Has(s, n)'
                                                     /\ pc'[s] <= GoneAt(mech, n)
                               THEN over + 1 ELSE 0
      BY <1>2, <1>4, <1>5, <1>6
    <2>2. ASSUME NEW n \in Used(mech), NEW s \in Servers
          PROVE  IF status'[s] = "run" THEN Has(s, n)' => fd'[s][n] = over + 1 ELSE fd'[s][n] <= over
      BY <1>4, <1>5, <1>6, <1>7
    <2>3. ASSUME NEW n \in Used(mech), NEW g \in Generations, g > gens'[n] PROVE box'[n][g] = <<>>
      <3>1. gens[n] <= gens'[n] /\ gens'[n] \in Nat /\ g \in Nat
        BY <1>4, <1>6 DEF Generations
      <3>2. g > gens[n]
        BY <1>4, <2>3, <3>1
      <3> QED BY <1>2, <1>3, <3>2 DEF Runs
    <2>4. \A s \in Servers : status'[s] \in {"idle", "run", "done"}
      BY <1>3, <1>4 DEF Runs, Procs
    <2> QED BY <1>2, <2>1, <2>2, <2>3, <2>4 DEF Runs
  <1>10. OneEach'
    <2>1. ASSUME NEW s \in Servers, NEW t \in Servers, NEW m \in Used(mech), NEW n \in Used(mech),
                 fd'[s][m] # 0, fd'[t][n] # 0
          PROVE  fd'[s][m] = fd'[t][n] <=> s = t
      <3>1. CASE s = p /\ t = p
        BY <1>8, <2>1, <3>1
      <3>2. CASE s # p /\ t # p
        BY <1>7, <2>1, <3>2 DEF Before, OrderInv, OneEach
      <3>3. CASE s = p /\ t # p
        <4>1. fd'[s][m] = over + 1 /\ fd'[t][n] = fd[t][n] /\ fd[t][n] <= over /\ fd[t][n] \in Nat
          BY <1>1, <1>4, <1>7, <1>8, <2>1, <3>3 DEF Types, Procs
        <4> QED BY <3>3, <4>1
      <3>4. CASE s # p /\ t = p
        <4>1. fd'[t][n] = over + 1 /\ fd'[s][m] = fd[s][m] /\ fd[s][m] <= over /\ fd[s][m] \in Nat
          BY <1>1, <1>4, <1>7, <1>8, <2>1, <3>4 DEF Types, Procs
        <4> QED BY <3>4, <4>1
      <3> QED BY <3>1, <3>2, <3>3, <3>4
    <2>2. ASSUME NEW c \in Clients, NEW n \in Used(mech), fd'[c][n] # 0
          PROVE  \E s \in Servers : fd'[s][n] = fd'[c][n]
      <3>1. fd'[c][n] = fd[c][n]
        BY <1>2 DEF Procs
      <3>2. PICK s \in Servers : fd[s][n] = fd[c][n]
        BY <2>2, <3>1 DEF Before, OrderInv, OneEach
      <3>3. s = p => MadeAt(mech, n) # pc[p]
        BY <1>1, <1>6, <2>2, <3>1, <3>2, HasIs DEF Procs
      <3>4. fd'[s][n] = fd[s][n]
        BY <1>2, <3>3 DEF Procs
      <3> QED BY <3>1, <3>2, <3>4
    <2> QED BY <1>2, <2>1, <2>2 DEF OneEach
  <1>11. Silence'
    BY <1>1, <1>2, SilenceKept
  \* No client has an object of this server's that is only made now.
  <1>12. ASSUME NEW c \in Clients, Has(c, "s2c"), fd'[p]["s2c"] = fd[c]["s2c"]
         PROVE  fd[p]["s2c"] = fd[c]["s2c"]
    <2>1. "s2c" \in Used(mech)
      BY <1>1, Numbers
    <2>2. PICK t \in Servers : fd[t]["s2c"] = fd[c]["s2c"] /\ Has(t, "s2c")
      BY <1>12, <2>1, Owner
    <2>3. fd[c]["s2c"] # 0 /\ fd[c]["s2c"] \in Nat
      BY <1>1, <1>4, <1>12, <2>1, HasIs DEF Procs, Types
    <2>4. fd'[p]["s2c"] = over + 1
      BY <1>8, <1>12, <2>1, <2>3
    <2>5. t = p
      <3> SUFFICES ASSUME t # p PROVE FALSE
        OBVIOUS
      <3>1. fd[t]["s2c"] <= over
        BY <1>7, <2>1
      <3> QED BY <1>12, <2>2, <2>3, <2>4, <3>1
    <2> QED BY <2>2, <2>5
  <1>13. Errors'
    <2> SUFFICES ASSUME NEW q \in err
                 PROVE  /\ q \in Clients /\ pc'[q] > Hears(mech) /\ mech \in SysV
                        /\ \A s \in Servers : fd'[s]["s2c"] = fd'[q]["s2c"] => status'[s] = "done"
      BY <1>2 DEF Errors
    <2>1. /\ q \in Clients /\ pc[q] > Hears(mech) /\ mech \in SysV
          /\ \A s \in Servers : fd[s]["s2c"] = fd[q]["s2c"] => status[s] = "done"
      BY DEF Before, OrderInv, Errors
    <2>2. q # p /\ pc'[q] = pc[q] /\ fd'[q] = fd[q] /\ Has(q, "s2c")
      <3>1. q # p /\ pc'[q] = pc[q] /\ fd'[q] = fd[q]
        BY <1>2, <1>4, <2>1 DEF Procs
      <3> QED BY <1>1, <2>1, <3>1, Numbers DEF Procs
    <2>3. ASSUME NEW s \in Servers, fd'[s]["s2c"] = fd'[q]["s2c"] PROVE status'[s] = "done"
      <3>1. fd[s]["s2c"] = fd[q]["s2c"]
        BY <1>2, <1>12, <2>1, <2>2, <2>3 DEF Procs
      <3> QED BY <1>2, <1>4, <2>1, <3>1 DEF Procs
    <2> QED BY <2>1, <2>2, <2>3
  <1>14. ASSUME NEW s \in Servers, s # p PROVE Conv(s)'
    BY <1>1, <1>2, <1>14, OthersKept DEF Before, OrderInv, Conv, Takers
  <1>15. Conv(p)'
    <2>1. /\ {"s2c", "c2s"} \subseteq Used(mech) /\ pc[p] <= Greets(mech) /\ pc'[p] <= Greets(mech)
          /\ ~(pc'[p] > Greets(mech))
      BY <1>1, <1>4, Numbers
    <2>2. Takers(p)' = {}
      <3> SUFFICES ASSUME NEW c \in Clients, c \notin err', pc'[c] > Hears(mech)',
                          fd'[c]["s2c"] = fd'[p]["s2c"]
                   PROVE  FALSE
        BY DEF Takers
      <3>1. c \notin err /\ pc[c] > Hears(mech) /\ fd[c]["s2c"] = fd'[p]["s2c"] /\ Has(c, "s2c")
        <4>1. c \notin err /\ pc[c] > Hears(mech) /\ fd[c]["s2c"] = fd'[p]["s2c"]
          BY <1>2, <1>4 DEF Procs
        <4> QED BY <1>1, <4>1, Numbers DEF Procs
      <3>2. fd[p]["s2c"] = fd[c]["s2c"]
        BY <1>12, <3>1
      <3>3. c \in Takers(p)
        BY <3>1, <3>2 DEF Takers
      <3>4. Has(p, "s2c")
        BY <1>1, <1>2, <3>3, TakerHas
      <3> QED BY <1>2, <2>1, <3>3, <3>4 DEF Before, OrderInv, Talk
    <2>3. ASSUME NEW n \in {"s2c", "c2s"}, Has(p, n)' PROVE Box(p, n)' = <<>>
      <3>1. CASE Has(p, n)
        <4>1. Box(p, n) = <<>>
          BY <1>2, <2>1, <3>1 DEF Before, OrderInv, Talk
        <4>2. fd'[p][n] = fd[p][n]
          BY <1>2, <1>6, <2>1, <3>1
        <4> QED BY <1>2, <4>1, <4>2 DEF Box
      <3>2. CASE ~Has(p, n)
        <4>1. fd'[p][n] = over + 1 /\ gens[n] = over
          BY <1>6, <2>1, <2>3, <3>2
        <4>2. over + 1 \in Generations /\ over + 1 > gens[n]
          <5>1. fd'[p][n] \in Generations
            BY <1>0, <1>2, <2>1, <2>3
          <5> QED BY <4>1, <5>1 DEF Generations
        <4>3. box[n][over + 1] = <<>>
          BY <1>3, <2>1, <4>2 DEF Runs
        <4> QED BY <1>2, <4>1, <4>3 DEF Box
      <3> QED BY <3>1, <3>2
    <2>4. Talk(p)'
      BY <1>2, <2>1, <2>2, <2>3 DEF Talk
    <2>5. Written(p)'
      <3> SUFFICES ASSUME mech \in Memory, Greets(mech) <= pc'[p] PROVE FALSE
        BY <1>2 DEF Written
      <3>1. pc[p] = Greets(mech) - 1
        BY <1>4
      <3>2. mech \in Mechs
        BY <1>1, Numbers
      <3>3. PICK n \in Used(mech) : MadeAt(mech, n) = pc[p]
        <4>1. At(p).op = "create"
          BY DEF Create, Calls, At
        <4> QED BY <1>1, <1>2, <4>1, CallAt DEF ServerCall
      <3>4. MadeAt(mech, n) < Greets(mech) - 1
        BY <3>2, Places
      <3> QED BY <1>4, <3>1, <3>3, <3>4
    <2>6. ~Told(p) /\ ~Told(p)'
      <3>1. CASE mech \in Memory
        BY <1>2, <1>4, <3>1 DEF Told
      <3>2. CASE mech \notin Memory
        BY <1>2, <1>4, <3>2 DEF Told
      <3> QED BY <3>1, <3>2
    <2>7. Hearing(p)'
      BY <1>2, <2>2, <2>6 DEF Before, OrderInv, Hearing
    <2> QED BY <2>4, <2>5, <2>7 DEF Conv
  <1> QED BY <1>9, <1>10, <1>11, <1>13, <1>14, <1>15 DEF OrderInv, Conv

\* A server removes its objects; with the last of them its run is over.
LEMMA UnlinkStep ==
    ASSUME Before, NEW p \in Procs, Unlink(p) PROVE OrderInv'
  <1>1. AlwaysInv /\ Types /\ Progress /\ Opened /\ OneServer /\ Act(p)
    BY DEF Before, AlwaysInv, Act, Call
  <1>2. /\ status[p] = "run" /\ At(p).op = "unlink" /\ Step(p)
        /\ UNCHANGED <<mech, gens, fd, box, text, heard, err>>
        /\ link' = [n \in Names |-> IF n \in On(p) THEN 0 ELSE link[n]]
    BY <1>1, CallAt DEF Unlink, Calls, At
  <1>3. /\ p \in Servers /\ p \notin Clients /\ Used(mech) \subseteq Names
        /\ On(p) = {n \in Used(mech) : GoneAt(mech, n) = pc[p]}
        /\ \E n \in Used(mech) : GoneAt(mech, n) = pc[p]
    <2>1. p \in Servers /\ Used(mech) \subseteq Names
      BY <1>1, <1>2, CallAt, Places DEF ClientCall, Procs, Types
    <2>2. ServerCall(mech, pc[p], At(p))
      BY <1>1, <1>2, <2>1, CallAt
    <2> QED BY <1>2, <2>1, <2>2, ExchangeProcs DEF ServerCall, On, At
  <1>4. /\ pc[p] \in Nat /\ Greets(mech) \in Nat /\ ServerEnd(mech) \in Nat /\ End(p) = ServerEnd(mech)
        /\ pc[p] > Greets(mech) + 1 /\ (mech \in Memory => pc[p] > Greets(mech) + 2)
        /\ pc[p] <= ServerEnd(mech)
        /\ \A n \in Used(mech) : GoneAt(mech, n) \in Nat /\ GoneAt(mech, n) <= ServerEnd(mech)
    <2>1. PICK n \in Used(mech) : GoneAt(mech, n) = pc[p]
      BY <1>3
    <2> QED BY <1>1, <1>2, <1>3, <2>1, Numbers, CallAt DEF End
  <1>5. /\ pc'[p] = pc[p] + 1 /\ status'[p] = (IF pc[p] = ServerEnd(mech) THEN "done" ELSE "run")
        /\ \A q \in Procs : q # p => pc'[q] = pc[q] /\ status'[q] = status[q]
    BY <1>1, <1>2, <1>4 DEF Step, Types
  <1>6. \A n \in Used(mech) : Has(p, n) /\ \A q \in Procs : Has(q, n)' <=> Has(q, n)
    <2>1. pc[p] >= Greets(mech)
      BY <1>4
    <2> QED BY <1>1, <1>2, <2>1, Numbers, HasSame
  <1>7. PICK over \in Nat : Runs(over)
    BY DEF Before, OrderInv
  <1>8. \A s \in Servers : s # p => status[s] # "run" /\ status'[s] # "run"
    BY <1>1, <1>2, <1>3, <1>5 DEF OneServer, Procs
  <1>9. \A n \in Used(mech) :
           /\ gens[n] = over + 1 /\ fd[p][n] = over + 1
           /\ link[n] = (IF pc[p] <= GoneAt(mech, n) THEN over + 1 ELSE 0)
           /\ link'[n] = (IF pc[p] + 1 <= GoneAt(mech, n) THEN over + 1 ELSE 0)
           /\ \A s \in Servers : s # p => fd[s][n] <= over
           /\ \A g \in Generations : g > gens[n] => box[n][g] = <<>>
    <2> SUFFICES ASSUME NEW n \in Used(mech)
                 PROVE  /\ gens[n] = over + 1 /\ fd[p][n] = over + 1
                        /\ link[n] = (IF pc[p] <= GoneAt(mech, n) THEN over + 1 ELSE 0)
                        /\ link'[n] = (IF pc[p] + 1 <= GoneAt(mech, n) THEN over + 1 ELSE 0)
                        /\ \A s \in Servers : s # p => fd[s][n] <= over
                        /\ \A g \in Generations : g > gens[n] => box[n][g] = <<>>
      OBVIOUS
    <2>1. gens[n] = over + 1 /\ fd[p][n] = over + 1
      BY <1>2, <1>3, <1>6, <1>7 DEF Runs
    <2>2. link[n] = (IF pc[p] <= GoneAt(mech, n) THEN over + 1 ELSE 0)
      BY <1>2, <1>3, <1>6, <1>7, <1>8 DEF Runs
    <2>3. link'[n] = IF GoneAt(mech, n) = pc[p] THEN 0 ELSE link[n]
      BY <1>2, <1>3
    <2>4. link'[n] = (IF pc[p] + 1 <= GoneAt(mech, n) THEN over + 1 ELSE 0)
      <3>1. \A x, y \in Nat : x + 1 <= y <=> x <= y /\ y # x
        OBVIOUS
      <3> QED BY <1>4, <2>2, <2>3, <3>1
    <2>5. \A s \in Servers : s # p => fd[s][n] <= over
      BY <1>7, <1>8 DEF Runs
    <2>6. \A g \in Generations : g > gens[n] => box[n][g] = <<>>
      BY <1>7 DEF Runs
    <2> QED BY <2>1, <2>2, <2>4, <2>5, <2>6
  <1>10. \E o \in Nat : Runs(o)'
    <2>1. \A s \in Servers : status'[s] \in {"idle", "run", "done"}
      BY <1>5, <1>7 DEF Runs, Procs
    <2>2. CASE pc[p] # ServerEnd(mech)
      <3>1. status'[p] = "run"
        BY <1>5, <2>2
      <3>2. ASSUME NEW n \in Used(mech)
            PROVE  /\ gens'[n] = IF \E s \in Servers : status'[s] = "run" /\ Has(s, n)' THEN over + 1 ELSE over
                   /\ link'[n] = IF \E s \in Servers : /\ status'[s] = "run" /\ Has(s, n)'
                                                       /\ pc'[s] <= GoneAt(mech, n)
                                 THEN over + 1 ELSE 0
        BY <1>2, <1>3, <1>5, <1>6, <1>8, <1>9, <3>1
      <3>3. ASSUME NEW n \in Used(mech), NEW s \in Servers
            PROVE  IF status'[s] = "run" THEN Has(s, n)' => fd'[s][n] = over + 1 ELSE fd'[s][n] <= over
        BY <1>2, <1>8, <1>9, <3>1
      <3>4. Runs(over)'
        BY <1>2, <1>9, <2>1, <3>2, <3>3 DEF Runs
      <3> QED BY <3>4
    <2>3. CASE pc[p] = ServerEnd(mech)
      <3>1. \A s \in Servers : status'[s] # "run"
        BY <1>5, <1>8, <2>3
      <3>2. \A n \in Used(mech) : gens'[n] = over + 1 /\ link'[n] = 0
        <4>1. \A n \in Used(mech) : ~(pc[p] + 1 <= GoneAt(mech, n))
          BY <1>4, <2>3
        <4> QED BY <1>2, <1>9, <4>1
      <3>3. \A n \in Used(mech), s \in Servers : fd'[s][n] <= over + 1
        <4> SUFFICES ASSUME NEW n \in Used(mech), NEW s \in Servers PROVE fd[s][n] <= over + 1
          BY <1>2
        <4>1. fd[s][n] \in Nat
          BY <1>1, <1>3 DEF Types, Procs
        <4> QED BY <1>9, <4>1
      <3>4. Runs(over + 1)'
        BY <1>2, <1>9, <2>1, <3>1, <3>2, <3>3 DEF Runs
      <3> QED BY <3>4
    <2> QED BY <2>2, <2>3
  <1>11. OneEach'
    BY <1>2 DEF Before, OrderInv, OneEach
  <1>12. Silence' /\ Errors'
    BY <1>1, <1>2, SilenceKept, ErrorsKept
  <1>13. ASSUME NEW s \in Servers, s # p PROVE Conv(s)'
    BY <1>1, <1>2, <1>3, <1>13, OthersKept DEF Before, OrderInv, Conv, Takers
  <1>14. Conv(p)'
    <2>1. /\ pc[p] > Greets(mech) /\ ~(pc[p] <= Greets(mech)) /\ pc[p] # Greets(mech) + 1
          /\ ~(pc'[p] <= Greets(mech)) /\ pc'[p] # Greets(mech) + 1
          /\ mech \in Memory => ~(pc'[p] <= Greets(mech) + 2)
      BY <1>4, <1>5
    <2>2. PICK c \in Clients :
             /\ Takers(p) = {c} /\ Box(p, "s2c") = <<>>
             /\ ~(pc[c] <= Replies(mech)) /\ Box(p, "c2s") = <<>>
      BY <1>3, <2>1 DEF Before, OrderInv, Talk
    <2>3. /\ Takers(p)' = Takers(p) /\ c # p /\ pc'[c] = pc[c]
      BY <1>2, <1>3, <1>5 DEF Takers, Procs
    <2>4. Box(p, "s2c")' = <<>> /\ Box(p, "c2s")' = <<>>
      BY <1>2, <2>2 DEF Box
    <2>5. Talk(p)'
      BY <1>2, <2>1, <2>2, <2>3, <2>4 DEF Talk
    <2>6. Written(p)'
      BY <1>2, <2>1 DEF Written
    <2>7. Told(p) /\ Told(p)' /\ (Told(c)' <=> Told(c))
      BY <1>2, <1>3, <1>4, <1>5, <2>3 DEF Told
    <2>8. Hearing(p)'
      BY <1>2, <1>3, <2>2, <2>3, <2>7 DEF Before, OrderInv, Hearing
    <2> QED BY <2>5, <2>6, <2>8 DEF Conv
  <1> QED BY <1>10, <1>11, <1>12, <1>13, <1>14 DEF OrderInv, Conv

----------------------------------------------------------------------------
(* The theorems.                                                           *)

ExchangeInv == AlwaysInv /\ (Orderly => OrderInv)

\* At first nobody has said anything.
LEMMA OrderStarts == Init => OrderInv
  <1> SUFFICES ASSUME Init PROVE OrderInv
    OBVIOUS
  <1>1. AlwaysInv
    BY AlwaysStarts
  <1>2. /\ \A p \in Procs, n \in Used(mech) : ~Has(p, n) /\ fd[p][n] = 0
        /\ \A p \in Procs : pc[p] = 1 /\ status[p] = "idle" /\ heard[p] = Nobody
        /\ \A n \in Used(mech) : link[n] = 0 /\ gens[n] = 0 /\ \A g \in Generations : box[n][g] = <<>>
        /\ err = {} /\ Used(mech) \subseteq Names /\ {"s2c", "c2s"} \subseteq Used(mech)
    <2>1. mech \in Mechs /\ Used(mech) \subseteq Names /\ {"s2c", "c2s"} \subseteq Used(mech)
      BY <1>1, Numbers, Places
    <2>2. \A p \in Procs, n \in Used(mech) : ~Has(p, n)
      BY <2>1, Places DEF Init, Has
    <2> QED BY <2>1, <2>2 DEF Init
  <1>3. 1 < Greets(mech) /\ 1 < Hears(mech) /\ Greets(mech) \in Nat /\ Hears(mech) \in Nat
    <2>1. /\ MadeAt(mech, "s2c") \in Nat /\ 1 <= MadeAt(mech, "s2c")
          /\ MadeAt(mech, "s2c") < Hears(mech) /\ MadeAt(mech, "s2c") < Greets(mech)
          /\ Greets(mech) \in Nat /\ Hears(mech) \in Nat
      BY <1>1, <1>2, Numbers, Places
    <2> QED BY <2>1
  <1>4. Runs(0)
    BY <1>2 DEF Runs, Procs
  <1>5. OneEach /\ Silence /\ Errors
    BY <1>2 DEF OneEach, Silence, Errors, Procs
  <1>6. ASSUME NEW s \in Servers PROVE Talk(s) /\ Written(s) /\ Hearing(s)
    <2>1. Takers(s) = {}
      <3>1. \A c \in Clients : ~(pc[c] > Hears(mech))
        BY <1>2, <1>3 DEF Procs
      <3> QED BY <3>1 DEF Takers
    <2>2. ~(pc[s] > Greets(mech)) /\ ~(Greets(mech) <= pc[s])
      BY <1>2, <1>3 DEF Procs
    <2>3. ~Told(s)
      BY <1>2, <1>3 DEF Told, Procs
    <2> QED BY <1>2, <2>1, <2>2, <2>3 DEF Talk, Written, Hearing, Procs
  <1> QED BY <1>4, <1>5, <1>6 DEF OrderInv

\* Every step keeps both parts of the invariant.
LEMMA ExchangeStep == ExchangeInv /\ [Next]_vars => ExchangeInv'
  <1> SUFFICES ASSUME ExchangeInv, [Next]_vars PROVE ExchangeInv'
    OBVIOUS
  <1>1. AlwaysInv /\ AlwaysInv'
    BY AlwaysStep DEF ExchangeInv
  <1>2. ASSUME NEW p \in Procs, Start(p) \/ Kill(p) \/ Call(p), Orderly' PROVE OrderInv'
    <2>1. Before /\ Act(p)
      BY <1>1, <1>2, OrderlyBefore DEF ExchangeInv, Before
    <2> QED BY <1>1, <2>1, StartStep, CreateStep, OpenStep, ResetStep, WriteStep, ReadStep, SendStep,
               ReceiveStep, FailStep, UnlinkStep DEF Act, Call
  <1>3. ASSUME UNCHANGED vars, Orderly' PROVE OrderInv'
    <2>1. /\ mech' = mech /\ status' = status /\ pc' = pc /\ link' = link /\ gens' = gens
          /\ fd' = fd /\ box' = box /\ text' = text /\ heard' = heard /\ err' = err
      BY <1>3 DEF vars, objects
    <2>2. Before
      BY <1>1, <1>3, <2>1 DEF ExchangeInv, Before, Orderly, Killed, Mixed
    <2>3. PICK over \in Nat : Runs(over)
      BY <2>2 DEF Before, OrderInv
    <2>4. Runs(over)'
      BY <2>1, <2>3 DEF Runs, Has
    <2> QED BY <2>1, <2>2, <2>4, StillKept DEF OrderInv, Conv
  <1> QED BY <1>1, <1>2, <1>3 DEF Next, ExchangeInv

\* Both parts hold in every state.
THEOREM ExchangeIsOrderly == Spec => []ExchangeInv
  <1>1. Init => ExchangeInv
    BY AlwaysStarts, OrderStarts DEF ExchangeInv
  <1> QED BY <1>1, ExchangeStep, PTL DEF Spec

\* A client of an orderly execution that has received has a server of its own.
LEMMA HeardFrom ==
    ASSUME Before, NEW c \in Clients, c \notin err, pc[c] > Hears(mech)
    PROVE  \E s \in Servers : c \in Takers(s)
  <1>1. "s2c" \in Used(mech) /\ Has(c, "s2c")
    <2>1. pc[c] >= Hears(mech)
      BY Numbers DEF Before, Procs
    <2> QED BY <2>1, Numbers DEF Before, Procs
  <1>2. PICK s \in Servers : fd[s]["s2c"] = fd[c]["s2c"]
    BY <1>1, Owner
  <1> QED BY <1>2 DEF Takers

\* Whoever ends without an error has printed the other side's text: a server a
\* client's, a client a server's.
THEOREM TextIsRight == Spec => []RightText
  <1>1. ExchangeInv => RightText
    <2> SUFFICES ASSUME ExchangeInv, NEW p \in Procs, status[p] = "done", p \notin err,
                        mech \in Memory => Orderly
                 PROVE  heard[p] \in IF p \in Servers THEN Clients ELSE Servers
      BY DEF RightText
    <2>1. AlwaysInv /\ pc[p] = End(p) + 1
      BY DEF ExchangeInv, AlwaysInv, Progress
    <2>2. /\ p \in Servers => pc[p] > Greets(mech) + 1
          /\ p \notin Servers => p \in Clients /\ pc[p] > Hears(mech)
          /\ mech \in Memory => Told(p)
      <3>1. "s2c" \in Used(mech)
        BY <2>1, Numbers
      <3>2. CASE p \in Servers
        <4>1. /\ End(p) = ServerEnd(mech) /\ ServerEnd(mech) \in Nat /\ Greets(mech) \in Nat
              /\ GoneAt(mech, "s2c") \in Nat /\ GoneAt(mech, "s2c") <= ServerEnd(mech)
              /\ Greets(mech) + 1 < GoneAt(mech, "s2c")
              /\ mech \in Memory => Greets(mech) + 2 < GoneAt(mech, "s2c")
          BY <2>1, <3>1, <3>2, Numbers DEF End
        <4>2. pc[p] > Greets(mech) + 1 /\ (mech \in Memory => pc[p] > Greets(mech) + 1 + 1)
          BY <2>1, <4>1
        <4> QED BY <3>2, <4>2 DEF Told
      <3>3. CASE p \notin Servers
        <4>1. /\ End(p) = Replies(mech) /\ Replies(mech) \in Nat /\ Hears(mech) \in Nat
              /\ Hears(mech) < Replies(mech)
              /\ mech \in Memory => Hears(mech) + 2 < Replies(mech)
          BY <2>1, <3>3, Numbers DEF End
        <4>2. pc[p] > Hears(mech) /\ (mech \in Memory => pc[p] > Hears(mech) + 1)
          BY <2>1, <4>1
        <4> QED BY <3>3, <4>2 DEF Told, Procs
      <3> QED BY <3>2, <3>3
    <2>3. CASE mech \notin Memory
      BY <2>1, <2>2, <2>3 DEF AlwaysInv, QueueInv
    <2>4. CASE mech \in Memory
      <3>1. Before
        BY <2>4 DEF ExchangeInv, Before
      <3>2. CASE p \in Servers
        BY <2>2, <2>4, <3>1, <3>2 DEF Before, OrderInv, Hearing, Takers
      <3>3. CASE p \notin Servers
        <4>1. PICK s \in Servers : p \in Takers(s)
          BY <2>2, <3>1, <3>3, HeardFrom
        <4>2. heard[p] = s
          BY <2>2, <2>4, <3>1, <4>1 DEF Before, OrderInv, Hearing
        <4> QED BY <3>3, <4>2
      <3> QED BY <3>2, <3>3
    <2> QED BY <2>3, <2>4
  <1> QED BY <1>1, ExchangeIsOrderly, PTL

\* In an orderly execution the reply that a server has printed is that of the
\* one client that has printed its greeting.
THEOREM PairsAreRight == Spec => []Paired
  <1>1. ExchangeInv => Paired
    <2> SUFFICES ASSUME ExchangeInv, Orderly, NEW s \in Servers
                 PROVE  /\ heard[s] \in Clients => heard[heard[s]] = s
                        /\ Cardinality({c \in Clients : heard[c] = s /\ c \notin err}) <= 1
      BY DEF Paired
    <2>1. Before /\ AlwaysInv /\ Talk(s) /\ Hearing(s) /\ Silence
      BY DEF ExchangeInv, Before, OrderInv
    <2>2. ASSUME heard[s] \in Clients PROVE heard[heard[s]] = s
      <3>1. Told(s) /\ heard[s] \in Takers(s)
        BY <2>1, <2>2, ExchangeProcs DEF Hearing
      <3>2. pc[s] > Greets(mech) + 1 /\ pc[s] \in Nat /\ Greets(mech) \in Nat
        <4>1. pc[s] \in Nat /\ Greets(mech) \in Nat
          BY <2>1, Numbers DEF Procs
        <4> QED BY <3>1, <4>1 DEF Told
      <3> DEFINE c == heard[s]
      <3>3. ~(pc[c] <= Replies(mech))
        BY <2>1, <3>1, <3>2, Taken
      <3>4. Told(c)
        <4>1. /\ pc[c] \in Nat /\ Replies(mech) \in Nat /\ Hears(mech) \in Nat
              /\ Hears(mech) < Replies(mech)
              /\ mech \in Memory => Hears(mech) + 2 < Replies(mech)
              /\ c \notin Servers
          BY <2>1, <2>2, Numbers, ExchangeProcs DEF Procs
        <4>2. pc[c] > Hears(mech) /\ pc[c] > Hears(mech) + 0 /\ (mech \in Memory => pc[c] > Hears(mech) + 1)
          <5> HIDE DEF c
          <5> QED BY <3>3, <4>1
        <4> QED BY <4>1, <4>2 DEF Told
      <3> QED BY <2>1, <3>1, <3>4 DEF Hearing
    <2>3. {c \in Clients : heard[c] = s /\ c \notin err} \subseteq Takers(s)
      <3> SUFFICES ASSUME NEW c \in Clients, heard[c] = s, c \notin err PROVE c \in Takers(s)
        OBVIOUS
      <3>1. Told(c)
        BY <2>1, ExchangeProcs DEF Silence, Procs
      <3>2. pc[c] > Hears(mech)
        <4>1. pc[c] \in Nat /\ Hears(mech) \in Nat /\ c \notin Servers
          BY <2>1, Numbers, ExchangeProcs DEF Procs
        <4> QED BY <3>1, <4>1 DEF Told
      <3>3. PICK t \in Servers : c \in Takers(t)
        BY <2>1, <3>2, HeardFrom
      <3>4. heard[c] = t
        BY <3>1, <3>3 DEF ExchangeInv, OrderInv, Hearing
      <3> QED BY <3>3, <3>4
    <2>4. Takers(s) = {} \/ \E c : Takers(s) = {c}
      BY <2>1, Taken
    <2>5. \A S : S \subseteq Takers(s) => IsFiniteSet(S) /\ Cardinality(S) <= 1
      <3> TAKE S
      <3>1. CASE S \cap Takers(s) = {}
        <4> HAVE S \subseteq Takers(s)
        <4>1. S = {}
          BY <3>1
        <4> QED BY <4>1, FS_EmptySet
      <3>2. CASE S \cap Takers(s) # {}
        <4> HAVE S \subseteq Takers(s)
        <4>1. PICK c : S = {c}
          BY <2>4, <3>2
        <4>2. Cardinality({c}) = 1 /\ IsFiniteSet({c})
          BY FS_Singleton
        <4> QED BY <4>1, <4>2
      <3> QED BY <3>1, <3>2
    <2> QED BY <2>2, <2>3, <2>5
  <1> QED BY <1>1, ExchangeIsOrderly, PTL
=============================================================================
