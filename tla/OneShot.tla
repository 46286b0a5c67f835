------------------------------ MODULE OneShot ------------------------------
(***************************************************************************)
(* Two servers that answer each request once: that of lab16/2/1 forks a    *)
(* child for every connection, that of lab16/2/4 is one thread in a loop   *)
(* over select, for TCP connections and UDP datagrams (its variants with   *)
(* poll and epoll are not compiled).  A client is the one of lab16/2/1,    *)
(* which connects, writes one line and reads to the end of the stream; or  *)
(* it connects and says nothing; or it sends a datagram.                   *)
(*                                                                         *)
(* A connection ends for its client when the last descriptor of it on the  *)
(* server's side is closed, whichever process holds it.  A text is one or  *)
(* two pieces; a piece fills the server's buffer, and the server reads     *)
(* once.  Closing a connection with a piece unread resets it: what its     *)
(* client has not read by then may be lost.                                *)
(*                                                                         *)
(* An operator with the suffix _bug is a seeded slip in the next one.      *)
(***************************************************************************)
EXTENDS Integers, FiniteSets, Sequences

CONSTANTS
    Clients,
    Mixes,          \* what the clients may be: "short", "long", "silent" or "udp"
    Server,         \* the process that accepts; a child is known by its client
    Nobody,
    MaxFailures     \* bound: clients that are killed, or whose fork fails,
                    \* whose child is killed or whose datagram is lost
ASSUME OneShotAssumption ==
    /\ Mixes \subseteq [Clients -> {"short", "long", "silent", "udp"}]
    /\ IsFiniteSet(Clients) /\ Server \notin Clients /\ Nobody \notin Clients /\ MaxFailures \in Nat

VARIABLES
    server,         \* "fork" or "select"
    kind,           \* what each client does
    pc, cf, ready,  \* the server: where it is, whom it serves, what select said
    child,          \* the child of each client
    holders,        \* processes with a descriptor of each client's connection
    backlog,        \* clients that accept, or recvfrom, has not returned yet
    unread,         \* pieces of each client's text that are still to be read
    reply,          \* what was written to each client and not read by it
    cl, got,        \* clients: where they are, what they have read
    failed          \* clients to whom something happened
parent == <<pc, cf, ready>>
sockets == <<holders, backlog, unread, reply>>
clients == <<cl, got>>
vars == <<server, kind, parent, child, sockets, clients, failed>>

Tcp == {"short", "long", "silent"}
Pieces == [short |-> 1, long |-> 2, silent |-> 0, udp |-> 0]

Init ==
    /\ kind \in Mixes
    /\ \/ server = "fork" /\ kind \in [Clients -> Tcp] /\ pc = "accept"
       \/ server = "select" /\ pc = "select"
    /\ cf = Nobody /\ ready = {}
    /\ child = [c \in Clients |-> "none"]
    /\ holders = [c \in Clients |-> {}]
    /\ backlog = [p \in {"tcp", "udp"} |-> <<>>]
    /\ unread = [c \in Clients |-> 0] /\ reply = [c \in Clients |-> <<>>]
    /\ cl = [c \in Clients |-> "off"] /\ got = [c \in Clients |-> <<>>]
    /\ failed = {}

Fail(c) == /\ Cardinality(failed \cup {c}) <= MaxFailures
           /\ failed' = failed \cup {c}

\* The descriptors `released' are closed; a connection that is closed by the
\* last of its holders with a piece unread is reset.
Release(released) ==
    /\ holders' = [c \in Clients |-> holders[c] \ released[c]]
    /\ \E lost \in SUBSET {c \in Clients : holders[c] # {} /\ holders'[c] = {} /\ unread[c] > 0} :
          reply' = [c \in Clients |-> IF c \in lost THEN <<>> ELSE reply[c]]

Close(process, c) == Release([d \in Clients |-> IF d = c THEN {process} ELSE {}])
Exit(process) == Release([d \in Clients |-> {process}])

\* read returns a piece of the text of client c, or that the client is gone.
Read(c) == \/ unread[c] > 0 /\ unread' = [unread EXCEPT ![c] = @ - 1]
           \/ unread[c] = 0 /\ cl[c] = "gone" /\ UNCHANGED unread
Write(c, words) == reply' = [reply EXCEPT ![c] = @ \o words]

----------------------------------------------------------------------------
(* The server *)

Accept ==
    /\ pc = "accept" /\ backlog["tcp"] # <<>>
    /\ LET c == Head(backlog["tcp"]) IN
       /\ cf' = c /\ holders' = [holders EXCEPT ![c] = {Server}]
    /\ backlog' = [backlog EXCEPT !["tcp"] = Tail(@)]
    /\ pc' = IF server = "fork" THEN "fork" ELSE "read"
    /\ UNCHANGED <<server, kind, ready, child, unread, reply, clients, failed>>

\* The child inherits every descriptor that the server has at this time.
Fork ==
    /\ pc = "fork" /\ pc' = "close"
    /\ child' = [child EXCEPT ![cf] = "read"]
    /\ holders' = [c \in Clients |-> IF Server \in holders[c] THEN holders[c] \cup {cf} ELSE holders[c]]
    /\ UNCHANGED <<server, kind, cf, ready, backlog, unread, reply, clients, failed>>

ForkFails ==
    /\ pc = "fork" /\ pc' = "close" /\ Fail(cf)
    /\ UNCHANGED <<server, kind, cf, ready, child, sockets, clients>>

\* After the connection the select server looks at the datagrams, if select
\* has reported one.
AfterClose == IF server = "fork" THEN "accept" ELSE IF "udp" \in ready THEN "recv" ELSE "select"

\* the child has the connection now: the server does not close its copy
CloseConnection_bug ==
    /\ pc = "close" /\ pc' = AfterClose /\ cf' = Nobody
    /\ IF server = "fork" THEN UNCHANGED <<holders, reply>> ELSE Close(Server, cf)
    /\ UNCHANGED <<server, kind, ready, child, backlog, unread, clients, failed>>
CloseConnection ==
    /\ pc = "close" /\ pc' = AfterClose /\ cf' = Nobody
    /\ Close(Server, cf)
    /\ UNCHANGED <<server, kind, ready, child, backlog, unread, clients, failed>>

Select ==
    /\ pc = "select"
    /\ ready' = {p \in {"tcp", "udp"} : backlog[p] # <<>>} /\ ready' # {}
    /\ pc' = IF "tcp" \in ready' THEN "accept" ELSE "recv"
    /\ UNCHANGED <<server, kind, cf, child, sockets, clients, failed>>

\* handle_one_tcp: this read has no time limit.
ReadRequest ==
    /\ pc = "read"
    /\ Read(cf)
    /\ pc' = IF unread' # unread THEN "write" ELSE "close"
    /\ UNCHANGED <<server, kind, cf, ready, child, holders, backlog, reply, clients, failed>>

Answer ==
    /\ pc = "write" /\ pc' = "close"
    /\ Write(cf, <<"prefix", "text">>)
    /\ UNCHANGED <<server, kind, cf, ready, child, holders, backlog, unread, clients, failed>>

HandleUdp ==
    /\ pc = "recv" /\ backlog["udp"] # <<>> /\ pc' = "select"
    /\ LET c == Head(backlog["udp"]) IN
       \/ Write(c, <<"prefix", "text">>) /\ UNCHANGED failed
       \/ Fail(c) /\ UNCHANGED reply
    /\ backlog' = [backlog EXCEPT !["udp"] = Tail(@)]
    /\ UNCHANGED <<server, kind, cf, ready, child, holders, unread, clients>>

ServerStep == \/ Accept \/ Fork \/ ForkFails \/ CloseConnection
              \/ Select \/ ReadRequest \/ Answer \/ HandleUdp

----------------------------------------------------------------------------
(* A child of the fork server *)

ChildRead(c) ==
    /\ child[c] = "read"
    /\ Read(c)
    /\ child' = [child EXCEPT ![c] = IF unread' # unread THEN "prefix" ELSE "exit"]
    /\ UNCHANGED <<server, kind, parent, holders, backlog, reply, clients, failed>>

\* the text goes first (WholeReply)
ChildWrite_bug(c) ==
    /\ child[c] \in {"prefix", "text"}
    /\ Write(c, <<IF child[c] = "prefix" THEN "text" ELSE "prefix">>)
    /\ child' = [child EXCEPT ![c] = IF @ = "prefix" THEN "text" ELSE "exit"]
    /\ UNCHANGED <<server, kind, parent, holders, backlog, unread, clients, failed>>
\* Two calls of write: "PROCESSED: " and the text in upper case.
ChildWrite(c) ==
    /\ child[c] \in {"prefix", "text"}
    /\ Write(c, <<child[c]>>)
    /\ child' = [child EXCEPT ![c] = IF @ = "prefix" THEN "text" ELSE "exit"]
    /\ UNCHANGED <<server, kind, parent, holders, backlog, unread, clients, failed>>

ChildExit(c) ==
    /\ child[c] = "exit" /\ child' = [child EXCEPT ![c] = "gone"]
    /\ Exit(c)
    /\ UNCHANGED <<server, kind, parent, backlog, unread, clients, failed>>

ChildKilled(c) ==
    /\ child[c] \in {"read", "prefix", "text"} /\ child' = [child EXCEPT ![c] = "gone"]
    /\ Exit(c) /\ Fail(c)
    /\ UNCHANGED <<server, kind, parent, backlog, unread, clients>>

----------------------------------------------------------------------------
(* The clients *)

Queue(p, c) == backlog' = [backlog EXCEPT ![p] = Append(@, c)]

Connect(c) ==
    /\ kind[c] \in Tcp /\ cl[c] = "off" /\ cl' = [cl EXCEPT ![c] = "connected"]
    /\ Queue("tcp", c)
    /\ UNCHANGED <<server, kind, parent, child, holders, unread, reply, got, failed>>

Send(c) ==
    /\ kind[c] \in {"short", "long"} /\ cl[c] = "connected" /\ cl' = [cl EXCEPT ![c] = "sent"]
    /\ unread' = [unread EXCEPT ![c] = Pieces[kind[c]]]
    /\ UNCHANGED <<server, kind, parent, child, holders, backlog, reply, got, failed>>

SendTo(c) ==
    /\ kind[c] = "udp" /\ cl[c] = "off" /\ cl' = [cl EXCEPT ![c] = "sent"]
    /\ \/ Queue("udp", c) /\ UNCHANGED failed
       \/ Fail(c) /\ UNCHANGED backlog
    /\ UNCHANGED <<server, kind, parent, child, holders, unread, reply, got>>

ReadReply(c) ==
    /\ cl[c] = "sent" /\ reply[c] # <<>>
    /\ got' = [got EXCEPT ![c] = Append(@, Head(reply[c]))]
    /\ reply' = [reply EXCEPT ![c] = Tail(@)]
    /\ UNCHANGED <<server, kind, parent, child, holders, backlog, unread, cl, failed>>

Accepted(c) == \A k \in DOMAIN backlog["tcp"] : backlog["tcp"][k] # c

\* The end of the stream, or of the connection.
EndOfFile(c) ==
    /\ kind[c] \in Tcp /\ cl[c] = "sent" /\ reply[c] = <<>>
    /\ Accepted(c) /\ holders[c] = {}
    /\ cl' = [cl EXCEPT ![c] = "done"]
    /\ UNCHANGED <<server, kind, parent, child, sockets, got, failed>>

\* A silent client goes when it likes, another one when it is killed.
Leave(c) ==
    /\ kind[c] \in Tcp /\ cl[c] \in {"connected", "sent"}
    /\ cl' = [cl EXCEPT ![c] = "gone"]
    /\ IF kind[c] = "silent" THEN UNCHANGED failed ELSE Fail(c)
    /\ UNCHANGED <<server, kind, parent, child, sockets, got>>

ChildStep(c) == ChildRead(c) \/ ChildWrite(c) \/ ChildExit(c)
ClientStep(c) == Send(c) \/ ReadReply(c) \/ EndOfFile(c)

Next == \/ ServerStep
        \/ \E c \in Clients : \/ ChildStep(c) \/ ChildKilled(c) \/ ClientStep(c)
                              \/ Connect(c) \/ SendTo(c) \/ Leave(c)
Spec == Init /\ [][Next]_vars

\* Processes run; a client that has connected goes on, one that is silent or
\* has not started owes nothing.
Fairness == /\ WF_vars(ServerStep)
            /\ \A c \in Clients : WF_vars(ChildStep(c)) /\ WF_vars(ClientStep(c))
FairSpec == Spec /\ Fairness

----------------------------------------------------------------------------
(* Properties *)

\* What a client has read is the beginning of one reply, in order and never
\* twice, although parent, child and reset may end the connection at any time;
\* who reads to the end has read all of it, unless its text did not fit the
\* buffer or a fork, its child or the client itself failed.
Whole == <<"prefix", "text">>
WholeReply ==
    \A c \in Clients :
        /\ got[c] \o reply[c] \in {<<>>, <<"prefix">>, Whole}
        /\ cl[c] = "done" /\ kind[c] = "short" /\ c \notin failed => got[c] = Whole

\* The only thread of the select server waits for a client to say something.
Blocked == server = "select" /\ pc = "read" /\ cl[cf] = "connected" /\ kind[cf] = "silent"

\* Every client that has sent its text comes to the end of the stream, and
\* every datagram that is not lost is answered: silent clients hold up those of
\* the select server, TCP and UDP, but nobody at the server that forks.
Served ==
    \A c \in Clients :
        /\ kind[c] \in Tcp => cl[c] = "sent" ~> cl[c] \in {"done", "gone"} \/ Blocked
        /\ kind[c] = "udp" => cl[c] = "sent" ~> got[c] = Whole \/ c \in failed \/ Blocked
=============================================================================
