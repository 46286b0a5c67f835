---------------------------- MODULE ChatService ----------------------------
(***************************************************************************)
(* What the chat of lab14/chat promises its users, with no rings, mutexes  *)
(* or threads: submissions are handled one by one in the order they were   *)
(* made, every line of chat goes into ONE log, and the screen of every     *)
(* client is a prefix of that log.                                         *)
(***************************************************************************)
EXTENDS Naturals, Sequences

CONSTANTS Clients, Submissions, NoName
VARIABLES queue, log, screen
serviceVars == <<queue, log, screen>>

ServiceInit == queue = <<>> /\ log = <<>> /\ screen = [c \in Clients |-> <<>>]

Submit == /\ \E s \in Submissions : queue' = Append(queue, s)
          /\ UNCHANGED <<log, screen>>

\* The next entry of the log speaks about `who' and says `text'.
Record(kinds, who, text) ==
    \E kind \in kinds :
        log' = Append(log, [id |-> Len(log) + 1, kind |-> kind, name |-> who, text |-> text])

Greet == /\ log = <<>> /\ Record({"start"}, NoName, 0)
         /\ UNCHANGED <<queue, screen>>

\* A line of chat is always recorded, a join at most once.
Handle ==
    /\ queue # <<>>
    /\ LET s == Head(queue) IN
       \/ s.type = "chat" /\ Record({"chat"}, s.name, s.text)
       \/ s.type = "join" /\ Record({"join", "warn"}, s.name, 0)
       \/ s.type = "join" /\ UNCHANGED log
    /\ queue' = Tail(queue)
    /\ UNCHANGED screen

Show(c) ==
    /\ Len(screen[c]) < Len(log)
    /\ screen' = [screen EXCEPT ![c] = Append(@, log[Len(@) + 1])]
    /\ UNCHANGED <<queue, log>>

ServiceNext == Submit \/ Greet \/ Handle \/ \E c \in Clients : Show(c)
ServiceSpec == ServiceInit /\ [][ServiceNext]_serviceVars
=============================================================================
