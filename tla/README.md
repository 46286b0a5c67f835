# eltex-study in TLA+

The repository holds the exercises of a course on C and Linux: sixteen labs, from arrays
and pointers to process pools and chats.  They share no code.  What makes them worth
modelling is mostly the second half: processes and threads that meet in shared memory, message
queues, sockets, semaphores, signals and mutexes.  Of the first half the programs with a state
are modelled too: the two phone books and the file manager.

Modules are named after what they model; the comments in each say which code an operator
translates where this is not evident from its name, and `PROJECT.json` (`map`) gives the
source lines of every definition.

## 1. The system

### Components

| component | state it keeps | operations | how its parts meet | what is hard | what makes it correct |
|---|---|---|---|---|---|
| **lab14/chat**: chat in shared memory | an inbox ring (clients to server), a message ring (server to clients), the table of names; in each client a cursor | server: create, greet, wait, pop and handle JOIN or CHAT; client: open, poll `init`, push, prompt, replay, follow, `/quit` | one `shm` object, one process-shared mutex, one condition variable, always broadcast; two threads per client with a mutex of their own | lost wake-ups, two rings at their wrap-around, start-up in three steps, death with the mutex held | no item lost, doubled or reordered; ids without gap; a screen follows the history; everyone progresses |
| **lab13/chat**: chat over message queues | table of members with descriptors, history; in each client its screen | server: receive, add a client (row, replay, history, broadcast), broadcast a line; client: JOIN, lines, receive, quit | a queue into the server, one into each client | full queues block the server; replay against broadcast; clients that leave | replay and broadcast join without gap or double |
| **lab16/2/2**: dispatcher and TCP workers | table of workers: pid, port, busy, time of last FREE | dispatcher: spawn, drain notifications, answer with a port or BUSY, kill idle ones; worker: FREE, accept, answer | a pipe per worker for FREE, TCP between clients and both | a FREE that is late, a port handed out and never used, the kill of a worker just promised | a worker serves one client; table exact; nobody sent to a killed worker |
| **lab16/2/3**: task queue and call-back workers | `worker[]`, `worker_cnt`; System V queue | main: accept, `msgsnd`, reply, spawn or remove; handler of SIGCHLD: forget a worker; worker: `msgrcv`, call back | the queue; the handler shares the table with main | the handler runs inside `worker[worker_cnt++] = pid`; a client that says nothing; a call-back that fails | table exact outside races; an acknowledged task is in one place |
| **lab11**: shops | stock and mutex of each shop; need of each customer; `stop_mover` | customer: trylock, look, buy, leave; mover: trylock, add; main: join, stop, join, destroy | one mutex per shop, `trylock` on random shops | mutexes destroyed while in use, stop between lock and test | nothing lost; everyone is served and the program ends |
| **lab13/posix, lab13/sysv, lab14/posix, lab14/sysv**: one greeting and one reply | kernel objects with a name: queues, memory, semaphores | create, open, write, send or post, receive or wait, read, unlink | the objects outlive the processes | objects left over by a killed run; several clients; a client between two runs | the right text is printed, a reply is that of the client greeted |
| **lab12/bash_new, lab10/bash**: shells | the line, the pipes and the children of it | read a line, pipe, fork, close, waitpid; child: dup2, close, execvp | pipes, copied descriptors, exit states | children that run before the others are forked, descriptors left open, failed calls | the line computes what its commands compose to; nothing is left behind; the prompt comes back |
| **lab4, lab6**: phone books | array and count; doubly linked list with both ends and count; the rest of a typed line | add, delete, search by name, show; the menu | none | count at its limit, deletion at both ends, what an over-long line leaves for the next prompt | the list of what was added and not deleted; forward and backward reading agree |
| **lab9/file manager**: two panels | per panel: path, entries as they were read, cursor, scroll | keys: move, page, home, end, switch, enter, up, quit; resize | the file system changes meanwhile | a stale entry under the cursor, a directory that is gone, a terminal with no row for the list | cursor and scroll within the list, the entry under the cursor on the screen if there is a row for it; list and title agree |
| **lab16/2/1**: a child per connection | none in the parent | accept, fork, serve, close | TCP; inherited descriptors | a descriptor left open keeps the client waiting | every client gets the whole reply |
| **lab16/2/4**: select over TCP and UDP | what select reported | select, accept, read, answer, recvfrom | sockets | a read without time limit in the only thread | neither socket starves while clients talk |
| lab12: pipe, FIFO | none | one message | a pipe, a FIFO | | |
| lab15: signals | the pending set of the kernel | wait, handle | `kill` | signals coalesce | |
| lab1, lab2, lab3: bits, matrices, pointers | none | pure functions | none | | a reference definition |
| lab7, lab8: calculator | none | + - * / | static and dynamic linking | | |
| lab9/reverse, lab10/tree, lab16/1, lab16/3, lab16/4 | none or fixed | one message, one loop, one tree | sockets, wait | | |

### Hazards

`PROJECT.json` (`hazards`) lists what the code is exposed to, each at its line, with the
properties that watch it, or a note where the bad outcome is what the code does, so that the
properties about it exempt it and none can forbid it.  The families are: wake-ups that can be missed (lab14/chat,
lab13/chat), tables shared with a signal handler or read while they are stale (lab16/2/2,
lab16/2/3), rings, queues and tables at their limit, processes that die between two steps
(everywhere), objects left over by an earlier run (lab13, lab14), locks that outlive
their owner (lab14/chat, lab11), descriptors that outlive their use (the shells, lab16/2/1), and what is
remembered of a file system that others change (lab9).

## 2. The modules

| module | models | composes or refines |
|---|---|---|
| `ChatService` | what either chat promises: submissions are logged once, in order, and each screen is a growing part of the log | abstract; implemented by the next two |
| `ShmChat` | lab14/chat, server and clients | implements `ChatService`, but for clients that were overrun |
| `MqChat` | lab13/chat, server and clients | implements `ChatService`, but for clients that come too late for the history |
| `TcpPool` | lab16/2/2, dispatcher, workers and clients | |
| `MsgPool` | lab16/2/3, main, SIGCHLD, workers and clients | |
| `Shop` | lab11, customers, mover and main | |
| `Pipeline` | lab12/bash_new and lab10/bash, the children and their programs | |
| `Exchange` | the eight programs of lab13/posix, lab13/sysv, lab14/posix, lab14/sysv as sequences of calls on one model of kernel objects | |
| `AddressBook` | what either phone book promises: a list that grows at its end and loses one at a time | abstract; implemented by the next three |
| `BookArray` | the store of lab4 | implements `AddressBook` |
| `BookList` | the store of lab6 | implements `AddressBook` |
| `PhoneBook` | the menu and the input of lab4 and lab6 | composes `BookArray` and `BookList`; its book is an `AddressBook` |
| `FilePanel` | lab9/file manager, both panels, the keys, the file system | |
| `OneShot` | lab16/2/1 and lab16/2/4, servers, children and clients | |
| `ShmChatProofs`, `MqChatProofs`, `TcpPoolProofs`, `MsgPoolProofs`, `ShopProofs`, `ExchangeProofs`, `OneShotProofs` | theorems about the module each is named after | extend that module |
| `KeyboardProofs` | theorems about the programs one user drives from the keyboard: the phone books, the file manager, the shells | extends `PhoneBook`, `FilePanel` and `Pipeline` |
| `MC*` | names for model values, symmetry; nothing is redefined | |

Each module has, before some operators, a second one with the suffix `_bug` (or another
suffix its header names): the operator with a slip a programmer could make.  The model never
uses them.  Replacing the operator by its slip makes the property named in its comment fail,
which shows that the property says something about that code.

### ShmChat

A step is what a thread does between two points at which others can act on the shared
object: taking the mutex, `pthread_cond_wait` (which releases and queues in one step, and
takes the mutex again in a later one), a critical section or one iteration of it, a wait for
the user.  `owner` is the mutex, `waiting` the threads asleep on the condition variable, and
the `pthread_cond_broadcast` of each critical section is part of the step that makes it.

* Server: `CreateShm` (three steps: `shm_open`, `ftruncate`, initialisation and `init = 1`),
  `ServerLock`, `Hello`, `ServerWait`, `ServerPop` with `HandleJoin` or `HandleChat`,
  `DrainDone`; `ServerStop` is SIGINT at any point.
* Main thread of a client: `Start`, `PollInit`, `MainLock`, `PushWait`, `Push`,
  `CreateThread`, `Prompt`, `UserInput`, `QuitNotify`, `Join`.
* Receiver thread: `RecvLock`, `ShowNext`, `NothingNew`, `Sleep`, `Redraw`, `LoopTest`.
* `Kill` ends a client at any point; a mutex it owns stays locked.

`ui_mutex` has no variable: it is held for longer than a step only while the user is at the
prompt.  A spurious wake-up is left out: every wait of the program is in a loop that tests
its condition again, so it adds no behaviour but stuttering and a lock.  The text of a line is
its number in its user's session; time stamps and formatting are left out.  A second server
unlinks the name and makes a new object, so it is a new instance of the model.

Three things that the model brought out and that the properties state as they are, not as one
may wish them:
* the receiver prints with the mutex of the whole chat in hand, and printing needs
  `ui_mutex`, which main holds at the prompt: a user who has typed nothing stops the
  whole chat as soon as something is to be printed (`Frozen`);
* a mutex is not robust: a process that dies with it stops everyone (`Orphaned`);
* the replay starts at id 1, whatever `start_id` was computed to be, so a ring that was overrun
  shows newer messages in the place of older ones (`DisplayFaithful`).

### MqChat

`Receive*` takes a message from the server's queue; a JOIN then goes through the states of
`add_client` with the index `i` (replay of the history, the new message into the history,
broadcast), each `mq_send` a step that blocks on a full queue.  Each client has the state of its
main thread, a line in hand (`draft`) that its sending thread may be blocked with, a queue and
a screen.  `colon` holds the users whose name contains a `:`: the client puts name and text into one
string with that separator, and the server splits it at the first one.  A line that the user types either
fits behind the name or does not (`"fits"`, `"long"`); one that does not is dropped by its client
(chat_client.c:99), and nobody is told.  A client that leaves
unlinks its queue, the descriptor in the server's row keeps the queue alive, and it fills up.

### TcpPool

The dispatcher is one thread with the four phases of its loop: `Accept`, `drain_notify` (one
worker per step), `ReplyPort` or `ReplyBusy`, then the reaping (`Remove`, `Keep`).  Each worker
posts FREE, then serves one connection; each client dials, connects to its port, waits for the
answer, and may die at each point; so may a worker, and a spawn may fail.  The connection is
named by its client.  A client that died with a port it never used leaves its row busy for ever
(`vanished`), which `BusyAccounted` states.

### MsgPool

The statements of `main` that touch the table are cut at the machine steps of the `-O0` build
(the Makefile gives no optimisation): `worker[worker_cnt++] = pid` is a load, a store of the count
and a store of the pid.  `SigChld` may come between any two steps of main, and `raced` records
that it came inside a change of the table.  `signal()` of glibc sets SA_RESTART: the handler
does not interrupt `accept` or `read`, but it does interrupt a `msgsnd` that sleeps on a full queue (that
call is never restarted), and main, which does not look at the result, says `ok` for a task that is
in no queue (`lost`).  For the same reason `alarm(1)` never makes `accept` return, and the pool shrinks
only after a connection.  The repository's client writes `port` and `host` in lower case, which the
server does not parse, so it always gets `err`; `WellFormed` are the clients the server was written for.
`Accept` takes a connection and `Read` is all of `read_line` and what follows from the line: it waits until the
client has sent its line (`"sent"`) or hung up (`"gone"`), and in the second case closes the connection
without a reply.  There is no limit of time, so a client that connects and says nothing stops the only dispatcher
(`Silenced`); `Answered` names that and shows that a full queue, the pool's growth or a dead worker is no such
case.  A worker that gets no socket, no address or no connection goes on to the next task
(`CallBack`, second disjunct): the task was acknowledged and is then `discarded`, one of the six places of
`AckedOnce`.  Left out: an `accept` or a `fork` that fails for want of resources, signals to the server itself, and
clients that reset the connection between line and reply.
A slot of the table that a race has left unset may hold 0, and `kill(0, SIGTERM)` of such a slot
ends the server with its whole process group (`pc` is then `"ended"`).

### Shop

A purchase and a delivery read the shelf in one step and write it in another; the mutex of the
shop, taken with `trylock`, is what makes that safe.  The random probe of `try_lock_shop` is a choice
among the free shops.  The mover may be stopped between its lock and its test of
`stop_mover`: that shop stays locked when its mutex is destroyed (`DestroyedWhenUnused`).

### Exchange

`ServerProgram` and `ClientProgram` give, for each of the four mechanisms, the calls of the
two programs in order; one action per kind of call says what the kernel does with it.  Objects have
generations: `unlink` ends a POSIX name and leaves the object to those who have it open, `IPC_RMID`
takes it from everyone.  A client that opens memory and semaphores one after the other may get the
memory of one run of the server and the semaphores of the next (`Mixed`), and the programs of
lab14 go on after a failed wait (`err`); the properties name both.

### Pipeline

Both shells are one machine: lab10 takes the whole line for one command, has no pipes and no `pids`,
and a failed fork takes it back to the prompt.  A process holds a set of pipe ends (`ends`)
besides what is behind its descriptors 0 and 1; fork copies the set, `CloseCopies` and
`ClosePipes` empty it, and a pipe reports end of file or SIGPIPE according to who holds
an end of it.  The programs a user may type are modelled by what they read and write; who reads
the terminal finds the end of the input (the user types Ctrl-D), since nothing but the user makes such
a program end.
The parent forks one child per step, and the children forked so far run at the same time.  After
a failed fork the entries of `pids` that were never written may hold anything (`Pid`), the pid
of a child that has been waited for included; `waitpid` then returns at once.  Without memory for
the words of a command the code frees pointers that were never set: the shell crashes or
goes to the next line (`ParseFails`).

### PhoneBook

`BookArray` and `BookList` are the two stores, each with the operations of its `struct.c` and
nothing else; `PhoneBook` is the menu over one of them.  An answer of the user is a line, known by whether it is a
number and by its length.  `scanf` leaves the rest of a line for the next prompt, and `input()` drops the
rest of a line that is too long but, after a line that just fits, takes the next one for that rest: so a
contact may get a name its user never meant for it, which is modelled, and is why `BookKept` is about the
list and not about what the user had in mind.  `add_abonent` of lab4 refuses only when `count > MAX_AB`
(struct.c:18): one contact more than the array holds is written behind it.  What lies there may
be free, and then the array works with a cell more (`Cells`), or be something of `main`, and then the
course of the program is not followed any further (`Overwrite`).

### FilePanel

A state is the program at `wgetch`, with both panels drawn; a step is one key and all that follows it up to the
next `wgetch`: the move of the cursor, the change of the path, reading the directory, the
clamp and scroll of `panel_draw`.  Other processes make and remove files and directories between
two keys (`Create`, `Remove`).  A directory is read at one instant and in any order, as `readdir` leaves
it open.  Line 61 of app.c tests the key with `ch = KEY_BACKSPACE || ...`, which is an
assignment and always true: every key that no earlier branch took, a resize of the terminal included,
goes one level up, which is not what the help line of panel.c:106 says.

`Window` is what the user can see of a panel: the lines below the title that the window has, each with its entry,
but for the last one, which the help line of panel.c:106 overwrites.  `list_rows` counts at least one row even where
the window has none, so on a terminal of one or two lines no entry can be read, and
`CursorVisible` claims the cursor to be in sight from three lines on; cursor and scroll stay within
the list on any terminal.

### OneShot

One model for two servers of the same task: `server` says whether the connection is served by a child (`Fork`,
`ChildRead`, `ChildWrite`, `ChildExit`) or by the only thread, between two calls of `select`.  What a client sees of
the end of its connection depends on who holds a descriptor of it (`holders`): a child inherits all that the
parent had open at that time.  Closing a connection of which something was not read resets it, and
the client may lose the answer: this is what becomes of a request that is longer than the
server's buffer.

## 3. The runs

All runs finish with no error.  Deadlock checking is off where the programs end or wait for a
partner or a user that does not come; progress is then stated by the liveness properties.

| run | instance | shows |
|---|---|---|
| `shmchat_lines` | 2 users with a name and a line each, inbox of 2 slots (1 usable), message ring of 4 slots for up to 5 messages, table of 1 row, 1 death | `InboxFaithful`, `HistoryRing`, `DisplayFaithful`: nothing lost or doubled on the way, the screen differs only by an overrun; `ImplementsService` |
| `shmchat_live` | 2 users who may choose the same of 2 names and only join, quit or stay, table of 1 row, weak fairness, 1 death | `TypeOK`, `TableIsFirstJoins`: a JOIN is answered once, by a row or a warning; `PushServed`, `QuitEnds`, `ReceiverFollows`: no wake-up is lost |
| `tcppool_safety` | 3 clients, 1 to 3 workers that expire at the next tick, 1 failure | `TypeOK`, `Exclusive`, `TableExact`, `RefusedOnlyByCrash`, `BusyAccounted` |
| `tcppool_live` | 2 clients, 1 or 2 workers, 1 failure, weak fairness | `Answered` |
| `msgpool` | 2 well-formed clients and 1 of the repository, any of which may stay silent or hang up, queue of 1 task, a table of 4 rows, 2 to 4 workers, 1 death, call-backs that fail, weak fairness | `TypeOK`, `TableExact`, `AckedOnce`; `Answered`: everyone who has sent a line, unless a silent client holds the server |
| `shop` | 2 customers with needs 1 or 2, 2 shops with 0 or 1 on the shelf, mover | `TypeOK`, `NothingLost`, `DestroyedWhenUnused`, `Finishes` |
| `mqchat` | 2 users with 2 lines that fit and any number that do not, history and screen of 2, queues of 1, 1 death, fairness | `TypeOK`, `ScreenFaithful`, `ImplementsService`; `Delivered`: each line that fits is broadcast and reaches every member |
| `exchange` | 2 runs of the server, 2 clients, 1 kill, all four mechanisms | `RightText`, `Paired`, `Answered` |
| `pipeline` | both shells, all 259 lines of up to 3 commands of 6 kinds, one after the other for ever, one failed call a line, pipes that hold 1 item | `NothingLeft`, `Computes`, `PromptReturns` |
| `filepanel` | 2 names, paths of up to 2 names, any order of a list, terminals of 1 and 2 (no row for the list), 3 and 4 lines, 1 change by others, any keys | `TypeOK`, `CursorVisible`, `ShowsItsDirectory` |
| `phonebook` | both books, an array of 2 cells, 3 nodes of memory, fields of 2 characters, any lines for ever | `LinksAgree`, `BookKept` |
| `oneshot` | both servers, 3 clients of which one says more than a buffer or sends a datagram and one says nothing, 1 failure | `WholeReply`, `Served` |

**Why these bounds are enough to be interesting.**  Two competitors for one resource are the least with
which an interleaving can go wrong, and every ring, queue and table is so small that its limit is reached:
the inbox wraps at every push, the message ring is overrun, "gen" writes more than its pipe holds, the name table is full after one JOIN, the
mq queues fill while the server broadcasts, the task queue holds one task, both phone books run out of room, the panel has
fewer rows than entries.  The clock goes far enough for a
worker to expire, forks far enough for one to be replaced, and `tcppool_safety` has three rows because
after a reply the first row of a pool is always busy: only with a third one does a removal move a row
down.  One death or failure
may fall on every step of every process.  Every bound is a CONSTANT with a name that begins with
`Max`, in a comment of the module called a bound.

**Fairness.**  Weak fairness for each thread or process (in `Pipeline` the shell and each child, in
`OneShot` the server, each child and each client that reads): the
scheduler runs a thread that stays runnable.  Users, clients and failures owe nothing: a client of
`MsgPool` need not say anything after it has connected, and a call-back may fail every time.  A mutex is not granted in turn, so taking it
is weakly fair only, and still enough in `ShmChat`.  Strong fairness is used in three places: the
sender on a full message queue in `MqChat` (the kernel keeps the blocked senders in a list
and passes each free slot to the first), and in `Shop` the random choice of a customer and of the mover
(`rand()` hits each shop again and again; without it a customer may for ever try the shop that is just
locked or empty).

## 4. The proofs

Every theorem holds for all values of the constants its module assumes: any number of clients or workers, all
sizes of rings, queues, tables, screens and histories.  In each module one inductive
invariant is proved step by step, one lemma for each action or group of actions, and the theorems follow
from it.

| module | theorems | inductive invariant, and why the property is not enough |
|---|---|---|
| `ShmChatProofs` | `TypeCorrect`, `InboxCorrect`, `HistoryCorrect`, `DisplayCorrect`, `ChatIsService` (the refinement of `ChatService`), `TableCorrect` (`TableIsFirstJoins`) | `ServiceInv`: types with `UserOK` (past `off` a client has a name of its own, in state `chat` a line), both rings, the screens, `Printed` (a screen is no longer than the log) and `Greeted` (the server greets once, into an empty log). For the table `TableInv`: its rows are the first names of the log in their order (`Said`), with the JOIN that is handled in between |
| `MqChatProofs` | `TypeCorrect`, `ScreensAreFaithful`, `ChatIsService` (the refinement of `ChatService`) | `Inv`: one row and one JOIN for each client, the history is the beginning of the log, how far the log was when a client was added, what was sent to each row, each message on the way and on the screen; `InHand` for the JOIN being handled |
| `TcpPoolProofs` | `PoolType`, `OneClientEach` (`Exclusive`), `TableIsExact`, `NoneKilledInUse`, `EveryBusyRow` | `Inv`: which states of a worker go with which state of its row, of its notifications and of the client it was promised to |
| `MsgPoolProofs` | `AckedInOnePlace` (`AckedOnce`), `TableOfWorkers` (`TableExact`), `CountInRange` (`TypeOK`) | for the first, where each task may be in each state of its client (six places, the tasks that a failed call-back discards among them); for the second, `~raced => TableInv`: what the table is at every machine step of main, with the handler's part; for the third, `CountInv`: at each machine step the rows that are counted name workers that serve, but for as many as have died by themselves (`Cover`), so no two removals that race take the count too far down |
| `ShopProofs` | `ShopType`, `ShelfIsFresh`, `NobodyInside` (`DestroyedWhenUnused`), `GoodsBalance` (`NothingLost`) | `Inv`: who is in a shop holds its mutex, and what was read off the shelf is still there; `Balance`: every purchase takes as many units from the stock as from the need |
| `ExchangeProofs` | `ExchangeIsOrderly`, `TextIsRight` (`RightText`), `PairsAreRight` (`Paired`) | `ExchangeInv`, which is `AlwaysInv /\ (Orderly => OrderInv)`: what holds of objects and processes after any history, and, as long as nobody was killed and no client has mixed up two runs, which message is in which object at each call of both programs |
| `OneShotProofs` | `ReplyIsWhole` (`WholeReply`) | `Inv`: no client is queued twice, each connection is open in the process that serves it and in no other (`Descriptors`), and what a client has been told fits where its server stands (`Telling`, `Right`) |
| `KeyboardProofs` | `ArrayIsBook`, `ListIsBook` (each store implements `AddressBook`), `LinksAlwaysAgree` (`LinksAgree`), `BookIsKept` (`BookKept`) | the count of the array is at most one more than its size; `ListInv`: one sequence of nodes, without a node twice, is the chain of `next` from `head` and, backwards, that of `prev` from `tail` (`Linked`); `LoopInv` carries the store of the program that runs through the menu |
| | `PanelType`, `CursorStaysVisible`, `TitleAndListAgree` (`ShowsItsDirectory`) | `IInv`: cursor and scroll are within the list whatever the height, rows fewer than one included, and from three lines on the window shows the entry under the cursor |
| | `LineLeavesNothing` (`NothingLeft`) | `ShellInv`: which children may exist at each point of the loops over fork and `waitpid` (`Left`), and who has ends of pipes (`Closed`) |
| | `ScreenIsRight` (`Computes`) | `FlowInv`: how many items each command has read and written (`Amounts`), what it holds of them (`Places`), which descriptors it has at each step to its program (`Descriptors`), and that whoever has ended had written all or has nobody behind it (`Finished`) |

**Assumptions.**  Those that the modules name, and no others: `Sizes` (`MaxInbox > 1`: with one
slot no item could be pushed; a message ring of at least one), `MqChatSizes` (a queue and a screen that hold at
least one message), those of the pools, the shop, the books, the panel and the servers on their sizes and
finite sets.  In `MsgPool`, `MaxTime > 0` and `MaxDeaths < START`: the
program lets the pool shrink to `START` rows and never below, but a worker that dies by itself takes its
row with it whenever that is, and nothing in the code keeps the count from 0 if enough of them do.

**The rings** relate indices that are taken modulo the size to counters that are not.
`InboxFaithful` survives a push because two items that are both pending are fewer than
`MaxInbox` apart, so they have different slots; `HistoryRing` because the slots written by the
last `MaxMsg` messages are different.  `DisplayFaithful` then follows: what is printed for id
`k` is in the slot of `k`, and the message there is the newest up to `next_msg_id` that shares the slot
(`ModNewest`), which is `k` unless the ring has been overrun.  The facts about `%` that this takes
are proved once, in the first section of `ShmChatProofs`, from `a = (a \div n) * n + a % n`.

**The screens of `MqChat`** are proved message by message: `Due(c)` is how many a client is due, `Nth(c, k)` the
k-th of them, counted over the two pieces of the log that `Expected(c)` puts together.  A message more in the log
is one more that is due to every member and changes none of those before; replay and broadcast
send exactly the next one.  `ExpectedShape` and `Piece` take this back to the sequences of
`ScreenFaithful`.

**Counting and walking.**  Three proofs need an induction that no theorem of the library gives in a form the
provers can use, since it would take an operator as its argument: the sum of the stock over a set of shops, the number
of rows that cover a worker, and how far a walk along the links of a list gets.  Each takes a
least counterexample instead (`LeastOf`, from the well-foundedness of `<` on the naturals), or a set for a
predicate (`SetInduction`).  In `ListIsBook` the function that follows a link is
what its recursive equation chooses (`FollowChosen`); that there is exactly one such function is `Walk`'s part.

**`RightText` and `Paired`** rest on the order of the runs.  The objects of a name have generations, and as long as nobody was
killed and no client is `Mixed` there is one number `over` of runs that have ended, and all that the running
server has is of the generation after it (`Runs`).  Within a run a server is told apart from the next one by its
generation, and its conversation with the client that took its greeting is followed call by call (`Talk`, `Written`,
`Hearing`), for each of the four mechanisms.  With the queues `RightText` needs none of this: their types alone
say who puts what into which (`QueueInv`).

**`WholeReply`** is about who may write next.  Server and child write to the same connection, but never both: a
server that forks writes nothing, one that selects has no children (`OwnWork`).  What is left is that nobody is
served twice, which is why a client may be in a queue once only and nowhere else while it is there
(`Waiting`), and that a reset, which takes back what was not read, leaves the beginning of a reply
(`Beginning`).

**`NothingLeft`** looks at the hardest line: a fork has failed, and the loop over `pids` reads entries that were never
set.  Such an entry may name a child that has been waited for, or one whose turn has passed; it cannot name one that is still
to come, because those before the failed fork come first.  So after the loop over
all of `pids` no child is left, and with the last of them went the last end of a pipe.

**`Computes`** speaks of how much was read and written, which the state does not hold: `FlowInv` says that
there are such numbers, two for each command, and a step of a program adds one to one of them.  Each result is either without
end, and all ones, or the first numbers (`AllNumbered`, along the recursion of `Results`), so the next
item and the contents of a pipe follow from these numbers alone.  No program is killed too early because of `NotEnded`:
the two ends of a pipe are open in the shell until all children are forked, and in each child that needs one of them
until it is its input or output.  A reader that does find the end of its input has therefore read all that the one in front
of it has written, and that one has written all.  A failed fork or `dup2` ends this, which is
why the property asks for a line without one.

**What stays with TLC.**  All liveness and fairness: `ENABLED` is beyond the prover.  Every invariant and every
action property that a run checks is stated by a theorem.

## 5. Not modelled

* **Data.**  Texts, formatting, screens' colours and windows, logs and time stamps; numbers in requests of
  lab16/2; the texts in the fields of a contact but for the length of the name.
* **Failures of single system calls** that do not depend on other processes (`shm_open` without
  permission, no memory): the programs print and end.  Where a failure leads to more than an end of
  the program (fork in a pool, `pthread_create` in a chat client) it is modelled.
* **Restart of a server** in the chats: it makes new objects, so old clients and new ones never meet;
  it is a new instance.  In `Exchange` old and new runs do meet, and are modelled together.
* **The components marked not modelled above and in `PROJECT.json`.**  lab7, lab8, lab9/reverse, lab10's trees,
  lab16/1, lab16/3 and lab16/4 have no state over which more could be said than what C or the kernel
  define; lab12's FIFO and pipe and lab15's signals pass one message and end.  lab1, lab2 and
  lab3 are pure functions on numbers and arrays typed by the user, without a state.

## 6. Plan

What could follow, in this order:

1. lab12's FIFO and lab15's signals as a fifth and a sixth mechanism of `Exchange`;
2. lab1, lab2 and lab3 as functions against reference definitions, bit operations at their width.
