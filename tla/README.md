# TLA+ models of the Eltex course programs

The repository is a collection of small C programs written for a course on systems programming.
Those most worth a model are the ones in which several processes or threads share something: a
table, a queue, a socket, a segment of memory, a counter. Some that run alone are worth one as
well: two phone books, a spiral, and the loops that read command lines. This directory models
those programs in TLA+, checks them with TLC on small instances, and proves with TLAPS the facts
that matter most for every instance.

Contents: [Inventory](#inventory) · [Modules](#modules) · [What the runs
show](#what-the-runs-show) · [Disagreements](#disagreements) · [Bounds](#bounds) ·
[Fairness](#fairness) · [Proofs](#proofs) · [Abstractions](#abstractions) · [Not
modelled](#not-modelled) · [Plan](#plan)

To check a run: `tlc -config PoolServerCore.cfg PoolServer.tla`; to check the proofs: `tlapm` on
each of `PoolServerProofs.tla`, `PoolSystemProofs.tla`, `ThreadSystemProofs.tla`,
`ChatRosterProofs.tla`, `ChatQueueProofs.tla`, `ChatMemoryProofs.tla`, `ProcessProofs.tla`,
`SequentialProofs.tla` (the last two take some ten minutes each). `PROJECT.json` lists every run, the
lines of the source each definition stands for, the hazards, and for each property a deliberate
error (a *mutant*) that it finds.

## Inventory

### UDP server pool (ex19/p2: server.c, client.c)

*State.* The server: a main thread, `MINTHREAD` pool threads and dynamic threads; `ports[]` (a
flag, a busy bit and a ready bit for each port) under one semaphore; `tinfo[]` (the port a new
thread is to take), without it; `cexit`, set by SIGINT. The client: the address it sends to, its
buffer, `cexit`.

*Operations.* Main: create the pool; receive a request; count the threads; look for a free pool
thread, or create a thread and wait for it busily; answer with a port; clean up. A thread: give
itself a number, bind the port, mark itself ready; receive; accept a greeting or turn it away;
answer "ok" or "END"; free its entry. The client: ask for a port, greet, send words, say END.

*What is hard.* A thread numbers itself by *counting* flagged entries, while main has used an
earlier count for the same purpose; `ready_thread` is read before anybody has written it and is
never reset; there are three ways out of a dynamic thread; datagrams arrive in any order; `recvfrom` rewrites the address the client sends
to; SIGINT interrupts any wait on either side.

*Correct means* that numbers below `MINTHREAD` belong to the pool; that a busy bit says what its
thread believes; that no entry leaks; that no two clients are sent to one dynamic thread; that only
requests come to the main server; that clients are served and the pool is free when all is quiet.

### Chat over a message queue (ex16/p2) and over shared memory (ex17/p2)

*State.* The server: the list of pids `list[]` and its length `i`; the queue of service messages
(`add`, `del`, `log`); the history file. In ex16 the texts are in the queue too, one type per
client; in ex17 in five places of shared memory without a lock. Each client: its loop, its
`cexit`. The window (`iface`) that shows the history.

*Operations.* Server: start the window and wait for its pid; in every turn, read texts, one
`add`, one `del`; at SIGINT, end the window and remove the queue. Client: join, type, leave.
Window: tell its pid, end.

*What is hard.* Messages of different types overtake each other; `i` goes down for every `del`,
found or not; `realloc()` is asked for too little; the queue fills up; a client and the server
walk the places at their own pace and mark them in separate stores.

*Correct means* that the room is who joined and has not left; that what is shown of a client is
what it typed, once, in order, under its name; that SIGINT ends the server and the window.

### UDP thread per client (ex19/p1: server.c, client.c)

*State.* `tinfo[]`, grown by `realloc()` at every request, and a pointer into it in each thread;
the sockets; in the client the address it sends to and what its buffer says. *Hard:* the pointer
may be stale when it is read; SIGINT ends waits at different stages of a session; every datagram
to the main port is a request. *Correct means* that no two clients are sent to one thread, and
that a thread ends with its client.

### Warehouse (ex14/magaz.c)

*State.* Five shops with a mutex each, the need of each buyer, the counter `a` of the buyers
that have finished. *Hard:* locks are only ever tried; a purchase is two stores; `a++` has no
lock. *Correct means* that goods are neither lost nor sold twice, and that the loader does not
stop while somebody needs goods.

### Pipe and semaphore (pipe.c), POSIX queue (ex16/p1)

Two processes use one channel in both directions. In pipe.c a System V semaphore that outlives
the program keeps the parent from reading back its own string; in ex16/p1 nothing does but the
order of starting. *Correct means* that each side hears the other, and that nobody waits for
ever.

### Echo servers (ex18/p1 over UDP, ex18/p2 over TCP)

*State.* The server's socket and the address, or the one connection, it answers to; in each
process `cexit`. *Operations.* The server sends back what it gets; a client sends every two
seconds and never reads. *Hard:* `recvfrom` cut short by SIGINT leaves the datagram before in
its place, and the result of `recv` and `send` is not looked at by the TCP server, so what ends
it is a signal it has no handler for; over TCP, echoes nobody reads fill both directions.
*Correct means* that no datagram is sent back twice, and that over TCP no process outlives the
other or everything stands still.

### Shared counter (ex13/streams.c)

Fifty threads add one to a variable a thousand times each, without a lock. *Hard:* what is lost.
*Correct means* what remains in any case: two.

### Command lines (ex18, ex19)

Three loops read them: `parse_arg()` of the pool server, `main()` of its client, and one that
the echo programs and ex19/p1 share. *State:* the place in `argv`, the port, address and
interface. *Hard:* a word may be missing, a number is cut to 16 bits, an interface that cannot
be looked up is looked up again. *Correct means* that a program runs with exactly what its line
says, or not at all.

### Phone books (ex4/p3/ex4.3.c, ex6/ex6.c)

*State.* In ex4 an array and a count; in ex6 memory that grows with every subscriber.
*Operations:* add, find, delete. *Hard:* a number is read over the one typed before it and
compared in full; a deletion moves the array and the count apart (ex4), or only as many
characters as a pointer has bytes (ex6). *Correct means* that the menu works on a list.

### Spiral (ex2/p4/ex2.4.c)

The numbers from 1 to N * N go into a square along a spiral, one side per turn of the loop; the
last one is written apart from the others, in one of two places. *Correct means* that each
number is beside the one before it, on the spiral.

### The rest

client-server.c, process trees (ex12), calculators (ex7-9), editor (ex10), command runner
(ex15), and first exercises: see [Not modelled](#not-modelled).

## Modules

| Module | Models | With |
|---|---|---|
| `PoolServer` | ex19/p2/server.c under any datagrams | |
| `PoolClient` | ex19/p2/client.c | |
| `PoolSystem` | both, and the sockets between them | extends `PoolServer`, instantiates `PoolClient` |
| `PoolServerProofs` | proofs about `PoolServer` | |
| `PoolSystemProofs` | that `PoolSystem` implements `PoolServer`, and proofs about it | extends both |
| `ChatRoster` | who is in the room: common to ex16/p2 and ex17/p2 | |
| `ChatQueue` | ex16/p2 | extends `ChatRoster` |
| `ChatMemory` | ex17/p2 | extends `ChatRoster` |
| `ChatRosterProofs` | proofs about `ChatRoster` | |
| `ChatQueueProofs` | that `ChatQueue` implements `ChatRoster`, and its history | extends both |
| `ChatMemoryProofs` | that `ChatMemory` implements `ChatRoster`, and its texts | extends both |
| `ThreadServer` | ex19/p1/server.c | |
| `ThreadSystem` | ex19/p1/client.c, the server and the sockets | extends `ThreadServer` |
| `ThreadSystemProofs` | proofs about `ThreadSystem` | |
| `Warehouse` | ex14/magaz.c | |
| `SemPipe` | pipe.c, over several runs of it | |
| `PosixQueue` | ex16/p1 and the queue of the kernel | |
| `EchoTcp` | ex18/p2: server, clients and the connection | |
| `EchoUdp` | ex18/p1, for IPv4 and IPv6 | |
| `SharedCounter` | ex13/streams.c | |
| `CommandLine` | the three loops that read command lines | |
| `PhoneList` | what a phone book promises | |
| `PhoneArray`, `PhoneHeap` | ex4.3.c, ex6.c | instantiate `PhoneList`, which they implement |
| `Spiral` | ex2.4.c | |
| `Sequential` | the four programs that run alone | instantiates `CommandLine`, `PhoneArray`, `PhoneHeap`, `Spiral` |
| `Exercises` | all small programs for one run of TLC | instantiates `Sequential` and the six before `CommandLine` |
| `ProcessProofs` | proofs about the programs of several processes or threads in `Exercises` | extends `Exercises` |
| `SequentialProofs` | proofs about its programs that run alone | extends `ProcessProofs` |

### How state and actions correspond to the code

Variables keep the names of the source where they can (`flag`, `got_client`, `ready_thread`,
`tinfo`, `list`, `i`, `message`, `f1`, `mag`, `foo_mutex`, `a`). The place of a thread in its
code is a control point: `mpc` for a main thread, `tpc[t]` for threads, `cpc[c]` for clients,
`spc` for a chat server. There is one action for each stretch of code between two points where
another actor could notice the difference.

**PoolServer.** `MainReceive` is lines 480-493; `MainCount`, `MainScan`, `MainCreate`,
`MainSpin` and `MainSend` are the semaphore sections and the answer, 497-547; `MainCleanup` and
`MainExit` the end. A thread goes through `Register` (96-100), `Bind`, `MarkReady`, then
`Receive`, and `Accept` or `Reject`, `ReplyOk` or `ReplyEnd`, and out through `EndFree`, or
`Clear` and `Unflag`. `RecvError`, `SendError` and `MainError` are the failures, with what each
releases; `UseAfterFree` is the thread that wakes up after main has freed the table.

**PoolClient.** One action per wait: `Request`, `Answer`, `Greet`, `Word` or `Eof`, `Sent`,
`Reply`, `Compare`, `Bye`, and `Interrupt` at any of them.

**PoolSystem.** Every step is a step of `PoolServer` or leaves its variables alone, so what is
proved of `PoolServer` under *any* datagrams holds in it. A socket is a sequence; a datagram to
a port nobody has bound is lost.

**ChatRoster.** The queue is three queues, one per type, because every `msgrcv` names a type;
they share the room `QueueRoom`. `AddClient` is lines 208-252 of ex17/p2/chat-server.c,
`DelClient` 255-330: search, shift, `i--` and `realloc()` in one action, the server being the
only one that touches `list[]`. The texts are one abstract step between `Test` and the `add`.

**ChatQueue, ChatMemory.** The refinement of that step: one action per `msgrcv` (`ReadText`), or
for each place a test, the copy and the clearing of the mark (`LookAt`, `PrintText`, ...), so
that the three stores of a client (`TypeLine`, `Sign`, `MarkNew`) can come in between. Both are
shown to implement `ChatRoster` (`IsRoster`, which is `ChatRoster`'s specification under the
identity mapping: they have its variables and add their own). It is proved for both; a run checks
it for the queue, where texts take room from the service messages.

**ThreadServer, ThreadSystem.** `MainReceive` may move `tinfo[]`, after which a thread that has
not read its number may read anything (`ReadNumber`). `NoPortCame`, `NoWord` and `NoReply` are
the waits a SIGINT ends, and `AfterReply` the decision whether END is still to be said.

**Warehouse.** A purchase is `Buy` (val -= mag) and `Empty` (mag = 0); a load is `ReadShop` and
`AddLoad`; `a++` is `LoadA` and `StoreA`. `Trylock` is the mutex; since `EAGAIN || EBUSY` is
always true, a buyer has no error path.

**SemPipe.** Runs of the program follow one another and share `semid`. `ParentReads` takes three
bytes, `ChildReads` up to fourteen, so that a string taken apart shows.

**PosixQueue.** `mq_send` and `mq_receive` are those of the Linux kernel: a word goes straight
to the process that has waited longest, or into the queue by priority.

**EchoTcp.** `Link` is what each end can see of a connection: a process that ends with something
unread resets it, and so do data sent to one that has ended; a reset shows as one error, and
after that as SIGPIPE. `Send` and `ClientSend` give away some pieces of a message at a time, as
the room of the receiver allows, and wait where there is none. `AcceptFails` is line 113 without
a connection: the program goes on with `fd` -1, and every call on it fails.

**EchoUdp.** `from` is the address that `recvfrom` has left. `Check` comes after an interrupted
wait as after one that has read; `Receive`, `Check` and `Send` are steps of their own, so that
SIGINT can come between them.

**SharedCounter.** `a++` is `Read` and `Write`.

**CommandLine.** A word of `argv` stands for what it says; `Number` is what `strtol` makes of
it, `PortOf` the cut to 16 bits. `Address`, `Port`, `Iface` and `Help` are the options,
`IfaceUnknown` the interface that is looked up again, `Other` everything that ends a program,
`AllRead` the tests after the loop.

**PhoneArray, PhoneHeap.** One action per entry of the menu. In ex4 a place for a number has a
text and what an older one has left behind it (`Typed`), and `fpoisk` compares both. In ex6 a
number is a stem, the part a deletion moves, and an ending, which it leaves (`Without`). Both
are shown to implement `PhoneList` (`ArrayIsList`, `StemsAreList`) under a mapping that forgets
the rest; `PhoneList`'s `Unsure` names the queries for which that is not a promise.

**Spiral.** One action per side; `Filled` is its loop, `Completed` the last number.

**Sequential, Exercises.** The programs share nothing; the variables `program` and `algorithm`
say which of them a behaviour is about, and the others stay as they were. Their properties are
those of the modules.

### What users do

Several properties hold only for users who wait, and the modules say so in the state, not in the
constants: a variable that never changes divides the behaviours. `patient` in `ChatRoster`: a
client is not interrupted before it is listed. `patient` in `ThreadSystem`: nobody types or
presses Ctrl-C before the thread has bound its port. `alone` in `ChatMemory`: a client comes
only when no other is in the chat. `oneByOne` in `PosixQueue`: a talk ends before the next
process is started. Each run covers both values, and the properties without the condition are
checked in both.

## What the runs show

Passing:

| Run | Properties | Shows |
|---|---|---|
| `pool_core` | `TypeOK` `PoolSlotsOwned` `PoolGotClientAccurate` `NoEntryLeaked` `FirstGenerationAligned` | One pool thread, three dynamic ones, any datagrams, any call failing, SIGINT at any time: the table agrees with the threads, even after two of them share a number. |
| `system_quiet` | `StraysAreInterrupted` `QuietPoolFree` | With real clients, interrupted or not, and ready bits that hold anything at the start: what comes to the main server is the one request of a client that waits for its answer, or what a client sends that was interrupted before it had one (its request, its greeting, its END: all taken for requests); and the pool is free in the end. |
| `system_served` | `DynamicPortExclusive` `ServedUnlessShared` | Four clients, three threads at most at a time: the limit is met and the main thread can stay in its busy wait for ever. Nobody is sent to the dynamic thread of another before one has ended; clients that share no port, and meet neither the limit nor a ready bit that is already set, are answered and replied to, but for those whose request is behind that busy wait. |
| `system_replies` | `ServedUnlessShared` | Three clients, two of which type two words each, on ports that are used again: every word has its reply, though each `recvfrom` reads the one before. |
| `roster` | `TypeOK` `CountBalanced` `EntriesDistinct` `RosterExact` `PatientServerSurvives` `SigintEndsBoth` | Whatever overtakes what, `i` is right but for messages unread; with clients that wait to be listed, the room is exactly right and SIGINT ends server and window. |
| `queue` | `HistoryFaithful` `IsRoster` `TextsShown` | What is shown is what was typed, in order; what a client that stays has typed is shown in the end; the chat is a `ChatRoster`. |
| `memory` | `ChatTypeOK` `TextsKeptAlone` `PlacesRead` | With clients one after the other no text is lost or doubled; with two at once every marked place is still read. |
| `threads` | `SessionEndsThread` `OneClientPerThread` | No two clients are sent to one thread, even with `tinfo[]` moving, a port taken, and ENDs taken for requests; however the sessions of patient users end, the threads end too. |
| `exercises` | `ExchangeRight` `RunsEnd` | pipe.c: each side reads what the other wrote; every run ends, whatever killed ones left behind. |
| | `OthersHeard` `WordsBalanced` `ClientAnswered` | ex16/p1: one by one, each end hears the other; in a crowd, every client that finds a queue still gets a word. |
| | `GoodsConserved` `LoaderOutlivesNeed` | ex14: goods add up at every step; the unlocked counter is never ahead. |
| | `NoSecondEcho` | ex18/p1: wherever SIGINT comes, no datagram is sent back twice. |
| | `NeitherOutlives` `EndsOrStandsStill` | ex18/p2: the end of one process ends the others that talk with it; a talk nobody ends stands still with both directions full. |
| | `AtLeastTwo` | ex13: however many additions are lost, two remain. |
| | `LineObeyed` | A program runs with exactly what its command line says, or not at all. |
| | `ArrayIsList` `StemsAreList` | The phone books do what a list of subscribers does, but for the queries named. |
| | `SpiralFollowed` | Squares of side 1 to 9: straight on while there is a free cell, else to the right. |
| | `ExercisesTyped` | Every variable of every program has its type. |

## Disagreements

Three runs end in a violation of what a text of the repository says; `PROJECT.json` quotes the
text and the line.

| Run | What happens |
|---|---|
| `pool_stuck` | A dynamic thread ends between main's count (server.c:500) and the registration of the next one (97): the new thread takes another entry, and main polls one that nobody will mark. README: the main server goes on. |
| `system_leak` | A client interrupted before its answer says END to the main port: the dynamic thread created for it never ends. README: it does. |
| `roster_crash` | `add` and `del` read in the other order: `i` becomes -1, the next `add` writes `list[-1]`, and `realloc()` aborts. README: the server ends by Ctrl-C. |

Further counterexamples met on the way. No run keeps them; each is found by checking the formula
given in the run named.

- ex19/p2, `pool_core` with `MAXCLIENT` 2: `ready_thread` is never reset, so on an entry used
  before main does not wait, and more than `MAXCLIENT` threads exist: `Cardinality({t \in Thread
  : tpc[t] \notin {"none", "done"}}) <= MAXCLIENT`.
- ex19/p2, `pool_core` and `system_served` with `Garbage = {1}`: `ready_thread` is not set at the
  start either (see [Abstractions](#abstractions)); if the memory of the first entry past the pool
  is not zero, main tells a client of a port nobody has bound, and gives it to the next one as
  well: `FirstGenerationAligned` and `DynamicPortExclusive` without `FreshMemory`.
- ex19/p2: each exception of `ServedUnlessShared` is needed. In `system_served` it is violated
  without `TurnedAway` (the request of a client is dropped at the limit, server.c:500) and without
  the clients that wait for a main thread in its busy wait; in `system_replies` without
  `SentTooSoon` (a ready bit left by an earlier thread: the greeting goes to a port nobody has
  bound, and is lost).
- ex17/p2, `roster`: without a window the server polls for its message for ever and never looks
  at `cexit`: `scexit ~> ~Served`.
- ex16/p2, `queue`: a `del` is read before earlier texts, which stay in the queue: when the
  server is at its loop, the room and the service messages are empty and every client has left,
  `textq` need not be empty.
- ex17/p2, `memory`: two clients type into one place and one line is lost: `TextsKept` without
  `alone`.
- ex19/p1, `threads`: a client interrupted before it has a port says END to the main port, and
  `realloc()` may move `tinfo[]` before a thread has read its port there; in both cases threads
  never end: `SessionEndsThread` without `patient`, or without `num[t] = NoPort`.
- pipe.c, `exercises`: a run killed between post and wait leaves the semaphore at one; the next
  parent reads its own string: `ExchangeRight` without its condition.
- ex4.3.c, `exercises`: after a search for a number of eleven characters a shorter one is not
  found, as the end of the longer is still behind it: `ArrayIsList` with `Unsure <- {}`.
- ex6.c, `exercises`: a deletion leaves the last three characters of every number after it one
  subscriber behind, so that numbers are mixed: `StemsAreList` with whole numbers. And the array
  of pointers is made anew with as many places as the texts just typed have characters: with
  more subscribers than that, or with an empty first name, a pointer is written behind it
  (`broken`).
- ex2.4.c, `exercises`: with N = 2 the last number is not written: `SpiralFollowed` without `N #
  2`. N is 9 in the code.
- ex19/p2/server.c, `exercises`: with `-h`, or without `-p`, the server runs with port 0, which
  lets the system choose one that nobody is told: `outcome = "run" => port # 0`.

## Bounds

Every bound is a constant with its meaning in the module that declares it.

- *Pool.* `MINTHREAD` 1 and `MAXCLIENT` 3 (10 and 100 in the code), `NUMPORT` 4 or 5,
  `MaxCreated` 3 or 4 calls of `pthread_create`. With one pool thread and three dynamic ones a
  number can be given again after a thread has ended, two threads can share it, main can stay in
  its busy wait, and the limit is reached: there is no further case, since entries are handled
  alike. In `PoolServer` one client is enough as any datagram may come from it at any time. In
  `PoolSystem` the clients are two that may be interrupted, or three or four that are not and
  start in the order of their names (`InTurn`; they are alike). `MaxWords` is 1 or 2: two words
  are needed to see that a reply answers the word before the last. Who types in one behaviour is
  a group of `Typists`: in `system_served` any one of the four, in `system_replies` two of the
  three. `Garbage`, the entries whose ready bit may be set in the memory, are those of the
  first two dynamic threads in `system_quiet`, and none elsewhere.
- *Roster.* Two or three clients, each joining once: -1 in `i` needs one, a wrong shift two, a
  wrong search three. `QueueRoom` is 4 in `roster` and `queue`, less than there is to say; 5 in
  `memory` and `roster_crash`. `ListRoom` is the 10 of the code.
- *Texts.* Two per client to tell order and doubling; in `memory` one each when two clients are
  there at once, and those two are patient (`HastyMix`). `SLOTS` is 2 (5 in the code): one place
  to be in and another to go to. A text takes two units of the queue and a service message one.
- *Echo.* Two clients (`Talker`), one of which may be interrupted; over TCP messages of two
  pieces (`MSGLEN`) and room for two (`Room`), so that a message may come in part and a send may
  stop half way; over UDP two datagrams each (`MaxSent`).
- *Counter.* Two threads (`Thread`) of three additions (`Times`): a thread can write over
  several additions of the other, and be written over in turn.
- *Command lines.* Lines of up to four words (`MaxWords`): two options with their values, one
  option twice, one without a value.
- *Phone books.* Two names; ex4 with two numbers of full length and one shorter, and three
  places; ex6 with two stems and two endings, three subscribers (`MaxEntries`), names of one
  or two characters with their ends (`MaxTyped`), so that the array can be too short, with an empty
  first name or without.
- *Spiral.* Sides 1 to 9 (`Sizes`): the one of the code, all smaller ones, both parities.
- *Threads.* `MaxThreads` 3 with two clients: both requests, and an END that comes between them
  and is taken for a third. One port is taken by another process.
- *Warehouse.* Two buyers, two shops, two loads; needs and stocks chosen so that one visit may
  or may not be enough. Two buyers are enough for the lost increment.
- *Pipe and queue.* Three runs, one of them outside the directory of the key file; two servers
  and three clients of ex16/p1 on a queue of two messages, as in the code.

`CHECK_DEADLOCK FALSE` is set everywhere, for all these programs may stop: a server that is
interrupted has ended, a client that nobody types to waits, and the bounds end behaviours. Where
waiting for ever is what could go wrong, a liveness property says so.

## Fairness

Weak fairness of what each thread or process can do on its own: the kernel schedules everybody,
and semaphores and sockets do not starve one waiter for ever (the waits polled in a loop are
modelled by guards). No fairness is assumed of the environment: nobody need start a client, type
a word, send a datagram, press Ctrl-C or kill a process. In `PoolSystem` a client at its prompt
may stay there; fairness covers it only from the moment it has sent something. `pool_stuck` is a
counterexample under this fairness, so it is not a matter of a system that just stops. In
`EchoTcp` the server and each client go on while they can; starting and interrupting is up to
users. Its two properties are of the form `[]<>`, as a user may start one more client at any
time and it takes a while until it has noticed. `ThreadSystem` has no liveness property: what
may never be left undone there is stated of the quiet state (`SessionEndsThread`).

## Proofs

Each theorem is for every value of the constants, under the assumption its module states on
them, which TLC evaluates in the runs of that module. Three need more and say so: `QuietPool`,
that no datagram is lost; `OnlyOneClient` and the second half of `FirstRight`, that the memory of
`ports[]` was zero (`FreshMemory`).

**PoolServerProofs** (`TypeCorrect`, `PoolSlotsSafe`, `PoolBusySafe`, `NoLeak`, `FirstRight`):
for every number of clients, pool threads, created threads, ports taken and with failures. From
`PoolAssumption` alone (there is room in `ports[]` for every thread that is created). Type
correctness is not inductive: that a count is an index of `ports[]` needs that flags are owned
by threads. `IInv` adds: which threads exist and which were only created (`Creation`); every
flag has a thread that will clear it, or a pool thread (`FlagOwned`); while the pool threads
register, their numbers are exactly the first so many (`Filling`), which is why counting is
sound *then*; dynamic threads have numbers past the pool (`Numbers`); main looks past the pool
only when it is full (`MainPastPool`); and the busy bit changes with the thread's own `check`
(`Busy`). The proof has a lemma per kind of step (`RegisterStep`, `AcceptStep`, `ReleaseStep`,
moves that touch no table), and a lemma on cardinalities for the count (`CountBound`,
`PoolComplete`, `FreshNumber`).

`FirstRight` (`FirstGenerationAligned`) needs more, which holds only until the first dynamic
thread begins to end: all flags fill up from 0 (`Aligned`, in the invariant `NInv`, whatever the
memory of `ports[]` held); and, if that memory was zero (`FreshMemory`), `tinfo[]` holds at every
number taken the number itself, a ready bit past the pool means a thread that has bound its port
(`Ports`), and at most one dynamic thread has not taken its number, which is the one main has
counted and waits for (`Handing`, both in `AInv`). The stale count is harmless as long as these
three hold; `pool_stuck` shows what happens when they do not. The other four theorems ask nothing
of the memory.

**PoolSystemProofs** (`SysImplements`, `OnlyInterruptedStray`, `OnlyOneClient`, `QuietPool`): the
server with its clients. Every step of the system is a step of `PoolServer` or leaves its
variables alone, so `IInv` holds of it. `SysInv` adds what is in each socket and, for each wait
of a client, what it has in hand to send and to whom (`Sends`): only a client that was
interrupted waiting for its port sends its greeting and its END to the main server.
`OnlyInterruptedStray` (`StraysAreInterrupted`) adds that a client which has not been interrupted
has at most one datagram with main, its request (`AskedOnce`): a second one would be taken for the
request of one more client.

`OnlyOneClient` (`DynamicPortExclusive`) says of a client that it *holds* a port when it sends
to it, has been told of it, or has a datagram with the thread on it (`Holds`: a reply would
rewrite its address). The invariant (`Exclusive`): what is held is flagged, held by one client,
and is not what main is about to hand out. Main hands out a count no flag is set at, for as
long as `AInv` has something to say: until the first dynamic thread ends, and from zero memory
(`FreshMemory`).

`QuietPool` (`QuietPoolFree`), if nothing is lost (`~Lossy`): behind every greeting there is the
END of the same client, or the client is still to send it to that port. The invariant says so
of a greeting in the queue, in the hand of a thread and accepted (`GreetDue`, `JudgeDue`,
`BusyDue`). It needs that a port is of one thread (`OwnPorts`), that a client deals with one
port from its greeting on (`OnePort`), and that no greeting is behind another datagram of its
client (`HelloFirst`): otherwise the END could be turned away before the greeting is accepted.

**ThreadSystemProofs** (`OneClientEach`, `SessionsEnd`): no two clients are sent to one thread.
`tnum` only grows, so a port is told once; a client takes its port from the first datagram it
gets, and who waits for its port hears of nothing else. `IInv` says: ports told and not read, or
sent to, were told (`HeldWereTold`) and are held by one client (`HeldByOne`); who has no port
has sent to the main socket alone (`EarlyUnserved`), so that no thread has a datagram of it
(`ThreadsHearLater`). `SystemAssumption` is that the main port is none of those given to
threads: the server could not bind both.

`SessionsEnd` (`SessionEndsThread`) is the END that is due: a thread that listens has one on its
way to it, or there is a client engaged with it, one that is about to be told its port, or has
it and will say END (`EndIsDue`). A thread must hear nobody but its own client and END must be
the last it says (`OwnClients`), and a patient client must have sent one request, as the answer
to a second one would be taken for a reply (`OneRequest`), and nothing to a thread that does not
listen yet (`SettledFirst`).

**ChatRosterProofs** (`TypeCorrect`, `CountRight`, `NoneTwice`, `RoomRight`, `PatientSafe`): for
any number of clients and any room. `TypeOK` bounds `i` between -1 and the number of clients,
which does not follow from any one step: it needs `CountBalanced`, that every unread `add` has
its own client (the queues have no client twice), and that a `del` is unread only if its `add`
was sent. The invariant carries those as sets, and cardinality lemmas turn them into the bound.
`PatientSafe` adds that a client listed is inside or has an unread `del`. `RoomInv` adds that a
client is in the queue of adds or in the room, once (`ComesOnce`), and leaves once
(`LeavesOnce`): then a `del` takes out the one entry of its client, or finds none.

**ChatQueueProofs** (`QueueImplementsRoster`, `HistoryRight`): every action of the chat over a
queue is an action of `ChatRoster` or leaves its variables alone; texts only take room. For the
history (`HistoryFaithful`) the invariant follows the texts of each client one by one: those in
the history come first, in their order, those in the queue after them, and together they are as
many as it typed.

**ChatMemoryProofs** (`ImplementsRoster`, `ChatTypeCorrect`, `AloneKept`): every action of the
shared-memory chat is an action of `ChatRoster` or leaves its variables alone; the interesting
ones are those of the server's double loop, which is over only when `f >= i`. So the theorems on
the room hold of both chats. `MemoryInv` is about the places: for any number of clients what is
in them and in the loops is a place, a text or a name (`ChatTyped`); for clients one after the
other, one is inside (`OneInside`), what it has half written is its own (`InHand`), a marked
place holds a text and the name of its author (`Marked`), the server prints what it has found
marked (`AtMarked`), and every text typed is in one place and not in the history, or in the
history once and in no place (`AllKept`). That last part is what `TextsKeptAlone` says in other
words; the three stores of a client are safe as the mark is the last.

**ProcessProofs**. Each fact is proved of one program and carried to `Exercises` by a step
simulation (`CountSteps`, `UdpSteps`, `MagazSteps`, ...).

pipe.c (`RightExchange`), for any number of runs: as long as none has been
killed one run at a time has begun and not ended, and the semaphore is up only between the end
of its child and the wait of its parent (`OneTalk`); each pair of places of the two processes
says what is in the pipe (`Talk`). ex16/p1 (`WordsBalance`, `EachHearsOther`), for any finite
sets of servers and clients: that words balance (`WordsBalanced`) is inductive once nobody
stands twice in a line and who stands in one waits (`InLine`), for a word given to the head of
a line makes one reader go on. One by one, a talk has eight stages (`Stage`); in none is the
word of a process in the queue when the process itself reads next.

- streams.c (`TwoAreLeft`): what a thread has read after its first addition is one or more
  (`OneLeft`), so that the last to add leaves two.
- ex18/p1 (`OneEchoEach`): a datagram is queued, in hand or sent back, never two of these
  (`Balance`); what is in hand counts from the receive on, and after a SIGINT no longer.
- ex14 (`LoaderStays`): what a buyer stores in the count is one more than what it has read, and
  that was at most the number of buyers done by then, itself not among them (`NeverAhead`). So
  the count reaches all only when all are done, and who is done needs nothing (`Satisfied`).
- ex14 (`GoodsStay`): goods add up. The sum of a function is a fold, so lemmas come first
  (`SumIs`, `SumMoves`): a sum changes by what one place does. That every finite sum exists
  would be an induction over the set; instead, of the sizes at which it failed the least is
  taken (`Least`), and the set without one element gives the contradiction (`AdderExists`).
  The invariant (`GoodsInv`) says that who has bought and not yet emptied the shop holds its
  lock, so that no two count the same goods and the loader's read is still right when it adds.

**SequentialProofs**, with `AloneSteps`.

- ex4.3.c (`ArrayImplementsList`): behind the count the array is blank, and numbers kept have
  nothing behind them (`ArrayInv`); then a shift to the end of the array is the removal from a
  list, and a search that compares what is behind a number finds what a list finds.
- ex6.c (`StemsImplementList`): what a deletion moves is all that the list has of a subscriber.
- Command lines (`LineRead`): the words up to `k` are pairs, and what has been read are the
  values named last up to there (`LineInv`). At the end `k` is the first place without a pair.
- ex2.4.c (`SpiralGoesRound`), for every side. `SpiralInv`: there is a number `l` and a list of
  places, `place[1]` to `place[l]`, such that each number up to `l` is in its place and no other
  is written (`Numbered`), and each place is ahead of the two before it or, if that cell was not
  free, to the right (`Winds`); which cells are blank follows from the round and the side
  (`Blank`), and so do the last place and the cell ahead of it (`Last`, `Ahead`). One lemma for
  all four sides (`Goes`): a line of blank cells that leads on from the last place (`LeadsOn`)
  keeps both. The number put in apart from the loops is such a line of one cell; after it
  nothing is blank, and at most one turn is left, which writes nothing (`Closing`).
- Types (`ExercisesTypeCorrect`). For the spiral they need arithmetic: after `co` rounds a
  square of side `N - 2 * co` is left and the next number is known (`SnailInv`), so that no
  index leaves the square and no number passes `N * N`. For the warehouse they need that who
  buys does so in a shop that has a place and takes what it holds (`Goods`).

Some definitions have a form that can be reasoned about without induction: `HistoryFaithful`
speaks of places in the history and not of a selection from it, the room that texts take
(`QueueUsed`) is the size of a set and not a sum over the clients, and `Inserted` counts the
words it comes after.

Model-checked only:

- Liveness, for which the prover has no rules here: `RunsEnd`, `ClientAnswered`,
  `NeitherOutlives`, `EndsOrStandsStill`, `ServedUnlessShared`, `SigintEndsBoth`, `TextsShown`,
  `PlacesRead`; and the runs that end in a violation.

Every invariant and every action property of the passing runs is stated by a theorem.

## Abstractions

- A section between `sem_wait` and `sem_post` is one action: nobody else reads or writes the
  table outside one. That `sem_wait` may return with EINTR after SIGINT, when the section is
  unprotected, is left out.
- Memory: `ports[]` comes from `malloc()` (server.c:374), and the loop after it (380-384) sets
  `port`, `flag` and `got_client` of each entry but not `ready_thread`, which main reads at line
  517. `Init` leaves the bit open for the entries in `Garbage`. A block of this size, 57759
  entries of 16 bytes, is above the threshold from which glibc asks the kernel for fresh pages,
  which are zero; that is `FreshMemory`, a premise of the properties that need it and of nothing
  else. The code itself does not see to it.
- A thread's `close()` (server.c:191, 218, 238) is one step with the section that follows it: in
  between it only holds an entry without a socket, as it does between `Clear` and `Unflag`.
- On a 64-bit glibc `realloc()` of a smaller size stays in its block, and `list[-1]` is the upper
  half of that block's size. A thread that reads a freed `tinfo[]` finds its number or anything
  else.
- What a datagram or message says is its kind; a text is who typed it and the how manyth it is.
- Failures: of `bind`, `recvfrom`, `sendto`, `pthread_create` in `PoolServer`; of full and
  missing queues in the chats; of `bind` in `ThreadServer`; `ftok` in `SemPipe`. `malloc()` and
  `write()` do not fail.
- The name of a subscriber in ex6 has at most seven letters, so that a deletion moves it whole;
  shorter numbers of ex4 have one length. Texts longer than their place are not typed. Numbers
  in ex6 all have eleven characters. What ex6 does once it has used a place outside of its array
  is not followed (`broken`).
- TCP keeps order and loses nothing while both processes live. `listen()` does not fail.
- Datagrams to the UDP echo server may be lost and may overtake one another; those of one client
  are alike. The version for IPv6 has the same actions, with another type of address.
- Sleeps are left out: they make orders unlikely, not impossible.
- One run of a server; only `SemPipe` has runs after runs. Its runs follow one another, as from
  one shell; two at once would share the semaphore.
- Uninitialised reads that only reach a printed line are not modelled.

## Not modelled

Parts of programs that are modelled otherwise: screens and the contents of the history windows;
the failures of `malloc()`, `socket()`, `write()` and of the semaphore of the pool, after which
the programs end.

Programs:

- client-server.c: parent and child both send a message of type 1 and wait for one of the type
  of their own pid, which nobody sends. The program leaves open who answers.
- ex12: process trees whose members run in an empty loop and share nothing.
- ex7, ex8: a menu over four functions. ex9: the same with libraries; what its number parser
  yields depends on memory it has not written (my_kalc.c:28, :43).
- ex10: the editor's whole state is in windows of the curses library.
- ex15: unfinished; splits a line and prints it, with memory used beyond its end.
- ex5: a demonstration of an overflow and the generator of its input.
- ex4/example.c is a draft of ex4.3.c. First exercises (ex1-ex3, ex4/p1, ex4/p2, task_1, task_2,
  str, 08-2a.c): a few lines each that print a value.
- Makefiles and scripts.

Weak points of modelled code that no property is about, because they lie outside of what the
code promises or the model can say:

- ex19/p2/server.c:392: threads that wake up after main has freed `ports[]`. `UseAfterFree` is
  an action, and the process has ended its service by then.
- ex19/p2/server.c:480: a SIGINT just before `recvfrom` is noticed only with the next datagram.
  `Interrupt` covers both orders; no text promises when the server ends.
- ex17/p2/chat-server.c:159: texts of one client in two places may be shown in the other order.
  For that reason `TextsKeptAlone` counts texts and says nothing of their order.
- ex17/p2/chat-server.c:333: `shmctl()` is given an address for an id, so that the segment
  stays.
- ex19/p1/server.c:215: `tnum` only grows, and would wrap round the port numbers after 58
  thousand requests. `MaxThreads` bounds it.
- ex14/magaz.c:106: after the loop `tnum` is `NUM_THREADS`, and the id of the loader is stored
  at `tinfo[NUM_THREADS+1]`, past the end of the array. The loader itself does not read it.

## Plan

Done, each with proofs: the pool, the chats, the thread server, the warehouse, the pipe and the
POSIX queue, the echo pair over UDP, the counter, the command lines, the phone books and the
spiral. Done, with types proved and the rest checked: the echo pair over TCP.

Next, model:

1. Restarts of the chats: what a queue and a segment of an earlier server do to the next one.
2. The contents of the history window (`iface.c`), and with it what a user sees and when.
3. Failures of `sendto()` in the clients of ex19, and of `malloc()` in the servers.

Next, prove:

1. For `PoolServer`, how many threads there are once numbers may be shared, from `IInv`.
2. For ex16/p1, what a crowd may and may not hear: a weaker form of `OthersHeard`.
