# Learn_Internet: models, checks and proofs

The repository is a collection of small network programs in C++ (`test_code/`) and the notes of a course on
TCP (`CS144_note/`). What they have in common is the hard part of network programming: threads behind a
queue, datagrams that get lost, streams that arrive in pieces, processes that fork. This directory models
those parts in TLA+, checks them with TLC on small instances and proves the most important properties for
every instance with TLAPS.

    tlc -config <X>.cfg <MC module>     # one run of the tables below
    tlapm <...>Proofs.tla               # the proofs

Paths are relative to `test_code/` unless they begin with `CS144_note/`; `Lab0.md` to `Lab3.md` are in
`CS144_note/`. Several programs share files by copying them: `myeasylog.hpp` and `mutex.hpp` occur in
thirteen directories, the thread pool in two, the forking server and the class `Socket` in several. A model
of a shared file is mapped to one or the other of the copies that do the same: `AtomicLog` to those of
programs with one thread, `ForkLog` to those of servers that fork, `EasyLog` to the rest.


## 1. Inventory

| Component | State | Operations | Where it is hard |
|---|---|---|---|
| **Thread pool**: `ChatServer/mythread_pool.hpp`, `mythread.hpp` (`MyThreadPool`, `MyThreadforThreadPool`) | task queue, its mutex and condition variable, list of nodes with a `_stat` each, list mutex | constructor, `SendTask`, `KillAll`, `ClearTrash`, destructor; `entry` in every thread | lost wake-ups, spurious ones, tasks lost or run twice, nodes freed under their thread, shutdown |
| **Chat server**: `ChatServer.cc`, `UdpServer.cc` | `client_list_`, `waiting_queue_`, the pool | `get_msg_`, the loop of `start`, `send_task_` | lost, duplicated, reordered datagrams; the pool reorders sends; a failed `init` or `recvfrom` goes unnoticed |
| **Chat client**: `ChatClient.cc`, `UdpClient.cc` | a socket, the pool | `send_msg_`, `recv_msg_`, `recv_task_` | a task that never ends occupies the thread of the pool; an input that ends |
| **Log**: `myeasylog.hpp` (`MyEasyLog`), used by every program | queue of five records, two mutexes, the file | `GetInstance`, `WriteLog`, destructor | more threads than records; `localtime`'s shared buffer; `exit` destroys the log under the threads; `fork` copies its buffer |
| **Calculator protocol**: `CalculatorServer_v2/Protocol.cc`, `CalculatorServer.hh`, `CalculatorClient/` | the stream in both directions, a buffer on both sides | `serialize`, `obtain`, `deserialize`, `deliver`, both `run` loops | frames cut and joined, unsigned arithmetic, throwing conversions, a peer that goes away |
| **Draft of the protocol**: `TcpServer_v3/Protocol.cc` | the same | the same, called by nobody | the same |
| **Forking servers**: `TcpServer.hpp` in `CalculatorServer_v2/`, `MyHTTP_1.0/HTTPforServer/`, `TcpServer_v3/`; `CalculatorServer/CalculatorServer.hh` | processes and the descriptors each holds | set-up, `accept`, two forks, `close`, `waitpid`, `exit` | inherited descriptors, zombies, a loop that waits, failing calls |
| **Class `Socket`**: `Socket.hh` of every TCP program | a descriptor number | construction, move, `close`, destruction | a number closed twice is somebody else's |
| **HTTP server**: `MyHTTP_1.0/HTTPforServer/`, client `MyHTTP_1.0/CommonTCPTestClient/` | the stream, `buff_`, the request being built | `HttpMessageCodec::obtain`, `HttpConnection::obtain/req_check/deliver`, `HttpRouter::routing` | a head or a body in pieces, lengths that count different things, ignored results |
| **UDP echo**: `UdpServer/`, `UdpClient/` | two sockets | one loop each | lost or duplicated datagrams without a timeout or a number |
| **First TCP echo**: `TcpServer/`, `TcpClient/`, and the older calculator, `CalculatorServer/` | list of peers, buffers | `accept_peer`, `send`, `recv`, `erase` | one read is taken for one request; lines as long as the buffers |
| **CS144**: `Lab0.md` to `Lab3.md` (complete listings of `ByteStream`, `Reassembler`, `Wrap32`, `TCPReceiver`, `TCPSender`) | window, cache, outstanding segments, timer | `push/pop`, `insert`, `wrap/unwrap`, `receive/send`, `push/receive/tick` | overlap and reordering, wrap-around, retransmission races, the closed window |
| Wrappers, byte order test, web pages, notes | none | - | - |

**Interactions.** `ChatServer` and `ChatClient` hand tasks to the pool and talk over UDP. Every TCP server
but the first echo is a forking server whose grandchild runs one service: the calculator or the HTTP server.
All of them call the log. The two ends of the calculator talk through a TCP stream by the frames of
`Protocol.cc`. In CS144 the Reassembler writes into a ByteStream, the TCPReceiver owns the Reassembler and
translates numbers with `Wrap32`, and the TCPSender sends what another ByteStream holds.

**What makes each correct** is stated in section 3. The list of hazards, each at the line where it bites and
with the properties that cover it, is in `PROJECT.json`.


## 2. How the modules fit together

| Module | Models | Uses |
|---|---|---|
| `TaskExecutor` | what a thread pool promises | |
| `ThreadPool` | the pool and its threads | implements `TaskExecutor` |
| `ChatServer`, `ChatClient` | the two sides of the chat | `TaskExecutor` as their pool |
| `AtomicLog` | what the log promises | |
| `EasyLog` | the log and the threads of one process | implements `AtomicLog` |
| `ForkLog` | the log's file and the processes that share it | |
| `Calculator` | both ends of one connection of the calculator | |
| `DraftProtocol` | the draft of its protocol | |
| `ForkServer` | the processes of the forking servers | |
| `Sockets` | the objects of class `Socket` in one process | |
| `HttpServer` | one connection of the HTTP server | |
| `LineServer` | `TcpClient` with `TcpServer` or with the older calculator | |
| `UdpEcho` | `UdpServer` and its clients | |
| `ByteStream`, `Wrap32` | operators on streams and sequence numbers | |
| `Reassembler` | the Reassembler | `ByteStream` |
| `TcpReceiver` | the TCPReceiver, against any peer | `Reassembler`, `Wrap32` |
| `TcpSender` | the TCPSender | `ByteStream`, `Wrap32` |
| `TcpTransfer` | both ends and a network | `TcpReceiver`, `TcpSender`; implements `ReliableStream` |
| `ReliableStream` | what both ends promise to the applications | |

What is checked of the chat rests, through `TaskExecutor`, on what `ThreadPool` is shown to implement. Each
group has its instances in one `MC...` module and its theorems in one `...Proofs` module:

| Instances | Theorems | Of |
|---|---|---|
| `MCThreadPool` | `ThreadPoolProofs` | `ThreadPool` |
| `MCChatServer` | `ChatServerProofs` | `ChatServer`, `ChatClient` |
| `MCEasyLog` | `EasyLogProofs` | `EasyLog`, `ForkLog` |
| `MCCalculator` | `CalculatorProofs` | `Calculator`, `DraftProtocol` |
| `MCForkServer` | `ForkServerProofs` | `ForkServer`, `Sockets` |
| `MCHttpServer` | `HttpServerProofs` | `HttpServer`, `LineServer`, `UdpEcho` |
| `MCTcpTransfer` | `TcpReceiverProofs` | `Wrap32`, `Reassembler`, `TcpReceiver`, `TcpSender`, `TcpTransfer`, `ReliableStream` |

`SequenceLemmas` holds what several of the proofs need of sequences: their flattening, heads and tails, and
that a nonempty set of numbers has a least one. `NatSet` is induction for a set of numbers: the library's
induction theorems take an operator for their argument, which the installed provers cannot instantiate.

Programs that share no state are checked in one run: the `MC` module has a variable `program` (`peer` in
`MCTcpTransfer`) that is chosen in the first state, and only the program chosen takes steps. The state space
of such a run is the sum of those of its programs, and nothing is shown of one by what another does.

Order of work: the pool, the chat server, the log, the calculator, the forking servers and the HTTP server
first; then the Reassembler, sequence numbers and both ends of the TCP, the UDP and TCP echoes, the chat
client, the sockets, the draft, the log under `fork`; then the proofs, which now reach every safety
invariant of the passing runs. What is left to prove is at the end of section 4, what is not modelled in
section 5.


## 3. What is modelled and what the runs show

Every run is small enough for TLC to visit all states. The bounds are CONSTANTS named `Max...`; a comment at
the top of each cfg says what they amount to.

| Run | Cfg | Instance | Properties |
|---|---|---|---|
| `pool_live` | `ThreadPoolLive` | 2 threads, 3 tasks, one endless, Timely | `NoUseAfterFree`, `ImplementsExecutor`, `KillEndsThreads` |
| `pool_hasty` | `ThreadPoolHasty` | 3 threads, 3 tasks, 2 `KillAll`, 3 `ClearTrash`, 1 spurious wake-up, not Timely | `TypeOK`, `TaskConservation`, `WakeupsCoverQueue`, `BlockedOnlyWhenEmpty` |
| `chat` | `ChatServerMC` | 3 clients on 2 hosts, 2 pool threads; a client with 3 lines and 4 arrivals | `TypesOK`, `NoEcho`, `AtMostOnce`, `BoundedReordering`, `NoLineTwice`, `MessagesShown` |
| `easylog` | `EasyLogMC` | 3 threads, 2 records; 3 processes, 2 lines | `TypesOK`, `RecordExclusive`, `OneFormatting`, `FileSound`, `ImplementsFairLog` |
| `calculator` | `CalculatorMC` | 3 requests; 2 frames each way for the draft | `TypesOK`, `WrongEnds`, `RightAnswers`, `EveryAnswer` |
| `fork` | `ForkServerMC` | 4 versions, 2 connections, 3 turns; 3 objects, 3 descriptors, 4 opens | `TypesOK`, `CleanAtAccept`, `OneServes`, `NoStrayClose`, `NoLeak`, `PeerSeesEnd`, `EveryoneAccepted` |
| `http` | `HttpServerMC` | every kind of request; 3 lines; 2 UDP clients with 2 lines | `TypesOK`, `OnlyWholeRouted`, `AnswersInStep`, `EveryRequest`, `AnswersCome` |
| `tcp` | `TcpTransferMC` | 8 bytes, window 4, any peer; 2 or 3 bytes, window 2, a sender | `TypesOK`, `CacheIsSound`, `NoByteLost`, `SenderSound`, `ImplementsStream`, `BytesRead` |

`pool_changestat`, `calculator_prefix`, `http_data` and `tcp_finish` show the findings below.

### ThreadPool, TaskExecutor

An action of `ThreadPool` is a step between two points where another thread can interfere. The owner thread
is in one of its calls (`opc`), each pool thread at one place of `entry` (`pc`). Nodes of `_thread_list` are
`thread_list`, `*_stat` is `stat`. `pthread_cond_wait` releases and sleeps in one step (`Wait`), wakes by
`SendSignal`, `KillBroadcast` or `SpuriousWakeup`, and locks again (`Lock`). A use of freed memory
(`UsesFreed`) is undefined: the old contents may still be there, then the other actions go on, or the
process crashes (`Crash`).

The program relies on time in two places: `ClearTrash` takes a thread whose stat is still 0 for an ended
one, and the destructor's `sleep(1)` must outlast the threads. `Timely` is that assumption. It is a
CONSTANT, so both worlds are checked: what needs the assumption in `pool_live`, what holds even without it
in `pool_hasty`. Three threads and three tasks make two threads race for one task while a third sleeps, and
leave a task behind the exit tasks. Two `KillAll`, the destructor's among them, give more exit tasks than
threads. Of three sweeps the first may erase every node, the second finds the list empty and leaves
`_td_list_mutex` locked, and the third blocks on it for ever. In `pool_live` one task never returns, as `ChatClient`'s receive loop does, so that a thread
less is left for the others.

*Fairness*: every thread is scheduled (WF on its steps; a mutex is modelled as free or held, and a WF thread
gets it because holders release it after finitely many steps) and the owner ends the call it has begun. It
need make no other.

### ChatServer, ChatClient

One datagram in flight to the server is a record. `Recv` may take any of them, leave it there (a duplicate),
or never come (a loss). `RecvFail` is a failing `recvfrom`: `UdpServer::recv` returns without saying so, and
`get_msg_` registers an address made of an empty string and an uninitialised port. An `init` that fails is
not seen either: the server then loops over failing receipts. `Fanout` is one round of the loop of `start`
and submits a task to the pool, and `SendTask` is the task.

Three clients (two on one host), two pool threads, three sends, four receipts, one of them a duplicate or a
failure. `NoEcho`, `AtMostOnce`; `BoundedReordering`: what a client hears is out of order by fewer messages
than the pool has threads (four receipts are the least with which it could break). `MessagesShown` is
`EveryoneHears` of the server (whoever is registered when a message is received hears it in the end) and
`ArrivalsShown` of the client: what arrives is shown as long as the receiving task has no reason of its own
to end. `NoLineTwice`: no line is sent twice, whatever `getline` leaves in its buffer. The client's pool is
a `TaskExecutor` of one thread, which `recv_task_` occupies for ever.

*Fairness*: the server's main thread and the pool's tasks run; of the client, `start` up to its loop, the
start of the task and its receipts. No line need be typed, no datagram need arrive.

Seen while modelling, and contradicted by no text of the repository: `send_msg_` labels a message with the
address of the client it goes to, not of its author (`ChatServer.cc:90`); the phantom client above stays in
the list for ever; an empty datagram ends the client's receive loop for good.

### EasyLog, AtomicLog, ForkLog

`WriteLog` in ten steps per thread: lock the queue, `front()` or retry after a millisecond, `pop()`, lock the
file, fill, print, unlock, lock the queue, return the record. `front()` on an empty `std::list` is
undefined; the list of this build yields a null pointer, which is what the loop tests for. Two records for
three threads is the least with which two records are in use at once and a third thread has to retry.

The static object is destroyed by `exit` while threads still log, in two steps. `Destruct` is the body of
`~MyEasyLog` (`log` becomes `emptied`). `DestroyMembers` then ends the writer, the mutexes and the queue
(`destroyed`): a mutex that is free becomes `Destroyed`, one that is held goes on as before, because
`pthread_mutex_destroy` refuses it. `Lock()` of a destroyed mutex gets an error, prints it and goes on
(`mutex.hpp:17-24`), so that from then on `_q_mutex` excludes nobody (`QueueFree`, `LockedBy`): two threads
that poll may be handed the same record when a third puts one back, and a second `pop()` finds the queue
empty. The model has such steps, and `RecordExclusive` does not hold of them; it is stated for as long as
the log is `Alive`, the first step of exit included. `OneFormatting` holds throughout, though
`_get_time_mutex` is a member of each record and excludes nobody: the file mutex does the work, and when it is
destroyed the writer is so already (members are destroyed in reverse order, `_p_writer` first), so that a
thread crashes or loses its line before it can format. `ImplementsFairLog`: until exit has destroyed the
writer every call appends its own line exactly once, and every call returns or the process ends.

`ForkLog` is the file under the processes of a forking server: each has a `FILE` of its own whose buffer
`fork` copies. `FileSound`: no piece of a line is written twice by forks and exits (`WriteLog` flushes
before anyone can fork), a line whose call has returned survives a crash, and processes do not tear a line
that fits into the buffer. Lines of up to three pieces over a buffer of two make both short and long ones.

*Fairness*: WF on each thread's steps; SF on locking the queue, which is free again and again because a
thread that retries sleeps without it; WF on the end of an exit that has begun. None for the processes. The
file mutex needs no more than WF because the calls are bounded (`MaxCalls`): a POSIX mutex promises no order,
and that a thread gets it while others call again and again without end is not shown.

### Calculator, DraftProtocol

Bytes are codes, a payload is a brace, one code for which request it is and a newline. Any piece of the
stream may arrive (`Pieces`). `Verdict` is what `obtain` makes of its buffer: go on receiving, throw, or a
message; `Short` keeps the unsigned subtraction and `Number` the `uint16_t`. In Init `whole` picks a stream
that leaves the first six bytes of a frame together, or one that is cut anywhere. Three requests, the third
a division by zero, which ends the process.

`RightAnswers` on whole streams: the results are those of the requests in their order, and neither side ever
loses or keeps a byte. `EveryAnswer`: each comes. `WrongEnds` on any stream: at most the last answer of a
side is wrong, because what is left of a frame taken too soon makes the next `obtain` throw; and of the
draft: neither side ever takes a message that was sent, and at most one message at all. `FirstBytes = 6` is
the least for which `Short` cannot underflow with two-digit lengths, which real payloads have. `SizeT`
stands for 2^64: what matters is that it is larger than every length.

*Fairness*: both processes of the calculator run and bytes under way arrive. The client need not ask again.

Also seen: `obtain` receives before it looks at its buffer, so of two frames in one piece the second waits
for further bytes. CalculatorClient never has two requests under way (`Window = 1`); with `Window = 2`
`EveryAnswer` fails. After the server has closed, `while(!obtain(...))` of the client spins for ever (state
`spin`).

### ForkServer, Sockets

The state is the tree of processes and who holds which descriptor. `version` tells the servers apart: the
first returns when `accept` fails and waits for its own child, the second waits for any, the third never
waits, and the HTTP server's is the second with failures of its own set-up. Failing `socket`, `bind`,
`listen`, `accept` and forks are actions. An `accept` whose length is uninitialised may fail and lose the
connection that waited (`Lost`; not that of the HTTP server, whose length is set). Three turns of the loop
let one follow a turn whose accept or second fork failed. `CleanAtAccept` (no descriptor and no zombie left
behind, the zombies for the versions that wait), `OneServes` (the process that serves a connection is the
only one to hold it and does not hold the listening socket), `PeerSeesEnd`, `EveryoneAccepted` (however long
services last). The zombies of TcpServer_v3 contradict no text.

`Sockets` is the class itself: the kernel gives the lowest free number to the next `open`, so a number
closed twice closes something else. The class that moves is used in any order; that of the older programs
copies, and only the order of its accept loop keeps its second close harmless. `NoStrayClose`, `NoLeak`.

*Fairness*: processes run; a service may last for ever, and no descriptor need be closed.

### HttpServer, LineServer, UdpEcho

A request is a message of the format in `HTTPObj.hpp` with everything the code tells apart: how many words
its first line has, method, target, header lines, `Content-Length` and the data that follow. Its bytes are
positions, so `got` is `buff_`. `ReadHead` is the first loop of `obtain`, which receives and then looks;
`TakeData` and `ReadData` are the second, which looks and then receives. The client may close after any
byte; `HttpConnection::obtain` ignores that the codec failed and checks what there is. A server that closes
with bytes unread resets the connection, and the response on its way may be lost. `OnlyWholeRouted`: what is
routed has come whole. `EveryRequest`: a request without data gets exactly the response it is owed, and its
client prints it. Four bytes of head let `\r\n\r\n` be cut at every place; a declared length up to four
covers less than, as much as and more than what is sent.

`LineServer` is what talks over TCP without a protocol: one read is one request. `UdpEcho` is its UDP
counterpart, where neither side has a number or a timeout. `AnswersInStep`: a client prints the answers to
its lines in their turn as long as no read is cut, no line fills the buffer and no datagram is lost or
doubled; the TCP echo neither loses nor reorders a byte even so; out of step, a UDP client gets no further
out of step by asking on. `AnswersCome`: nobody is left waiting but by a loss. Buffers of three bytes and
lines of up to three make lines that fill the buffer, where the client's zero is written past its end
(`overrun`).

*Fairness*: the serving processes and the clients' steps that wait for nobody but the network run; what has
come is read. No client need type a line.

Seen while modelling: an empty line hangs the UDP client, whose datagram the server does not answer;
TcpServer's second client waits in the backlog for ever, and its `erase` loops for ever unless the peer is
the first of the list.

### The TCP of CS144

A byte is its index in the stream, so a byte in the wrong place is seen. The loops of `cache_in` and of the
Reassembler's `write` are stated as what they compute: the entries that the new one contains are erased,
those that overlap it joined, those without a gap in front pushed. `TcpReceiver` is the receiver against a
peer that cuts the stream into any segments, in any order, any number of times. `Near` is the assumption
under which 32-bit numbers identify a byte: a segment is less than half a cycle from the checkpoint.
`SYN_before` is left out, it always equals `SYN`, and so is the reset in `receive`, whose condition asks for
`SYN = 0` and `SYN = 1`.

With any peer: eight bytes are as long as a cycle of sequence numbers, so that numbers wrap, and a window of
four is half of them. `CacheIsSound`: entries are apart, behind a gap and in the window, and
`bytes_pending` counts them. `NoByteLost`: what came when there was room is written or waits. `BytesRead`:
every byte reaches the application, when a peer repeats what is not acknowledged.

`TcpTransfer` puts the TCPSender of `Lab3.md` at the other end of a network that loses, repeats and
reorders. `SenderSound`: nothing is acknowledged that has not come, and while the application keeps the
window open the sender forgets nothing that has not come and counts what is in flight. No liveness is stated
of the sender.

`ReliableStream` is what the two applications are promised: a stream of bounded room to which one writes,
from which the other reads, and in which some of the bytes that follow those delivered may be delivered at
any time. `ImplementsStream` maps `waiting` and `read` to the buffer and `bytes_popped` of the receiver's
stream, `written` to `bytes_pushed` of the sender's (to all of the stream where the peer is any): every step
of both ends and of the network is a step of it or changes nothing of it. The bytes carry their indices, so
one that is lost, doubled, misplaced, or delivered before it was written is no step. That the reader learns
where the bytes end is left out of it: the connection may be finished too early, see `tcp_finish`. What
limits these statements is the code:

- the sender's probe of a closed window is the last segment of `window_` with `next_seq_` for its number: it
  carries wrong bytes. Any reply is taken for the answer to the probe and frees it (`Lab3.md:484`), and
  `pop_back` may then be called on the empty deque. So the receiver's invariants are stated for `prompt`
  applications, which read all there is before each reply, where the sender is this one, and for all
  applications where the peer is any;
- the FIN may be sent before the SYN is acknowledged; a reply without an ackno is then dereferenced
  (`undefined`);
- the SYN may overshoot the window by a byte.

*Fairness*: a peer connects and sends the first byte not acknowledged again and again, and it arrives; the
application reads.

### Findings

| Finding | Line | Text it contradicts | Run |
|---|---|---|---|
| `ChangeStat` writes into a freed node | `ChatServer/mythread.hpp:141` | "thread safe", `mythread.hpp:113` | `pool_changestat` |
| A frame cut after its length is taken for a whole one | `CalculatorServer_v2/Protocol.cc:31` | the buffers listed in `Protocol.cc:8-16` | `calculator_prefix` |
| HTTP data lose two bytes; a POST with data is always refused | `MyHTTP_1.0/HTTPforServer/HttpMessageCodec.cc:28` | the format in `HTTPObj.hpp:12-13` | `http_data` |
| The receiver acknowledges the FIN while bytes in front of it are missing | `Lab2.md:297` | the comment in `Lab2.md:296` | `tcp_finish` |

Of the last one, the empty cache that is taken for the end is also why the Reassembler closes its output
before the last byte when an empty last substring comes early, against `Lab1.md:405`.


## 4. What is proved

The theorems hold for every value of the constants that satisfies the assumptions named in the modules. Most
are what the code gives: a positive number of records, a head of at least four bytes, a string no longer than
the buffer it is written to. The others bound the instances that they are about. `CalculatorAssumption` has fewer
than 100 requests, so that their numbers have at most two digits. `ReceiverAssumption` and
`TransferAssumption` have streams shorter than half a cycle of sequence numbers, in place of the 2^31 bytes
of the code, where the sender's numbers must identify its bytes; `Near` is the same for any peer, relative to
the checkpoint.

| Module | Theorem | For every |
|---|---|---|
| `ThreadPoolProofs` | `TypeCorrect`, `NoTaskLost` (`TaskConservation`), `NoLostWakeup` (`WakeupsCoverQueue`), `BlocksOnlyWhenEmpty` (`BlockedOnlyWhenEmpty`) | number of threads, tasks, calls and spurious wake-ups, Timely or not |
| | `TimelyIsSafe` (`NoUseAfterFree`), `ImplementsTaskExecutor` (the safety part of `ImplementsExecutor`) | the same, assuming Timely |
| `ChatServerProofs` | `NobodyHearsHimself` (`NoEcho`), `NobodyHearsTwice` (`AtMostOnce`), `ReorderingBounded` (`BoundedReordering`) | number of clients, hosts, messages, pool threads and mishaps |
| | `LinesSentOnce` (`NoLineTwice`), `TypesCorrect` (`TypesOK`) | the same, and number of lines and arrivals at the client |
| `EasyLogProofs` | `TypeCorrect`, `RecordsExclude`, `FormattingExcludes`, `ImplementsAtomicLog` | number of threads, records and calls, with exit at any moment (`RecordsExclude` until exit destroys the mutexes) |
| | `FilesSound` (`FileSound`), `TypesCorrect` (`TypesOK`) | number of processes and lines, length of lines and buffer, with forks, exits and crashes at any moment |
| `CalculatorProofs` | `RightWhenWhole` (`RightAnswers`), `WrongAnswersEnd` (`WrongEnds`), `TypesCorrect` (`TypesOK`) | number of requests and frames, requests that divide by zero, ways to cut the streams |
| `ForkServerProofs` | `TypeCorrect`, `NothingLeftBehind` (`CleanAtAccept`), `OneServesEach` (`OneServes`) | version, number of connections and turns |
| | `ClosesNothingElse` (`NoStrayClose`), `LeaksNothing` (`NoLeak`), `TypesCorrect` (`TypesOK`) | number of objects and descriptors, in any order of use |
| `HttpServerProofs` | `TypeCorrect`, `RoutesWholeRequests` (`OnlyWholeRouted`) | length of head and data |
| | `AnswersStayInStep` (`AnswersInStep`), `TypesCorrect` (`TypesOK`) | number of lines and clients, length of lines and buffers, number of mishaps |
| `TcpReceiverProofs` | `UnwrapWraps`, `UnwrapNearest`, `UnwrapInverts` | length of the cycle, zero point and checkpoint |
| | `WrittenInPlace` (`InPlace`), `BytesKept` (`NothingLost`) | stream, capacity, cycle, and segments near the checkpoint |
| | `StreamImplemented` (`ImplementsStream`), `StreamInPlace`, `CacheStaysSound` (`CacheIsSound`), `NothingComesTwice` (`NoByteLost`), `TypesCorrect` (`TypesOK`) | the same, and with the TCPSender as the peer, for applications that keep the window open (the types of the sender for all) |
| | `SenderKeepsAll` (`SenderSound`) | stream, capacities, network, for applications that keep the window open |

**ThreadPool.** None of the invariants is inductive alone. A task is conserved because only the holder of
`_queue_mutex` changes the queue, so the invariant says for each place in the code who holds the mutex, and
that a thread between `Take` and `Return` has a task in its hand and nobody else has. A wake-up is not lost
because a thread sleeps only after it has seen the queue empty under the mutex: the invariant counts the
threads awake against the entries of the queue. The counting rests on lemmas about cardinalities of sets
that gain or lose one element. `TimelyIsSafe` adds that a thread that has begun and not ended has a node
whose stat is not KILLED. `BlocksOnlyWhenEmpty` rests on `SweepInv`: inside `ClearTrash` a locked
`_td_list_mutex` means that no node has been looked at yet, and outside it that there was none.

`ImplementsTaskExecutor` is the step simulation under which the tasks of the queue that were sent before
`KillAll` are pending and those in a hand are running; `SendEmplace`, `Take`, `Return`, `KillPush` and a
refused `SendTask` are the steps of `TaskExecutor`, all others stutter. It needs that the queue is made of
the tasks sent in time, then exit tasks, then whatever came too late, with an exit task for every thread that
has not left (`ShapeInv`): the first `KillAll` pushes one for each node, and while calls are timely every such
thread has one. So no thread is left to take what is behind them. Without that assumption `ClearTrash` may
erase the node of a thread that has not begun, and `SendTask` then drops a task although the pool has threads.

**ChatServer.** A task is named by the receipt and the place in `client_list_` it is for. `TaskInv` says
that its address is the one at that place and not the author's, and that while the loop runs its tasks for
the last receipt lie before `at`; with `ListInv`, no address twice in the list, two tasks for one receipt
and one address are the same task, and `PlaceInv` has a task in one place of the pool. `OutInv` leads what a
client has heard back to tasks that ended. For `ReorderingBounded`, `ReorderInv` adds that tasks start in the
order of their receipts (`OrderInv`), that every receipt has its tasks (`CoverInv`), and that what has ended
has been heard (`EndedInv`): whatever a message has overtaken is then still in the hands of the pool's other
threads, of which there are fewer than `Slots`. Of the client, `ClientInv` says that `buff` holds no line
that has been sent.

**EasyLog.** `RecordInv` has two parts. `ThreadInv` holds to the end: the types, who has a record, who has
the file mutex (`FileHeld`), and `Printed`, that between `Fill` and `WriteLine` a record holds its own
thread's line, which is what makes every step of `EasyLog` a step or a stutter of `AtomicLog`. The other part
holds until the members are destroyed, and is false afterwards: who is where in `WriteLog` holds the queue's
mutex (`QueueHeld`), between `front()` and `pop()` the front does not change (`FrontKept`), and `PlacesInv`
says where the records are: one in the queue is in nobody's hands, two positions or two threads never have
the same one, a deleted one is nowhere. `RecordsExclude` says no more than that: nothing of a log whose
mutexes are gone.

**ForkLog.** `BufferInv` accounts for the line a process is writing: its first pieces are in the file, the
next ones in the buffer, and outside `WriteLog` the buffer is empty, so that `fork` copies nothing. A short
line stays whole in the buffer until its flush. `OrderInv` has the pieces of a line in the file in their
order, `WholeInv` has all the pieces of a line whose call has returned.

**Calculator.** The invariant `On` is about what is in a side's buffer and on its way to it, taken together.
Either they are the frames of the messages not yet taken, from the beginning of one (`Aligned`); or, on a
stream that may be cut anywhere, the side has taken a frame too soon and what is left begins with neither a
digit nor a line end (`Astray`), so that the next `obtain` throws. `RightWhenWhole` is the first case,
`WrongAnswersEnd` both. Of the draft, `TakenInv`: a side has taken nothing, or one message that was never
sent, in whose place it has erased the digits of the first frame.

**ForkServer.** `PlaceInv` bounds where child and grandchild of a turn can be, given where the server is;
`WaitInv`: a server that waits for its child has no other; `SockInv`: a connection belongs to one turn.
`HolderInv` and `HeldInv` say, from both sides, that the holders of a connection are processes of its turn
that have not closed it, and `ListenInv` that the listening socket does not go past the child's close. One
step per action.

**Sockets.** For the class that moves, an object with a number stands for what it has opened, and no two
objects have one number (`MoveInv`); for the class that copies there is one object at most, whose number is
free between its two closes (`CopyInv`).

**HttpServer.** `DataTaken` says that data are taken only from a buffer long enough; `HeadCame` that a
parsed head has come. `LengthsDiffer` is the surprising lemma: data are never as long as the Content-Length
says unless it says zero. With it every request that passes `check_get` or `check_post` declares no data.

**LineServer and UdpEcho.** A line of `TcpClient` may be in the client's stream, in the server's buffer or on
its way back. `ConservesInv` says that what has been printed and what is in these three places, put together,
are the lines that were typed; `LastInv` that while nothing is cut and lines fit it is the last line only,
whole and in one place. Between the UDP client and server `SurplusInv` counts: no more datagrams of a client
are under way than it waits for and mishaps have made, and `LastLineInv` has all of them belong to the line
read last while there was none.

**Wrap32 and TcpReceiver.** `unwrap` is inverse to `wrap` for numbers less than half a cycle from the
checkpoint, which makes the index that `receive` computes the right one (`IndexOf`). What reaches the
Reassembler is therefore a run of consecutive indices, and the invariant `IInv(N)`, for a stream of N bytes,
is that the buffer and every entry of the cache are such runs, that entries lie between the first byte not
written and the edge of the window, apart from each other, and cover what came. The lemmas follow `insert`:
what the filter lets through is the part in the window (`InWindowOf`), joining ends where no entry crosses
(`JoinsLeft`, `JoinsRight`), so that `cache_in` keeps entries apart and loses nothing (`CacheIn`), and
`write` stops at the first gap (`GapOf`, `WriteOf`). `size_` is a sum over the cache; since
entries are apart, it is the number of indices that they cover, and so at most what there is room for.
`SumsArea` shows that this number satisfies the equation by which the sum is defined, and `SumsUnique`, by
induction on the number of entries, that nothing else does.

**TcpSender and TcpTransfer.** With the sender as its peer the receiver's invariant holds because everything
in flight is true: `UpInv`, each segment is a piece of the SYN, the stream and the FIN with its own number;
`DownInv`, each ackno is one that the receiver has reached. `InputInv` says that `next_seq` numbers exactly
what was popped from the input, and `Chain` that the segments of `window_` follow one another without gap,
the first one not wholly acknowledged, the last one ending at `next_seq`. So what is popped and has not come
is in some segment of `window_` (`NothingForgottenOf`, by the least segment that ends behind it), and
`SeqFNum` is the distance from `last_ackno` to `next_seq`. `SimpleMode` says what a prompt application is
good for: the window never closes, and the probing mode, in which the sender sends wrong bytes, is never
entered. `TypeInv` does without that and holds in both modes.

`StreamImplemented` is the step simulation of `ReliableStream`. Places alone do not give it: a byte must not
be delivered before it was written. `Sent` says so: the receiver's invariant holds of the first
`bytes_popped` bytes of the input alone, since every segment in flight ends before `next_seq` (`InFlight`).
So the receiver never runs ahead of the sender (`SentSteps`), and what it appends to its buffer is what
follows (`BufferGrows`). With any peer the invariant is `IInv(Length)`.

**Only model-checked**: all liveness (`ImplementsExecutor`, `KillEndsThreads`, `MessagesShown`,
`ImplementsFairLog`, `EveryAnswer`, `PeerSeesEnd`, `EveryoneAccepted`, `EveryRequest`, `AnswersCome`,
`BytesRead`), for which the prover has no rules with fairness and ENABLED; of `ImplementsExecutor` and
`ImplementsFairLog` that is the fairness, their safety is proved. And, where the application lets the window
close, that nothing is acknowledged to the sender that has not come (the first half of `SenderSound`; the
second half is about prompt applications only): after a probe with wrong bytes the receiver's numbers are
bounded only by how many probes there are, and `unwrap` identifies a number only within half a cycle.


## 5. What is not modelled

- The timer of the TCPSender: a tick may time out whenever there is something to send again, and what it
  computes decides nothing else. Segments of more than 128 bytes: `peek` shows at most 128 while `pop` takes
  up to 1000, and the streams here are shorter.
- Version 1 of the Reassembler, which the notes keep for comparison.
- How `CalculatorServer/Protocol` splits a line into two numbers and a sign; the model has a set of lines
  that are requests.
- `SetOutputLogtoCmd` of the log and `addRouter` of the HTTP server, which nothing calls (the map of routes
  is ordered by an `operator<` that is no strict weak order); a target that names a directory.
- Destructors that are never reached: `start` of the chat server and client does not return.
- The text of log lines, chat messages and HTTP responses: no property depends on it.
- The `int16_t` results of the calculator.
- Wrappers around the socket API, the byte order test, static pages and prose: no state of their own.
