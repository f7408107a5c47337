# OpenNUI G4: specifications, model checking and proofs

OpenNUI G4 is a Windows framework for natural-user-interface devices. A framework process loads
device modules (Kinect v2 is the one in the repository), copies each device's colour and depth
frames into rings of blocks in shared memory, and opens a TCP port where client processes
introduce themselves. This directory holds TLA+ specifications of that system, TLC
configurations that check them on small instances, and TLAPS proofs for all instances.

Run from this directory: `tlc -config <run>.cfg MC<Module>` for a run, `tlapm <Module>Proofs.tla`
for the proofs about a module (SessionStream has a second part, SessionQueryProofs). PROJECT.json lists the runs, the lines of source behind every definition, the
hazards and the theorems.

## 1. The system

| component | state | operations | modelled in |
|---|---|---|---|
| `shared_buffer` (OpenNUI_SDK4/service) | shared memory: a lock word, a timestamp and a data block per slot; per process: next read and write index | constructor (zeroes the memory), `lock`, `unlock`, `get_writable_data_address`, `get_readable_data_address` | SharedBuffer, FrameExchange |
| client frame access (clnt/api.cpp) | static `ts` of the last frame | `temp_acquire_kinect2_color_frame`, `..._depth_frame` | SharedBuffer, ColorFrames |
| forward manager (frdmgr) | message queue, map of devices, timer | `send_message`, `_on_timer`, `stop`, `force_release_all_devices` | DeviceHost, SharedBuffer, ColorFrames |
| device loader and `main` | list of module files, vector of devices, the statics to destroy | `scan`, `create_all`, `main` to its end | DeviceHost |
| `virtual_device` | module handle and pointer, key, the two rings | `_open`, `_close` | DeviceHost |
| Kinect2 module | sensor and readers, `device_state` | `open`, `acquire_color_frame`, `acquire_depth_frame` | DeviceHost, ColorFrames |
| session stream (gateway.cpp) | `buffer_in`, `msgbuf_in`, `bytes_transferred_in`, `state` | `_on_data_received`, `_header_processing`, `_data_processing`, `_async_query_proc_launcher` | SessionStream, MessageStream |
| handshake (gateway.cpp, native_session.cpp) | session id and type, two accept tasks, two pipes on both sides | `_generate_sid`, `_on_client_connected`, `handshake`, `connect_to_local_framework`, `read_message` | Handshake |
| gateway servers (gateway.cpp) | native and web server, `_flag_open`, the static `sid` | `open`, `close`, `_on_client_connected`, `_generate_sid` | Gateway |
| loggers (framework and SDK) | a spin lock each, one console with its colours | `system_log`, `system_error_log`, `system_msg` | Logger |

How they interact: `main` calls the loader, which constructs devices and sends them to the
forward manager by a queue; the manager's timer thread asks each device for frames and writes
them to its rings; clients share the rings through named shared memory and take blocks by
compare-and-swap on the lock words. I/O callbacks of a session cut the stream into messages and
start a detached thread per hello message; that thread and the client meet on two named pipes.
Every thread logs.

The hard parts are: a constructor that wipes memory in use and processes killed with a lock
in hand (no recovery); the copy made after the release of the block; timestamps as the only
sign that a block is published; reads that end anywhere in a message; a sleep as the only thing
that orders the pipes before the session id; timeouts on both sides; a timer thread that serves
devices while `main` still loads others, and while `main` ends and takes away what a tick works on;
modules that fail half-way; two servers whose callbacks overlap with each other and with `close`; two
loggers with different locks on one console.

What makes each part correct, in words: a block is written or read under its lock by one
process at a time, a published block is whole, and timestamps only grow; each hello is handed
over exactly once with its own data and the session never stops listening; both sides agree on
the outcome of a handshake and leave it; devices are served exactly as the messages say and never
before they are complete; a released device stays away and the process ends; no server listens that
nobody can close, and `_flag_open` tells the truth; the console gets its colour back.

The timer, queue, pipes, sockets and shared memory come from the library `vee`, a submodule
whose source is not in the repository; what is assumed of it is what its callers rely on and is
marked external in PROJECT.json.

## 2. The modules

**SharedBuffer** is the core. `locks`, `timestamps` and `blocks` are the three arrays of the
shared memory. Each process has a `pc`, the local `ci`, its own `next_idx` and `ts`. Each action touches
the shared memory at most once: `TryLock` is the compare-and-swap, `CheckTimestamp` the test in
the search, `SkipBlock` the unlock and step; a writer then runs `AcquireFirstBytes`,
`AcquireLastBytes` (or `AcquireFails`), `WriteTimestamp`, `FinishWrite`; a reader `ReadTimestamp`,
`ReleaseBeforeCopy`, `CopyFirstBytes`, `CopyLastBytes`, in the code's order. A frame's content is
the tick it was written at, in its first and last bytes, so that a mix of two frames is visible.
A process starts in the constructor's `memset` (`WipeLock`, `WipeTimestamp`, `WipeBlock`), element by
element. `Crash` and `Restart` kill and start processes anywhere. The history variable `raced` is set
when the constructor zeroes a block that somebody is using or that is published (or torn); the
code cannot prevent that (framework and clients run the same constructor), and what holds until it
happens is what the safety properties say. In the SMP memory of x86 the interlocked operations
are full fences and plain writes are seen in order, so the interleaving semantics fits.

**FrameExchange** says what the ring is for, without locks, indices and searches: frames are put on
shelves under ever newer ticks, a request is answered with a frame newer than the last one, and an image
is filled with nothing older than that frame. `SharedBuffer!ImplementsFrameExchange` is the refinement: a
shelf is a timestamp, `seen` is `ts`, `broken` is `raced`. The code's `WriteTimestamp` is `Publish`,
`ReadTimestamp` is `Take`, the two halves of the copy are `Fill`; all else stutters.

**ColorFrames** looks at the same ring with one step per tick, for the order of the colour
channels: `acquire_color_frame` swaps two channels of the block whether or not a frame was
converted into it. So an image changes its order with every turn of the ring that brings no new frame for
its block, and `OrderTellsAge` says from its timestamp which one it is in. `displaced` remembers the blocks of
which this cannot be said, because a client's lock made the timer skip them or write them out of turn.

**SessionStream** has the stream as a sequence of cells, three for a header and one for each unit
of data. `memory` is `msgbuf_in` as the code addresses it: the targets of the two memmoves are
computed on pointers to the whole header and section, and `overrun` becomes true when one leaves the
message (what the program does afterwards is undefined and nothing is claimed of it). `HeaderPart`,
`HeaderWhole`, `DataPart`, `DataWhole` are the branches of the two processing functions, which call each
other on what is left in the buffer. `size_t` wraps at `SizeModulus`.
A read takes any part of what is on the wire; the history variable `cuts` remembers whether one ended
inside a header or inside data (`CutIn` limits which may), because what holds differs: without a cut every
hello is dispatched as sent, and with cuts in data only the framing survives.

**MessageStream** is the abstract specification of that: messages are worked off one by one in the
order sent, and each hello is handed over once, as it was sent. `SessionStream!ImplementsMessageStream`
maps to it what lies before the message being read (`WorkedOff`) and the copies handed to the threads.
The promise ends with a fault: an abnormal message or a read that ends inside one.

**Handshake** has a client and a session per client, the handshake thread, and its two accept
tasks. The input `prompt` says which of two worlds a behaviour is in. In a prompt one, time is a `Tick`
that lowers the counters of the sleep and the accepts, and tasks and clients act within given delays. In
the other one every thread may be suspended for any time, so a timer may expire at any moment after it
was set, hellos may be lost, reads may end anywhere and clients may be killed. The client's connect
(`ConnectPipe`) and the return of the accept (`TaskAccepts`) are steps of their own, so that the accept may
still time out once its client has connected (`Crossed`).

**Gateway** has the caller of `open` and `close`, line by line, and one callback per server that may run
on the threads of the I/O service. A server is named after its type and the call of `open` that made it,
so that one that was replaced but not closed would still be there. `create_server` may throw and an accept
may fail. `sid++` is a read and a write, and `overlapped` remembers that two callbacks met in it.

**DeviceHost** has main's thread, statement by statement through `virtual_device::_open` and
`kinect2::open`, and the timer's thread. The faults of the files, the failing step of `open`,
the hash of each path and the capacity of the queue are chosen initially. A message sent to a full queue has
no effect, since nobody looks at what `enqueue` returns; `lost` remembers it. A tick asks each ring for a block
to write (`AcquireColor`, `AcquireDepth`), or never gets one and spins (`SearchSpins`): a dead lock or a wrapped
tick does that in SharedBuffer, and DeviceHost leaves open when it happens. A null pointer that is dereferenced, or an object used after
its destruction, sets `crashed`. The first `send_message` constructs the manager, and only when its
constructor has returned, with the timer running, is it registered in `statics`; when the user leaves,
statics are destroyed in reverse order (`DestroyStatic`, `DtorStop`, `DestroyManager`), each while the
timer may tick. Whether `vee`'s `async_timer::stop` waits for a tick that runs is not in the repository:
`stop_waits` is an input, and so the properties say what holds in either case. `force_release_all_devices` and
remove messages have no caller but a commented-out one in `main`; they are modelled for
what they promise to a caller.

**Logger** has the two copies' locks, the console's colours, and each call as the steps of
`set_console_color` (two reads and a write), `fprintf` and restoring.

The `MC*` modules only give values to constants (messages, faults, symmetry sets).

## 3. The runs

| run | what it shows | bounds |
|---|---|---|
| SharedBuffer_safety | types, exclusion, published blocks whole, copies not older than their timestamp; timestamps of blocks and of a client only grow | 2 writers whose ticks lag and wrap at 3, 1 reader, 2 blocks, 3 ticks; 4 million states |
| SharedBuffer_crash | the inductive invariant with crashes and wipes; the ring implements FrameExchange; searches end | 1 writer, 1 reader, 2 blocks, 1 crash, 3 ticks, fairness |
| SharedBuffer_torn (violated) | the grabbed image may mix two frames | 4 ticks: a turn of the ring |
| ColorFrames_turns | the channel order of an image is told by the turns of the ring since it was converted | 3 blocks, 10 ticks (three turns), a client that holds blocks |
| ColorFrames_rgba (violated) | a fresh image is not in RGBA | 3 blocks, 8 ticks |
| SessionStream_reads | one read outstanding; framing and counters survive cuts in data; nothing but a hello starts a handshake, and with its own data; SessionStream implements MessageStream; hellos are handled in the end | 3 messages out of 6, good and abnormal, a header of 3 cells and a data section of 4, `size_t` modulo 128, reads that end anywhere, fairness of the I/O service |
| SessionStream_parse (violated) | data cut by a read is put together wrongly | 1 message |
| Handshake_delays | the sides agree on the pipe, and on the outcome unless an accept's timeout crossed with its client's connect; prompt handshakes all succeed; threads end; clients leave unless their acknowledgement was split | 2 clients, prompt with half-second ticks or with any delays, lost hellos, split acknowledgements, deaths; fairness |
| Handshake_cutack (violated) | an acknowledgement in two parts is never read | 1 client |
| DeviceHost_load | served only when complete and as the accepted messages say; a release is final; the process dies of four known causes only; otherwise devices are served unless their message was lost, the gateway opens, and the process ends unless `stop()` waits for a search that spins | 2 modules, every fault but "missing" (handled as "not_loadable"), failing at 2 of the steps of `open` or not, equal keys, 1 remove, 1 release, leaving at any moment, a queue of 1 or 2 for up to 3 messages, fairness |
| Gateway_reopen | no server that listens is forgotten; `_flag_open` tells the truth; ids differ unless two callbacks met in `sid++`; clients are served; the accept loops of closed servers end | 2 clients, 2 calls of `open`, any calls of `close`, 2 I/O threads, fairness |
| Logger_shared | colours restored, framework lines in their own | 3 framework threads, 1 thread of a module |

Why the bounds are enough. The ring needs two blocks for a search to pass a locked or a stale one,
and two processes of a kind for all conflicts on a lock; three ticks let a writer come back to a
block, and a wrap to 0 needs a modulus no larger than the bound on ticks. With one client, one writer and two blocks the
copy can be overtaken by a whole turn of the ring. Three messages let a read coalesce
the end of one, a whole one and the start of the next, and let what one leaves behind meet the next; the data
section holds more than a header, as the code's does (512 bytes and 12), so that a header read in the wrong
place fits into it. Two clients are what it takes to confuse
pipes, and two to overlap in the two servers' callbacks; two calls of `open` let one close what the other
made while its callbacks still run. Two modules let one be loaded while the other is served. Of the steps
of `kinect2::open` those around the two readers tell the tick's cases apart; a device has one fault, because only the first one is met. A queue of one is full when the timer lags behind one message; with one of two
the first two get through and the third may not. The theorems below remove the bounds for every invariant,
action property and refinement that the passing runs check.

`CHECK_DEADLOCK FALSE` stands in all configurations but Logger_shared: ticks, messages and crashes are
bounded, and clients, sessions and the process itself may really stop. Logging never stops, and its two
locks are checked for deadlock.

Fairness. SharedBuffer: a thread inside the constructor, a search or a frame's handling goes on
(the operating system schedules it), but the next tick, the next request and a restart are
not promised, and neither is a lock under contention (it is not fair). SessionStream:
callbacks run and what is on the wire arrives. Handshake: threads run, clocks advance, a connected client goes on unless killed. DeviceHost:
main and the timer run; the user need not leave, nor anybody send a remove or release the devices.
Gateway: a call that began runs on, callbacks run, the I/O service completes an accept for which a client
waits and every accept of a closed server; nobody need call `open` or `close`, and no client need
connect.

### What the violated runs say

1. `api.cpp:43` unlocks the block before `memmove` (`:45`): "grab new color and depth image"
   (clnt_main.cpp:32) may give parts of two frames. With 15 blocks and 16 ms it needs a copy that is
   delayed by about a quarter of a second. What does hold, and is proved, is that no part is
   older than the timestamp recorded.
2. `gateway.cpp:217,224`: data cut by a read is not "the data from client" (`:296`).
3. `native_session.cpp:49`: the count of bytes is reset in each turn, so an acknowledgement in two
   parts keeps the client forever (`:91`). That nothing else does is `LeavesUnlessCut`.
4. `OpenNUI_Kinect2.cpp:206`: the swap follows a conversion to RGBA (`:200`), so a fresh image is BGRA and not the
   "RGBA Raw Image" of clnt_main.cpp:28. An image kept for a turn of the ring without a new frame is swapped back
   (`OrderTellsAge`).

Some more deviations are part of the models, though no run is spent on them. `virtual_device.cpp:38` tests the module's handle
instead of the entry point, so the error of `:40` is never reported and the process dies (the first case of
`DiesOnlyOf`). A header cut by a read is
put together wrongly as well (`gateway.cpp:172,179` step by whole headers) and reported as "abnormal"
(`:187`). `virtual_device.cpp:52` ignores the result of `open()`, so "Virtual device is opened" (`:61`)
is logged of one that is not, and the first tick may use a reader that was never obtained (the second
case of `DiesOnlyOf`). When a device's shared memory cannot be created, its module stays loaded: no
destructor runs. If `stop()` does not wait for a tick, or if messages are left when `main` returns,
the timer works on objects that are gone (the other cases of `DiesOnlyOf`). An accept that fails ends
its server's loop while `_flag_open` stays true, and if the web server cannot be created the native
one listens and accepts nobody (`FlagTellsTruth` states both). Two callbacks that meet in `sid++` hand
out one id twice (`SidsDistinct`). A message that finds
the queue full is lost (`MapFollowsMessages` says what is served then), and of two devices with equal keys only
one is served. An accept that times out just when its client has connected leaves a client with two pipes that the
framework has dropped (`NeverOneSided`). And a tick whose search spins keeps `~frdmgr`, and so the process, for
ever if `stop()` waits for it (`ExitEnds`).

## 4. The proofs

Every theorem holds for all values of the constants that satisfy the named assumptions of the
component's module (at least one block, distinct processes, a positive modulus, finite sets of modules and
clients, bounds that are numbers; a name for "nobody" that no client has; for the session stream a header of three fields, a data section larger
than a header and a `size_t` that holds a few messages multiplied by the size of a section, where the code has 512 bytes
and 2^32), plus the hypothesis given in the table.

| module | theorem | statement |
|---|---|---|
| SharedBufferProofs | TypeCorrect, Invariance | `Spec => []TypeOK`, `Spec => []IInv` |
| | LocksExclude, FramesPublishedWhole, CopiesNotOlder | `Spec => []MutualExclusion`, `[]PublishedWhole`, `[]CopyNotOlder` |
| | TimestampsGrow, ReadsGrow | `Spec => TimestampsAdvance`, `Spec => ReadsAdvance` |
| | RingImplementsExchange | `Spec => ImplementsFrameExchange` |
| ColorFramesProofs | TypeCorrect, AgeTellsOrder | `Spec => []TypeOK`, `Spec => []OrderTellsAge` |
| SessionStreamProofs | NeverDeafNorRacing | `Spec => []OneReader` |
| | TypeCorrect, Invariance | `Spec => []TypeOK`, `Spec => []IInv` |
| | StreamInStep, FramesKept | `Spec => []InStep`, `[]FramingKept` |
| SessionQueryProofs | StreamImplementsMessages | `Spec => ImplementsMessageStream` |
| | OnlyHellosHandedOver | `OpcodesStandOut` implies `Spec => []OnlySentQueries` |
| HandshakeProofs | TypeCorrect, Invariance | `Spec => []TypeOK`, `Spec => []IInv` |
| | SuccessIsAgreed, NoneOneSided | `Spec => []SuccessAgreed`, `[]NeverOneSided` |
| | PromptSucceed | `DelaysFit` implies `Spec => []PromptSucceeds` |
| GatewayProofs | TypeCorrect, Invariance | `Spec => []TypeOK`, `Spec => []IInv` |
| | NoneOrphaned, FlagCorrect, IdsDistinct | `Spec => []NoOrphan`, `[]FlagTellsTruth`, `[]SidsDistinct` |
| DeviceHostProofs | TypeCorrect, Invariance | `Spec => []TypeOK`, `Spec => []IInv` |
| | CompleteServed, ReleaseFinal, KnownDeaths | `Spec => []ServedIsComplete`, `[]ReleaseIsFinal`, `[]DiesOnlyOf` |
| | MessagesFollowed | `Spec => []MapFollowsMessages` |
| LoggerProofs | TypeCorrect | `Spec => []TypeOK` |
| | Invariance, ColorsRestored, LinesKeepColor | `OnlyLogs` implies `Spec => []IInv`, `[]ColorRestored`, `[]LinesInOwnColor` |

The three hypotheses: `OpcodesStandOut` says that no message id and no data cell equals the opcode of a hello,
and that a message whose size does has an id above the largest section. An out-of-step reader then never finds
a hello's header where none was sent; without it, it could, because the code resumes reading headers
right behind a refused one (`gateway.cpp:188-194`). The messages of the run satisfy it.
`DelaysFit` says that a task listens before the sleep ends and that a client has
its three steps left before the accepts time out; `OnlyLogs` that threads of modules use the SDK's logger
only for `system_log`, which sets no colour, as the Kinect2 module does. Without it the two locks do not
exclude the colour changes of the two copies.

**SharedBuffer.** None of the safety properties is inductive. That two processes are never inside
one lock needs that whoever is inside finds the word set (`LockHeld`). That a
published block is whole needs to know that only a writer between its first byte and its timestamp leaves
a block torn, with the word set even if it is killed there (`TornIsLocked`), and what that writer
has already written (`WriterInside`). That a copy is not older than its timestamp, although it is made without
the lock, needs that the chosen block's timestamp never falls below the recorded one
(`ReaderInside`), that every writer inside has passed the timestamp test (`WriterInside`), and that
no byte of a stamped block is older than its stamp (`BytesNotOlder`). Together they are
`Discipline`, and `IInv` is `TypeOK /\ KindOK /\ (~raced => Discipline)`. There is a lemma
`<Action>Keeps` for each action, with one step per conjunct. `raced` never becomes false
again (`RacedStays`), so the step lemma needs only look at steps that do not race. For the refinement, each
action is mapped to its abstract action or to a stutter; the invariant supplies that a stamp is newer
than what it replaces, that the frame taken is there, and that no byte copied is older.

**ColorFrames.** Because the index goes round the ring once per tick, the tick of a frame and the place of
its block determine each other. `Since(i)` is the number of ticks since the timer passed block `i`, and the age of an image
there is that plus a number of whole turns, each of which swapped it (`TurnsSwap`). `WholeTurns` says that the
division in `Turns` finds this number.

**SessionStream.** For `OneReader`: each branch of the two processing functions either hands on to the other,
or issues one read and ends the callback, whatever the buffers hold.

The rest starts with a lemma `<Action>Effect` per action, with the `size_t` arithmetic worked out
(`Differences`, `Targets`). A session that awaits data is `Reading`, with the count between the end of a valid
header and the end of its message, or `Confused` (`Staged`): behind an abnormal header that ends the buffer the code still
switches to `read_data` (`gateway.cpp:196`), with `msgbuf_in` cleared and the count below a header's size. There
`data_transferred` wraps to almost 2^32, and `remaining_data_size` wraps back to what is missing of a header. `Targets`
shows that the memmove of a confused session always misses `msgbuf_in`, which is what keeps its header cleared and
the session in one of the two cases.

The invariant proper says where everything lies in the stream of all that was ever sent. `Placed`: the
messages lie end to end (`LaidOut`), the cells in the buffer and on the wire are those of the messages at
their positions (`CellsAreSent`), and each read that ended inside a message is in `cuts` (`CutsKnown`).
`Followed`: as long as messages are well formed, no header was cut and nothing overran (`Sound`), the message being
read begins `bytes_in` cells before the buffer, `msgbuf_in` shows its header once that is read (`InPhase`), and the queries
are the hellos that lie before it (`Handed`). No part of it is inductive alone: that a header is read right needs
the positions, the positions need that the previous header's size was read right, and that the next
message begins where this one ends needs both. `IInv` is `Typed /\ Staged /\ Placed /\ Followed`. Positions are
sums over the messages sent, but the proof never sums: a message records where it begins, and
neighbours meet (`NextStarts`).

The refinement adds `Whole`: without a fault the data of a message is read at once, so the copy
handed to a thread is the whole message (`CopiedWhole`). A message counts as worked off when it lies before
the one being read. Sending appends to the abstract sequence, the end of a message works off its head
(`WorkSeen`), and all else stutters.

`OnlySentQueries` holds also out of step, where `InPhase` says nothing. `Strict` says that while no read has ended inside a message,
a `msgbuf_in` with a hello's opcode that the code is about to complete shows the header of a hello that was sent right
before the cells being read (`OwnHeader`), and each query already shows a message sent (`Known`).
The lemma behind it is `HeaderAhead` in step and `HelloAhead` out of step: three cells that pass for a
hello's header are one.

**Handshake.** Ids are handed out once and reach their own client only (`IdsOwn`); hence the pipes named
after them, connected or accepted, lead to their own client (`PipesOwn`); and what the handshake thread has found out is final (`OutcomeFinal`). These
need no clock. For prompt handshakes `Scheduled` says at each stage how long both accepts still wait, as a
function of the sleep left and the time the client has spent.

**Gateway.** `MembersAtLine` and `LoopsAtLine` say, for each line of `open` and `close`, which members there
are and which accept loops have begun; `MembersListen` that a member is a listening server of its
type. For the ids: those read but not yet written, written but not yet given, and given
are below the counter or equal to the one in the making (`SidsBelow`).

**DeviceHost.** A device is `Complete` when its constructor has returned; only complete ones are in the queue,
in the message and in the map (`AllComplete`), and a device completed stays so (`CompleteKept`). As
`open` either went through or stopped at its failing step, a reader that is missing names its cause.
`StopOrder` says when the timer is stopped for good, and `LeftOver` that after `main` has
returned the timer meets no message unless some were left. Those are what `DiesOnlyOf` rests on.
That the map follows the messages holds because the last message about a
module, and the last about a key, tells what was asked for it, wherever that message is: in the queue
(`Agree`), in the timer's hand or applied to the map (`MapTells`). A lost message changes neither side. This lasts while the manager is
not destroyed under the timer (`Applies`).

**Logger.** The lock of a copy is held by its one thread inside (`LocksHeld`), SDK threads set no colour
(`LogsPlain`), and so a framework thread that sets one has found the default (`ColorKnown`).

Model-checked only: liveness (`SearchEnds`, `HelloHandled`, `HandshakeEnds`, `LeavesUnlessCut`,
`DeviceServed`, `GatewayOpens`, `ExitEnds`, `ClientsServed`, `ClosedServersGo`), which is out of the
prover's reach. Every other property of a passing run is proved. `TypeOK` of ColorFrames and of
Logger is proved and not checked by a run as well.

## 5. What is not modelled

- The web protocol and web clients, which the handshake refuses ("Unsupported client type (TODO)"). The
  web server's accept loop is in Gateway.
- What `FreeLibrary` does when a device is destroyed; the Kinect2 module's `release` returns false at once
  and gives nothing back.
- The wrap of the ticks as a liveness matter: after 2^32 ticks of 16 ms (over two years) no block is
  older than tick 0 and the writer's search spins. What a search that spins means
  for the rest of the framework is in DeviceHost. Safety across the wrap is checked and proved.
- vee's scheduler, which the program creates and whose actors `main` clears at the end, but which gets
  no work (every request to it is commented out); exception types, data records and the version; the test application, a loop around the client's calls.
- A second hello on one connection: SessionStream hands both over, Handshake has one per session.
- Sending: `_on_data_sent` only logs, and the acknowledgement is one `write_some`.

## 6. Plan

1. *Done*: SharedBuffer, ColorFrames, SessionStream, Handshake, DeviceHost with the end of `main`, Gateway,
   Logger; FrameExchange and MessageStream as their abstract specifications; proofs for all of them.
2. *Done*: every invariant, action property and refinement of the passing runs is proved, the framing of the
   session stream and its refinement of MessageStream last.
3. A composition of Gateway's callbacks with Handshake's sessions, so that an id handed out twice
   (`SidsDistinct`) meets the pipes named after it; and a second hello on one connection.
