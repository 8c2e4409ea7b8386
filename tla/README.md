# depthai_ctrl in TLA+

`depthai_ctrl` publishes the H.264/H.265 video of a DepthAI camera on ROS 2 and
streams it with GStreamer to an RTSP server or a UDP address. This directory holds
TLA+ models of the camera node, of the streaming node and of the program that joins them,
the TLC runs that check them and proofs that TLAPS checks. Line numbers refer to
`src/gstreamer_interface.cpp` (GI), `include/gstreamer_interface.hpp` (GH),
`src/depthai_gstreamer.cpp` (GS), `src/depthai_camera.cpp` (CAM) and
`include/depthai_utils.h` (UT).

## 1. The system

| Component | State | Operations | Interacts by |
|---|---|---|---|
| **DepthAIGStreamer** (GS) | `_is_stop_requested`, timer, three callback groups | constructor with start on boot, `GrabVideoMsg`, `HandleStreamStatus` (every 10 s), `VideoStreamCommand` (start, stop), destructor | owns a `GstInterface`; ROS 2 topics `camera/color/video` and `videostreamcmd` |
| **GstInterface** (GI, GH) | four flags and an error flag, raw pointers to pipeline, source, sink, main loop, context and two threads, signal and watch ids, address, profile | `StartStream`, `StopStream`, setters; threads `CreatePipeline` and `PlayStream`; callbacks `NeedDataCallBack` (streaming thread) and `StreamEventCallBack` (bus messages in the main loop) | called by the timer, by commands and by the constructor and destructor; called back by GStreamer |
| **Frame queue** (GH 205-210) | `queue`, `haveDataCond`, `haveDataCondMutex`, and the flags `_isStreamShutdown`, `_isStreamDefault` that go with it | push, pop, two waits, emptying, broadcast | shared by the ROS callbacks, the streaming thread and the creating thread |
| **Buffer timestamps** (GI 382-400) | `_gstStartTimestamp`, `_gstTimestamp` | reset by `StartStream`, advanced by `NeedDataCallBack` | - |
| **DepthAICamera** (CAM) | camera settings, `_device`, `_pipeline`, queues and callback ids, `_thread_running` | constructor, `VideoStreamCommand` (start, change_focus), `TryRestarting`, lens and focus, publishing callbacks, `Stop` | same command topic; publishes the video topic; the device's reading threads call it back |
| **DepthAIUtils** (UT) | none | validation of camera parameters, addresses, encodings; readers of udp addresses | called by both nodes |
| **main programs** | none | one spins both nodes, two spin one node each, on a `MultiThreadedExecutor`; the tests use a single thread | - |
| launch, packaging, udev and host scripts | none | - | - |

What is hard here: `StartStream` and `StopStream` are called from two executor threads
and the main thread without a lock, while two threads of the object's own and
GStreamer's threads read and write the same plain fields; flags are written outside the
mutex that waiting threads test them under; PLAYING and ERROR arrive at any time; a
start takes up to two seconds in another thread plus the time a connection takes, and
the timer guesses after ten seconds how it went; pointers stay set after what they point
to is gone. The camera's node handles one command at a time, but its device answers or is
lost beside it, blocks when a queue is full, and both nodes obey the same commands by
different rules.

What makes each component correct:

- *queue*: bounded, unbroken and in order; used by one thread at a time from the test to
  the pop; nobody sleeps while it holds data.
- *GstInterface*: each start can be undone, undoing leaves nothing, no thread is joined
  twice, flags say what the pipeline does, `StopStream` returns.
- *node*: recovers from errors and comes back to the camera; a stop holds; the destructor
  leaves nothing behind.
- *timestamps*: exact from the third buffer on.
- *camera*: `_thread_running` and `_device` agree, so that a start after failed attempts is
  not ignored; the device runs what the settings say, pipeline and lens; nothing is sent
  without a device; every video packet is published once and in order, and at once.
- *both together*: the encoding that is sent is the one the streamer's pipeline is built
  for, and the camera's pictures get through.

`PROJECT.json` lists the hazards line by line with the properties that catch them.

## 2. Modules

| Module | Models | Runs and proofs |
|---|---|---|
| `FrameQueue` | the queue with its mutex and condition, all four kinds of thread at it | `MCFrameQueue` (`fq_safety`), `FrameQueueProofs` |
| `GstInterface` EXTENDS `FrameQueue` | the stream's life: start, stop, both threads, bus messages | through the node; `GstInterfaceProofs` |
| `DepthAIUtils` | the checks of commands and the readers of udp addresses, as operators | evaluated by `MCDepthAIGStreamer` against the documented forms |
| `DepthAIGStreamer` EXTENDS `GstInterface`, `DepthAIUtils` | the node: Init, timer, commands, video subscription, destructor; Next, fairness, properties | `MCDepthAIGStreamer` (`auto`, `commands` and six violations), `DepthAIGStreamerProofs`, `StreamLifeProofs` |
| `StreamStatus` | abstract: what `IsStreamStarting` and `IsStreamPlaying` promise | instantiated by `DepthAIGStreamer` (`StatusSpec`) |
| `FrameTiming` | timestamp arithmetic | `timing`, `FrameTimingProofs` |
| `DepthAICamera` EXTENDS `DepthAIUtils` | the camera node and its device: start, commands, controls, streams, loss, destructor | `MCDepthAICamera` (`camera`), `DepthAICameraProofs` |
| `CameraFeed` | abstract: what the camera node promises to the subscribers of its streams | instantiated by `DepthAICamera` (`FeedSpec`) |
| `DepthAICtrl` EXTENDS `DepthAIGStreamer`, INSTANCE `DepthAICamera` | both nodes in one process, the two topics between them | `MCDepthAICtrl` (`ctrl`), `DepthAICtrlProofs` |

### Correspondence

**FrameQueue.** `queue` is `GstInterface::queue`; a message is a member of `Frame`, and
`NextFrame` says which one the camera publishes next, so that a gap or a swap in the
queue can be seen. `need[g]` is where the streaming thread of pipeline `g` is in
`NeedDataCallBack`: after the lock (`lock`), between test and wait (`sleepy`), waiting
(`asleep`), past the loop (`awake`). The mutex is not a variable: it is held exactly in
`sleepy` and `awake`, and every other critical section is one step. `choose[g]` is the
two-second wait of `CreatePipeline`: a wait that timed out (`late`) chooses the test picture
once it has the mutex again, whatever the queue holds by then. `Signal` wakes a nonempty set of the threads that wait,
as `g_cond_signal` may; with `Spurious` a wait may also return by itself.
`_isStreamShutdown` and `_isStreamDefault` are plain `bool`s written without the mutex:
`LowerShutdown` and `RaiseShutdown` are enabled at any time. The read at GI 371 follows the
read at GI 366 under the same lock; a build may reuse the first one, so that
`LeaveOnShutdown` is possible after a restart too. Taking the front of an empty queue
leads to `crashed`.

**GstInterface.** A *slot* stands for all that one `StartStream` brings into being: main
loop, creating thread, playing thread, pipeline, bus watch, need-data handler. `ptr` holds
for every pointer and id of the object the slot it points to, and keeps it where the code
does (`_mLoopThread`, `_mCreatePipelineThread`, `_rtspSink`). `StartStream` has three steps
(flags, old loop, spawn) and `StopStream` eight, split where another thread can see the
object half done; a caller's position is `pc`. `CreatePipeline` is `AwaitFrame`,
`ChoosePipeline`, `BuildPipeline` (default or camera) and `WatchBus`; `PlayStream` is
`SetPlaying`, `LoadLoop`, `RunLoop` and `LeaveLoop`. All loops run on the default context,
so any thread in its loop dispatches the messages of any watched bus. `built` records what
a pipeline was built for, because `StreamEventCallBack` decides by the object's address and
not by the pipeline's which PLAYING message counts. `fault` records undefined behaviour
(second join, write to a released sink); the behaviour then goes on, as a process may.

GStreamer itself is modelled by what the code relies on: a pipeline set to PLAYING
connects or fails and says so once; setting it to NULL waits for its streaming thread and
drops the messages not yet dispatched (the bus is flushed); a bus takes one watch; the
end-of-stream sent by `StopStream` may or may not come through before the pipeline is set to
NULL.

Abstracted: which elements a pipeline is made of; encoder size, rate and bitrate, which
nothing changes; pushing of the popped buffer into `appsrc`; progress, tag, warning, latency
and clock messages, which only print or recalculate the latency. The fields
`BuildPipeline` sets, pipeline, source, sink and signal id, are set in one step.

**DepthAIGStreamer.** `timer`, `cmd` and `main` are the threads that call the interface.
With `Executor = "multi"` timer, commands and video messages interleave, since each is in a
callback group of its own (GS 50-63); with `"single"` one callback runs at a time. A start
command carries an address and an encoding, each of which may be missing, refused by the
validation or of the wrong JSON type. A value of the wrong type is converted outside the
`try` block and throws; that of the encoding does so after the address was set. `thrown`
says that the process has ended; nothing happens any more. A message that is no JSON or
no known command changes nothing. `met` is history: what calls of `StartStream` and
`StopStream` have met when they began (another call, threads of the last start, a start not
undone, a stream already stopped, a pipeline that connects). Nothing in the code keeps them
from any of it; the properties say which of these they survive. `Avoided` is what no call
meets in a run with fairness, where a timer's period of ten seconds, set back by every
command (GS 239, 252), has to be told from a moment.

**DepthAIUtils.** An address is the sequence of its pieces: protocol, separators, a
dotted quad, other text. `Until` and `After` do what `find` with `substr` does, also when
`find` returns `npos` (both give the whole string then), which is why a udp address
without a port passes. `inet_pton` accepts a dotted quad only.

**DepthAICamera.** `step` is where the one thread is that constructs the node, handles its
commands (one callback group) or deletes it. `TryRestarting` is `Restart` (stop, new
pipeline), `Connect` or `ConnectFails` up to `Attempts` times, `LeaveLoop`,
`SendFirstControl`, `OpenQueue` and `AddRawCallback` per stream in the order of CAM 290-312,
`SetRunning` and `AddVideoCallback`, split where the device's threads can come between: a
packet may come to any stream before its callback is added, and stays in the queue until
the next one comes. `getOutputQueue` throws when the device was lost. A command is a
record that has a field or not: a field of a type the code tests for and does not find
counts as missing. `StartCommand` validates the settings as the command would make them and
takes all or nothing; a start while `_thread_running` is ignored. `ChangeFocus` and
`ChangeLens` are the two controls of a change_focus; `LensAccepted` is the condition at
CAM 162, which every number satisfies, and `Manual` cuts to the byte `setManualFocus`
takes. `packets[s]` is a stream's queue, `reader[s]` the device's thread that fills it and
calls the callback: the video queue blocks when full, the raw ones drop the oldest.
`produced` and `published` number the packets modulo `Cycle`, `flashed` is the pipeline
the device executes, `focus` what its lens was told last. A device may be lost at any
time; sending to it then throws or leads nowhere; nothing resets `_thread_running`. `died`
says what ended the process. Abstracted: nodes and links of a DepthAI pipeline beyond
the settings that go into them, stamps and pixel formats of what is published; the
DepthAI library is modelled by what the code relies on.

**CameraFeed.** What a subscriber may rely on, without commands, attempts, controls, threads
and callbacks. `status` is `device`, `asked` the part of the settings a pipeline is built
from, `job` is `flashed`, `made` and `shown` are `produced` and `published`, and `backlog` is
the length of a stream's queue. `raw` and `mono` are settled when the node is made.

**DepthAICtrl.** The camera is constructed first, with its first attempts, and then the
streamer. `topic` is the video message on its way, `camInbox` and `gstInbox` hold the
start commands each node has not handled yet; each takes or leaves one by its own rules.
`split` records that an encoding was taken by one and not by the other (a running camera
ignores what a stopped streamer takes). A stop command reaches the streamer alone, which
is why it is its action as it stands. With a start on boot the streamer starts as soon as it
is constructed, while the camera may have found its device or not. Left to the nodes' own
modules: change_focus, commands that end the process, destructors, and the loss of a device,
which to the streamer is a camera that sends nothing more.

**FrameTiming.** Plain modular arithmetic on a word of `Word` values; `stamps` is history that
only the properties read.

## 3. Runs

| Run | Instance | Shows |
|---|---|---|
| `fq_safety` (17 520 states) | 2 pipelines, `Fps = 1` (capacity 2), 4 messages in a cycle, spurious wake-ups | type, mutual exclusion, bound, order, stability of the held queue, and that the only way to the front of an empty queue is a restart between GI 366 and 371 |
| `auto` (5 076) | 2 slots, an rtsp and a udp address, multi-threaded, errors, publishers that come and go, spurious wake-ups, fairness; calls find the last start at an outcome | no fault, `IsStreamPlaying` is true, the node implements `FrameQueue` and `StreamStatus`, the camera is shown in the end |
| `commands` (366 128) | 3 slots, an rtsp and a udp address, multi-threaded, with and without a start on boot, every combination of good, missing, refused and wrongly typed arguments, stop commands, errors, slow connections, spurious wake-ups, deletion at any time; nothing is avoided, and behaviours are followed to the first call out of turn | types, nothing orphaned, a stopped stream leaves nothing, no thread is joined twice but as stated, the destructor leaves nothing behind, the context's references are made up for, a stop holds, `IsStreamPlaying` is true, nobody sleeps on data |
| `camera` (692 462) | video, the raw colour stream and one mono stream, default parameters with the mono stream and ones no command would be allowed with the raw one, ten commands (valid, refused, out of range, wrongly typed), 2 attempts, queues of 2, devices that come and go, deletion, fairness | types and queue bounds, `_thread_running` and `_device` agree, the device runs the settings and its lens follows, no packet lost, repeated or late, the node implements `CameraFeed`, comes up after failed attempts, handlers end, video flows |
| `ctrl` (192 910) | the two nodes with one message (start with H265) and stop commands, with and without a start on boot, fairness of threads, device and timer, none of a publisher | the streamer's pipeline is built for the encoding the device sends unless one node took what the other left; an open device leads to the camera's pictures for good |
| `timing` (921) | 16-valued clock, stamps to 15, gaps to 5, restarts | word bounds, exact times from the third buffer on |

Violations, each a disagreement between code and what its comments say (`findings` in
`PROJECT.json`):

| Run | Property | What happens |
|---|---|---|
| `slow_connect` | `StatusSpec` | the timer stops a pipeline that is just connecting; PLAYING is dispatched after the flags were lowered; the stream counts as playing with no pipeline |
| `destroy_starting` | `DestructorDestroys` | the node is deleted during start-up; pipeline, watch and thread are made after `StopStream` looked for them |
| `stop_hangs` | `StopReturns` | flag and broadcast fall between test and wait; with no further frame `StopStream` waits for ever |
| `stale_sink` | `SinkExists` | a start command's address is written to the sink of the last rtsp pipeline |
| `join_twice` | `JoinedOnce` | a stop command, then the destructor: both threads of the stream are joined a second time |
| `second_start` | `StopUndoesStart` | a start command after a reported error builds over the pointers of the stream that failed; the stop that follows leaves that one behind |

### Bounds, and why they are enough

- *Slots.* A slot whose threads are joined and to which no pointer refers is used again
  (`Free`). An rtsp stream followed by a udp one leaves `_rtspSink` on one slot and the
  thread handles on another, so that a third start needs a third slot: `commands` has three.
  While calls come in turn the other pointers are null when a stream is down, or on the slot
  of the threads, so that there is always one free. `auto` and `ctrl` change no address, and
  two are enough. In `second_start` and `stale_sink` a start that finds no slot waits, which
  hides behaviours and adds none. The proofs take any number.
- *To the first call out of turn* (`commands`, `CONSTRAINT InTurn`): the properties of this
  run claim nothing beyond it, but for `TypeOK` and `ContextCounted`, which are proved
  without it. Deletion in the middle of a start, stops of a stopped stream and stops of a
  connecting pipeline are not cut off. Slots are alike (`SYMMETRY`), no property of the run
  is temporal.
- *`Fps = 1`*: capacity 2 is the least with an oldest, a newest and a full queue; more than
  `Fps` messages, which the switch to the camera asks for, is the full queue then. Four
  messages in the cycle are more than the queue holds, so that neighbours never look alike.
  `MCDepthAIGStreamer` has one message and one profile: which one it is no property of its
  runs asks.
- *Addresses*: protocols are what the code tells apart, one address of each. `commands` meets
  the write to a released sink, records it in `fault` and goes on; `NoFault` is about the
  other undefined behaviour, the sink is `SinkExists` in `stale_sink`.
- *camera*: two attempts are a first, a last and one after a failure; queues of 2 are empty,
  partly filled and full; three packet numbers are more than a queue holds, so that
  neighbours never look alike; an input queue of one is empty or full. The proofs take any
  size.
- *ctrl*: one attempt, queues and inboxes of one: what several attempts and packets do is
  `camera`'s question; here one command may be ahead in either node. `MaxPending = 1` lets
  one node be a whole command ahead of the other, in either order; that nothing new comes of
  longer inboxes is proved (`EncodingStaysKept`). The run looks for no deadlock, since the
  program may stop: a camera that does not come up sends none of the frames without which
  a `StopStream` that met `stop_hangs` waits for ever.
- *Word*: the clock wraps within the stamps looked at, which is what width is about.

### What calls may meet, and what is assumed of it

`StartStream` looks at `_isStreamPlaying` only, `StopStream` at nothing, and timer, commands
and destructor share no lock. A call may therefore meet anything, and the streamer's model
lets it. `Meets` names six cases, and the history `met` collects those that have occurred:

| | The call | Comes about by |
|---|---|---|
| `call` | begins while another is under way | timer beside a command |
| `threads` | begins before the threads of the last start are through | a start command, or a stop command, within seconds of a start |
| `cut` | the same, of the destructor | deletion within seconds of a start |
| `stream` | is a start, the last one was not undone | a start command while connecting or after a reported error |
| `stopped` | is a stop, the last start was undone | deletion after a stop |
| `connection` | is a stop, a pipeline may just be connecting | a connection that outlasts the timer's period, deletion |

*Calls in turn* (`InTurn`) are those that meet none of `call`, `threads`, `stream`. The
safety properties state their own condition: each says `InTurn => ...`, or names the further
cases it does not survive, and the violations show four of them (`second_start` for
`stream`, `destroy_starting` for `cut`, `join_twice` for `stopped`, `slow_connect` for
`connection`). What overlapping calls break has no run of its own; `TypeOK`, `FQSpec` and,
on a single-threaded executor, the count of the context survive them.

- `Avoided` (`auto`, `ctrl`, all six): in the runs with fairness no call meets any of this.
  Two seconds of waiting and a connection normally fit in the timer's ten, and `auto` and
  `ctrl` are about what the timer then makes of it. `commands` avoids nothing. In each
  violation all but the case it is about is avoided, so that the trace shows that case.
- `PromptSetup` (`camera`, `ctrl`): the video queue does not fill up (thirty packets, more
  than a second) between CAM 298 and 316; the raw queues may. If it did, the device's thread would wait for
  room that only a callback makes, and callbacks are called by that thread: `VideoFlows`
  fails. The safety proofs do not assume it.

### Fairness

`Fairness` in `DepthAIGStreamer`: weak for threads that run, the timer, the outcome of
a pipeline that connects (`Connects`) and `appsrc` asking for data; strong for the steps that compete for the
mutex (creating thread, streaming thread, emptying of the queue) because each holder
gives it up in bounded time and GLib's mutex lets a waiting thread in eventually; strong for
the video subscription, since a publisher that is there publishes, and on a single thread
the executor takes callbacks in turn. Nothing is assumed of publishers, commands, errors,
the destructor and spurious wake-ups. `CameraIsShown` has as its premises that the publisher
stays and that errors cease; it is not vacuous, since fairness asks for no error of a
pipeline that plays.

`CamFairness` is weak fairness for the node's thread, the device's reading threads and the
device taking its controls. `CameraComesUp` has as its premises that a device is there, that
attempts cease to fail and that a client asks again and again: nothing else tries again
once five attempts failed. `CtrlFairness` is the same for both nodes, merged over callers
and slots since one is under way at a time; that messages come has to follow from the
camera.

## 4. Proofs

TLAPS, every constant arbitrary (subject to the ASSUMEs of the modules).

`FrameQueueProofs`: the inductive invariant `FQInv` joins the type invariant, mutual
exclusion, the bound and the order. The bound alone is inductive only with the type; the
order (`Follows`) needs `incoming` to be the successor of the last element, which is why the
definition relates queue *and* camera. Lemmas give what `Push` and `Tail` do to type,
length and order, `WakeEffect` and `SignalEffect` that a wake-up never lets anyone into the
mutex. From `FQInv` follow the two action properties `HeldQueueStable` and
`DoomedByRestartOnly`.

`DepthAIGStreamerProofs`: every step of the node, `[Next]_vars`, is a step of `FrameQueue` or
leaves its variables alone, so `Spec => FQSpec` by refinement with the identity mapping, and
the queue's theorems hold of the node for every executor, timing and set of commands.
With the queue's type and one lemma per operation in `GstInterfaceProofs`, `TypeOK` follows
for the same generality. `ContextStaysCounted` holds until two calls overlap (`"call" \notin
met`): until then at most one caller is under way (`OneCaller`). It needs that a main loop is
made only after the reference of the one before was given up (`SpawnsWithout`): with two callers between
GI 109 and 111 the count would go wrong.

`FrameTimingProofs`: `TimingInv` says for 0, 1, 2 and 3 buffers what the two members hold;
it needs that a first stamp is not zero, and that a difference of stamps fits in the word.

`DepthAICameraProofs`: all safety properties of the camera, for any streams, parameters,
commands, number of attempts and queue sizes, with devices that come and go, and without
`PromptSetup`. `RunningIffDevice` is about the states between commands; `Phases` says for
every place of the thread what device and `_thread_running` are. `DeviceRunsSettings` needs
that the pipeline itself was built from the settings (`Pipelines`): while attempts go on no
command comes between. `FocusSettles` is about the state in which all controls were taken;
`FocusSent` says the same of the last control sent, taken or not, and that autofocus is
off between the two controls of a change_focus. `NoLag` and the numbering need that
nothing is in any queue before a start (`Quiet`), that no stream has published anything
before its callback was added (`StreamsWait`), that a callback is added only to a stream
whose queue the node asks for (`CallbacksAsked`), and that a callback is called with a
packet in the queue (`CallsHavePackets`). Packets that come to a raw queue before its
callback are left there until the next one comes, which is why `NoLag` speaks of streams
that have published since the start.

`ImplementsFeed` shows, in the same generality, that the node implements `CameraFeed`:
attempts, controls and focus commands leave the feed as it is, an accepted start asks
(`Ask`), `Connect` opens, a packet that arrives is recorded and a callback shows the newest.
It needs all of the above, and `ReadersOfJob`: threads read streams of the device's pipeline
only, and only while there is a device. The hard cases are `PublishAll`, where the packet
published last must be the one before the next to come whatever the raw queues dropped, and
`Stop`, which waits for the callbacks that nobody removes.

`StreamLifeProofs`: the life of a stream, for any executor, number of slots, settings and
commands. Nothing is assumed of what calls may meet; each theorem is of the form
`Spec => []P`, and `P` says by `met` up to where it claims anything:

| Property | calls in turn (`InTurn`) | no `cut` | no `connection` | no `stopped` |
|---|---|---|---|---|
| `NoOrphan`, `DownIsClean`, `NobodySleepsOnData`, `StopHolds` | yes | - | - | - |
| `NothingOutlives` | yes | yes | - | - |
| `PlayingIsTrue`, `TimerInTurn` | yes | - | yes | - |
| `NoFault`, front of an empty queue | yes | - | - | - |
| `NoFault`, second join | yes | yes | - | yes |
| `StatusSpec` (as `Avoided`) | yes | yes | yes | - |

The conditions are the code's limits. Violation runs show what happens without `cut`,
`connection` and `stopped`; `InTurn` excludes, besides calls that overlap, a second start while the first is on its way or after a
reported error, which `StartStream` takes (GI 27) and which does orphan the first
(`second_start`). `StatusSpec` is a specification and cannot stop at a state: it is shown for
nodes whose calls avoid these cases (`Avoided`).

- `LifeInv` relates flags, pointers and slots at every position of every caller. While a
  start is under way (`StartsUp`) nobody calls, the flags say so and the pointers are on
  their way to that slot (`StartUp`, `Threads`, `PipesMade`); `StopProgress` says after each
  step of `StopStream` what is gone by then; `OffIsClean` that a stream that is down has no
  pointer and no thread, and `StartsFromDown` that a start begins there. `NoOrphan` is one of
  its parts and not inductive without the others: `StopStream` reaches a thread by a pointer
  that `StartStream` overwrites. The invariant gives
  `NoOrphan`, `DownIsClean` and `NothingOutlives`.
- A destructor that cuts a start short breaks `LifeInv`: what `CreatePipeline` makes after
  `StopStream` has looked for it is up without a flag. `StreamInv` says `LifeInv` until then
  and, of a node being deleted so, `StillInReach`: the threads that go on put what they make
  where the pointers are, one pipeline and one loop at most. Nobody but the destructor's
  `StopStream` and these threads is then at work.
- `Choosing` and `Awaited` say that a creating thread waits only while it chooses, and that
  then no pipeline's streaming thread does: one waiter at most, so that a single
  `g_cond_signal` is enough (`NobodySleepsOnData`).
- `UpInv` says that no pipeline connects once a stop has begun and that a stream that plays
  is starting and has its pipeline up; hence `PlayingIsTrue` and `TimerInTurn`. `Joinable`
  says that what is joined was not joined before; hence `NoFault`. `StopRequested` follows a
  stop command through to the end of its `StopStream`; hence `StopHolds`, for which it is
  enough that a stream that plays is through with its start (`PlayingIsThrough`), so that
  slow connections do not matter.
- `ImplementsStatus`: with these, each step is one of `StreamStatus` or leaves the status
  as it is. The hard case is PLAYING, which counts only if the stream is starting.

`DepthAICtrlProofs`: `ProgramRunsStreamer` and `ProgramRunsCamera` show that the composition
does nothing to a node that its own specification does not allow, so that all theorems
about a node hold of the program. They need that what waits in the inboxes are commands
(`InboxesOK`). `EncodingStaysKept` is about both: `SyncInv` says that the inbox of the
node that is ahead is the end of the other's, handled by nobody, and that the node behind,
when it takes what was taken of its inbox, comes to the encoding the other has (`FinalIs`).
`HandledSync` shows that a command handled by either keeps this, however far they are
apart. With empty inboxes the two encodings are then equal; `BuiltForProfile` (in turn, a
pipeline is built for the profile there is) carries one to the pipeline and
`DeviceRunsSettings` the other to the device. `DepthAICameraProofs` comes in as an instance;
`SameCamera` and `SameFeed` show that it is the program's camera it is about.
`ProgramKeepsPromises` puts the parts together: the program implements `FrameQueue` and
`CameraFeed` whatever calls meet, joins no thread twice until a call comes out of turn or a
stop for a stopped stream, and implements `StreamStatus` as well when calls avoid these and
connections that may just be made. No start is cut short there, since no step of the
composition is a destructor's (`NothingIsCut`).

Only model-checked: all liveness (`CameraIsShown`, `StopReturns`, `CameraComesUp`,
`HandlerEnds`, `VideoFlows`, `CameraReachesClient`), which needs ENABLED and is out of
TLAPS's reach. The checks of addresses in `DepthAIUtils` are evaluated over the documented
forms.

## 5. What docs and code disagree about, without a run

Besides the six findings, met while modelling:

- GH 458-461 says "The start time is saved for the first frame" and "Last frame's timestamp
  is recorded, and used for frame duration in buffer". On the first frame
  `_gstStartTimestamp` is set to `_gstTimestamp`, still zero, so that the start is saved on
  the second one, whose duration is computed from the first frame's absolute stamp and
  wraps (GI 388-393). `SettledTiming` begins with the third.
- A start command with a good address and a refused encoding has changed the address
  (GS 223-231), under a live pipeline too when the stream is starting or has failed.
- CAM 167-169 says "Valid range is 0-255" of a lens position; the condition at CAM 162
  refuses none, and the device gets the low byte.
- `test/depthai_gstreamer_test.cpp:209` asks that the node "shall not crush when wrong
  command submitted"; a `Command`, `Address` or `Encoding` that is not a string ends the
  process (`UntypedCommand`, `RefuseProfile`), as does a `UseMonoCams` that is a string.
- GH 73-75 promises the default pipeline "if camera is not active"; after the loss of a
  device the camera's publisher is still there, and the streamer, which counts
  publishers, stays with the camera's pipeline.
- The validation lets a udp address without a port pass (UT 137); its port is then read
  from the ip.
- The camera compares the parameter `encoding` with `H265` as it is, the streamer in upper
  case (GH 148).

## 6. Plan

Done: queue, interface, node, timestamps, validation, camera, the composition, and proofs of
all safety properties of the passing runs and of the refinements, slow connections,
deletion and stops at any time included where the code survives them. Next: change_focus,
the controls and the loss of the device in the composition, and the end of the program,
streamer first, then camera; and what calls that overlap leave intact.

## 7. Not modelled

In `DepthAICtrl` the end of the program, change_focus, the loss of the device and commands
that end the process (they are in the nodes' modules); the two single-node programs beyond
the nodes themselves; the parsing of JSON and the conversion of numbers to `int` before they
are validated; which elements a GStreamer or DepthAI pipeline is made of; setters nothing
calls; launch file, packaging, udev and host scripts, which keep no state; the tests, which
are read as documentation.
