--------------------------- MODULE DepthAIGStreamer ---------------------------
(***************************************************************************)
(* The ROS 2 node DepthAIGStreamer around GstInterface: the ten-second     *)
(* timer that restarts and switches the stream (HandleStreamStatus), the   *)
(* commands (VideoStreamCommand), the video subscription (GrabVideoMsg),   *)
(* the constructor with its start on boot, and the destructor.             *)
(*                                                                         *)
(* "timer" and "cmd" stand for the executor threads that run these two     *)
(* callbacks, "main" for the thread that creates and deletes the node.     *)
(* The programs spin a MultiThreadedExecutor and put every callback in a   *)
(* group of its own ("multi"); the tests spin a single thread ("single").  *)
(***************************************************************************)
EXTENDS GstInterface, DepthAIUtils

CONSTANTS
  Executor,     \* "multi" or "single"
  StartOnBoot,  \* the values start_stream_on_boot may have
  StartArgs,    \* the start commands that may arrive: [address, profile]
  StopCommands, \* whether stop commands arrive
  Untyped,      \* whether commands arrive whose "Command" is not a string
  NoArg,        \* a start command's address or encoding that is missing
  WrongType,    \* one that is not a string
  Exits,        \* whether the node is deleted some time
  Avoided       \* what no call is taken to meet

(***************************************************************************)
(* What a call of StartStream or StopStream may meet when it begins.       *)
(* Nothing in the code keeps it from any of these; most of them take a     *)
(* client, or a network, that is out of step with the timer.               *)
(*   "call"        another call is under way                               *)
(*   "threads"     the threads of the last start are on their way          *)
(*   "cut"         they are, and the call is the destructor's              *)
(*   "stream"      the call is a start, and the last one was not undone    *)
(*   "stopped"     the call is a stop, and the last start was undone       *)
(*   "connection"  the call is a stop, and a pipeline may just be          *)
(*                 connecting                                              *)
(***************************************************************************)
Meeting == {"call", "threads", "cut", "stream", "stopped", "connection"}

ASSUME ExecutorAssumption ==
  /\ Executor \in {"multi", "single"}
  /\ Exits \in BOOLEAN
  /\ Avoided \subseteq Meeting
ASSUME CallerAssumption == Caller = {"timer", "cmd", "main"}

\* A missing argument passes; one of the wrong type throws before anything looks at it.
AddressPasses(a) == a # NoArg => a # WrongType /\ ValidateAddressParameters(a)
ProfilePasses(p) == p # NoArg => p # WrongType /\ ValidateEncodingProfile(p)

ASSUME StartArgsAssumption ==
  \A a \in StartArgs :
    /\ AddressPasses(a.address) => a.address \in Addresses \union {NoArg}
    /\ ProfilePasses(a.profile) => a.profile \in Profiles \union {NoArg}

VARIABLES
  stopRequested,  \* _is_stop_requested
  publishing,     \* get_publisher_count() # 0 on the video topic
  thrown,         \* an exception has left a callback, and ended the process
  met             \* history: what calls have met

nodeVars == <<stopRequested, publishing, thrown>>
vars == <<fqVars, gstVars, nodeVars, met>>

Idle == \A c \in Caller : pc[c] = "idle"

\* An executor thread is free to run something of callback c.
MayRun(c) ==
  /\ ~thrown
  /\ pc["main"] = "idle"
  /\ pc[c] = "idle"
  /\ Executor = "single" => Idle

\* The two seconds of CreatePipeline are over, and the playing thread is in its loop.
ThreadsSettled ==
  \A g \in Slot : create[g] \in {"none", "done", "joined"} /\ play[g] \notin {"begin", "set", "run"}

\* What a call by c meets that begins at l.  The timer empties the queue in order to stop
\* the stream, a command in order to start it.
Meets(c, l) ==
  LET starts == l = "start" \/ (l = "clear" /\ c = "cmd") IN
  {m \in Meeting :
     \/ m = "call" /\ ~Idle
     \/ m = "threads" /\ c # "main" /\ ~ThreadsSettled
     \/ m = "cut" /\ c = "main" /\ ~ThreadsSettled
     \/ m = "stream" /\ starts /\ flag.starting
     \/ m = "stopped" /\ ~starts /\ ~flag.starting /\ ptr.mCreateThread # None
     \/ m = "connection" /\ ~starts /\ \E g \in Slot : pipe[g] \in {"ready", "connecting"}}

\* A call of StartStream or StopStream begins.
Call(c, l) ==
  /\ Goto(c, l)
  /\ Meets(c, l) \cap Avoided = {}
  /\ met' = met \union Meets(c, l)

Init ==
  /\ FQInit
  /\ GstInit
  /\ stopRequested \in {~b : b \in StartOnBoot}
  /\ publishing \in BOOLEAN
  /\ thrown = FALSE
  /\ met = {}
  /\ pc = [c \in Caller |-> IF c = "main" /\ ~stopRequested THEN "start" ELSE "idle"]

-----------------------------------------------------------------------------
(* The video subscription.                                                   *)

VideoMsg ==
  /\ ~thrown
  /\ publishing
  /\ pc["main"] = "idle"
  /\ Executor = "single" => Idle
  /\ GrabVideoMsg
  /\ UNCHANGED <<gstVars, nodeVars, met>>

PublisherComesOrGoes ==
  /\ publishing' = ~publishing
  /\ UNCHANGED <<fqVars, gstVars, stopRequested, thrown, met>>

-----------------------------------------------------------------------------
(* HandleStreamStatus.                                                       *)

\* Mutant: the timer acts on the stream although a stop was asked for.
TimerFiresAnyway ==
  /\ MayRun("timer")

TimerFires ==
  /\ MayRun("timer")
  /\ ~stopRequested

\* Mutant: a start that failed is started once more without being stopped.
RetryWithoutStop ==
  /\ TimerFires
  /\ ~flag.playing
  /\ Call("timer", "start")
  /\ UNCHANGED <<fqVars, flag, ptr, threadVars, pipeVars, ctxRefs, setting, fault, nodeVars>>

RetryStart ==
  /\ TimerFires
  /\ ~flag.playing
  /\ Call("timer", IF flag.starting THEN "stop" ELSE "start")
  /\ UNCHANGED <<fqVars, flag, ptr, threadVars, pipeVars, ctxRefs, setting, fault, nodeVars>>

\* Mutant: more messages are asked for than the queue ever holds.
SwitchToCameraNever ==
  /\ TimerFires
  /\ flag.playing
  /\ isDefault
  /\ Len(queue) > Capacity
  /\ Call("timer", "stop")
  /\ UNCHANGED <<fqVars, flag, ptr, threadVars, pipeVars, ctxRefs, setting, fault, nodeVars>>

SwitchToCamera ==
  /\ TimerFires
  /\ flag.playing
  /\ isDefault
  /\ Len(queue) > Fps
  /\ Call("timer", "stop")
  /\ UNCHANGED <<fqVars, flag, ptr, threadVars, pipeVars, ctxRefs, setting, fault, nodeVars>>

\* queue.size() is read without the mutex: while a video callback is pushing, the answer
\* can be anything.
MisreadQueue ==
  /\ TimerFires
  /\ flag.playing
  /\ isDefault
  /\ Executor = "multi" /\ publishing
  /\ Call("timer", "stop")
  /\ UNCHANGED <<fqVars, flag, ptr, threadVars, pipeVars, ctxRefs, setting, fault, nodeVars>>

SwitchToDefault ==
  /\ TimerFires
  /\ flag.playing
  /\ ~isDefault
  /\ ~publishing
  /\ Call("timer", "clear")
  /\ UNCHANGED <<fqVars, flag, ptr, threadVars, pipeVars, ctxRefs, setting, fault, nodeVars>>

HandleStreamStatus == RetryStart \/ SwitchToCamera \/ SwitchToDefault

-----------------------------------------------------------------------------
(* VideoStreamCommand.                                                       *)

\* Mutant: a missing argument is taken for one.
ApplyAddressAnyway(a) == SetStreamAddress(a)

\* Without an argument the setting stays.
ApplyAddress(a) ==
  IF a = NoArg THEN UNCHANGED <<address, fault>> ELSE SetStreamAddress(a)

ApplyProfile(p) == IF p = NoArg THEN UNCHANGED profile ELSE SetEncoderProfile(p)

AcceptStart(a) ==
  /\ ProfilePasses(a.profile)
  /\ ApplyAddress(a.address)
  /\ ApplyProfile(a.profile)
  /\ stopRequested' = FALSE
  /\ Call("cmd", "clear")
  /\ UNCHANGED thrown

\* By the time the encoding is refused, or throws, the address has been changed.
RefuseProfile(a) ==
  /\ ~ProfilePasses(a.profile)
  /\ ApplyAddress(a.address)
  /\ thrown' = (a.profile = WrongType)
  /\ UNCHANGED <<profile, stopRequested, pc, met>>

\* While the stream plays the command is ignored, and so is one with a bad address.
StartCommand(a) ==
  /\ MayRun("cmd")
  /\ ~flag.playing
  /\ AddressPasses(a.address)
  /\ AcceptStart(a) \/ RefuseProfile(a)
  /\ UNCHANGED <<fqVars, flag, ptr, threadVars, pipeVars, ctxRefs, publishing>>

\* Ignored while the stream does not play, which includes its start.
StopCommand ==
  /\ StopCommands
  /\ MayRun("cmd")
  /\ flag.playing
  /\ stopRequested' = TRUE
  /\ Call("cmd", "stop")
  /\ UNCHANGED <<fqVars, flag, ptr, threadVars, pipeVars, ctxRefs, setting, fault,
                 publishing, thrown>>

\* The conversion to a string throws outside the try block: that of the command whatever
\* the stream does, that of the address of a start when it is reached.
UntypedCommand ==
  /\ MayRun("cmd")
  /\ Untyped \/ (~flag.playing /\ \E a \in StartArgs : a.address = WrongType)
  /\ thrown' = TRUE
  /\ UNCHANGED <<fqVars, gstVars, stopRequested, publishing, met>>

\* Both callbacks empty the queue under the mutex before they go on.
EmptyQueueFirst(c) ==
  /\ ~thrown
  /\ pc[c] = "clear"
  /\ ClearQueue
  /\ Goto(c, IF c = "timer" THEN "stop" ELSE "start")
  /\ UNCHANGED <<flag, ptr, threadVars, pipeVars, ctxRefs, setting, fault, nodeVars,
                 met>>

VideoStreamCommand ==
  (\E a \in StartArgs : StartCommand(a)) \/ StopCommand \/ UntypedCommand

-----------------------------------------------------------------------------
(* The destructor.  spin has returned, so no callback is running.            *)

Destroy ==
  /\ ~thrown
  /\ Exits
  /\ Idle
  /\ Call("main", "stop")
  /\ UNCHANGED <<fqVars, flag, ptr, threadVars, pipeVars, ctxRefs, setting, fault, nodeVars>>

-----------------------------------------------------------------------------
\* A step of the interface, taken while the process is there, leaves the node's own
\* variables alone.
Interface(A) == ~thrown /\ A /\ UNCHANGED <<nodeVars, met>>

Next ==
  \/ \E c \in Caller : Interface(StartStream(c)) \/ Interface(StopStream(c))
  \/ \E g \in Slot : Interface(CreatePipeline(g)) \/ Interface(PlayStream(g))
  \/ \E g \in Slot : Interface(StreamEventCallBack(g))
  \/ \E g \in Slot : Interface(NeedData(g)) \/ Interface(ServeNeedData(g))
  \/ \E g \in Slot : Interface(SpuriousWakeup(g) /\ UNCHANGED gstVars)
  \/ VideoMsg
  \/ PublisherComesOrGoes
  \/ HandleStreamStatus
  \/ MisreadQueue
  \/ VideoStreamCommand
  \/ \E c \in Caller : EmptyQueueFirst(c)
  \/ Destroy

Spec == Init /\ [][Next]_vars

\* A pipeline that connects gets there or fails.  An error of one that plays is no
\* part of it.
Connects(g) == pipe[g] = "connecting" /\ (BusPlaying(g) \/ BusError(g))

(***************************************************************************)
(* Threads that can go on do, the timer fires again and again, and a       *)
(* pipeline that connects gets somewhere.  A camera that is there          *)
(* publishes.  The mutex is held for moments only, so whoever wants it     *)
(* gets it in the end: strong fairness where another thread may take it    *)
(* again and again.  Nothing is assumed of publishers, commands, errors,   *)
(* the destructor and spurious wake-ups.                                   *)
(***************************************************************************)
Fairness ==
  /\ \A c \in Caller : /\ WF_vars(Interface(StartStream(c)))
                       /\ WF_vars(Interface(StopStream(c)))
                       /\ SF_vars(EmptyQueueFirst(c))
  /\ \A g \in Slot : /\ SF_vars(Interface(CreatePipeline(g)))
                     /\ WF_vars(Interface(PlayStream(g)))
                     /\ WF_vars(Interface(Connects(g)))
                     /\ WF_vars(Interface(NeedData(g)))
                     /\ SF_vars(Interface(ServeNeedData(g)))
  /\ SF_vars(VideoMsg)
  /\ WF_vars(HandleStreamStatus)

LiveSpec == Spec /\ Fairness

-----------------------------------------------------------------------------
TypeOK ==
  /\ FQTypeOK
  /\ GstTypeOK
  /\ stopRequested \in BOOLEAN
  /\ publishing \in BOOLEAN
  /\ thrown \in BOOLEAN
  /\ met \subseteq Meeting

\* Calls have come in turn: each began when no other was under way and the threads of
\* the last start were through, and each start when the last one had been undone.
InTurn == met \cap {"call", "threads", "stream"} = {}

\* No thread is joined twice.
JoinedOnce == fault # "join"

\* A second join takes calls out of turn, a stop of what is stopped, or a destructor that
\* cuts a start short; and the front of an empty queue takes calls out of turn.  Errors,
\* slow connections and clients that wait for nothing else lead to neither.
NoFault ==
  /\ InTurn /\ met \cap {"stopped", "cut"} = {} => JoinedOnce
  /\ InTurn => \A g \in Slot : need[g] # "crashed"

\* StopStream finds all there is: no pipeline that is not gone and no thread that is not
\* joined has been overwritten in the pointers it goes by.
InReach ==
  \A g \in Slot :
    /\ Alive(g) => ptr.pipeline = g
    /\ g \in watched => ptr.busWatch = g
    /\ g \in connected => ptr.signal = g
    /\ play[g] \notin {"none", "joined"} => ptr.mLoopThread = g
    /\ create[g] \notin {"none", "joined"} => ptr.mCreateThread = g

\* Only calls out of turn put anything out of its reach: not errors, connections that
\* outlast the timer, late messages, stops of what is stopped or the destructor.
NoOrphan == InTurn => InReach

\* No thread, loop, watch, handler or pipeline of the object is left.
NothingLeft ==
  /\ watched = {} /\ connected = {} /\ running = {}
  /\ \A g \in Slot :
       /\ ~Alive(g)
       /\ play[g] \in {"none", "joined"}
       /\ create[g] \in {"none", "joined"}
       /\ need[g] = "out"

\* When StopStream has returned and no start followed, the stream is gone.
StopUndoesStart == Idle /\ ~flag.starting => NothingLeft

\* As long as calls come in turn, whatever became of the connection.
DownIsClean == InTurn => StopUndoesStart

\* The object is deleted with all that goes on using it.
DestructorDestroys == pc["main"] = "gone" => NothingLeft

\* A node that was never started, that streams, connects, failed or was stopped is deleted
\* without a trace, if calls came in turn and the destructor did not cut a start short.
NothingOutlives == InTurn /\ "cut" \notin met => DestructorDestroys

\* StartStream and StopStream give up references to the main context that they never
\* took.  The one each leaked main loop took makes up for it: unless calls overlap, the
\* count is one, and one more from a start to the step of the stop, or of the next start,
\* that gives it up.
ContextCounted ==
  "call" \notin met =>
    ctxRefs = IF ptr.context # None /\ \A c \in Caller : pc[c] # "clearContext" THEN 2 ELSE 1

\* A stop command holds until a start command, if calls come in turn: a PLAYING that comes
\* late does not bring the stream back, and the timer leaves it down.
StopHolds ==
  InTurn /\ Idle /\ stopRequested => ~flag.starting /\ ~flag.playing /\ ptr.pipeline = None

\* IsStreamPlaying, on which the timer and the commands rely, tells the truth while
\* nobody is starting or stopping the stream, unless a stop met a connection.
PlayingIsTrue ==
  InTurn /\ "connection" \notin met /\ Idle /\ flag.playing =>
    ptr.pipeline # None /\ pipe[ptr.pipeline] = "up"

\* Whatever commands in turn and errors have made of the stream, the timer starts none that
\* is still to be undone and stops none that is undone, unless a stop met a connection.
\* The two flags it goes by say that much between them, though StreamEventCallBack writes
\* the one and StartStream the other.
TimerInTurn ==
  [][InTurn /\ "connection" \notin met /\ pc["timer"] = "idle" /\ pc'["timer"] # "idle"
       => Meets("timer", pc'["timer"]) \cap {"stream", "stopped"} = {}]_vars

\* A frame that arrives wakes whoever waits for one: both kinds of waiters, streaming and
\* creating thread, only come together when calls do not come in turn.
NobodySleepsOnData == InTurn /\ Asleep \union Waiting # {} => queue = <<>>

\* The address is written to a sink that exists.
SinkExists == fault # "sink"

Status == INSTANCE StreamStatus WITH
  status <- IF flag.playing THEN "playing" ELSE IF flag.starting THEN "starting" ELSE "down"

\* The flags other code reads go the way StreamStatus says: a stream that was stopped
\* plays again only after a start.
StatusSpec == Status!Spec

\* StopStream returns, whatever the streaming thread was doing when it was called.
StopReturns ==
  \A c \in Caller : pc[c] \in StopSteps ~> pc[c] \notin StopSteps

\* Once the camera publishes for good and the network is good, the camera's pictures
\* are streamed for good: HandleStreamStatus gets out of every state that errors and
\* absent cameras have left behind.
CameraIsShown ==
  /\ <>[]publishing
  /\ <>[][\A g \in Slot : ~BusError(g)]_vars
  => <>[](flag.playing /\ ~isDefault)
=============================================================================
