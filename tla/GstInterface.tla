----------------------------- MODULE GstInterface -----------------------------
(***************************************************************************)
(* GstInterface: the life of a GStreamer pipeline, from StartStream over   *)
(* the two threads it leads to (CreatePipeline, PlayStream) and the bus    *)
(* messages (StreamEventCallBack) to StopStream.                           *)
(*                                                                         *)
(* A slot stands for everything one StartStream brings into being: a main  *)
(* loop, a creating thread, a playing thread, a pipeline with its bus      *)
(* watch and its need-data handler.  The object's raw pointers hold slots. *)
(* Nothing in the code ties them together: two callers, or a caller and a  *)
(* creating thread, may leave them pointing at different slots, or at a    *)
(* thread that is joined and an element that is gone.                      *)
(*                                                                         *)
(* StartStream and StopStream are split where another thread can see them  *)
(* half done.  Each step of theirs is named for what it does.              *)
(***************************************************************************)
EXTENDS FrameQueue, Integers, FiniteSets

CONSTANTS
  Caller,     \* the threads that call StartStream and StopStream
  Addresses,  \* the stream addresses
  Udp,        \* those among them that start with udp://
  Profiles,   \* the encoder profiles
  None        \* nullptr, or a source or handler id of 0

ASSUME SettingAssumption == Udp \subseteq Addresses
ASSUME NoneAssumption == None \notin Slot \union Addresses \union Profiles

VARIABLES
  flag,       \* _isStreamStarting, _isStreamPlaying, _isErrorDetected
  ptr,        \* the pointers and ids of the object: the slot they belong to
  create,     \* the creating thread of a slot
  play,       \* the playing thread of a slot
  runs,       \* the loop a playing thread has loaded from _mLoop
  running,    \* the loops inside g_main_loop_run
  pipe,       \* the pipeline of a slot
  built,      \* what that pipeline was built for
  watched,    \* the pipelines whose bus has a watch
  connected,  \* the pipelines whose need-data signal has a handler
  ctxRefs,    \* reference count of the default main context
  address,    \* _streamAddress
  profile,    \* _encoderProfile
  pc,         \* where a caller is in StartStream or StopStream
  fault       \* the undefined behaviour there has been, if any

setting    == <<address, profile>>
threadVars == <<create, play, runs, running>>
pipeVars   == <<pipe, built, watched, connected>>
gstVars    == <<flag, ptr, threadVars, pipeVars, ctxRefs, setting, pc, fault>>

CreateState == {"none", "choose", "build", "watch", "done", "joined"}

\* "set": has set the pipeline to PLAYING; "run": has loaded its loop and is about to
\* run it.
PlayState == {"none", "begin", "set", "run", "loop", "done", "joined"}

\* "connecting": set to PLAYING, not there yet; "failed": it posted an error.
PipeState == {"none", "ready", "connecting", "up", "failed", "disposed"}

StartSteps == {"start", "quitOld", "spawn"}
StopSteps  == {"stop", "disconnect", "teardown", "quitLoop", "joinLoop", "joinCreate",
               "releaseContext", "clearContext"}

\* "clear": empties the queue first; "gone": the object is deleted.
CallerState == {"idle", "clear", "gone"} \union StartSteps \union StopSteps

PtrField == {"pipeline", "appSource", "rtspSink", "signal", "busWatch",
             "context", "mLoop", "mLoopThread", "mCreateThread"}

Nothing == [default |-> FALSE, sink |-> None, profile |-> None]

Protocol(a) == IF a \in Udp THEN "udp" ELSE "rtsp"

\* "join": a thread was joined twice; "sink": a disposed sink was written to.  The
\* process may die of it, or go on.
Fault == {"none", "join", "sink"}

Goto(c, l) == pc' = [pc EXCEPT ![c] = l]

Alive(g) == pipe[g] \notin {"none", "disposed"}

\* Slot g can serve the next StartStream: nothing of it runs and nothing points at it.
Free(g) ==
  /\ create[g] \in {"none", "joined"}
  /\ play[g] \in {"none", "joined"}
  /\ ~Alive(g)
  /\ g \notin watched
  /\ \A f \in PtrField : ptr[f] # g

GstInit ==
  /\ flag = [starting |-> FALSE, playing |-> FALSE, error |-> FALSE]
  /\ ptr = [f \in PtrField |-> None]
  /\ create = [g \in Slot |-> "none"]
  /\ play = [g \in Slot |-> "none"]
  /\ runs = [g \in Slot |-> None]
  /\ running = {}
  /\ pipe = [g \in Slot |-> "none"]
  /\ built = [g \in Slot |-> Nothing]
  /\ watched = {}
  /\ connected = {}
  /\ ctxRefs = 1
  /\ address \in Addresses
  /\ profile \in Profiles
  /\ fault = "none"

-----------------------------------------------------------------------------
(* StartStream.                                                              *)

StartIgnored(c) ==
  /\ pc[c] = "start"
  /\ flag.playing
  /\ Goto(c, "idle")
  /\ UNCHANGED <<fqVars, flag, ptr, threadVars, pipeVars, ctxRefs, setting, fault>>

\* Mutant: the start is not marked.
StartUnmarked(c) ==
  /\ pc[c] = "start"
  /\ ~flag.playing
  /\ LowerShutdown
  /\ Goto(c, "quitOld")
  /\ UNCHANGED <<flag, ptr, threadVars, pipeVars, ctxRefs, setting, fault>>

StartAccepted(c) ==
  /\ pc[c] = "start"
  /\ ~flag.playing
  /\ LowerShutdown
  /\ flag' = [flag EXCEPT !.starting = TRUE]
  /\ Goto(c, "quitOld")
  /\ UNCHANGED <<ptr, threadVars, pipeVars, ctxRefs, setting, fault>>

\* Mutant: a context that was not taken is released.
QuitOldUnguarded(c) ==
  /\ pc[c] = "quitOld"
  /\ running' = running \ {ptr.mLoop}
  /\ ctxRefs' = ctxRefs - 1
  /\ ptr' = [ptr EXCEPT !.mLoop = None, !.context = None]
  /\ Goto(c, "spawn")
  /\ UNCHANGED <<fqVars, flag, create, play, runs, pipeVars, setting, fault>>

\* A loop left over is told to quit; its thread and its pipeline are not looked at.
QuitOldLoop(c) ==
  /\ pc[c] = "quitOld"
  /\ running' = running \ {ptr.mLoop}
  /\ ctxRefs' = IF ptr.context # None THEN ctxRefs - 1 ELSE ctxRefs
  /\ ptr' = [ptr EXCEPT !.mLoop = None, !.context = None]
  /\ Goto(c, "spawn")
  /\ UNCHANGED <<fqVars, flag, create, play, runs, pipeVars, setting, fault>>

\* Mutant: the thread's handle is stored only if there is none yet.
SpawnCreateOnce(c) ==
  /\ pc[c] = "spawn"
  /\ \E g \in Slot :
       /\ Free(g)
       /\ EnterChoice(g)
       /\ ptr' = [ptr EXCEPT !.mLoop = g, !.context = g,
                             !.mCreateThread = IF @ = None THEN g ELSE @]
       /\ create' = [create EXCEPT ![g] = "choose"]
       /\ play' = [play EXCEPT ![g] = "none"]
       /\ pipe' = [pipe EXCEPT ![g] = "none"]
  /\ ctxRefs' = ctxRefs + 1
  /\ Goto(c, "idle")
  /\ UNCHANGED <<flag, runs, running, built, watched, connected, setting, fault>>

\* g_main_loop_new takes a reference to the context, g_main_context_default takes
\* none.  The handle of an earlier creating thread is lost.
SpawnCreate(c) ==
  /\ pc[c] = "spawn"
  /\ \E g \in Slot :
       /\ Free(g)
       /\ EnterChoice(g)
       /\ ptr' = [ptr EXCEPT !.mLoop = g, !.mCreateThread = g, !.context = g]
       /\ create' = [create EXCEPT ![g] = "choose"]
       /\ play' = [play EXCEPT ![g] = "none"]
       /\ pipe' = [pipe EXCEPT ![g] = "none"]
  /\ ctxRefs' = ctxRefs + 1
  /\ Goto(c, "idle")
  /\ UNCHANGED <<flag, runs, running, built, watched, connected, setting, fault>>

StartStream(c) ==
  StartIgnored(c) \/ StartAccepted(c) \/ QuitOldLoop(c) \/ SpawnCreate(c)

-----------------------------------------------------------------------------
(* The creating thread: CreatePipeline, BuildPipeline, BuildDefaultPipeline.  *)

AwaitFrame(g) ==
  /\ create[g] = "choose"
  /\ WaitForFrame(g) \/ TimeOut(g)
  /\ UNCHANGED gstVars

ChoosePipeline(g) ==
  /\ create[g] = "choose"
  /\ LeaveChoice(g)
  /\ create' = [create EXCEPT ![g] = "build"]
  /\ UNCHANGED <<flag, ptr, play, runs, running, pipeVars, ctxRefs, setting, pc, fault>>

\* The address and the profile are read when the pipeline is built, not when the stream
\* was started.  _rtspSink keeps its value for a udp sink.
Build(g, fields) ==
  LET sink == Protocol(address)
      set  == {"pipeline"} \union fields \union (IF sink = "rtsp" THEN {"rtspSink"} ELSE {})
  IN
  /\ create[g] = "build"
  /\ create' = [create EXCEPT ![g] = "watch"]
  /\ pipe' = [pipe EXCEPT ![g] = "ready"]
  /\ built' = [built EXCEPT ![g] =
                 [default |-> isDefault, sink |-> sink, profile |-> profile]]
  /\ ptr' = [f \in DOMAIN ptr |-> IF f \in set THEN g ELSE ptr[f]]
  /\ UNCHANGED <<fqVars, flag, play, runs, running, watched, ctxRefs, setting, pc, fault>>

\* The test picture comes from within the pipeline.
BuildDefaultPipeline(g) ==
  /\ isDefault
  /\ Build(g, {})
  /\ UNCHANGED connected

BuildCameraPipeline(g) ==
  /\ ~isDefault
  /\ Build(g, {"appSource", "signal"})
  /\ connected' = connected \union {g}

BuildPipeline(g) == BuildDefaultPipeline(g) \/ BuildCameraPipeline(g)

\* A bus takes one watch; without a pipeline there is no bus.
WatchBus(g) ==
  LET p == ptr.pipeline IN
  /\ create[g] = "watch"
  /\ create' = [create EXCEPT ![g] = "done"]
  /\ watched' = watched \union ({p} \ {None})
  /\ ptr' = [ptr EXCEPT !.busWatch = IF p \in watched THEN None ELSE p,
                        !.mLoopThread = g]
  /\ play' = [play EXCEPT ![g] = "begin"]
  /\ UNCHANGED <<fqVars, flag, runs, running, pipe, built, connected, ctxRefs, setting,
                 pc, fault>>

CreatePipeline(g) ==
  AwaitFrame(g) \/ ChoosePipeline(g) \/ BuildPipeline(g) \/ WatchBus(g)

-----------------------------------------------------------------------------
(* The playing thread: PlayStream.                                           *)

SetPlaying(g) ==
  LET p == ptr.pipeline IN
  /\ play[g] = "begin"
  /\ play' = [play EXCEPT ![g] = "set"]
  /\ pipe' = [q \in Slot |-> IF q = p /\ pipe[q] = "ready" THEN "connecting" ELSE pipe[q]]
  /\ UNCHANGED <<fqVars, flag, ptr, create, runs, running, built, watched, connected,
                 ctxRefs, setting, pc, fault>>

LoadLoop(g) ==
  /\ play[g] = "set"
  /\ play' = [play EXCEPT ![g] = "run"]
  /\ runs' = [runs EXCEPT ![g] = ptr.mLoop]
  /\ UNCHANGED <<fqVars, flag, ptr, create, running, pipeVars, ctxRefs, setting, pc, fault>>

\* g_main_loop_run marks the loop as running, so that a quit that came before is
\* lost; without a loop it returns.
RunLoop(g) ==
  /\ play[g] = "run"
  /\ play' = [play EXCEPT ![g] = IF runs[g] = None THEN "done" ELSE "loop"]
  /\ running' = running \union ({runs[g]} \ {None})
  /\ UNCHANGED <<fqVars, flag, ptr, create, runs, pipeVars, ctxRefs, setting, pc, fault>>

LeaveLoop(g) ==
  /\ play[g] = "loop"
  /\ runs[g] \notin running
  /\ play' = [play EXCEPT ![g] = "done"]
  /\ UNCHANGED <<fqVars, flag, ptr, create, runs, running, pipeVars, ctxRefs, setting, pc,
                 fault>>

PlayStream(g) == SetPlaying(g) \/ LoadLoop(g) \/ RunLoop(g) \/ LeaveLoop(g)

-----------------------------------------------------------------------------
(* Bus messages.  All loops run the default context, so that any playing       *)
(* thread inside its loop dispatches the messages of every watched bus.  A     *)
(* pipeline set to NULL drops the messages it still had.                       *)

Dispatched(g) ==
  /\ g \in watched
  /\ \E t \in Slot : play[t] = "loop" /\ runs[t] \in running

\* Mutant: an error leaves _isStreamPlaying as it is.
BusErrorIgnored(g) ==
  /\ Dispatched(g)
  /\ pipe[g] \in {"connecting", "up"}
  /\ pipe' = [pipe EXCEPT ![g] = "failed"]
  /\ flag' = [flag EXCEPT !.error = TRUE]
  /\ UNCHANGED <<fqVars, ptr, threadVars, built, watched, connected, ctxRefs, setting, pc,
                 fault>>

\* An rtsp sink's rtspbin reports PLAYING, or the pipeline does while the address is
\* a udp one.
BusPlaying(g) ==
  /\ Dispatched(g)
  /\ pipe[g] = "connecting"
  /\ pipe' = [pipe EXCEPT ![g] = "up"]
  /\ flag' = IF built[g].sink = "rtsp" \/ address \in Udp
             THEN [flag EXCEPT !.playing = TRUE, !.error = FALSE]
             ELSE flag
  /\ UNCHANGED <<fqVars, ptr, threadVars, built, watched, connected, ctxRefs, setting, pc,
                 fault>>

BusError(g) ==
  /\ Dispatched(g)
  /\ pipe[g] \in {"connecting", "up"}
  /\ pipe' = [pipe EXCEPT ![g] = "failed"]
  /\ flag' = [flag EXCEPT !.playing = FALSE, !.error = TRUE]
  /\ UNCHANGED <<fqVars, ptr, threadVars, built, watched, connected, ctxRefs, setting, pc,
                 fault>>

\* The end-of-stream StopStream sent came through before it set the pipeline to NULL.
BusEos(g) ==
  /\ Dispatched(g)
  /\ pipe[g] = "up"
  /\ ptr.appSource = g
  /\ \E c \in Caller : pc[c] = "teardown"
  /\ ptr.mLoop \in running
  /\ running' = running \ {ptr.mLoop}
  /\ UNCHANGED <<fqVars, flag, ptr, create, play, runs, pipeVars, ctxRefs, setting, pc,
                 fault>>

StreamEventCallBack(g) == BusPlaying(g) \/ BusError(g) \/ BusEos(g)

-----------------------------------------------------------------------------
(* The need-data signal of a camera pipeline.                                *)

NeedData(g) ==
  /\ g \in connected
  /\ pipe[g] \in {"connecting", "up", "failed"}
  /\ EnterNeedData(g)
  /\ UNCHANGED gstVars

ServeNeedData(g) ==
  /\ NeedDataCallBack(g)
  /\ UNCHANGED gstVars

-----------------------------------------------------------------------------
(* StopStream.                                                               *)

\* Mutant: the sleepers are not woken.
LowerFlagsSilently(c) ==
  /\ pc[c] = "stop"
  /\ shutdown' = TRUE
  /\ isDefault' = FALSE
  /\ flag' = [flag EXCEPT !.starting = FALSE, !.playing = FALSE]
  /\ Goto(c, "disconnect")
  /\ UNCHANGED <<queue, incoming, need, choose, ptr, threadVars, pipeVars, ctxRefs, setting,
                 fault>>

LowerFlags(c) ==
  /\ pc[c] = "stop"
  /\ RaiseShutdown
  /\ flag' = [flag EXCEPT !.starting = FALSE, !.playing = FALSE]
  /\ Goto(c, "disconnect")
  /\ UNCHANGED <<ptr, threadVars, pipeVars, ctxRefs, setting, fault>>

\* Sends end-of-stream and disconnects the handler.  A callback that is under way
\* goes on.
Disconnect(c) ==
  /\ pc[c] = "disconnect"
  /\ connected' = connected \ {ptr.signal}
  /\ ptr' = [ptr EXCEPT !.signal = None]
  /\ Goto(c, "teardown")
  /\ UNCHANGED <<fqVars, flag, threadVars, pipe, built, watched, ctxRefs, setting, fault>>

\* Setting the pipeline to NULL waits for its streaming thread to leave the callback.
\* _rtspSink is not reset.
Teardown(c) ==
  LET p == ptr.pipeline IN
  /\ pc[c] = "teardown"
  /\ p # None => need[p] = "out"
  /\ pipe' = [q \in Slot |-> IF q = p THEN "disposed" ELSE pipe[q]]
  /\ built' = [q \in Slot |-> IF q = p THEN Nothing ELSE built[q]]
  /\ ptr' = IF p = None THEN ptr
            ELSE [ptr EXCEPT !.pipeline = None, !.appSource = None]
  /\ Goto(c, "quitLoop")
  /\ UNCHANGED <<fqVars, flag, threadVars, watched, connected, ctxRefs, setting, fault>>

\* Mutant: the bus watch stays.
QuitLoopOnly(c) ==
  /\ pc[c] = "quitLoop"
  /\ running' = running \ {ptr.mLoop}
  /\ ptr' = [ptr EXCEPT !.mLoop = None]
  /\ Goto(c, "joinLoop")
  /\ UNCHANGED <<fqVars, flag, create, play, runs, pipeVars, ctxRefs, setting, fault>>

QuitLoop(c) ==
  /\ pc[c] = "quitLoop"
  /\ watched' = watched \ {ptr.busWatch}
  /\ running' = running \ {ptr.mLoop}
  /\ ptr' = [ptr EXCEPT !.busWatch = None, !.mLoop = None]
  /\ Goto(c, "joinLoop")
  /\ UNCHANGED <<fqVars, flag, create, play, runs, pipe, built, connected, ctxRefs, setting,
                 fault>>

\* Mutant: the playing thread is not waited for.
JoinSkipped(c) ==
  /\ pc[c] = "joinLoop"
  /\ Goto(c, "joinCreate")
  /\ UNCHANGED <<fqVars, flag, ptr, threadVars, pipeVars, ctxRefs, setting, fault>>

\* g_thread_join frees the handle but the pointer keeps it.  To join it once more is
\* undefined.
JoinLoopThread(c) ==
  LET t == ptr.mLoopThread IN
  /\ pc[c] = "joinLoop"
  /\ t # None => play[t] \in {"done", "joined"}
  /\ IF t # None /\ play[t] = "joined" THEN fault' = "join" ELSE UNCHANGED fault
  /\ play' = [g \in Slot |-> IF g = t THEN "joined" ELSE play[g]]
  /\ runs' = [g \in Slot |-> IF g = t THEN None ELSE runs[g]]
  /\ Goto(c, "joinCreate")
  /\ UNCHANGED <<fqVars, flag, ptr, create, running, pipeVars, ctxRefs, setting>>

JoinCreateThread(c) ==
  LET t == ptr.mCreateThread IN
  /\ pc[c] = "joinCreate"
  /\ t # None => create[t] \in {"done", "joined"}
  /\ IF t # None /\ create[t] = "joined" THEN fault' = "join" ELSE UNCHANGED fault
  /\ create' = [g \in Slot |-> IF g = t THEN "joined" ELSE create[g]]
  /\ Goto(c, "releaseContext")
  /\ UNCHANGED <<fqVars, flag, ptr, play, runs, running, pipeVars, ctxRefs, setting>>

\* The reference given up is the one the loop, never freed, still counts.
ReleaseContext(c) ==
  /\ pc[c] = "releaseContext"
  /\ ctxRefs' = IF ptr.context # None THEN ctxRefs - 1 ELSE ctxRefs
  /\ Goto(c, "clearContext")
  /\ UNCHANGED <<fqVars, flag, ptr, threadVars, pipeVars, setting, fault>>

\* StopStream returns; in the main thread it was the destructor's last step.
ClearContext(c) ==
  /\ pc[c] = "clearContext"
  /\ ptr' = [ptr EXCEPT !.context = None]
  /\ Goto(c, IF c = "main" THEN "gone" ELSE "idle")
  /\ UNCHANGED <<fqVars, flag, threadVars, pipeVars, ctxRefs, setting, fault>>

StopStream(c) ==
  \/ LowerFlags(c)
  \/ Disconnect(c)
  \/ Teardown(c)
  \/ QuitLoop(c)
  \/ JoinLoopThread(c)
  \/ JoinCreateThread(c)
  \/ ReleaseContext(c)
  \/ ClearContext(c)

-----------------------------------------------------------------------------
(* The settings.                                                             *)

\* Writes the address to the sink of the last rtsp pipeline as well, which may be gone.
SetStreamAddress(a) ==
  /\ address' = a
  /\ IF ptr.rtspSink # None /\ pipe[ptr.rtspSink] = "disposed"
     THEN fault' = "sink" ELSE UNCHANGED fault

SetEncoderProfile(p) == profile' = p

-----------------------------------------------------------------------------
GstTypeOK ==
  /\ flag \in [starting : BOOLEAN, playing : BOOLEAN, error : BOOLEAN]
  /\ ptr \in [PtrField -> Slot \union {None}]
  /\ create \in [Slot -> CreateState]
  /\ play \in [Slot -> PlayState]
  /\ runs \in [Slot -> Slot \union {None}]
  /\ running \subseteq Slot
  /\ pipe \in [Slot -> PipeState]
  /\ built \in [Slot -> [default : BOOLEAN, sink : {"rtsp", "udp", None},
                         profile : Profiles \union {None}]]
  /\ watched \subseteq Slot
  /\ connected \subseteq Slot
  /\ ctxRefs \in Int
  /\ address \in Addresses
  /\ profile \in Profiles
  /\ pc \in [Caller -> CallerState]
  /\ fault \in Fault
=============================================================================
