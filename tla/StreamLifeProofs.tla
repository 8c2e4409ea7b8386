--------------------------- MODULE StreamLifeProofs ---------------------------
(* The life of a stream, for any number of slots, any settings and any         *)
(* clients, as long as calls come in turn: what a start brings into being      *)
(* stays in reach of StopStream, StopStream leaves nothing of it, a stop       *)
(* holds, and a message that arrives wakes whoever waits for it.  When no stop *)
(* meets a connection either, the flags tell the truth.                        *)
EXTENDS DepthAIGStreamerProofs

\* Calls have come in turn, and the destructor has not cut a start short.
Undisturbed == InTurn /\ "cut" \notin met

\* Nor has a stop met a pipeline that may just be connecting.
Unhurried == Undisturbed /\ "connection" \notin met

\* Nor has one met a stream that had been stopped.
StopsOnce == Undisturbed /\ "stopped" \notin met

(***************************************************************************)
(* The invariant of a stream's life.                                       *)
(***************************************************************************)
In(S) == \E c \in Caller : pc[c] \in S

Gone == {"none", "joined"}

\* The stream is down, or about to be started.
Off == (~flag.starting /\ ~In(StopSteps)) \/ In({"quitOld", "spawn"})

\* A start is under way in g until its playing thread is in its loop.
StartsUp(g) == create[g] \in {"choose", "build", "watch"} \/ play[g] \in {"begin", "set", "run"}

StartUp ==
  \A g \in Slot : StartsUp(g) => Idle /\ flag.starting /\ ~flag.playing /\ ptr.mLoop = g

Threads ==
  \A g \in Slot :
    /\ play[g] \notin Gone => create[g] = "done"
    /\ play[g] \in {"run", "loop"} => runs[g] = g
    /\ g \in running => play[g] = "loop" /\ ptr.mLoop = g

NothingPointed == ptr.pipeline = None /\ ptr.signal = None /\ ptr.busWatch = None

PipesMade ==
  \A g \in Slot :
    /\ create[g] \in {"choose", "build"} => NothingPointed
    /\ create[g] = "watch" => ptr.pipeline = g /\ pipe[g] = "ready" /\ ptr.busWatch = None
    /\ need[g] # "out" => Alive(g)

ThreadsGone == \A g \in Slot : create[g] \in Gone /\ play[g] \in Gone

AfterDisconnect == {"teardown", "quitLoop"} \union {"joinLoop", "joinCreate"}
                   \union {"releaseContext", "clearContext"}

\* How far a StopStream has got.
StopProgress ==
  /\ In({"disconnect", "gone"} \union AfterDisconnect) => ~flag.starting
  /\ In(AfterDisconnect) => ptr.signal = None
  /\ In(AfterDisconnect \ {"teardown"}) => ptr.pipeline = None
  /\ In({"joinLoop", "joinCreate", "releaseContext", "clearContext"})
       => ptr.busWatch = None /\ ptr.mLoop = None
  /\ In({"joinCreate", "releaseContext", "clearContext"}) => \A g \in Slot : play[g] \in Gone
  /\ In({"releaseContext", "clearContext"}) => \A g \in Slot : create[g] \in Gone

OffIsClean == Off => NothingPointed /\ ptr.mLoop = None /\ ThreadsGone

\* Nobody starts a stream that is not down.
StartsFromDown ==
  /\ \A c \in Caller :
       pc[c] = "start" \/ (pc[c] = "clear" /\ c # "timer") => ~flag.starting /\ ~flag.playing
  /\ In({"quitOld", "spawn"}) => flag.starting /\ ~flag.playing

LifeInv ==
  /\ StartUp
  /\ InReach
  /\ Threads
  /\ PipesMade
  /\ StopProgress
  /\ OffIsClean
  /\ StartsFromDown

\* The node is being deleted or gone.
Deleting == pc["main"] \in StopSteps \union {"gone"}

\* What of LifeInv outlasts a deletion in the middle of a start: the threads that go on
\* put what they make where StopStream looks, whether or not it still does.
StillInReach ==
  /\ InReach
  /\ \A g \in Slot :
       /\ create[g] \in {"choose", "build", "watch"} =>
            ptr.busWatch = None /\ \A h \in Slot : play[h] \in Gone
       /\ create[g] \in {"choose", "build"} => NothingPointed
       /\ create[g] = "watch" => ptr.pipeline \in {None, g}
       /\ need[g] # "out" => Alive(g)

StreamInv == IF "cut" \in met THEN Deleting /\ StillInReach ELSE LifeInv

(***************************************************************************)
(* What waits for a message.                                               *)
(***************************************************************************)
\* A creating thread waits while it chooses.
Choosing == \A g \in Slot : choose[g] # "out" => create[g] = "choose"

\* What a thread has found in the queue still holds when it comes to use it.
Awaited ==
  /\ \A g \in Slot :
       /\ need[g] = "sleepy" => queue = <<>>
       /\ need[g] = "awake" => queue # <<>> \/ shutdown
       /\ need[g] # "crashed"
  /\ Asleep \union Waiting # {} => queue = <<>>

(***************************************************************************)
(* A stop that was asked for.                                              *)
(***************************************************************************)
NoneConnects == \A g \in Slot : pipe[g] \notin {"ready", "connecting"}

\* A stream that plays, or is taken for one that does, is connecting no more.
PlayingIsThrough == flag.playing => NoneConnects

\* It is obeyed or under way, and nothing is left that could raise _isStreamPlaying again.
StopRequested ==
  stopRequested => /\ \A c \in Caller : pc[c] \in {"idle", "gone"} \union StopSteps
                   /\ In(StopSteps) \/ ~flag.starting
                   /\ flag.playing => In({"stop"})
                   /\ NoneConnects

(***************************************************************************)
(* What holds when no stop meets a connection, and when none is in vain.    *)
(***************************************************************************)
\* Somebody is stopping the stream, or about to.
Ending == In(StopSteps) \/ pc["timer"] = "clear"

NothingConnects == Ending => NoneConnects

PlayingIsUp ==
  flag.playing => /\ flag.starting
                  /\ ~In({"disconnect"} \union AfterDisconnect)
                  /\ ptr.pipeline # None
                  /\ pipe[ptr.pipeline] = "up"

UpInv == NothingConnects /\ PlayingIsUp

UntilJoined == {"stop", "disconnect", "teardown", "quitLoop", "joinLoop", "joinCreate"}

\* The threads that StopStream joins have not been joined before.
Joinable ==
  /\ ptr.mCreateThread = None => ptr.mLoopThread = None
  /\ flag.starting /\ ~In({"quitOld", "spawn"})
       => ptr.mCreateThread # None /\ create[ptr.mCreateThread] \notin Gone
  /\ \A g \in Slot :
       create[g] = "done" /\ ~In({"joinCreate"}) => ptr.mLoopThread = g /\ play[g] \notin Gone
  /\ pc["timer"] = "clear" => flag.starting \/ ptr.mCreateThread = None
  /\ In(UntilJoined) => ptr.mCreateThread = None \/ create[ptr.mCreateThread] = "done"
  /\ fault # "join"

-----------------------------------------------------------------------------
(* A caller that is under way is alone.                                       *)

LEMMA Alone ==
  ASSUME GstTypeOK, OneCaller, NEW c \in Caller, pc[c] # "idle", NEW l, Goto(c, l)
  PROVE  /\ pc'[c] = l
         /\ \A d \in Caller : d # c => pc[d] = "idle" /\ pc'[d] = "idle"
  BY DEF GstTypeOK, Goto, OneCaller

\* No start is under way beside it, and none comes to be.
LEMMA NobodyStarts ==
  ASSUME LifeInv, NEW c \in Caller, pc[c] # "idle"
  PROVE  \A g \in Slot : ~StartsUp(g)
  BY DEF LifeInv, StartUp, Idle

\* A step by a caller that leaves threads, pipelines and pointers alone.
LEMMA LifeKeptGoing ==
  ASSUME GstTypeOK, OneCaller, LifeInv, NEW c \in Caller, pc[c] # "idle", NEW l, Goto(c, l),
         UNCHANGED <<ptr, create, play, runs, running, pipe, watched, connected, need>>
  PROVE  StartUp' /\ InReach' /\ Threads' /\ PipesMade'
<1>1. StartUp'
  BY NobodyStarts DEF StartUp, StartsUp
<1>2. InReach' /\ Threads' /\ PipesMade'
  BY DEF LifeInv, InReach, Threads, PipesMade, Alive, NothingPointed
<1> QED
  BY <1>1, <1>2

LEMMA StartStreamLife ==
  ASSUME GstTypeOK, OneCaller, LifeInv, NEW c \in Caller, StartStream(c)
  PROVE  LifeInv'
<1>0. ASSUME pc[c] = "start"
      PROVE  Off /\ ~flag.playing /\ ~flag.starting
  BY <1>0 DEF LifeInv, StartsFromDown, Off, In, OneCaller, StopSteps
<1>1. CASE StartIgnored(c)
  BY <1>0, <1>1 DEF StartIgnored
<1>2. CASE StartAccepted(c)
  <2>1. /\ pc[c] = "start" /\ pc'[c] = "quitOld"
        /\ \A d \in Caller : d # c => pc[d] = "idle" /\ pc'[d] = "idle"
    BY <1>2, Alone DEF StartAccepted
  <2>2. StartUp' /\ InReach' /\ Threads' /\ PipesMade'
    BY <1>2, <2>1, LifeKeptGoing DEF StartAccepted, LowerShutdown, threadVars, pipeVars
  <2>3. StopProgress'
    BY <2>1 DEF StopProgress, In, AfterDisconnect
  <2>4. OffIsClean'
    BY <1>0, <1>2, <2>1 DEF StartAccepted, OffIsClean, LifeInv, NothingPointed, ThreadsGone,
       threadVars
  <2>5. StartsFromDown'
    BY <1>0, <1>2, <2>1 DEF StartAccepted, StartsFromDown, In, GstTypeOK
  <2> QED
    BY <2>2, <2>3, <2>4, <2>5 DEF LifeInv
<1>3. CASE QuitOldLoop(c)
  <2>1. /\ pc[c] = "quitOld" /\ pc'[c] = "spawn"
        /\ \A d \in Caller : d # c => pc[d] = "idle" /\ pc'[d] = "idle"
    BY <1>3, Alone DEF QuitOldLoop
  <2>2. Off /\ NothingPointed /\ ptr.mLoop = None /\ ThreadsGone
    BY <2>1 DEF LifeInv, OffIsClean, Off, In
  <2>3. running = {} /\ running' = {}
    BY <1>3, <2>2 DEF QuitOldLoop, LifeInv, Threads, GstTypeOK, ThreadsGone, Gone
  <2>4. \A f \in PtrField \ {"context"} : ptr'[f] = ptr[f]
    BY <1>3, <2>2 DEF QuitOldLoop, GstTypeOK
  <2>5. StartUp'
    BY <1>3, <2>1, NobodyStarts DEF QuitOldLoop, StartUp, StartsUp
  <2>6. InReach' /\ Threads' /\ PipesMade'
    BY <1>3, <2>3, <2>4 DEF QuitOldLoop, LifeInv, InReach, Threads, PipesMade, Alive,
       NothingPointed, PtrField, pipeVars, fqVars
  <2>7. StopProgress'
    BY <2>1 DEF StopProgress, In, AfterDisconnect
  <2>8. OffIsClean'
    BY <1>3, <2>2, <2>4 DEF QuitOldLoop, OffIsClean, NothingPointed, ThreadsGone, PtrField
  <2>9. StartsFromDown'
    BY <1>3, <2>1 DEF QuitOldLoop, StartsFromDown, In, LifeInv
  <2> QED
    BY <2>5, <2>6, <2>7, <2>8, <2>9 DEF LifeInv
<1>4. CASE SpawnCreate(c)
  <2>1. /\ pc[c] = "spawn" /\ pc'[c] = "idle"
        /\ \A d \in Caller : d # c => pc[d] = "idle" /\ pc'[d] = "idle"
    BY <1>4, Alone DEF SpawnCreate
  <2>2. NothingPointed /\ ptr.mLoop = None /\ ThreadsGone
    BY <2>1 DEF LifeInv, OffIsClean, Off, In
  <2>3. flag'.starting /\ ~flag'.playing
    BY <1>4, <2>1 DEF SpawnCreate, LifeInv, StartsFromDown, In
  <2>4. PICK g \in Slot :
          /\ Free(g)
          /\ ptr' = [ptr EXCEPT !.mLoop = g, !.mCreateThread = g, !.context = g]
          /\ create' = [create EXCEPT ![g] = "choose"]
          /\ play' = [play EXCEPT ![g] = "none"]
          /\ pipe' = [pipe EXCEPT ![g] = "none"]
          /\ need' = need
    BY <1>4 DEF SpawnCreate, EnterChoice
  <2>5. /\ ptr'.mLoop = g /\ ptr'.mCreateThread = g
        /\ ptr'.pipeline = None /\ ptr'.signal = None /\ ptr'.busWatch = None
        /\ ptr'.mLoopThread = ptr.mLoopThread
    BY <2>2, <2>4 DEF GstTypeOK, PtrField, NothingPointed
  <2>6. /\ \A h \in Slot : create'[h] = IF h = g THEN "choose" ELSE create[h]
        /\ \A h \in Slot : play'[h] \in Gone
        /\ \A h \in Slot : pipe'[h] = IF h = g THEN "none" ELSE pipe[h]
    BY <2>2, <2>4 DEF GstTypeOK, ThreadsGone, Gone
  <2>7. StartUp'
    BY <2>1, <2>2, <2>3, <2>5, <2>6 DEF StartUp, StartsUp, Idle, ThreadsGone, Gone
  <2>8. /\ \A h \in Slot : ~Alive(h) /\ ~Alive(h)' /\ h \notin running
        /\ watched = {} /\ connected = {}
    <3>1. \A h \in Slot : ~Alive(h) /\ h \notin watched /\ h \notin connected
      BY <2>2, NoneAssumption DEF LifeInv, InReach, NothingPointed
    <3>2. \A h \in Slot : h \notin running
      BY <2>2 DEF LifeInv, Threads, ThreadsGone, Gone
    <3> QED
      BY <2>6, <3>1, <3>2 DEF Alive, GstTypeOK
  <2>9. InReach'
    BY <1>4, <2>2, <2>5, <2>6, <2>8 DEF SpawnCreate, InReach, ThreadsGone, Gone
  <2>10. Threads'
    BY <1>4, <2>6, <2>8 DEF SpawnCreate, Threads, Gone
  <2>11. PipesMade'
    BY <2>2, <2>4, <2>5, <2>6, <2>8 DEF PipesMade, ThreadsGone, Gone, NothingPointed, LifeInv
  <2>12. StopProgress' /\ OffIsClean' /\ StartsFromDown'
    BY <2>1, <2>3 DEF StopProgress, OffIsClean, StartsFromDown, In, Off, AfterDisconnect
  <2> QED
    BY <2>7, <2>9, <2>10, <2>11, <2>12 DEF LifeInv
<1> QED
  BY <1>1, <1>2, <1>3, <1>4 DEF StartStream

\* What a creating thread knows while it is at work.
LEMMA Creating ==
  ASSUME LifeInv, NEW g \in Slot, create[g] \in {"choose", "build", "watch"}
  PROVE  /\ Idle /\ flag.starting /\ ~flag.playing /\ ptr.mLoop = g /\ ptr.mCreateThread = g
         /\ \A h \in Slot : play[h] \in Gone /\ (h # g => create[h] \in Gone)
<1>1. Idle /\ flag.starting /\ ~flag.playing /\ ptr.mLoop = g
  BY DEF LifeInv, StartUp, StartsUp
<1>2. ptr.mCreateThread = g /\ \A h \in Slot : h # g => create[h] \in Gone
  BY DEF LifeInv, InReach, Gone
<1>3. \A h \in Slot : play[h] \in Gone
  BY <1>2 DEF LifeInv, Threads, Gone
<1> QED
  BY <1>1, <1>2, <1>3

LEMMA IdleStays ==
  ASSUME LifeInv, Idle, flag.starting, UNCHANGED <<flag, pc>>
  PROVE  Idle' /\ StopProgress' /\ OffIsClean' /\ StartsFromDown'
<1>1. Idle' /\ \A c \in Caller : pc[c] = "idle" /\ pc'[c] = "idle"
  BY DEF Idle
<1> QED
  BY <1>1 DEF StopProgress, OffIsClean, Off, StopSteps, AfterDisconnect, In, StartsFromDown

LEMMA CreatePipelineLife ==
  ASSUME GstTypeOK, OneCaller, LifeInv, NEW g \in Slot, CreatePipeline(g)
  PROVE  LifeInv'
<1>0. create[g] \in {"choose", "build", "watch"} /\ UNCHANGED <<flag, pc>>
  BY DEF CreatePipeline, AwaitFrame, ChoosePipeline, BuildPipeline, BuildDefaultPipeline,
         BuildCameraPipeline, Build, WatchBus, gstVars
<1>1. /\ Idle /\ flag.starting /\ ~flag.playing /\ ptr.mLoop = g /\ ptr.mCreateThread = g
      /\ \A h \in Slot : play[h] \in Gone /\ (h # g => create[h] \in Gone)
  BY <1>0, Creating
<1>2. Idle' /\ StopProgress' /\ OffIsClean' /\ StartsFromDown'
  BY <1>0, <1>1, IdleStays
<1>3. CASE AwaitFrame(g)
  BY <1>2, <1>3 DEF AwaitFrame, WaitForFrame, TimeOut, gstVars, threadVars, pipeVars, LifeInv, StartUp,
     StartsUp, InReach, Threads, PipesMade, Alive, NothingPointed
<1>4. CASE ChoosePipeline(g)
  <2>1. /\ create[g] = "choose" /\ create' = [create EXCEPT ![g] = "build"]
        /\ UNCHANGED <<ptr, play, runs, running, pipe, watched, connected, need>>
    BY <1>4 DEF ChoosePipeline, LeaveChoice, KeepChoice, ChooseDefault, ChooseCamera, pipeVars
  <2>2. create'[g] = "build" /\ \A h \in Slot : h # g => create'[h] = create[h]
    BY <2>1 DEF GstTypeOK
  <2>3. StartUp'
    BY <1>0, <1>1, <1>2, <2>1, <2>2 DEF StartUp, StartsUp, Gone
  <2>4. InReach' /\ Threads'
    BY <1>1, <2>1, <2>2 DEF LifeInv, InReach, Threads, Alive, Gone
  <2>5. PipesMade'
    BY <2>1, <2>2 DEF LifeInv, PipesMade, Alive, NothingPointed
  <2> QED
    BY <1>2, <2>3, <2>4, <2>5 DEF LifeInv
<1>5. CASE BuildPipeline(g)
  <2>1. /\ create[g] = "build" /\ create' = [create EXCEPT ![g] = "watch"]
        /\ pipe' = [pipe EXCEPT ![g] = "ready"]
        /\ UNCHANGED <<play, runs, running, watched, need>>
    BY <1>5 DEF BuildPipeline, BuildDefaultPipeline, BuildCameraPipeline, Build, fqVars
  <2>2. /\ create'[g] = "watch" /\ \A h \in Slot : h # g => create'[h] = create[h]
        /\ pipe'[g] = "ready" /\ \A h \in Slot : h # g => pipe'[h] = pipe[h]
    BY <2>1 DEF GstTypeOK
  <2>3. NothingPointed
    BY <2>1 DEF LifeInv, PipesMade
  <2>4. \A h \in Slot : ~Alive(h) /\ h \notin watched /\ h \notin connected
    BY <2>3, NoneAssumption DEF LifeInv, InReach, NothingPointed
  <2>5. /\ ptr'.pipeline = g /\ ptr'.busWatch = None
        /\ ptr'.mLoop = g /\ ptr'.mCreateThread = g /\ ptr'.mLoopThread = ptr.mLoopThread
        /\ \A h \in Slot : h \in connected' => ptr'.signal = h
    <3>1. CASE BuildDefaultPipeline(g)
      <4>1. ptr' = [f \in PtrField |-> IF f \in {"pipeline"} \union {}
                      \union (IF Protocol(address) = "rtsp" THEN {"rtspSink"} ELSE {})
                    THEN g ELSE ptr[f]]
        BY <3>1 DEF BuildDefaultPipeline, Build, GstTypeOK
      <4> QED
        BY <1>1, <2>3, <2>4, <3>1, <4>1 DEF PtrField, BuildDefaultPipeline, NothingPointed
    <3>2. CASE BuildCameraPipeline(g)
      <4>1. ptr' = [f \in PtrField |-> IF f \in {"pipeline"} \union {"appSource", "signal"}
                      \union (IF Protocol(address) = "rtsp" THEN {"rtspSink"} ELSE {})
                    THEN g ELSE ptr[f]]
        BY <3>2 DEF BuildCameraPipeline, Build, GstTypeOK
      <4> QED
        BY <1>1, <2>3, <2>4, <3>2, <4>1 DEF PtrField, BuildCameraPipeline, NothingPointed
    <3> QED
      BY <1>5, <3>1, <3>2 DEF BuildPipeline
  <2>6. StartUp'
    BY <1>0, <1>1, <1>2, <2>1, <2>2, <2>5 DEF StartUp, StartsUp, Gone
  <2>7. InReach' /\ Threads'
    BY <1>1, <2>1, <2>2, <2>4, <2>5 DEF LifeInv, InReach, Threads, Alive, Gone
  <2>8. PipesMade'
    BY <1>1, <2>1, <2>2, <2>4, <2>5 DEF LifeInv, PipesMade, Alive, Gone
  <2> QED
    BY <1>2, <2>6, <2>7, <2>8 DEF LifeInv
<1>6. CASE WatchBus(g)
  <2>1. create[g] = "watch" /\ ptr.pipeline = g /\ ptr.busWatch = None
    BY <1>6 DEF WatchBus, LifeInv, PipesMade
  <2>2. watched = {}
    BY <2>1, NoneAssumption DEF LifeInv, InReach, GstTypeOK
  <2>3. /\ create' = [create EXCEPT ![g] = "done"]
        /\ play' = [play EXCEPT ![g] = "begin"]
        /\ watched' = {g}
        /\ ptr' = [ptr EXCEPT !.busWatch = g, !.mLoopThread = g]
        /\ UNCHANGED <<runs, running, pipe, connected, need>>
    BY <1>6, <2>1, <2>2, NoneAssumption DEF WatchBus, fqVars
  <2>4. /\ create'[g] = "done" /\ \A h \in Slot : h # g => create'[h] = create[h]
        /\ play'[g] = "begin" /\ \A h \in Slot : h # g => play'[h] = play[h]
        /\ ptr'.busWatch = g /\ ptr'.mLoopThread = g
        /\ \A f \in PtrField \ {"busWatch", "mLoopThread"} : ptr'[f] = ptr[f]
    BY <2>3 DEF GstTypeOK, PtrField
  <2>5. StartUp'
    BY <1>0, <1>1, <1>2, <2>4 DEF StartUp, StartsUp, Gone, PtrField
  <2>6. InReach'
    BY <1>1, <2>1, <2>3, <2>4 DEF LifeInv, InReach, Alive, Gone, PtrField
  <2>7. Threads'
    BY <1>1, <2>3, <2>4 DEF LifeInv, Threads, Gone, PtrField
  <2>8. PipesMade'
    BY <1>1, <2>3, <2>4 DEF LifeInv, PipesMade, Alive, Gone
  <2> QED
    BY <1>2, <2>5, <2>6, <2>7, <2>8 DEF LifeInv
<1> QED
  BY <1>3, <1>4, <1>5, <1>6 DEF CreatePipeline

LEMMA PlayStreamLife ==
  ASSUME GstTypeOK, OneCaller, LifeInv, NEW g \in Slot, PlayStream(g)
  PROVE  LifeInv'
<1>0. /\ UNCHANGED <<flag, ptr, create, watched, connected, need, pc>>
      /\ play[g] \notin Gone
  BY DEF PlayStream, SetPlaying, LoadLoop, RunLoop, LeaveLoop, Gone, fqVars, pipeVars
<1>1. create[g] = "done" /\ ptr.mLoopThread = g /\ ptr.mCreateThread = g
  BY <1>0 DEF LifeInv, Threads, InReach, Gone
<1>2. \A h \in Slot : h # g => play[h] \in Gone /\ create[h] \in Gone
  BY <1>1 DEF LifeInv, InReach, Gone
<1>3. StopProgress' /\ OffIsClean' /\ StartsFromDown'
  <2>1. ~In({"joinCreate", "releaseContext", "clearContext"}) /\ ~Off
    BY <1>0 DEF LifeInv, StopProgress, OffIsClean, ThreadsGone
  <2>2. \A S : In(S)' <=> In(S)
    BY <1>0 DEF In
  <2>3. StopProgress'
    BY <1>0, <2>1, <2>2 DEF LifeInv, StopProgress, In
  <2>4. OffIsClean' /\ StartsFromDown'
    BY <1>0, <2>1, <2>2 DEF LifeInv, OffIsClean, Off, StartsFromDown, In
  <2> QED
    BY <2>3, <2>4
<1>4. CASE SetPlaying(g)
  <2>1. /\ play' = [play EXCEPT ![g] = "set"] /\ play[g] = "begin"
        /\ \A h \in Slot : pipe'[h] = IF h = ptr.pipeline /\ pipe[h] = "ready"
                                      THEN "connecting" ELSE pipe[h]
        /\ UNCHANGED <<runs, running>>
    BY <1>4 DEF SetPlaying
  <2>2. \A h \in Slot : Alive(h)' <=> Alive(h)
    BY <2>1 DEF Alive
  <2>3. play'[g] = "set" /\ \A h \in Slot : h # g => play'[h] = play[h]
    BY <2>1 DEF GstTypeOK
  <2>4. StartUp'
    BY <1>0, <1>2, <2>1, <2>3 DEF LifeInv, StartUp, StartsUp, Idle
  <2>5. InReach' /\ Threads' /\ PipesMade'
    BY <1>0, <1>1, <1>2, <2>1, <2>2, <2>3 DEF LifeInv, InReach, Threads, PipesMade, Gone,
       NothingPointed
  <2> QED
    BY <1>3, <2>4, <2>5 DEF LifeInv
<1>5. CASE LoadLoop(g)
  <2>1. /\ play' = [play EXCEPT ![g] = "run"] /\ play[g] = "set"
        /\ runs' = [runs EXCEPT ![g] = ptr.mLoop]
        /\ UNCHANGED <<running, pipe>>
    BY <1>5 DEF LoadLoop, pipeVars
  <2>2. ptr.mLoop = g
    BY <2>1 DEF LifeInv, StartUp, StartsUp
  <2>3. runs'[g] = g /\ \A h \in Slot : h # g => runs'[h] = runs[h]
    BY <2>1, <2>2 DEF GstTypeOK
  <2>4. play'[g] = "run" /\ \A h \in Slot : h # g => play'[h] = play[h]
    BY <2>1 DEF GstTypeOK
  <2>5. StartUp'
    BY <1>0, <1>2, <2>1, <2>4 DEF LifeInv, StartUp, StartsUp, Idle
  <2>6. InReach' /\ Threads' /\ PipesMade'
    BY <1>0, <1>1, <1>2, <2>1, <2>3, <2>4 DEF LifeInv, InReach, Threads, PipesMade, Gone,
       NothingPointed, Alive
  <2> QED
    BY <1>3, <2>5, <2>6 DEF LifeInv
<1>6. CASE RunLoop(g)
  <2>1. play[g] = "run" /\ runs[g] = g /\ ptr.mLoop = g
    BY <1>6 DEF RunLoop, LifeInv, Threads, StartUp, StartsUp
  <2>2. /\ play' = [play EXCEPT ![g] = "loop"]
        /\ running' = running \union {g}
        /\ UNCHANGED <<runs, pipe>>
    BY <1>6, <2>1, NoneAssumption DEF RunLoop, pipeVars
  <2>3. play'[g] = "loop" /\ \A h \in Slot : h # g => play'[h] = play[h]
    BY <2>2 DEF GstTypeOK
  <2>4. StartUp'
    BY <1>0, <1>1, <1>2, <2>3 DEF LifeInv, StartUp, StartsUp, Gone
  <2>5. InReach' /\ Threads' /\ PipesMade'
    BY <1>0, <1>1, <1>2, <2>1, <2>2, <2>3 DEF LifeInv, InReach, Threads, PipesMade, Gone,
       NothingPointed, Alive
  <2> QED
    BY <1>3, <2>4, <2>5 DEF LifeInv
<1>7. CASE LeaveLoop(g)
  <2>1. /\ play[g] = "loop" /\ play' = [play EXCEPT ![g] = "done"]
        /\ g \notin running
        /\ UNCHANGED <<runs, running, pipe>>
    BY <1>7 DEF LeaveLoop, pipeVars, LifeInv, Threads
  <2>2. play'[g] = "done" /\ \A h \in Slot : h # g => play'[h] = play[h]
    BY <2>1 DEF GstTypeOK
  <2>3. StartUp'
    BY <1>0, <1>1, <1>2, <2>2 DEF LifeInv, StartUp, StartsUp, Gone
  <2>4. InReach' /\ Threads' /\ PipesMade'
    BY <1>0, <1>1, <1>2, <2>1, <2>2 DEF LifeInv, InReach, Threads, PipesMade, Gone,
       NothingPointed, Alive
  <2> QED
    BY <1>3, <2>3, <2>4 DEF LifeInv
<1> QED
  BY <1>4, <1>5, <1>6, <1>7 DEF PlayStream

LEMMA BusLife ==
  ASSUME GstTypeOK, OneCaller, LifeInv, NEW g \in Slot, StreamEventCallBack(g)
  PROVE  LifeInv'
<1>1. PICK t \in Slot : g \in watched /\ play[t] = "loop" /\ runs[t] \in running
  BY DEF StreamEventCallBack, BusPlaying, BusError, BusEos, Dispatched
<1>2. \A h \in Slot : ~StartsUp(h)
  <2>1. create[t] = "done" /\ ptr.mCreateThread = t /\ ptr.mLoopThread = t
    BY <1>1 DEF LifeInv, Threads, InReach, Gone
  <2> QED
    BY <1>1, <2>1 DEF StartsUp, LifeInv, InReach
<1>3. ~Off
  BY <1>1 DEF LifeInv, OffIsClean, ThreadsGone, Gone
<1>4. /\ UNCHANGED <<ptr, create, play, runs, watched, connected, need, pc>>
      /\ flag'.starting = flag.starting
      /\ running' \subseteq running
      /\ \A h \in Slot : Alive(h)' <=> Alive(h)
      /\ \A h \in Slot : pipe[h] = "ready" => pipe'[h] = "ready"
  BY DEF StreamEventCallBack, BusPlaying, BusError, BusEos, GstTypeOK, Alive, fqVars,
         threadVars, pipeVars
<1>5. StartUp'
  BY <1>2, <1>4 DEF StartUp, StartsUp
<1>6. InReach' /\ Threads' /\ PipesMade'
  BY <1>4 DEF LifeInv, InReach, Threads, PipesMade, NothingPointed
<1>7. \A S : In(S)' <=> In(S)
  BY <1>4 DEF In
<1>8. StopProgress' /\ OffIsClean'
  BY <1>3, <1>4, <1>7 DEF LifeInv, StopProgress, OffIsClean, Off, In
<1>9. StartsFromDown'
  <2>1. ~In({"quitOld", "spawn"}) /\ (~flag.starting => In(StopSteps))
    BY <1>3 DEF Off
  <2>2. ASSUME NEW c \in Caller, pc[c] = "start" \/ (pc[c] = "clear" /\ c # "timer")
        PROVE  FALSE
    BY <2>1, <2>2 DEF LifeInv, StartsFromDown, In, OneCaller, StopSteps
  <2> QED
    BY <1>4, <2>1, <2>2, <1>7 DEF StartsFromDown
<1> QED
  BY <1>5, <1>6, <1>8, <1>9 DEF LifeInv

LEMMA NeedDataLife ==
  ASSUME GstTypeOK, FQTypeOK, LifeInv, NEW g \in Slot,
         \/ NeedData(g)
         \/ ServeNeedData(g)
         \/ SpuriousWakeup(g) /\ UNCHANGED gstVars
  PROVE  LifeInv'
<1>1. UNCHANGED gstVars
  BY DEF NeedData, ServeNeedData
<1>2. \A h \in Slot : need'[h] # "out" => need[h] # "out" \/ Alive(h)
  <2>1. CASE NeedData(g)
    BY <2>1 DEF NeedData, EnterNeedData, FQTypeOK, Alive
  <2>2. CASE ServeNeedData(g)
    BY <2>2 DEF ServeNeedData, NeedDataCallBack, TestQueue, FallAsleep, LeaveOnShutdown,
       TakeFrame, FrontOfEmpty, FQTypeOK
  <2>3. CASE SpuriousWakeup(g)
    BY <2>3 DEF SpuriousWakeup, Wake, Asleep, FQTypeOK
  <2> QED
    BY <2>1, <2>2, <2>3
<1>3. PipesMade'
  BY <1>1, <1>2 DEF LifeInv, PipesMade, Alive, NothingPointed, gstVars, threadVars, pipeVars
<1> QED
  BY <1>1, <1>3 DEF LifeInv, StartUp, StartsUp, Idle, InReach, Threads, StopProgress,
     OffIsClean, Off, In, ThreadsGone, NothingPointed, StartsFromDown, Alive, gstVars,
     threadVars, pipeVars

\* StopStream gets from one step to the next: what the steps before have done stays done.
LEMMA StopStreamLife ==
  ASSUME GstTypeOK, FQTypeOK, OneCaller, LifeInv, NEW c \in Caller, StopStream(c)
  PROVE  LifeInv'
<1>0. \A g \in Slot : pc[c] # "idle" => ~StartsUp(g)
  BY NobodyStarts
<1> DEFINE Moves(k, l) ==
      /\ pc[c] = k /\ pc'[c] = l
      /\ \A d \in Caller : d # c => pc[d] = "idle" /\ pc'[d] = "idle"
<1> HIDE DEF Moves
<1>a. ASSUME NEW k, NEW l, k # "idle", pc[c] = k, Goto(c, l)
      PROVE  Moves(k, l)
  BY <1>a, Alone DEF Moves
<1>1. CASE LowerFlags(c)
  <2>1. Moves("stop", "disconnect")
    BY <1>1, <1>a DEF LowerFlags
  <2>2. UNCHANGED <<ptr, threadVars, pipeVars>> /\ flag' = [flag EXCEPT !.starting = FALSE, !.playing = FALSE]
    BY <1>1 DEF LowerFlags
  <2>3. \A h \in Slot : need'[h] # "out" => need[h] # "out"
    BY <1>1 DEF LowerFlags, RaiseShutdown, Wake, Asleep, FQTypeOK
  <2>4. StartUp'
    BY <1>0, <2>1, <2>2 DEF Moves, StartUp, StartsUp, threadVars
  <2>5. InReach' /\ Threads' /\ PipesMade'
    BY <2>2, <2>3 DEF LifeInv, InReach, Threads, PipesMade, NothingPointed, Alive, threadVars,
       pipeVars
  <2>6. ~flag'.starting
    BY <2>2 DEF GstTypeOK
  <2>7. StopProgress' /\ OffIsClean' /\ StartsFromDown'
    BY <2>1, <2>6 DEF Moves, StopProgress, OffIsClean, Off, StartsFromDown, In, StopSteps,
       AfterDisconnect
  <2> QED
    BY <2>4, <2>5, <2>7 DEF LifeInv
<1>2. CASE Disconnect(c)
  <2>1. Moves("disconnect", "teardown")
    BY <1>2, <1>a DEF Disconnect
  <2>2. /\ UNCHANGED <<flag, threadVars, pipe, watched, need>>
        /\ connected' = connected \ {ptr.signal}
        /\ ptr'.signal = None
        /\ \A f \in PtrField \ {"signal"} : ptr'[f] = ptr[f]
    BY <1>2 DEF Disconnect, fqVars, GstTypeOK, PtrField
  <2>3. connected' = {}
    BY <2>2 DEF LifeInv, InReach, GstTypeOK
  <2>4. StartUp'
    BY <1>0, <2>1, <2>2 DEF Moves, StartUp, StartsUp, threadVars
  <2>5. InReach' /\ Threads' /\ PipesMade'
    BY <2>2, <2>3 DEF LifeInv, InReach, Threads, PipesMade, NothingPointed, Alive, threadVars,
       PtrField
  <2>6. ~flag'.starting
    BY <2>1, <2>2 DEF Moves, LifeInv, StopProgress, In
  <2>7. StopProgress' /\ OffIsClean' /\ StartsFromDown'
    BY <2>1, <2>2, <2>6 DEF Moves, StopProgress, OffIsClean, Off, StartsFromDown, In, StopSteps,
       AfterDisconnect
  <2> QED
    BY <2>4, <2>5, <2>7 DEF LifeInv
<1>3. CASE Teardown(c)
  <2>1. Moves("teardown", "quitLoop")
    BY <1>3, <1>a DEF Teardown
  <2>2. /\ UNCHANGED <<flag, threadVars, watched, connected, need>>
        /\ ptr'.pipeline = None
        /\ \A f \in PtrField \ {"pipeline", "appSource"} : ptr'[f] = ptr[f]
        /\ \A h \in Slot : pipe'[h] = IF h = ptr.pipeline THEN "disposed" ELSE pipe[h]
        /\ ptr.pipeline # None => need[ptr.pipeline] = "out"
    BY <1>3 DEF Teardown, fqVars, GstTypeOK, PtrField
  <2>3. \A h \in Slot : ~Alive(h)' /\ need[h] = "out"
    BY <2>2, NoneAssumption DEF LifeInv, InReach, PipesMade, Alive
  <2>4. StartUp'
    BY <1>0, <2>1, <2>2 DEF Moves, StartUp, StartsUp, threadVars
  <2>5. InReach' /\ Threads'
    BY <2>2, <2>3 DEF LifeInv, InReach, Threads, threadVars, PtrField
  <2>6. PipesMade'
    BY <1>0, <2>1, <2>2, <2>3 DEF Moves, StartsUp, PipesMade, threadVars
  <2>7. ~flag'.starting /\ ptr'.signal = None
    BY <2>1, <2>2 DEF Moves, LifeInv, StopProgress, In, AfterDisconnect, PtrField
  <2>8. StopProgress' /\ OffIsClean' /\ StartsFromDown'
    BY <2>1, <2>2, <2>7 DEF Moves, StopProgress, OffIsClean, Off, StartsFromDown, In, StopSteps,
       AfterDisconnect
  <2> QED
    BY <2>4, <2>5, <2>6, <2>8 DEF LifeInv
<1>4. CASE QuitLoop(c)
  <2>1. Moves("quitLoop", "joinLoop")
    BY <1>4, <1>a DEF QuitLoop
  <2>2. /\ UNCHANGED <<flag, create, play, runs, pipe, connected, need>>
        /\ ptr'.busWatch = None /\ ptr'.mLoop = None
        /\ \A f \in PtrField \ {"busWatch", "mLoop"} : ptr'[f] = ptr[f]
        /\ watched' = watched \ {ptr.busWatch}
        /\ running' = running \ {ptr.mLoop}
    BY <1>4 DEF QuitLoop, fqVars, GstTypeOK, PtrField
  <2>3. watched' = {} /\ running' = {}
    BY <2>2 DEF LifeInv, InReach, Threads, GstTypeOK
  <2>4. StartUp'
    BY <1>0, <2>1, <2>2 DEF Moves, StartUp, StartsUp
  <2>5. InReach' /\ Threads'
    BY <2>2, <2>3 DEF LifeInv, InReach, Threads, PtrField, Alive
  <2>6. PipesMade'
    BY <1>0, <2>1, <2>2 DEF Moves, StartsUp, PipesMade, LifeInv, Alive
  <2>7. ~flag'.starting /\ ptr'.signal = None /\ ptr'.pipeline = None
    BY <2>1, <2>2 DEF Moves, LifeInv, StopProgress, In, AfterDisconnect, PtrField
  <2>8. StopProgress' /\ OffIsClean' /\ StartsFromDown'
    BY <2>1, <2>2, <2>7 DEF Moves, StopProgress, OffIsClean, Off, StartsFromDown, In, StopSteps,
       AfterDisconnect
  <2> QED
    BY <2>4, <2>5, <2>6, <2>8 DEF LifeInv
<1>5. CASE JoinLoopThread(c)
  <2>1. Moves("joinLoop", "joinCreate")
    BY <1>5, <1>a DEF JoinLoopThread
  <2>2. /\ UNCHANGED <<flag, ptr, create, running, pipe, watched, connected, need>>
        /\ \A h \in Slot : play'[h] = IF h = ptr.mLoopThread THEN "joined" ELSE play[h]
        /\ ptr.mLoopThread # None => play[ptr.mLoopThread] \in {"done", "joined"}
    BY <1>5 DEF JoinLoopThread, fqVars, pipeVars
  <2>3. \A h \in Slot : play'[h] \in Gone
    BY <2>2 DEF LifeInv, InReach, Gone
  <2>4. \A h \in Slot : h \notin running
    BY <2>1, NoneAssumption DEF Moves, LifeInv, StopProgress, Threads, In
  <2>5. StartUp'
    BY <1>0, <2>1, <2>2, <2>3 DEF Moves, StartUp, StartsUp, Gone
  <2>6. InReach' /\ Threads'
    BY <2>2, <2>3, <2>4 DEF LifeInv, InReach, Threads, Alive, Gone
  <2>7. PipesMade'
    BY <1>0, <2>1, <2>2 DEF Moves, StartsUp, PipesMade, LifeInv, Alive
  <2>8. /\ ~flag'.starting /\ ptr'.signal = None /\ ptr'.pipeline = None
        /\ ptr'.busWatch = None /\ ptr'.mLoop = None
    BY <2>1, <2>2 DEF Moves, LifeInv, StopProgress, In, AfterDisconnect
  <2>9. StopProgress' /\ OffIsClean' /\ StartsFromDown'
    BY <2>1, <2>3, <2>8 DEF Moves, StopProgress, OffIsClean, Off, StartsFromDown, In, StopSteps,
       AfterDisconnect
  <2> QED
    BY <2>5, <2>6, <2>7, <2>9 DEF LifeInv
<1>6. CASE JoinCreateThread(c)
  <2>1. Moves("joinCreate", "releaseContext")
    BY <1>6, <1>a DEF JoinCreateThread
  <2>2. /\ UNCHANGED <<flag, ptr, play, runs, running, pipe, watched, connected, need>>
        /\ \A h \in Slot : create'[h] = IF h = ptr.mCreateThread THEN "joined" ELSE create[h]
    BY <1>6 DEF JoinCreateThread, fqVars, pipeVars
  <2>3. \A h \in Slot : create'[h] \in Gone
    BY <2>2 DEF LifeInv, InReach, Gone
  <2>4. \A h \in Slot : play[h] \in Gone
    BY <2>1 DEF Moves, LifeInv, StopProgress, In
  <2>5. StartUp'
    BY <2>2, <2>3, <2>4 DEF StartUp, StartsUp, Gone
  <2>6. InReach' /\ Threads'
    BY <2>2, <2>3, <2>4 DEF LifeInv, InReach, Threads, Alive, Gone
  <2>7. PipesMade'
    BY <2>2, <2>3 DEF PipesMade, LifeInv, Alive, Gone
  <2>8. /\ ~flag'.starting /\ ptr'.signal = None /\ ptr'.pipeline = None
        /\ ptr'.busWatch = None /\ ptr'.mLoop = None
    BY <2>1, <2>2 DEF Moves, LifeInv, StopProgress, In, AfterDisconnect
  <2>9. StopProgress' /\ OffIsClean' /\ StartsFromDown'
    BY <2>1, <2>2, <2>3, <2>4, <2>8 DEF Moves, StopProgress, OffIsClean, Off, StartsFromDown, In,
       StopSteps, AfterDisconnect
  <2> QED
    BY <2>5, <2>6, <2>7, <2>9 DEF LifeInv
<1>7. CASE ReleaseContext(c) \/ ClearContext(c)
  <2>1. /\ UNCHANGED <<flag, threadVars, pipeVars, need>>
        /\ \A f \in PtrField \ {"context"} : ptr'[f] = ptr[f]
    BY <1>7 DEF ReleaseContext, ClearContext, fqVars, GstTypeOK, PtrField
  <2>2. \/ Moves("releaseContext", "clearContext")
        \/ Moves("clearContext", "gone")
        \/ Moves("clearContext", "idle")
    BY <1>7, <1>a DEF ReleaseContext, ClearContext
  <2>3. ThreadsGone
    BY <2>2 DEF Moves, LifeInv, StopProgress, In, ThreadsGone
  <2>4. /\ ~flag.starting /\ NothingPointed /\ ptr.mLoop = None
    BY <2>2 DEF Moves, LifeInv, StopProgress, In, AfterDisconnect, NothingPointed
  <2>5. StartUp'
    BY <2>1, <2>3 DEF StartUp, StartsUp, Gone, ThreadsGone, threadVars
  <2>6. InReach' /\ Threads' /\ PipesMade'
    BY <2>1, <2>3 DEF LifeInv, InReach, Threads, PipesMade, NothingPointed, Alive, Gone,
       ThreadsGone, threadVars, pipeVars, PtrField
  <2>7. ThreadsGone' /\ ~flag'.starting /\ NothingPointed' /\ ptr'.mLoop = None
    BY <2>1, <2>3, <2>4 DEF ThreadsGone, NothingPointed, threadVars, PtrField
  <2>8. StopProgress' /\ OffIsClean'
    BY <2>7 DEF StopProgress, OffIsClean, NothingPointed, ThreadsGone
  <2>9. StartsFromDown'
    BY <2>2 DEF Moves, StartsFromDown, In
  <2> QED
    BY <2>5, <2>6, <2>8, <2>9 DEF LifeInv
<1> QED
  BY <1>1, <1>2, <1>3, <1>4, <1>5, <1>6, <1>7 DEF StopStream

-----------------------------------------------------------------------------
(* The node's own steps.                                                      *)

\* What a call finds that comes in turn.
LEMMA CallInTurn ==
  ASSUME NEW c \in Caller, NEW l, Call(c, l), Undisturbed'
  PROVE  /\ Idle /\ Goto(c, l)
         /\ \A g \in Slot : ~StartsUp(g)
         /\ l = "start" \/ (l = "clear" /\ c = "cmd") => ~flag.starting
<1>1. \A m \in {"call", "threads", "stream", "cut"} : m \notin Meets(c, l)
  BY DEF Call, Undisturbed, InTurn
<1>2. Idle /\ ThreadsSettled
  BY <1>1 DEF Meets, Meeting
<1>3. l = "start" \/ (l = "clear" /\ c = "cmd") => ~flag.starting
  BY <1>1 DEF Meets, Meeting
<1> QED
  BY <1>2, <1>3 DEF Call, ThreadsSettled, StartsUp

LEMMA UndisturbedBefore ==
  ASSUME Undisturbed', [Next]_vars
  PROVE  Undisturbed /\ InTurn
  BY MetStays DEF Undisturbed, InTurn

\* A caller that sets out to stop the stream, or to clear the queue first, may do so
\* whenever no start is under way.
LEMMA SetsOut ==
  ASSUME GstTypeOK, LifeInv, Idle, \A g \in Slot : ~StartsUp(g),
         NEW c \in Caller, NEW l, Goto(c, l),
         UNCHANGED <<flag, ptr, threadVars, pipeVars, need>>,
         \/ l = "stop"
         \/ l = "clear" /\ c = "timer"
         \/ l \in {"start", "clear"} /\ ~flag.starting /\ ~flag.playing
  PROVE  LifeInv'
<1>1. /\ pc'[c] = l /\ \A d \in Caller : pc[d] = "idle"
      /\ \A d \in Caller : d # c => pc'[d] = "idle"
  BY DEF Idle, Goto, GstTypeOK
<1>2. l # "idle" /\ l \notin {"disconnect"} \union AfterDisconnect /\ l \notin {"quitOld", "spawn"}
  BY DEF AfterDisconnect
<1>3. StartUp'
  BY DEF StartUp, StartsUp, threadVars
<1>4. InReach' /\ Threads' /\ PipesMade'
  BY DEF LifeInv, InReach, Threads, PipesMade, NothingPointed, Alive, threadVars, pipeVars
<1>5. StopProgress'
  BY <1>1, <1>2 DEF StopProgress, In, AfterDisconnect
<1>6. Off' => Off
  BY <1>1, <1>2 DEF Off, In, StopSteps
<1>7. OffIsClean'
  BY <1>6 DEF LifeInv, OffIsClean, NothingPointed, ThreadsGone, threadVars
<1>8. StartsFromDown'
  BY <1>1, <1>2 DEF StartsFromDown, In
<1> QED
  BY <1>3, <1>4, <1>5, <1>7, <1>8 DEF LifeInv

LEMMA LifeKept ==
  ASSUME LifeInv, UNCHANGED <<flag, ptr, threadVars, pipeVars, pc>>,
         \A g \in Slot : need'[g] # "out" => need[g] # "out"
  PROVE  LifeInv'
  BY DEF LifeInv, StartUp, StartsUp, Idle, InReach, Threads, StopProgress, OffIsClean, Off, In,
     ThreadsGone, NothingPointed, StartsFromDown, Alive, PipesMade, threadVars, pipeVars

LEMMA NodeLife ==
  ASSUME GstTypeOK, FQTypeOK, OneCaller, LifeInv, Undisturbed',
         \/ VideoMsg
         \/ PublisherComesOrGoes
         \/ HandleStreamStatus
         \/ MisreadQueue
         \/ VideoStreamCommand
         \/ \E c \in Caller : EmptyQueueFirst(c)
         \/ Destroy
  PROVE  LifeInv'
<1>0. {"timer", "cmd", "main"} = Caller
  BY CallerAssumption
<1>1. CASE VideoMsg
  <2>1. \A g \in Slot : need'[g] # "out" => need[g] # "out"
    BY <1>1 DEF VideoMsg, GrabVideoMsg, Signal, Wake, Asleep, FQTypeOK
  <2> QED
    BY <1>1, <2>1, LifeKept DEF VideoMsg, gstVars
<1>2. CASE PublisherComesOrGoes
  BY <1>2, LifeKept DEF PublisherComesOrGoes, fqVars, gstVars
<1>3. CASE HandleStreamStatus \/ MisreadQueue
  <2>1. UNCHANGED <<flag, ptr, threadVars, pipeVars, need>>
    BY <1>3 DEF HandleStreamStatus, RetryStart, SwitchToCamera, SwitchToDefault, MisreadQueue,
       fqVars
  <2>2. \/ Call("timer", "stop")
        \/ Call("timer", "clear")
        \/ Call("timer", "start") /\ ~flag.playing
    BY <1>3 DEF HandleStreamStatus, RetryStart, SwitchToCamera, SwitchToDefault, MisreadQueue
  <2> QED
    BY <1>0, <2>1, <2>2, CallInTurn, SetsOut
<1>4. ASSUME NEW a \in StartArgs, StartCommand(a)
      PROVE  LifeInv'
  <2>2. "cmd" \in Caller /\ ~flag.playing /\ UNCHANGED <<flag, ptr, threadVars, pipeVars, need>>
    BY <1>0, <1>4 DEF StartCommand, fqVars
  <2>4. CASE AcceptStart(a)
    BY <2>2, <2>4, CallInTurn, SetsOut DEF AcceptStart
  <2>5. CASE RefuseProfile(a)
    BY <2>2, <2>5, LifeKept DEF RefuseProfile
  <2> QED
    BY <1>4, <2>4, <2>5 DEF StartCommand
<1>5. CASE StopCommand
  BY <1>0, <1>5, CallInTurn, SetsOut DEF StopCommand, fqVars
<1>6. CASE UntypedCommand
  BY <1>6, LifeKept DEF UntypedCommand, fqVars, gstVars
<1>7. ASSUME NEW c \in Caller, EmptyQueueFirst(c)
      PROVE  LifeInv'
  <2>1. /\ pc[c] = "clear" /\ \A d \in Caller : d # c => pc[d] = "idle" /\ pc'[d] = "idle"
        /\ pc'[c] = IF c = "timer" THEN "stop" ELSE "start"
        /\ UNCHANGED <<flag, ptr, threadVars, pipeVars, need>>
    BY <1>7, Alone DEF EmptyQueueFirst, ClearQueue
  <2>2. StartUp' /\ InReach' /\ Threads' /\ PipesMade'
    BY <1>7, <2>1, LifeKeptGoing DEF EmptyQueueFirst, threadVars, pipeVars
  <2>3. StopProgress'
    BY <2>1 DEF StopProgress, In, AfterDisconnect
  <2>4. Off' => Off
    BY <2>1 DEF Off, In, StopSteps
  <2>5. OffIsClean'
    BY <2>1, <2>4 DEF LifeInv, OffIsClean, NothingPointed, ThreadsGone, threadVars
  <2>6. StartsFromDown'
    BY <2>1 DEF LifeInv, StartsFromDown, In
  <2> QED
    BY <2>2, <2>3, <2>5, <2>6 DEF LifeInv
<1>8. CASE Destroy
  BY <1>0, <1>8, CallInTurn, SetsOut DEF Destroy, fqVars
<1> QED
  BY <1>1, <1>2, <1>3, <1>4, <1>5, <1>6, <1>7, <1>8 DEF VideoStreamCommand

LEMMA LifeInit == ASSUME Init PROVE LifeInv
<1>1. /\ \A f \in PtrField : ptr[f] = None
      /\ \A g \in Slot : create[g] = "none" /\ play[g] = "none" /\ ~Alive(g) /\ need[g] = "out"
      /\ running = {} /\ watched = {} /\ connected = {}
      /\ ~flag.starting /\ ~flag.playing
      /\ \A c \in Caller : pc[c] \in {"idle", "start"}
  BY DEF Init, GstInit, FQInit, Alive
<1>2. ptr.pipeline = None /\ ptr.signal = None /\ ptr.busWatch = None /\ ptr.mLoop = None
  BY <1>1 DEF PtrField
<1>3. StartUp /\ InReach /\ Threads /\ PipesMade
  BY <1>1 DEF StartUp, StartsUp, InReach, Threads, PipesMade, Gone
<1>4. StopProgress /\ OffIsClean /\ StartsFromDown
  BY <1>1, <1>2 DEF StopProgress, OffIsClean, NothingPointed, ThreadsGone, Gone, StartsFromDown,
     In, AfterDisconnect
<1> QED
  BY <1>3, <1>4 DEF LifeInv

LEMMA LifeNext ==
  ASSUME GstTypeOK, FQTypeOK, OneCaller, LifeInv, [Next]_vars, Undisturbed'
  PROVE  LifeInv'
<1>1. CASE UNCHANGED vars
  BY <1>1, LifeKept DEF vars, fqVars, gstVars
<1>2. ASSUME NEW c \in Caller, Interface(StartStream(c)) \/ Interface(StopStream(c))
      PROVE  LifeInv'
  BY <1>2, StartStreamLife, StopStreamLife DEF Interface
<1>3. ASSUME NEW g \in Slot,
             \/ Interface(CreatePipeline(g))
             \/ Interface(PlayStream(g))
             \/ Interface(StreamEventCallBack(g))
      PROVE  LifeInv'
  BY <1>3, CreatePipelineLife, PlayStreamLife, BusLife DEF Interface
<1>4. ASSUME NEW g \in Slot,
             \/ Interface(NeedData(g))
             \/ Interface(ServeNeedData(g))
             \/ Interface(SpuriousWakeup(g) /\ UNCHANGED gstVars)
      PROVE  LifeInv'
  BY <1>4, NeedDataLife DEF Interface
<1> QED
  BY <1>1, <1>2, <1>3, <1>4, NodeLife DEF Next

-----------------------------------------------------------------------------
(* A node that is deleted in the middle of a start.                           *)

LEMMA LifeIsInReach ==
  ASSUME GstTypeOK, LifeInv
  PROVE  StillInReach
<1>1. ASSUME NEW g \in Slot, create[g] \in {"choose", "build", "watch"}
      PROVE  /\ ptr.busWatch = None /\ \A h \in Slot : play[h] \in Gone
             /\ create[g] \in {"choose", "build"} => NothingPointed
             /\ create[g] = "watch" => ptr.pipeline \in {None, g}
  BY <1>1, Creating DEF LifeInv, PipesMade, NothingPointed
<1> QED
  BY <1>1 DEF StillInReach, LifeInv, PipesMade

\* Nothing but the destructor's StopStream, the threads and the environment is at work.
LEMMA DeletingStep ==
  ASSUME GstTypeOK, OneCaller, Deleting, [Next]_vars
  PROVE  /\ Deleting'
         /\ \/ StopStream("main")
            \/ \E g \in Slot : CreatePipeline(g) \/ PlayStream(g) \/ StreamEventCallBack(g)
            \/ \E g \in Slot :
                 \/ NeedData(g)
                 \/ ServeNeedData(g)
                 \/ SpuriousWakeup(g) /\ UNCHANGED gstVars
            \/ UNCHANGED <<fqVars, gstVars>>
<1>1. /\ "main" \in Caller /\ pc["main"] \in StopSteps \union {"gone"}
      /\ \A c \in Caller : c # "main" => pc[c] = "idle"
      /\ \A c \in Caller : ~MayRun(c)
  BY CallerAssumption DEF Deleting, OneCaller, StopSteps, MayRun
<1>2. ASSUME UNCHANGED pc
      PROVE  Deleting'
  BY <1>2 DEF Deleting
<1>3. ASSUME NEW c \in Caller, StartStream(c) \/ EmptyQueueFirst(c)
      PROVE  FALSE
  BY <1>1, <1>3 DEF StartStream, StartIgnored, StartAccepted, QuitOldLoop, SpawnCreate,
     EmptyQueueFirst, StopSteps
<1>4. ASSUME NEW c \in Caller, StopStream(c)
      PROVE  c = "main" /\ Deleting'
  BY <1>1, <1>4 DEF StopStream, LowerFlags, Disconnect, Teardown, QuitLoop, JoinLoopThread,
     JoinCreateThread, ReleaseContext, ClearContext, Goto, GstTypeOK, Deleting, StopSteps
<1>5. ASSUME NEW g \in Slot, CreatePipeline(g) \/ PlayStream(g) \/ StreamEventCallBack(g)
      PROVE  Deleting'
  BY <1>2, <1>5 DEF CreatePipeline, AwaitFrame, ChoosePipeline, BuildPipeline,
     BuildDefaultPipeline, BuildCameraPipeline, Build, WatchBus, PlayStream, SetPlaying, LoadLoop,
     RunLoop, LeaveLoop, StreamEventCallBack, BusPlaying, BusError, BusEos, gstVars
<1>6. ASSUME NEW g \in Slot,
             \/ NeedData(g)
             \/ ServeNeedData(g)
             \/ SpuriousWakeup(g) /\ UNCHANGED gstVars
      PROVE  Deleting'
  BY <1>2, <1>6 DEF NeedData, ServeNeedData, gstVars
<1>7. CASE UNCHANGED vars \/ PublisherComesOrGoes
  BY <1>2, <1>7 DEF vars, PublisherComesOrGoes, gstVars
<1>8. ~VideoMsg /\ ~HandleStreamStatus /\ ~MisreadQueue /\ ~VideoStreamCommand /\ ~Destroy
  BY <1>1, CallerAssumption DEF VideoMsg, HandleStreamStatus, RetryStart, SwitchToCamera,
     SwitchToDefault, MisreadQueue, TimerFires, VideoStreamCommand, StartCommand, StopCommand,
     UntypedCommand, Destroy, Idle, StopSteps
<1> QED
  BY <1>3, <1>4, <1>5, <1>6, <1>7, <1>8 DEF Next, Interface, vars, PublisherComesOrGoes

\* Nothing but the destructor cuts a start short.
LEMMA CutByDestructor ==
  ASSUME "cut" \notin met, "cut" \in met', [Next]_vars
  PROVE  Destroy
<1>1. ASSUME NEW c \in {"timer", "cmd"}, NEW l, Call(c, l)
      PROVE  FALSE
  BY <1>1 DEF Call, Meets
<1>2. CASE HandleStreamStatus \/ MisreadQueue \/ VideoStreamCommand
  <2>1. met' = met \/ \E c \in {"timer", "cmd"}, l \in {"start", "stop", "clear"} : Call(c, l)
    BY <1>2 DEF HandleStreamStatus, RetryStart, SwitchToCamera, SwitchToDefault, MisreadQueue,
       VideoStreamCommand, StartCommand, AcceptStart, RefuseProfile, StopCommand, UntypedCommand
  <2> QED
    BY <1>1, <2>1
<1>3. CASE \/ UNCHANGED vars
           \/ VideoMsg
           \/ PublisherComesOrGoes
           \/ \E c \in Caller : EmptyQueueFirst(c)
  BY <1>3 DEF vars, VideoMsg, PublisherComesOrGoes, EmptyQueueFirst
<1> QED
  BY <1>2, <1>3 DEF Next, Interface

LEMMA ReachKept ==
  ASSUME StillInReach, UNCHANGED <<ptr, create, play, pipe, watched, connected>>,
         \A g \in Slot : need'[g] # "out" => need[g] # "out" \/ Alive(g)
  PROVE  StillInReach'
  BY DEF StillInReach, InReach, NothingPointed, Alive

LEMMA StopInReach ==
  ASSUME GstTypeOK, FQTypeOK, StillInReach, NEW c \in Caller, StopStream(c)
  PROVE  StillInReach'
<1>1. CASE LowerFlags(c)
  <2>1. \A g \in Slot : need'[g] # "out" => need[g] # "out"
    BY <1>1 DEF LowerFlags, RaiseShutdown, Wake, Asleep, FQTypeOK
  <2> QED
    BY <1>1, <2>1, ReachKept DEF LowerFlags, threadVars, pipeVars
<1>2. CASE Disconnect(c)
  BY <1>2 DEF Disconnect, GstTypeOK, PtrField, StillInReach, InReach, NothingPointed, Alive, fqVars,
     threadVars
<1>3. CASE Teardown(c)
  <2>1. /\ UNCHANGED <<create, play, watched, connected, need>>
        /\ ptr'.pipeline = None
        /\ \A f \in PtrField \ {"pipeline", "appSource"} : ptr'[f] = ptr[f]
        /\ \A h \in Slot : pipe'[h] = IF h = ptr.pipeline THEN "disposed" ELSE pipe[h]
        /\ ptr.pipeline # None => need[ptr.pipeline] = "out"
    BY <1>3 DEF Teardown, fqVars, threadVars, GstTypeOK, PtrField
  <2>2. \A h \in Slot : ~Alive(h)' /\ need[h] = "out"
    BY <2>1, NoneAssumption DEF StillInReach, InReach, Alive
  <2> QED
    BY <2>1, <2>2 DEF StillInReach, InReach, NothingPointed, PtrField
<1>4. CASE QuitLoop(c)
  BY <1>4 DEF QuitLoop, GstTypeOK, PtrField, StillInReach, InReach, NothingPointed, Alive, fqVars
<1>5. CASE JoinLoopThread(c)
  BY <1>5 DEF JoinLoopThread, StillInReach, InReach, NothingPointed, Alive, Gone, fqVars, pipeVars
<1>6. CASE JoinCreateThread(c)
  BY <1>6 DEF JoinCreateThread, StillInReach, InReach, NothingPointed, Alive, fqVars, pipeVars
<1>7. CASE ReleaseContext(c) \/ ClearContext(c)
  BY <1>7 DEF ReleaseContext, ClearContext, GstTypeOK, PtrField, StillInReach, InReach,
     NothingPointed, Alive, fqVars, threadVars, pipeVars
<1> QED
  BY <1>1, <1>2, <1>3, <1>4, <1>5, <1>6, <1>7 DEF StopStream

LEMMA CreateInReach ==
  ASSUME GstTypeOK, StillInReach, NEW g \in Slot, CreatePipeline(g)
  PROVE  StillInReach'
<1>1. /\ create[g] \in {"choose", "build", "watch"}
      /\ ptr.busWatch = None /\ ptr.mCreateThread = g
      /\ \A h \in Slot : play[h] \in Gone /\ (h # g => create[h] \in Gone)
  BY DEF CreatePipeline, AwaitFrame, ChoosePipeline, BuildPipeline, BuildDefaultPipeline,
     BuildCameraPipeline, Build, WatchBus, StillInReach, InReach, Gone
<1>2. watched = {}
  BY <1>1, NoneAssumption DEF StillInReach, InReach, GstTypeOK
<1>3. CASE AwaitFrame(g)
  BY <1>3, ReachKept DEF AwaitFrame, WaitForFrame, TimeOut, gstVars, threadVars, pipeVars
<1>4. CASE ChoosePipeline(g)
  <2>1. /\ create[g] = "choose" /\ create' = [create EXCEPT ![g] = "build"]
        /\ UNCHANGED <<ptr, play, pipe, watched, connected, need>>
    BY <1>4 DEF ChoosePipeline, LeaveChoice, KeepChoice, ChooseDefault, ChooseCamera, pipeVars
  <2> QED
    BY <1>1, <2>1 DEF GstTypeOK, StillInReach, InReach, NothingPointed, Alive, Gone
<1>5. CASE BuildPipeline(g)
  <2>1. /\ create[g] = "build" /\ create' = [create EXCEPT ![g] = "watch"]
        /\ pipe' = [pipe EXCEPT ![g] = "ready"]
        /\ UNCHANGED <<play, watched, need>>
    BY <1>5 DEF BuildPipeline, BuildDefaultPipeline, BuildCameraPipeline, Build, fqVars
  <2>2. NothingPointed /\ \A h \in Slot : ~Alive(h) /\ h \notin connected
    BY <2>1, NoneAssumption DEF StillInReach, InReach, NothingPointed
  <2>3. /\ ptr'.pipeline = g /\ ptr'.busWatch = None /\ ptr'.mCreateThread = g
        /\ ptr'.mLoopThread = ptr.mLoopThread
        /\ \A h \in Slot : h \in connected' => ptr'.signal = h
    <3>1. ASSUME NEW F, Build(g, F), F \in {{}, {"appSource", "signal"}}
          PROVE  /\ ptr'.pipeline = g /\ ptr'.busWatch = None /\ ptr'.mCreateThread = g
                 /\ ptr'.mLoopThread = ptr.mLoopThread
                 /\ "signal" \in F => ptr'.signal = g
      BY <1>1, <2>2, <3>1 DEF Build, GstTypeOK, PtrField, NothingPointed
    <3> QED
      BY <1>5, <2>2, <3>1 DEF BuildPipeline, BuildDefaultPipeline, BuildCameraPipeline
  <2>4. /\ create'[g] = "watch" /\ pipe'[g] = "ready"
        /\ \A h \in Slot : h # g => create'[h] = create[h] /\ pipe'[h] = pipe[h]
    BY <2>1 DEF GstTypeOK
  <2> QED
    BY <1>1, <1>2, <2>1, <2>2, <2>3, <2>4 DEF StillInReach, InReach, Alive, Gone
<1>6. CASE WatchBus(g)
  <2>1. /\ create[g] = "watch" /\ ptr.pipeline \in {None, g}
        /\ create' = [create EXCEPT ![g] = "done"]
        /\ play' = [play EXCEPT ![g] = "begin"]
        /\ watched' = {ptr.pipeline} \ {None}
        /\ ptr' = [ptr EXCEPT !.busWatch = ptr.pipeline, !.mLoopThread = g]
        /\ UNCHANGED <<pipe, connected, need>>
    BY <1>2, <1>6 DEF WatchBus, fqVars, StillInReach
  <2>2. /\ create'[g] = "done" /\ \A h \in Slot : h # g => create'[h] = create[h]
        /\ \A h \in Slot : h # g => play'[h] = play[h]
        /\ ptr'.busWatch = ptr.pipeline /\ ptr'.mLoopThread = g
        /\ \A f \in PtrField \ {"busWatch", "mLoopThread"} : ptr'[f] = ptr[f]
    BY <2>1 DEF GstTypeOK, PtrField
  <2> QED
    BY <1>1, <2>1, <2>2 DEF StillInReach, InReach, Alive, Gone, PtrField
<1> QED
  BY <1>3, <1>4, <1>5, <1>6 DEF CreatePipeline

LEMMA RunInReach ==
  ASSUME GstTypeOK, FQTypeOK, StillInReach, NEW g \in Slot,
         \/ PlayStream(g) \/ StreamEventCallBack(g)
         \/ NeedData(g) \/ ServeNeedData(g)
         \/ SpuriousWakeup(g) /\ UNCHANGED gstVars
  PROVE  StillInReach'
<1>1. CASE PlayStream(g) \/ StreamEventCallBack(g)
  <2>1. /\ UNCHANGED <<ptr, create, watched, connected, need>>
        /\ \A h \in Slot : Alive(h)' <=> Alive(h)
        /\ \A h \in Slot : play[h] \in Gone => play'[h] = play[h]
    BY <1>1 DEF PlayStream, SetPlaying, LoadLoop, RunLoop, LeaveLoop, StreamEventCallBack,
       BusPlaying, BusError, BusEos, GstTypeOK, Alive, Gone, fqVars, threadVars, pipeVars
  <2> QED
    BY <2>1 DEF StillInReach, InReach, NothingPointed, Gone
<1>2. CASE NeedData(g)
  BY <1>2, ReachKept DEF NeedData, EnterNeedData, FQTypeOK, Alive, gstVars, threadVars, pipeVars
<1>3. CASE ServeNeedData(g)
  BY <1>3, ReachKept DEF ServeNeedData, NeedDataCallBack, TestQueue, FallAsleep,
     LeaveOnShutdown, TakeFrame, FrontOfEmpty, FQTypeOK, gstVars, threadVars, pipeVars
<1>4. CASE SpuriousWakeup(g) /\ UNCHANGED gstVars
  BY <1>4, ReachKept DEF SpuriousWakeup, Wake, Asleep, FQTypeOK, gstVars, threadVars, pipeVars
<1> QED
  BY <1>1, <1>2, <1>3, <1>4

LEMMA StreamInvNext ==
  ASSUME GstTypeOK, FQTypeOK, OneCaller, StreamInv, InTurn', [Next]_vars
  PROVE  StreamInv'
<1>1. CASE "cut" \in met
  <2>1. StillInReach'
    BY <1>1, DeletingStep, CallerAssumption, StopInReach, CreateInReach, RunInReach, ReachKept
       DEF StreamInv, fqVars, gstVars, threadVars, pipeVars
  <2> QED
    BY <1>1, <2>1, DeletingStep, MetStays DEF StreamInv
<1>2. CASE "cut" \notin met'
  BY <1>2, LifeNext, MetStays DEF StreamInv, Undisturbed
<1>3. CASE "cut" \notin met /\ "cut" \in met'
  <2>1. Destroy
    BY <1>3, CutByDestructor
  <2>2. StillInReach'
    BY <1>3, <2>1, LifeIsInReach, ReachKept DEF StreamInv, Destroy, fqVars, threadVars, pipeVars
  <2>3. Deleting'
    BY <2>1, CallerAssumption DEF Destroy, Call, Goto, GstTypeOK, Deleting, StopSteps
  <2> QED
    BY <1>3, <2>2, <2>3 DEF StreamInv
<1> QED
  BY <1>1, <1>2, <1>3

\* What the life-cycle invariant rests on.
LEMMA NodeBasics == Spec => [](GstTypeOK /\ FQInv /\ (InTurn => OneCaller))
<1>1. Spec => [](GstTypeOK /\ FQInv)
  BY NodeTypeCorrect, ImplementsMonitor, InvHolds, PTL DEF TypeOK
<1>2. ("call" \notin met => CountInv) => (InTurn => OneCaller)
  BY DEF CountInv, InTurn
<1> QED
  BY <1>1, <1>2, CountHolds, PTL

\* As long as calls come in turn, every thread and every pipeline is where the flags and
\* StopStream's pointers say, in every step of StartStream, CreatePipeline, PlayStream and
\* StopStream; and when the destructor cuts a start short, what the start goes on to make
\* is still made where the pointers say.
THEOREM LifeHolds == Spec => [](InTurn => StreamInv)
<1>1. GstTypeOK /\ FQInv /\ (InTurn => OneCaller) /\ (InTurn => StreamInv) /\ [Next]_vars
        => (InTurn => StreamInv)'
  BY StreamInvNext, MetStays DEF FQInv, InTurn
<1>2. Init => (InTurn => StreamInv)
  BY LifeInit DEF StreamInv, Init
<1> QED
  BY <1>1, <1>2, NodeBasics, PTL DEF Spec

-----------------------------------------------------------------------------
(* What the invariant of a stream's life implies.                             *)

\* As long as calls come in turn nothing that a start brought into being is lost to
\* StopStream: each live pipeline, watch, handler and thread is the one the pointers point
\* at, also when the destructor cuts a start short.
THEOREM NothingOrphaned == Spec => []NoOrphan
<1>1. (InTurn => StreamInv) => NoOrphan
  BY DEF StreamInv, StillInReach, LifeInv, NoOrphan
<1> QED
  BY <1>1, LifeHolds, PTL

LEMMA OffMeansNothingLeft ==
  ASSUME GstTypeOK, LifeInv, Off
  PROVE  NothingLeft
<1>1. NothingPointed /\ ThreadsGone
  BY DEF LifeInv, OffIsClean
<1>2. \A g \in Slot : ~Alive(g) /\ g \notin watched /\ g \notin connected
  BY <1>1, NoneAssumption DEF LifeInv, InReach, NothingPointed
<1>3. \A g \in Slot : g \notin running
  BY <1>1 DEF LifeInv, Threads, ThreadsGone, Gone
<1>4. \A g \in Slot : need[g] = "out"
  BY <1>2 DEF LifeInv, PipesMade
<1> QED
  BY <1>1, <1>2, <1>3, <1>4 DEF GstTypeOK, ThreadsGone, Gone, NothingLeft

\* Once StopStream is through and nobody has started the stream again, no thread, loop,
\* watch, handler or pipeline of it is left, and no callback runs in it, as long as calls
\* come in turn.
THEOREM DownStaysClean == Spec => []DownIsClean
<1>1. Idle => ~Deleting
  BY CallerAssumption DEF Idle, Deleting, StopSteps
<1>2. GstTypeOK /\ (InTurn => StreamInv) => DownIsClean
  BY <1>1, OffMeansNothingLeft DEF StreamInv, DownIsClean, StopUndoesStart, Idle, Off, In, StopSteps
<1> QED
  BY <1>2, LifeHolds, NodeBasics, PTL

\* If calls came in turn and the destructor did not cut a start short, it leaves nothing
\* behind that would go on using the object, whatever had become of the stream: never
\* started, connecting, playing, failed or stopped.
THEOREM NothingOutlivesNode == Spec => []NothingOutlives
<1>1. GstTypeOK /\ (InTurn => OneCaller) /\ (InTurn => StreamInv) => NothingOutlives
  <2> SUFFICES ASSUME GstTypeOK, OneCaller, LifeInv, pc["main"] = "gone"
               PROVE  NothingLeft
    BY DEF NothingOutlives, DestructorDestroys, StreamInv
  <2>1. "main" \in Caller
    BY CallerAssumption
  <2>2. Off
    BY <2>1 DEF LifeInv, StopProgress, Off, In, OneCaller, StopSteps
  <2> QED
    BY <2>2, OffMeansNothingLeft
<1> QED
  BY <1>1, LifeHolds, NodeBasics, PTL

-----------------------------------------------------------------------------
(* The profile changes only while there is no pipeline.  The address may       *)
(* change under one: by a start command whose encoding is then refused.        *)
BuiltForProfile == \A g \in Slot : Alive(g) => built[g].profile = profile

LEMMA ProfileKept ==
  ASSUME BuiltForProfile, UNCHANGED <<built, profile>>,
         \A g \in Slot : Alive(g)' => Alive(g)
  PROVE  BuiltForProfile'
  BY DEF BuiltForProfile

LEMMA CommandFindsNothing ==
  ASSUME GstTypeOK, StreamInv, InTurn', NEW a \in StartArgs, StartCommand(a), AcceptStart(a)
  PROVE  \A g \in Slot : ~Alive(g) /\ ~Alive(g)'
<1>1. LifeInv /\ "cut" \notin met
  BY CallerAssumption DEF StreamInv, StartCommand, MayRun, Deleting, StopSteps
<1>2. Undisturbed' /\ Call("cmd", "clear") /\ "cmd" \in Caller
  BY <1>1, CallerAssumption DEF AcceptStart, Call, Meets, Undisturbed
<1>3. Idle /\ ~flag.starting
  BY <1>2, CallInTurn
<1>4. Off
  BY <1>3 DEF Idle, Off, In, StopSteps
<1>5. \A g \in Slot : ~Alive(g)
  BY <1>1, <1>4, OffMeansNothingLeft DEF NothingLeft
<1> QED
  BY <1>5 DEF StartCommand, pipeVars, Alive

LEMMA ProfileNext ==
  ASSUME GstTypeOK, StreamInv, InTurn', BuiltForProfile, [Next]_vars
  PROVE  BuiltForProfile'
<1>1. CASE UNCHANGED <<pipe, built, profile>>
  BY <1>1, ProfileKept DEF Alive
<1>2. ASSUME NEW c \in Caller, StartStream(c)
      PROVE  BuiltForProfile'
  <2>1. CASE SpawnCreate(c)
    <3>1. \A g \in Slot : Alive(g)' => Alive(g)
      BY <2>1 DEF SpawnCreate, Alive, GstTypeOK
    <3> QED
      BY <2>1, <3>1, ProfileKept DEF SpawnCreate, setting
  <2> QED
    BY <1>1, <1>2, <2>1 DEF StartStream, StartIgnored, StartAccepted, QuitOldLoop, pipeVars, setting
<1>3. ASSUME NEW c \in Caller, StopStream(c)
      PROVE  BuiltForProfile'
  <2>1. CASE Teardown(c)
    <3>1. \A g \in Slot : Alive(g)' => Alive(g) /\ built'[g] = built[g]
      BY <2>1 DEF Teardown, Alive
    <3> QED
      BY <2>1, <3>1 DEF Teardown, BuiltForProfile, setting
  <2> QED
    BY <1>1, <1>3, <2>1 DEF StopStream, LowerFlags, Disconnect, QuitLoop, JoinLoopThread,
       JoinCreateThread, ReleaseContext, ClearContext, pipeVars, setting
<1>4. ASSUME NEW g \in Slot, CreatePipeline(g)
      PROVE  BuiltForProfile'
  <2>1. ASSUME NEW F, Build(g, F)
        PROVE  BuiltForProfile'
    <3>1. /\ built'[g].profile = profile
          /\ \A h \in Slot : h # g => built'[h] = built[h] /\ pipe'[h] = pipe[h]
          /\ UNCHANGED profile
      BY <2>1 DEF Build, GstTypeOK, setting
    <3> QED
      BY <3>1 DEF BuiltForProfile, Alive
  <2>2. CASE BuildPipeline(g)
    BY <2>1, <2>2 DEF BuildPipeline, BuildDefaultPipeline, BuildCameraPipeline
  <2> QED
    BY <1>1, <1>4, <2>2 DEF CreatePipeline, AwaitFrame, ChoosePipeline, WatchBus, gstVars,
       pipeVars, setting
<1>5. ASSUME NEW g \in Slot, PlayStream(g) \/ StreamEventCallBack(g)
      PROVE  BuiltForProfile'
  <2>1. UNCHANGED <<built, profile>> /\ \A h \in Slot : Alive(h)' => Alive(h)
    BY <1>5 DEF PlayStream, SetPlaying, LoadLoop, RunLoop, LeaveLoop, StreamEventCallBack,
       BusPlaying, BusError, BusEos, Alive, GstTypeOK, pipeVars, setting
  <2> QED
    BY <2>1, ProfileKept
<1>6. ASSUME NEW a \in StartArgs, StartCommand(a)
      PROVE  BuiltForProfile'
  <2>1. CASE AcceptStart(a)
    BY <1>6, <2>1, CommandFindsNothing DEF BuiltForProfile
  <2>2. CASE RefuseProfile(a)
    BY <1>1, <1>6, <2>2 DEF StartCommand, RefuseProfile, pipeVars
  <2> QED
    BY <1>6, <2>1, <2>2 DEF StartCommand
<1>7. CASE \/ UNCHANGED vars
           \/ VideoMsg
           \/ PublisherComesOrGoes
           \/ HandleStreamStatus
           \/ MisreadQueue
           \/ StopCommand
           \/ UntypedCommand
           \/ \E c \in Caller : EmptyQueueFirst(c)
           \/ Destroy
  BY <1>1, <1>7 DEF vars, gstVars, VideoMsg, PublisherComesOrGoes, HandleStreamStatus, RetryStart,
     SwitchToCamera, SwitchToDefault, MisreadQueue, StopCommand, UntypedCommand,
     EmptyQueueFirst, Destroy, pipeVars, setting
<1>8. ASSUME NEW g \in Slot,
             \/ Interface(NeedData(g))
             \/ Interface(ServeNeedData(g))
             \/ Interface(SpuriousWakeup(g) /\ UNCHANGED gstVars)
      PROVE  BuiltForProfile'
  BY <1>1, <1>8 DEF Interface, NeedData, ServeNeedData, gstVars, pipeVars, setting
<1> QED
  BY <1>2, <1>3, <1>4, <1>5, <1>6, <1>7, <1>8 DEF Next, Interface, VideoStreamCommand

\* A start command is obeyed when there is no pipeline, if calls come in turn, so that
\* every pipeline was built for the profile in force.
LEMMA ProfileStaysBuilt == Spec => [](InTurn => BuiltForProfile)
<1>1. Init => BuiltForProfile
  BY DEF Init, GstInit, BuiltForProfile, Alive
<1>2. GstTypeOK /\ (InTurn => StreamInv) /\ (InTurn => BuiltForProfile) /\ [Next]_vars
        => (InTurn => BuiltForProfile)'
  BY ProfileNext, MetStays DEF InTurn
<1> QED
  BY <1>1, <1>2, LifeHolds, NodeBasics, PTL DEF Spec

-----------------------------------------------------------------------------
(* What waits for a message.                                                  *)

LEMMA ChoosingKept ==
  ASSUME Choosing, create' = create, \A g \in Slot : choose'[g] # "out" => choose[g] # "out"
  PROVE  Choosing'
  BY DEF Choosing

LEMMA WakeKeepsChoosing ==
  ASSUME FQTypeOK, NEW N \in SUBSET Asleep, NEW C \in SUBSET Waiting, Wake(N, C)
  PROVE  \A g \in Slot : choose'[g] # "out" => choose[g] # "out"
  BY DEF FQTypeOK, Wake, Waiting

LEMMA ChoosingNext ==
  ASSUME GstTypeOK, FQTypeOK, Choosing, [Next]_vars
  PROVE  Choosing'
<1>1. CASE UNCHANGED <<create, choose>>
  BY <1>1, ChoosingKept
<1>2. ASSUME NEW c \in Caller, StartStream(c)
      PROVE  Choosing'
  <2>1. CASE SpawnCreate(c)
    BY <2>1 DEF SpawnCreate, EnterChoice, Choosing, GstTypeOK, FQTypeOK
  <2> QED
    BY <1>1, <1>2, <2>1 DEF StartStream, StartIgnored, StartAccepted, LowerShutdown, QuitOldLoop,
       threadVars, fqVars
<1>3. ASSUME NEW c \in Caller, StopStream(c)
      PROVE  Choosing'
  <2>1. CASE LowerFlags(c)
    BY <2>1, WakeKeepsChoosing, ChoosingKept DEF LowerFlags, RaiseShutdown, threadVars
  <2>2. CASE JoinCreateThread(c)
    <3>1. \A g \in Slot : create[g] = "choose" => create'[g] = "choose"
      BY <2>2, NoneAssumption DEF JoinCreateThread
    <3> QED
      BY <2>2, <3>1 DEF JoinCreateThread, Choosing, fqVars
  <2> QED
    BY <1>1, <1>3, <2>1, <2>2 DEF StopStream, Disconnect, Teardown, QuitLoop, JoinLoopThread,
       ReleaseContext, ClearContext, threadVars, fqVars
<1>4. ASSUME NEW g \in Slot, CreatePipeline(g)
      PROVE  Choosing'
  <2>1. CASE AwaitFrame(g)
    BY <2>1, ChoosingKept DEF AwaitFrame, WaitForFrame, TimeOut, FQTypeOK, gstVars, threadVars
  <2>2. CASE ChoosePipeline(g)
    BY <2>2 DEF ChoosePipeline, LeaveChoice, KeepChoice, ChooseDefault, ChooseCamera, Choosing,
       FQTypeOK, GstTypeOK
  <2>3. ASSUME create[g] \in {"build", "watch"}, NEW s, create' = [create EXCEPT ![g] = s],
               UNCHANGED fqVars
        PROVE  Choosing'
    BY <2>3 DEF Choosing, GstTypeOK, fqVars
  <2> QED
    BY <1>4, <2>1, <2>2, <2>3 DEF CreatePipeline, BuildPipeline, BuildDefaultPipeline,
       BuildCameraPipeline, Build, WatchBus
<1>5. ASSUME NEW g \in Slot, PlayStream(g) \/ StreamEventCallBack(g)
      PROVE  Choosing'
  BY <1>1, <1>5 DEF PlayStream, SetPlaying, LoadLoop, RunLoop, LeaveLoop, StreamEventCallBack,
     BusPlaying, BusError, BusEos, fqVars, threadVars
<1>6. ASSUME NEW g \in Slot,
             \/ NeedData(g)
             \/ ServeNeedData(g)
             \/ SpuriousWakeup(g) /\ UNCHANGED gstVars
      PROVE  Choosing'
  <2>1. CASE NeedData(g) \/ ServeNeedData(g)
    BY <1>1, <2>1 DEF NeedData, ServeNeedData, EnterNeedData, NeedDataCallBack, TestQueue,
       FallAsleep, LeaveOnShutdown, TakeFrame, FrontOfEmpty, gstVars, threadVars
  <2>2. CASE SpuriousWakeup(g) /\ UNCHANGED gstVars
    BY <2>2, WakeKeepsChoosing, ChoosingKept DEF SpuriousWakeup, gstVars, threadVars
  <2> QED
    BY <1>6, <2>1, <2>2
<1>7. CASE VideoMsg
  BY <1>7, WakeKeepsChoosing, ChoosingKept DEF VideoMsg, GrabVideoMsg, Signal, gstVars, threadVars
<1>8. CASE \/ UNCHANGED vars
           \/ PublisherComesOrGoes
           \/ HandleStreamStatus
           \/ MisreadQueue
           \/ VideoStreamCommand
           \/ \E c \in Caller : EmptyQueueFirst(c)
           \/ Destroy
  BY <1>1, <1>8 DEF vars, gstVars, fqVars, PublisherComesOrGoes, HandleStreamStatus, RetryStart,
     SwitchToCamera, SwitchToDefault, MisreadQueue, VideoStreamCommand, StartCommand,
     StopCommand, UntypedCommand, EmptyQueueFirst, ClearQueue, Destroy, threadVars
<1> QED
  BY <1>2, <1>3, <1>4, <1>5, <1>6, <1>7, <1>8 DEF Next, Interface

\* A thread waits for a message before there is a pipeline, or in the one pipeline.
LEMMA OneWaits ==
  ASSUME StillInReach, Choosing
  PROVE  /\ \A g, h \in Asleep \union Waiting : g = h
         /\ Asleep \intersect Waiting = {}
<1>1. \A s \in Asleep : s \in Slot /\ ptr.pipeline = s
  BY DEF Asleep, StillInReach, InReach
<1>2. \A w \in Waiting : ptr.pipeline = None /\ ptr.mCreateThread = w
  BY DEF Waiting, Choosing, StillInReach, NothingPointed, InReach
<1> QED
  BY <1>1, <1>2, NoneAssumption

\* _isStreamShutdown is lowered when no streaming thread is in the callback.
LEMMA LoweredWhenDown ==
  ASSUME GstTypeOK, OneCaller, StreamInv, [Next]_vars, shutdown, ~shutdown'
  PROVE  \A g \in Slot : need[g] = "out"
<1>1. PICK c \in Caller : StartAccepted(c)
  <2>1. ASSUME NEW c \in Caller, StopStream(c)
        PROVE  FALSE
    BY <2>1 DEF StopStream, LowerFlags, RaiseShutdown, Disconnect, Teardown, QuitLoop,
       JoinLoopThread, JoinCreateThread, ReleaseContext, ClearContext, fqVars
  <2>2. ASSUME NEW c \in Caller, StartStream(c), ~StartAccepted(c)
        PROVE  FALSE
    BY <2>2 DEF StartStream, StartIgnored, QuitOldLoop, SpawnCreate, EnterChoice, fqVars
  <2>3. ASSUME NEW g \in Slot, CreatePipeline(g) \/ PlayStream(g) \/ StreamEventCallBack(g)
        PROVE  FALSE
    BY <2>3, PipelineStep DEF CreatePipeline, AwaitFrame, WaitForFrame, TimeOut, ChoosePipeline,
       LeaveChoice, KeepChoice, ChooseDefault, ChooseCamera, BuildPipeline,
       BuildDefaultPipeline, BuildCameraPipeline, Build, WatchBus, fqVars
  <2>4. ASSUME NEW g \in Slot, NeedData(g) \/ ServeNeedData(g) \/ SpuriousWakeup(g)
        PROVE  FALSE
    BY <2>4 DEF NeedData, ServeNeedData, EnterNeedData, NeedDataCallBack, TestQueue, FallAsleep,
       LeaveOnShutdown, TakeFrame, FrontOfEmpty, SpuriousWakeup
  <2>5. CASE \/ UNCHANGED vars
             \/ VideoMsg
             \/ PublisherComesOrGoes
             \/ HandleStreamStatus
             \/ MisreadQueue
             \/ VideoStreamCommand
             \/ \E c \in Caller : EmptyQueueFirst(c)
             \/ Destroy
    BY <2>5 DEF vars, fqVars, VideoMsg, GrabVideoMsg, PublisherComesOrGoes, HandleStreamStatus,
       RetryStart, SwitchToCamera, SwitchToDefault, MisreadQueue, VideoStreamCommand,
       StartCommand, StopCommand, UntypedCommand, EmptyQueueFirst, ClearQueue, Destroy
  <2> QED
    BY <2>1, <2>2, <2>3, <2>4, <2>5 DEF Next, Interface
<1>2. LifeInv
  BY <1>1, CallerAssumption DEF StartAccepted, OneCaller, StreamInv, Deleting, StopSteps
<1>3. Off
  BY <1>1, <1>2 DEF StartAccepted, LifeInv, StartsFromDown, Off, In, OneCaller, StopSteps
<1> QED
  BY <1>2, <1>3, OffMeansNothingLeft DEF NothingLeft

LEMMA NobodyHolds ==
  ASSUME FQTypeOK, MutexFree
  PROVE  \A g \in Slot : need[g] \notin {"sleepy", "awake", "crashed"}
  BY DEF MutexFree, HoldsMutex

\* The one that waits is the one a message wakes.
LEMMA GrabAwaited ==
  ASSUME FQTypeOK, GrabVideoMsg,
         \A g, h \in Asleep \union Waiting : g = h,
         Asleep \intersect Waiting = {}
  PROVE  Awaited'
<1>1. \A g \in Slot : need[g] \notin {"sleepy", "awake", "crashed"}
  BY NobodyHolds DEF GrabVideoMsg
<1>2. PICK N \in SUBSET Asleep, C \in SUBSET Waiting :
        /\ Asleep \union Waiting # {} => N \union C # {}
        /\ Wake(N, C)
  BY DEF GrabVideoMsg, Signal
<1>3. \A g \in Slot : need'[g] \notin {"sleepy", "awake", "crashed"}
  BY <1>1, <1>2 DEF Wake
<1>4. ASSUME NEW w \in Asleep
      PROVE  w \notin Asleep'
  BY <1>2, <1>4 DEF Wake, Asleep
<1>5. ASSUME NEW w \in Waiting
      PROVE  w \notin Waiting'
  BY <1>2, <1>5 DEF Wake, Waiting
<1>6. Asleep' \subseteq Asleep /\ Waiting' \subseteq Waiting
  BY <1>2 DEF Wake, Asleep, Waiting
<1>7. Asleep' \union Waiting' = {}
  BY <1>4, <1>5, <1>6
<1> QED
  BY <1>3, <1>7 DEF Awaited

LEMMA NeedDataAwaited ==
  ASSUME FQTypeOK, MutexHeldByOne, Awaited, NEW g \in Slot,
         EnterNeedData(g) \/ NeedDataCallBack(g)
  PROVE  Awaited'
<1>0. UNCHANGED <<shutdown, choose>> /\ \A h \in Slot : h # g => need'[h] = need[h]
  BY DEF EnterNeedData, NeedDataCallBack, TestQueue, FallAsleep, LeaveOnShutdown, TakeFrame,
     FrontOfEmpty, FQTypeOK
<1>1. Waiting' = Waiting
  BY <1>0 DEF Waiting
<1>2. ASSUME queue' = queue, need'[g] # "crashed",
             need'[g] = "sleepy" \/ need'[g] = "asleep" => queue = <<>>,
             need'[g] = "awake" => queue # <<>> \/ shutdown
      PROVE  Awaited'
  BY <1>0, <1>1, <1>2 DEF Awaited, Asleep
<1>3. CASE EnterNeedData(g)
  BY <1>2, <1>3 DEF EnterNeedData, FQTypeOK
<1>4. CASE TestQueue(g)
  BY <1>2, <1>4 DEF TestQueue, FQTypeOK
<1>5. CASE FallAsleep(g)
  BY <1>2, <1>5 DEF FallAsleep, FQTypeOK, Awaited
<1>6. CASE LeaveOnShutdown(g)
  BY <1>2, <1>6 DEF LeaveOnShutdown, FQTypeOK
<1>7. CASE TakeFrame(g)
  <2>1. need[g] = "awake" /\ queue # <<>> /\ need'[g] = "out"
    BY <1>7 DEF TakeFrame, FQTypeOK
  <2>2. \A h \in Slot : need'[h] \notin {"sleepy", "awake", "crashed"}
    BY <1>0, <2>1 DEF MutexHeldByOne, HoldsMutex
  <2>3. Asleep \union Waiting = {}
    BY <2>1 DEF Awaited
  <2>4. Asleep' \subseteq Asleep
    BY <1>0, <2>1 DEF Asleep
  <2> QED
    BY <1>1, <2>2, <2>3, <2>4 DEF Awaited
<1>8. CASE FrontOfEmpty(g)
  BY <1>8 DEF FrontOfEmpty, Awaited
<1> QED
  BY <1>3, <1>4, <1>5, <1>6, <1>7, <1>8 DEF NeedDataCallBack

LEMMA AwaitedNext ==
  ASSUME FQTypeOK, MutexHeldByOne, Awaited, [FQNext]_fqVars,
         \A g, h \in Asleep \union Waiting : g = h,
         Asleep \intersect Waiting = {},
         shutdown /\ ~shutdown' => \A g \in Slot : need[g] = "out"
  PROVE  Awaited'
<1>1. CASE UNCHANGED fqVars
  BY <1>1 DEF fqVars, Awaited, Asleep, Waiting
<1>2. CASE ClearQueue
  <2>1. \A g \in Slot : need'[g] \notin {"sleepy", "awake", "crashed"}
    BY <1>2, NobodyHolds DEF ClearQueue
  <2> QED
    BY <1>2, <2>1 DEF ClearQueue, Awaited
<1>3. CASE LowerShutdown
  <2>1. /\ UNCHANGED <<queue, need, choose>> /\ Asleep' = Asleep /\ Waiting' = Waiting
        /\ \A g \in Slot : need[g] = "awake" => queue # <<>>
    BY <1>3 DEF LowerShutdown, Awaited, Asleep, Waiting, FQTypeOK
  <2> QED
    BY <2>1 DEF Awaited
<1>4. ASSUME NEW N \in SUBSET Asleep, NEW C \in SUBSET Waiting, Wake(N, C), queue' = queue,
             shutdown => shutdown'
      PROVE  Awaited'
  <2>1. /\ Asleep' \subseteq Asleep /\ Waiting' \subseteq Waiting
        /\ \A g \in Slot : need'[g] \in {"sleepy", "awake", "crashed"} => need'[g] = need[g]
    BY <1>4 DEF Wake, Asleep, Waiting
  <2> QED
    BY <1>4, <2>1 DEF Awaited
<1>5. CASE RaiseShutdown
  BY <1>4, <1>5 DEF RaiseShutdown
<1>6. ASSUME NEW g \in Slot, SpuriousWakeup(g)
      PROVE  Awaited'
  BY <1>4, <1>6 DEF SpuriousWakeup
<1>7. ASSUME NEW g \in Slot, EnterChoice(g) \/ LeaveChoice(g) \/ WaitForFrame(g) \/ TimeOut(g)
      PROVE  Awaited'
  <2>1. UNCHANGED <<queue, need, shutdown>> /\ (queue = <<>> \/ Waiting' \subseteq Waiting)
    BY <1>7 DEF EnterChoice, LeaveChoice, KeepChoice, ChooseDefault, ChooseCamera, WaitForFrame,
       TimeOut, Waiting, FQTypeOK
  <2> QED
    BY <2>1 DEF Awaited, Asleep
<1> QED
  BY <1>1, <1>2, <1>3, <1>5, <1>6, <1>7, GrabAwaited, NeedDataAwaited DEF FQNext

\* When a streaming thread comes to take the front of the queue there is one, and the
\* creating thread waits only while it chooses.
LEMMA AwaitedHolds == Spec => [](Choosing /\ (InTurn => Awaited))
<1>1. Init => Choosing /\ Awaited
  BY DEF Init, FQInit, Choosing, Awaited, Asleep, Waiting
<1>2. GstTypeOK /\ FQInv /\ (InTurn => OneCaller /\ StreamInv /\ Awaited) /\ Choosing
        /\ [Next]_vars => (Choosing /\ (InTurn => Awaited))'
  <2> SUFFICES ASSUME GstTypeOK, FQInv, InTurn => OneCaller /\ StreamInv /\ Awaited, Choosing,
                      [Next]_vars
               PROVE  Choosing' /\ (InTurn' => Awaited')
    OBVIOUS
  <2>1. Choosing'
    BY ChoosingNext DEF FQInv
  <2>2. [FQNext]_fqVars
    BY MonitorStep
  <2>3. ASSUME InTurn'
        PROVE  Awaited'
    <3>1. OneCaller /\ StreamInv /\ Awaited
      BY <2>3, MetStays DEF InTurn
    <3>2. shutdown /\ ~shutdown' => \A g \in Slot : need[g] = "out"
      BY <3>1, LoweredWhenDown
    <3>3. StillInReach
      BY <3>1, LifeIsInReach DEF StreamInv
    <3> QED
      BY <2>2, <3>1, <3>2, <3>3, OneWaits, AwaitedNext DEF FQInv
  <2> QED
    BY <2>1, <2>3
<1> QED
  BY <1>1, <1>2, LifeHolds, NodeBasics, PTL DEF Spec

\* A message that comes in leaves no thread asleep: g_cond_signal wakes one thread, and as
\* long as calls come in turn there is never a second that waits on the condition, neither
\* a streaming thread beside the creating thread nor one of an earlier start.
THEOREM NobodyLeftAsleep == Spec => []NobodySleepsOnData
<1>1. (InTurn => Awaited) => NobodySleepsOnData
  BY DEF Awaited, NobodySleepsOnData
<1> QED
  BY <1>1, AwaitedHolds, PTL

-----------------------------------------------------------------------------
(* A stop command and the timer.                                              *)

LEMMA ThroughNext ==
  ASSUME GstTypeOK, LifeInv, PlayingIsThrough, [Next]_vars
  PROVE  PlayingIsThrough'
<1>1. ASSUME flag'.playing => flag.playing,
             \A g \in Slot : pipe'[g] \in {"ready", "connecting"} => pipe[g] \in {"ready", "connecting"}
      PROVE  PlayingIsThrough'
  BY <1>1 DEF PlayingIsThrough, NoneConnects
<1>2. ASSUME NEW c \in Caller, StartStream(c) \/ StopStream(c)
      PROVE  PlayingIsThrough'
  BY <1>1, <1>2 DEF StartStream, StartIgnored, StartAccepted, QuitOldLoop, SpawnCreate,
     StopStream, LowerFlags, Disconnect, Teardown, QuitLoop, JoinLoopThread, JoinCreateThread,
     ReleaseContext, ClearContext, GstTypeOK, pipeVars
<1>3. ASSUME NEW g \in Slot, CreatePipeline(g)
      PROVE  PlayingIsThrough'
  <2>1. create[g] \in {"choose", "build", "watch"} /\ flag' = flag
    BY <1>3 DEF CreatePipeline, AwaitFrame, ChoosePipeline, BuildPipeline, BuildDefaultPipeline,
       BuildCameraPipeline, Build, WatchBus, gstVars
  <2> QED
    BY <2>1, Creating DEF PlayingIsThrough
<1>4. ASSUME NEW g \in Slot, PlayStream(g)
      PROVE  PlayingIsThrough'
  BY <1>1, <1>4 DEF PlayStream, SetPlaying, LoadLoop, RunLoop, LeaveLoop, pipeVars
<1>5. ASSUME NEW g \in Slot, BusPlaying(g)
      PROVE  PlayingIsThrough'
  <2>1. \A h \in Slot : h # g => pipe[h] \notin {"ready", "connecting"}
    BY <1>5 DEF BusPlaying, LifeInv, InReach, Alive
  <2> QED
    BY <1>5, <2>1 DEF BusPlaying, GstTypeOK, PlayingIsThrough, NoneConnects
<1>6. ASSUME NEW g \in Slot, BusError(g) \/ BusEos(g)
      PROVE  PlayingIsThrough'
  BY <1>1, <1>6 DEF BusError, BusEos, GstTypeOK, pipeVars
<1>7. CASE \/ UNCHANGED vars
           \/ VideoMsg
           \/ PublisherComesOrGoes
           \/ HandleStreamStatus
           \/ MisreadQueue
           \/ VideoStreamCommand
           \/ \E c \in Caller : EmptyQueueFirst(c)
           \/ Destroy
           \/ \E g \in Slot :
                \/ Interface(NeedData(g))
                \/ Interface(ServeNeedData(g))
                \/ Interface(SpuriousWakeup(g) /\ UNCHANGED gstVars)
  <2>1. UNCHANGED <<flag, pipe>>
    BY <1>7 DEF vars, gstVars, pipeVars, VideoMsg, PublisherComesOrGoes, HandleStreamStatus,
       RetryStart, SwitchToCamera, SwitchToDefault, MisreadQueue, VideoStreamCommand,
       StartCommand, StopCommand, UntypedCommand, EmptyQueueFirst, Destroy, Interface, NeedData,
       ServeNeedData
  <2> QED
    BY <1>1, <2>1
<1> QED
  BY <1>2, <1>3, <1>4, <1>5, <1>6, <1>7 DEF Next, Interface, StreamEventCallBack

LEMMA StopRequestedNext ==
  ASSUME GstTypeOK, OneCaller, LifeInv, PlayingIsThrough, StopRequested, [Next]_vars,
         Undisturbed'
  PROVE  StopRequested'
<1>0. {"timer", "cmd", "main"} = Caller
  BY CallerAssumption
<1>1. ASSUME UNCHANGED <<pc, stopRequested>>, flag'.starting = flag.starting,
             flag'.playing => flag.playing,
             \A g \in Slot : pipe'[g] \in {"ready", "connecting"} => pipe[g] \in {"ready", "connecting"}
      PROVE  StopRequested'
  BY <1>1 DEF StopRequested, NoneConnects, In
<1>2. CASE ~stopRequested'
  BY <1>2 DEF StopRequested
<1>3. ASSUME NEW c \in Caller, Idle, Goto(c, "stop"), UNCHANGED <<flag, pipe>>,
             flag.playing \/ (stopRequested' = stopRequested)
      PROVE  StopRequested'
  BY <1>3 DEF StopRequested, PlayingIsThrough, NoneConnects, Idle, Goto, GstTypeOK, In, StopSteps
<1>4. ASSUME NEW c \in Caller, StartStream(c), UNCHANGED stopRequested
      PROVE  StopRequested'
  BY <1>2, <1>4 DEF StartStream, StartIgnored, StartAccepted, QuitOldLoop, SpawnCreate, StopRequested,
     StopSteps
<1>5. ASSUME NEW c \in Caller, StopStream(c), UNCHANGED stopRequested, stopRequested
      PROVE  StopRequested'
  <2>1. /\ pc[c] \in StopSteps /\ pc'[c] \in StopSteps \union {"idle", "gone"}
        /\ \A d \in Caller : d # c => pc'[d] = "idle"
    BY <1>5, Alone DEF StopStream, LowerFlags, Disconnect, Teardown, QuitLoop, JoinLoopThread,
       JoinCreateThread, ReleaseContext, ClearContext, StopSteps
  <2>2. NoneConnects'
    BY <1>5 DEF StopStream, LowerFlags, Disconnect, Teardown, QuitLoop, JoinLoopThread,
       JoinCreateThread, ReleaseContext, ClearContext, StopRequested, NoneConnects, pipeVars
  <2>3. ~flag'.playing
    <3>1. CASE LowerFlags(c)
      BY <3>1 DEF LowerFlags, GstTypeOK
    <3>2. CASE ~LowerFlags(c)
      <4>1. pc[c] # "stop" /\ flag' = flag
        BY <1>5, <3>2 DEF StopStream, Disconnect, Teardown, QuitLoop, JoinLoopThread,
           JoinCreateThread, ReleaseContext, ClearContext
      <4>2. ~In({"stop"})
        BY <2>1, <4>1 DEF OneCaller, In, StopSteps
      <4> QED
        BY <1>5, <4>1, <4>2 DEF StopRequested
    <3> QED
      BY <3>1, <3>2
  <2>4. CASE ClearContext(c)
    <3>1. ~flag'.starting
      BY <2>4 DEF ClearContext, LifeInv, StopProgress, In, AfterDisconnect
    <3> QED
      BY <2>1, <2>2, <2>3, <3>1 DEF StopRequested
  <2>5. CASE ~ClearContext(c)
    <3>1. In(StopSteps)'
      BY <1>5, <2>5 DEF StopStream, LowerFlags, Disconnect, Teardown, QuitLoop, JoinLoopThread,
         JoinCreateThread, ReleaseContext, Goto, GstTypeOK, StopSteps, In
    <3> QED
      BY <2>1, <2>2, <2>3, <3>1 DEF StopRequested
  <2> QED
    BY <2>4, <2>5
<1>6. ASSUME NEW g \in Slot, CreatePipeline(g), UNCHANGED stopRequested
      PROVE  StopRequested'
  <2>1. create[g] \in {"choose", "build", "watch"}
    BY <1>6 DEF CreatePipeline, AwaitFrame, ChoosePipeline, BuildPipeline, BuildDefaultPipeline,
       BuildCameraPipeline, Build, WatchBus
  <2>2. Idle /\ flag.starting
    BY <2>1, Creating
  <2> QED
    BY <1>2, <1>6, <2>2 DEF StopRequested, Idle, In, StopSteps
<1>7. ASSUME NEW g \in Slot, UNCHANGED stopRequested, stopRequested,
             PlayStream(g) \/ StreamEventCallBack(g)
      PROVE  StopRequested'
  <2>1. ~BusPlaying(g)
    BY <1>7 DEF BusPlaying, StopRequested, NoneConnects
  <2> QED
    BY <1>1, <1>7, <2>1 DEF PlayStream, SetPlaying, LoadLoop, RunLoop, LeaveLoop,
       StreamEventCallBack, BusError, BusEos, GstTypeOK, pipeVars
<1>8. CASE \/ UNCHANGED vars
           \/ VideoMsg
           \/ PublisherComesOrGoes
           \/ UntypedCommand
           \/ \E g \in Slot :
                \/ Interface(NeedData(g))
                \/ Interface(ServeNeedData(g))
                \/ Interface(SpuriousWakeup(g) /\ UNCHANGED gstVars)
  BY <1>1, <1>8 DEF vars, nodeVars, gstVars, pipeVars, VideoMsg, PublisherComesOrGoes,
     UntypedCommand, Interface, NeedData, ServeNeedData
<1>9. CASE HandleStreamStatus \/ MisreadQueue
  BY <1>2, <1>9 DEF HandleStreamStatus, RetryStart, SwitchToCamera, SwitchToDefault,
     MisreadQueue, TimerFires, nodeVars
<1>10. ASSUME NEW a \in StartArgs, StartCommand(a)
       PROVE  StopRequested'
  BY <1>1, <1>2, <1>10 DEF StartCommand, AcceptStart, RefuseProfile, pipeVars
<1>11. CASE StopCommand \/ Destroy
  BY <1>0, <1>3, <1>11, CallInTurn DEF StopCommand, Destroy, pipeVars, nodeVars
<1>12. ASSUME NEW c \in Caller, EmptyQueueFirst(c)
       PROVE  StopRequested'
  BY <1>2, <1>12 DEF EmptyQueueFirst, nodeVars, StopRequested, StopSteps
<1> QED
  BY <1>2, <1>4, <1>5, <1>6, <1>7, <1>8, <1>9, <1>10, <1>11, <1>12 DEF Next, Interface, nodeVars,
     VideoStreamCommand

\* After a stop command the timer leaves the stream down until a start command comes,
\* however long a connection took before it, if calls come in turn: the command is obeyed
\* only while the stream is taken to play, and then nothing is connecting that could raise
\* the flag once more.
THEOREM StopStaysHeld == Spec => []StopHolds
<1> DEFINE Held == Undisturbed => PlayingIsThrough /\ StopRequested
<1>1. Init => Held
  BY DEF Init, GstInit, StopRequested, PlayingIsThrough, NoneConnects
<1>2. GstTypeOK /\ (InTurn => OneCaller) /\ (InTurn => StreamInv) /\ Held /\ [Next]_vars => Held'
  BY ThroughNext, StopRequestedNext, UndisturbedBefore DEF StreamInv, Undisturbed
<1>3. (InTurn => StreamInv) /\ Held => StopHolds
  <2> SUFFICES ASSUME StreamInv, Held, InTurn, Idle, stopRequested
               PROVE  ~flag.starting /\ ~flag.playing /\ ptr.pipeline = None
    BY DEF StopHolds
  <2>1. "cut" \notin met
    BY CallerAssumption DEF StreamInv, Idle, Deleting, StopSteps
  <2>2. Off /\ ~flag.starting /\ ~flag.playing
    BY <2>1 DEF Undisturbed, StopRequested, Idle, In, StopSteps, Off
  <2> QED
    BY <2>1, <2>2 DEF StreamInv, LifeInv, OffIsClean, NothingPointed
<1> HIDE DEF Held
<1> QED
  BY <1>1, <1>2, <1>3, LifeHolds, NodeBasics, PTL DEF Spec

-----------------------------------------------------------------------------
(* The truth of _isStreamPlaying, when no stop meets a connection.            *)

LEMMA StartStreamUp ==
  ASSUME GstTypeOK, OneCaller, LifeInv, NEW c \in Caller, StartStream(c)
  PROVE  UpInv'
<1>0. "timer" \in Caller
  BY CallerAssumption
<1>1. /\ pc[c] \in StartSteps /\ pc'[c] \in {"idle", "quitOld", "spawn"}
      /\ \A d \in Caller : d # c => pc'[d] = "idle"
  BY Alone DEF StartStream, StartIgnored, StartAccepted, QuitOldLoop, SpawnCreate, StartSteps
<1>2. ~flag.playing /\ ~flag'.playing
  BY <1>1 DEF LifeInv, StartsFromDown, In, StartSteps, StartStream, StartIgnored, StartAccepted,
     QuitOldLoop, SpawnCreate, GstTypeOK
<1>3. ~Ending'
  BY <1>0, <1>1 DEF Ending, In, StopSteps
<1> QED
  BY <1>2, <1>3 DEF UpInv, NothingConnects, PlayingIsUp

LEMMA CreatePipelineUp ==
  ASSUME LifeInv, NEW g \in Slot, CreatePipeline(g)
  PROVE  UpInv'
<1>0. "timer" \in Caller
  BY CallerAssumption
<1>1. create[g] \in {"choose", "build", "watch"} /\ UNCHANGED <<flag, pc>>
  BY DEF CreatePipeline, AwaitFrame, ChoosePipeline, BuildPipeline, BuildDefaultPipeline,
         BuildCameraPipeline, Build, WatchBus, gstVars
<1>2. Idle /\ ~flag.playing
  BY <1>1, Creating
<1>3. ~Ending'
  BY <1>0, <1>1, <1>2 DEF Idle, Ending, In, StopSteps
<1> QED
  BY <1>1, <1>2, <1>3 DEF UpInv, NothingConnects, PlayingIsUp

LEMMA PlayStreamUp ==
  ASSUME GstTypeOK, UpInv, NEW g \in Slot, PlayStream(g)
  PROVE  UpInv'
<1>1. /\ UNCHANGED <<flag, ptr, pc>>
      /\ \A h \in Slot : pipe'[h] = pipe[h] \/ (pipe[h] = "ready" /\ pipe'[h] = "connecting")
  BY DEF PlayStream, SetPlaying, LoadLoop, RunLoop, LeaveLoop, GstTypeOK, pipeVars
<1>2. \A S : In(S)' <=> In(S)
  BY <1>1 DEF In
<1>3. NothingConnects'
  BY <1>1, <1>2 DEF UpInv, NothingConnects, NoneConnects, Ending
<1>4. PlayingIsUp'
  BY <1>1, <1>2 DEF UpInv, PlayingIsUp, GstTypeOK, PtrField
<1> QED
  BY <1>3, <1>4 DEF UpInv

\* What a pipeline that is connecting tells of the flags.
LEMMA Connecting ==
  ASSUME LifeInv, UpInv, NEW g \in Slot, pipe[g] = "connecting"
  PROVE  ptr.pipeline = g /\ flag.starting /\ ~flag.playing /\ ~In(StopSteps)
<1>1. Alive(g) /\ ptr.pipeline = g
  BY DEF Alive, LifeInv, InReach
<1>2. ~In(StopSteps)
  BY DEF UpInv, NothingConnects, NoneConnects, Ending
<1>3. flag.starting
  BY <1>1, <1>2, NoneAssumption DEF LifeInv, OffIsClean, NothingPointed, Off
<1> QED
  BY <1>1, <1>2, <1>3 DEF UpInv, PlayingIsUp

LEMMA BusUp ==
  ASSUME GstTypeOK, LifeInv, UpInv, NEW g \in Slot, StreamEventCallBack(g)
  PROVE  UpInv'
<1>1. UNCHANGED <<ptr, pc>> /\ flag'.starting = flag.starting
  BY DEF StreamEventCallBack, BusPlaying, BusError, BusEos, GstTypeOK
<1>2. \A S : In(S)' <=> In(S)
  BY <1>1 DEF In
<1>3. \A h \in Slot : pipe'[h] = pipe[h] \/ pipe'[h] \in {"up", "failed"}
  BY DEF StreamEventCallBack, BusPlaying, BusError, BusEos, GstTypeOK, pipeVars
<1>4. NothingConnects'
  BY <1>1, <1>2, <1>3 DEF UpInv, NothingConnects, NoneConnects, Ending
<1>5. PlayingIsUp'
  <2>1. CASE BusPlaying(g)
    <3>1. ptr.pipeline = g /\ flag.starting /\ ~In({"disconnect"} \union AfterDisconnect)
      BY <2>1, Connecting DEF BusPlaying, In, StopSteps, AfterDisconnect
    <3>2. pipe'[g] = "up" /\ ptr'.pipeline = g
      BY <1>1, <2>1, <3>1 DEF BusPlaying, GstTypeOK
    <3> QED
      BY <1>1, <1>2, <3>1, <3>2, NoneAssumption DEF PlayingIsUp
  <2>2. CASE BusError(g)
    BY <2>2 DEF BusError, GstTypeOK, PlayingIsUp
  <2>3. CASE BusEos(g)
    BY <1>1, <1>2, <2>3 DEF BusEos, UpInv, PlayingIsUp, pipeVars
  <2> QED
    BY <2>1, <2>2, <2>3 DEF StreamEventCallBack
<1> QED
  BY <1>4, <1>5 DEF UpInv

LEMMA StopStreamUp ==
  ASSUME GstTypeOK, OneCaller, LifeInv, UpInv, NEW c \in Caller, StopStream(c)
  PROVE  UpInv'
<1>1. Ending
  BY DEF StopStream, LowerFlags, Disconnect, Teardown, QuitLoop, JoinLoopThread,
         JoinCreateThread, ReleaseContext, ClearContext, Ending, In, StopSteps
<1>2. NothingConnects'
  <2>1. \A g \in Slot : pipe'[g] = pipe[g] \/ pipe'[g] = "disposed"
    BY DEF StopStream, LowerFlags, Disconnect, Teardown, QuitLoop, JoinLoopThread,
       JoinCreateThread, ReleaseContext, ClearContext, pipeVars
  <2> QED
    BY <1>1, <2>1 DEF UpInv, NothingConnects, NoneConnects
<1>3. ~flag'.playing
  <2>1. CASE LowerFlags(c)
    BY <2>1 DEF LowerFlags, GstTypeOK
  <2>2. CASE ~LowerFlags(c)
    <3>1. In({"disconnect"} \union AfterDisconnect) /\ flag' = flag
      BY <2>2 DEF StopStream, Disconnect, Teardown, QuitLoop, JoinLoopThread, JoinCreateThread,
         ReleaseContext, ClearContext, In, AfterDisconnect
    <3> QED
      BY <3>1 DEF UpInv, PlayingIsUp
  <2> QED
    BY <2>1, <2>2
<1> QED
  BY <1>2, <1>3 DEF UpInv, PlayingIsUp

LEMMA UpKept ==
  ASSUME UpInv, UNCHANGED <<flag, ptr, pipe, pc>>
  PROVE  UpInv'
  BY DEF UpInv, NothingConnects, NoneConnects, PlayingIsUp, Ending, In

\* A call that stops the stream finds the connection come to its outcome.
LEMMA CallUp ==
  ASSUME GstTypeOK, UpInv, NEW c \in Caller, NEW l \in {"start", "clear", "stop"}, Call(c, l),
         Unhurried', UNCHANGED <<flag, ptr, pipe>>
  PROVE  UpInv'
<1>1. Idle /\ Goto(c, l)
  BY CallInTurn DEF Unhurried
<1>2. /\ \A d \in Caller : pc[d] = "idle" /\ pc'[d] = IF d = c THEN l ELSE "idle"
      /\ "timer" \in Caller
  BY <1>1, CallerAssumption DEF Idle, Goto, GstTypeOK
<1>3. l = "stop" \/ (l = "clear" /\ c = "timer") => NoneConnects
  BY CallerAssumption DEF Unhurried, Call, Meets, Meeting, NoneConnects
<1>4. NothingConnects'
  BY <1>2, <1>3 DEF NothingConnects, NoneConnects, Ending, In, StopSteps
<1>5. PlayingIsUp'
  BY <1>2 DEF UpInv, PlayingIsUp, In, AfterDisconnect
<1> QED
  BY <1>4, <1>5 DEF UpInv

\* What the node does: a call begins, or goes on when it has emptied the queue, or nothing
\* becomes of the stream.
LEMMA NodeCalls ==
  ASSUME \/ VideoMsg
         \/ PublisherComesOrGoes
         \/ HandleStreamStatus
         \/ MisreadQueue
         \/ VideoStreamCommand
         \/ \E c \in Caller : EmptyQueueFirst(c)
         \/ Destroy
  PROVE  /\ UNCHANGED <<flag, ptr, create, play, pipe>>
         /\ fault' = fault \/ fault' = "sink"
         /\ \/ UNCHANGED pc
            \/ \E c \in Caller : \E l \in {"start", "clear", "stop"} : Call(c, l)
            \/ \E c \in Caller : EmptyQueueFirst(c)
<1>0. {"timer", "cmd", "main"} = Caller
  BY CallerAssumption
<1>1. CASE VideoMsg \/ PublisherComesOrGoes \/ \E c \in Caller : EmptyQueueFirst(c)
  BY <1>1 DEF VideoMsg, PublisherComesOrGoes, EmptyQueueFirst, gstVars, threadVars, pipeVars
<1>2. CASE HandleStreamStatus \/ MisreadQueue
  BY <1>0, <1>2 DEF HandleStreamStatus, RetryStart, SwitchToCamera, SwitchToDefault, MisreadQueue,
     threadVars, pipeVars
<1>3. CASE VideoStreamCommand
  <2>1. ASSUME NEW a \in StartArgs, StartCommand(a)
        PROVE  /\ UNCHANGED <<flag, ptr, create, play, pipe>>
               /\ fault' = fault \/ fault' = "sink"
               /\ UNCHANGED pc \/ Call("cmd", "clear")
    BY <2>1 DEF StartCommand, AcceptStart, RefuseProfile, ApplyAddress, SetStreamAddress,
       threadVars, pipeVars
  <2>2. CASE StopCommand \/ UntypedCommand
    BY <1>0, <2>2 DEF StopCommand, UntypedCommand, gstVars, threadVars, pipeVars
  <2> QED
    BY <1>0, <1>3, <2>1, <2>2 DEF VideoStreamCommand
<1>4. CASE Destroy
  BY <1>0, <1>4 DEF Destroy, threadVars, pipeVars
<1> QED
  BY <1>1, <1>2, <1>3, <1>4

LEMMA EmptiedUp ==
  ASSUME GstTypeOK, OneCaller, UpInv, NEW c \in Caller, EmptyQueueFirst(c)
  PROVE  UpInv'
<1>1. /\ pc[c] = "clear" /\ pc'[c] = IF c = "timer" THEN "stop" ELSE "start"
      /\ \A d \in Caller : d # c => pc[d] = "idle" /\ pc'[d] = "idle"
      /\ UNCHANGED <<flag, ptr, pipe>> /\ "timer" \in Caller
  BY CallerAssumption, Alone DEF EmptyQueueFirst, pipeVars
<1> QED
  BY <1>1 DEF UpInv, NothingConnects, NoneConnects, PlayingIsUp, Ending, In, StopSteps,
     AfterDisconnect

LEMMA UpNext ==
  ASSUME GstTypeOK, OneCaller, LifeInv, UpInv, [Next]_vars, Unhurried'
  PROVE  UpInv'
<1>1. CASE UNCHANGED gstVars
  BY <1>1, UpKept DEF gstVars, threadVars, pipeVars
<1>2. ASSUME NEW c \in Caller, Interface(StartStream(c)) \/ Interface(StopStream(c))
      PROVE  UpInv'
  BY <1>2, StartStreamUp, StopStreamUp DEF Interface
<1>3. ASSUME NEW g \in Slot,
             \/ Interface(CreatePipeline(g))
             \/ Interface(PlayStream(g))
             \/ Interface(StreamEventCallBack(g))
      PROVE  UpInv'
  BY <1>3, CreatePipelineUp, PlayStreamUp, BusUp DEF Interface
<1>4. CASE \/ UNCHANGED vars
           \/ \E g \in Slot :
                \/ Interface(NeedData(g))
                \/ Interface(ServeNeedData(g))
                \/ Interface(SpuriousWakeup(g) /\ UNCHANGED gstVars)
  BY <1>1, <1>4 DEF vars, Interface, NeedData, ServeNeedData
<1>5. CASE \/ VideoMsg
           \/ PublisherComesOrGoes
           \/ HandleStreamStatus
           \/ MisreadQueue
           \/ VideoStreamCommand
           \/ \E c \in Caller : EmptyQueueFirst(c)
           \/ Destroy
  BY <1>5, NodeCalls, CallUp, EmptiedUp, UpKept
<1> QED
  BY <1>2, <1>3, <1>4, <1>5 DEF Next

LEMMA UpHolds == Spec => [](Unhurried => UpInv)
<1>1. Init => (Unhurried => UpInv)
  <2>1. ASSUME Init PROVE /\ ~flag.playing /\ \A g \in Slot : pipe[g] = "none"
    BY <2>1 DEF Init, GstInit
  <2> QED
    BY <2>1 DEF UpInv, NothingConnects, NoneConnects, PlayingIsUp
<1>2. GstTypeOK /\ (InTurn => OneCaller) /\ (InTurn => StreamInv) /\ (Unhurried => UpInv)
        /\ [Next]_vars => (Unhurried => UpInv)'
  BY UpNext, MetStays DEF StreamInv, Unhurried, Undisturbed, InTurn
<1> QED
  BY <1>1, <1>2, LifeHolds, NodeBasics, PTL DEF Spec

\* If calls come in turn and no stop meets a connection, IsStreamPlaying tells the truth
\* between the calls: the pipeline that StopStream would stop is up.
THEOREM PlayingStaysTrue == Spec => []PlayingIsTrue
<1>1. (InTurn => StreamInv) /\ (Unhurried => UpInv) => PlayingIsTrue
  BY CallerAssumption DEF StreamInv, Unhurried, Undisturbed, UpInv, PlayingIsUp, PlayingIsTrue,
     Deleting, Idle, StopSteps
<1> QED
  BY <1>1, LifeHolds, UpHolds, PTL

-----------------------------------------------------------------------------
(* The timer.                                                                 *)

LEMMA TimerCalls ==
  ASSUME GstTypeOK, [Next]_vars, pc["timer"] = "idle", pc'["timer"] # "idle"
  PROVE  /\ pc["main"] = "idle"
         /\ \/ ~flag.playing /\ pc'["timer"] = IF flag.starting THEN "stop" ELSE "start"
            \/ flag.playing /\ pc'["timer"] \in {"stop", "clear"}
<1>0. "timer" \in Caller /\ pc \in [Caller -> CallerState]
  BY CallerAssumption DEF GstTypeOK
<1>1. CASE HandleStreamStatus \/ MisreadQueue
  BY <1>0, <1>1 DEF HandleStreamStatus, RetryStart, SwitchToCamera, SwitchToDefault, MisreadQueue,
     TimerFires, MayRun, Call, Goto
<1>2. ASSUME NEW c \in Caller, StartStream(c) \/ StopStream(c) \/ EmptyQueueFirst(c)
      PROVE  FALSE
  <2>1. pc[c] # "idle" /\ \A d \in Caller \ {c} : pc'[d] = pc[d]
    BY <1>0, <1>2 DEF StartStream, StartIgnored, StartAccepted, QuitOldLoop, SpawnCreate,
       StopStream, LowerFlags, Disconnect, Teardown, QuitLoop, JoinLoopThread, JoinCreateThread,
       ReleaseContext, ClearContext, EmptyQueueFirst, Goto
  <2> QED
    BY <1>0, <2>1
<1>3. CASE VideoStreamCommand \/ Destroy
  <2>1. pc'["timer"] = pc["timer"]
    BY <1>0, <1>3 DEF VideoStreamCommand, StartCommand, AcceptStart, RefuseProfile, StopCommand,
       UntypedCommand, Destroy, Call, Goto, gstVars
  <2> QED
    BY <2>1
<1>4. ASSUME NEW g \in Slot,
             \/ CreatePipeline(g) \/ PlayStream(g) \/ StreamEventCallBack(g)
             \/ NeedData(g) \/ ServeNeedData(g)
             \/ SpuriousWakeup(g) /\ UNCHANGED gstVars
      PROVE  FALSE
  <2>1. CASE CreatePipeline(g)
    BY <2>1 DEF CreatePipeline, AwaitFrame, ChoosePipeline, BuildPipeline, BuildDefaultPipeline,
       BuildCameraPipeline, Build, WatchBus, gstVars
  <2>2. CASE PlayStream(g) \/ StreamEventCallBack(g)
    BY <2>2 DEF PlayStream, SetPlaying, LoadLoop, RunLoop, LeaveLoop, StreamEventCallBack,
       BusPlaying, BusError, BusEos
  <2>3. CASE \/ NeedData(g) \/ ServeNeedData(g)
             \/ SpuriousWakeup(g) /\ UNCHANGED gstVars
    BY <2>3 DEF NeedData, ServeNeedData, gstVars
  <2> QED
    BY <1>4, <2>1, <2>2, <2>3
<1>5. CASE VideoMsg \/ PublisherComesOrGoes \/ UNCHANGED vars
  BY <1>5 DEF VideoMsg, PublisherComesOrGoes, vars, gstVars
<1> QED
  BY <1>1, <1>2, <1>3, <1>4, <1>5 DEF Next, Interface

\* While calls come in turn and no stop has met a connection, the timer itself stays in
\* turn: what it starts is down, what it stops is not, whatever errors and commands have
\* made of the flags.
THEOREM TimerStaysInTurn == Spec => TimerInTurn
<1>1. ASSUME GstTypeOK, InTurn => StreamInv, Unhurried => UpInv, [Next]_vars
      PROVE  [InTurn /\ "connection" \notin met /\ pc["timer"] = "idle" /\ pc'["timer"] # "idle"
                => Meets("timer", pc'["timer"]) \cap {"stream", "stopped"} = {}]_vars
  <2> SUFFICES ASSUME InTurn, "connection" \notin met, pc["timer"] = "idle",
                      pc'["timer"] # "idle"
               PROVE  Meets("timer", pc'["timer"]) \cap {"stream", "stopped"} = {}
    OBVIOUS
  <2>1. /\ pc["main"] = "idle"
        /\ \/ ~flag.playing /\ pc'["timer"] = IF flag.starting THEN "stop" ELSE "start"
           \/ flag.playing /\ pc'["timer"] \in {"stop", "clear"}
    BY <1>1, TimerCalls
  <2>2. "cut" \notin met
    BY <1>1, <2>1 DEF StreamInv, Deleting, StopSteps
  <2>3. flag.playing => flag.starting
    BY <1>1, <2>2 DEF Unhurried, Undisturbed, UpInv, PlayingIsUp
  <2> QED
    BY <2>1, <2>3 DEF Meets
<1>2. Spec => [](GstTypeOK /\ (InTurn => StreamInv) /\ (Unhurried => UpInv))
  BY LifeHolds, UpHolds, NodeBasics, PTL
<1>3. GstTypeOK /\ (InTurn => StreamInv) /\ (Unhurried => UpInv) /\ [Next]_vars
        => [InTurn /\ "connection" \notin met /\ pc["timer"] = "idle" /\ pc'["timer"] # "idle"
              => Meets("timer", pc'["timer"]) \cap {"stream", "stopped"} = {}]_vars
  BY <1>1
<1> QED
  BY <1>2, <1>3, PTL DEF Spec, TimerInTurn

-----------------------------------------------------------------------------
(* No thread is joined twice, when no stop meets a stream that was stopped.   *)

LEMMA StartStreamJoins ==
  ASSUME GstTypeOK, OneCaller, LifeInv, Joinable, NEW c \in Caller, StartStream(c)
  PROVE  Joinable'
<1>0. "timer" \in Caller
  BY CallerAssumption
<1>1. /\ pc[c] \in StartSteps /\ pc'[c] \in {"idle", "quitOld", "spawn"}
      /\ \A d \in Caller : d # c => pc'[d] = "idle"
  BY Alone DEF StartStream, StartIgnored, StartAccepted, QuitOldLoop, SpawnCreate, StartSteps
<1>2. ~StartIgnored(c) /\ fault' = fault
  BY <1>1 DEF LifeInv, StartsFromDown, In, StartSteps, StartStream, StartIgnored, StartAccepted,
     QuitOldLoop, SpawnCreate
<1>3. ThreadsGone
  BY <1>1 DEF LifeInv, StartsFromDown, OffIsClean, Off, In, OneCaller, StartSteps, StopSteps
<1>4. ~In(UntilJoined)' /\ pc'["timer"] # "clear"
  BY <1>0, <1>1 DEF In, UntilJoined
<1>5. \A g \in Slot : create'[g] # "done"
  BY <1>3 DEF ThreadsGone, Gone, StartStream, StartIgnored, StartAccepted, QuitOldLoop,
     SpawnCreate, GstTypeOK, threadVars
<1>6. \/ In({"quitOld", "spawn"})' /\ ptr'.mCreateThread = ptr.mCreateThread
         /\ ptr'.mLoopThread = ptr.mLoopThread
      \/ ptr'.mCreateThread # None /\ create'[ptr'.mCreateThread] \notin Gone
  <2>1. CASE SpawnCreate(c)
    BY <2>1, NoneAssumption DEF SpawnCreate, GstTypeOK, PtrField, Gone
  <2>2. CASE StartAccepted(c) \/ QuitOldLoop(c)
    BY <2>2 DEF StartAccepted, QuitOldLoop, Goto, GstTypeOK, PtrField, In
  <2> QED
    BY <1>2, <2>1, <2>2 DEF StartStream
<1> QED
  BY <1>2, <1>4, <1>5, <1>6 DEF Joinable

LEMMA CreatePipelineJoins ==
  ASSUME GstTypeOK, LifeInv, Joinable, NEW g \in Slot, CreatePipeline(g)
  PROVE  Joinable'
<1>0. "timer" \in Caller
  BY CallerAssumption
<1>1. create[g] \in {"choose", "build", "watch"} /\ UNCHANGED <<flag, pc, fault>>
  BY DEF CreatePipeline, AwaitFrame, ChoosePipeline, BuildPipeline, BuildDefaultPipeline,
         BuildCameraPipeline, Build, WatchBus, gstVars
<1>2. /\ Idle /\ ptr.mCreateThread = g
      /\ \A h \in Slot : h # g => create[h] \in Gone
  BY <1>1, Creating
<1>3. ~In(UntilJoined)' /\ pc'["timer"] # "clear"
  BY <1>0, <1>1, <1>2 DEF Idle, In, UntilJoined
<1>4. /\ create'[g] \notin Gone /\ \A h \in Slot : h # g => create'[h] = create[h]
      /\ ptr'.mCreateThread = g
  <2>1. ASSUME NEW F, Build(g, F), "mCreateThread" \notin F
        PROVE  ptr'.mCreateThread = g
    BY <1>2, <2>1 DEF Build, GstTypeOK, PtrField
  <2>2. CASE BuildPipeline(g)
    BY <1>2, <2>1, <2>2 DEF BuildPipeline, BuildDefaultPipeline, BuildCameraPipeline, Build,
       GstTypeOK, Gone
  <2> QED
    BY <1>2, <2>2 DEF CreatePipeline, AwaitFrame, ChoosePipeline, WatchBus, GstTypeOK, PtrField,
       Gone, gstVars, threadVars
<1>5. create'[g] = "done" => ptr'.mLoopThread = g /\ play'[g] \notin Gone
  BY <1>1 DEF CreatePipeline, AwaitFrame, ChoosePipeline, BuildPipeline, BuildDefaultPipeline,
     BuildCameraPipeline, Build, WatchBus, gstVars, threadVars, GstTypeOK, PtrField, Gone
<1> QED
  BY <1>1, <1>2, <1>3, <1>4, <1>5, NoneAssumption DEF Joinable, Gone

LEMMA RunningJoins ==
  ASSUME GstTypeOK, Joinable, NEW g \in Slot, PlayStream(g) \/ StreamEventCallBack(g)
  PROVE  Joinable'
<1>1. /\ UNCHANGED <<ptr, create, pc, fault>> /\ flag'.starting = flag.starting
      /\ \A h \in Slot : play[h] \notin Gone => play'[h] \notin Gone
  BY DEF PlayStream, SetPlaying, LoadLoop, RunLoop, LeaveLoop, StreamEventCallBack, BusPlaying,
     BusError, BusEos, GstTypeOK, Gone, threadVars, pipeVars
<1>2. \A S : In(S)' <=> In(S)
  BY <1>1 DEF In
<1> QED
  BY <1>1, <1>2 DEF Joinable

LEMMA StopStreamJoins ==
  ASSUME GstTypeOK, OneCaller, LifeInv, Joinable, NEW c \in Caller, StopStream(c)
  PROVE  Joinable'
<1>0. /\ "timer" \in Caller
      /\ pc[c] \in StopSteps /\ pc'[c] \in StopSteps \union {"idle", "gone"}
      /\ \A d \in Caller : d # c => pc[d] = "idle" /\ pc'[d] = "idle"
  BY CallerAssumption, Alone DEF StopStream, LowerFlags, Disconnect, Teardown, QuitLoop,
     JoinLoopThread, JoinCreateThread, ReleaseContext, ClearContext, StopSteps
<1>1. pc'["timer"] # "clear"
  BY <1>0 DEF StopSteps
<1>2. ~flag'.starting
  <2>1. CASE LowerFlags(c)
    BY <2>1 DEF LowerFlags, GstTypeOK
  <2>2. CASE ~LowerFlags(c)
    <3>1. In({"disconnect"} \union AfterDisconnect) /\ flag' = flag
      BY <2>2 DEF StopStream, Disconnect, Teardown, QuitLoop, JoinLoopThread, JoinCreateThread,
         ReleaseContext, ClearContext, In, AfterDisconnect
    <3> QED
      BY <3>1 DEF LifeInv, StopProgress, In
  <2> QED
    BY <2>1, <2>2
<1> DEFINE Handles == UNCHANGED <<create, play, fault>> /\ ptr'.mLoopThread = ptr.mLoopThread
                      /\ ptr'.mCreateThread = ptr.mCreateThread
<1>3. ASSUME Handles, pc[c] # "joinCreate", In(UntilJoined)' => In(UntilJoined)
      PROVE  Joinable'
  <2>1. ~In({"joinCreate"})
    BY <1>0, <1>3 DEF In
  <2> QED
    BY <1>1, <1>2, <1>3, <2>1 DEF Joinable
<1>4. CASE LowerFlags(c) \/ Disconnect(c) \/ Teardown(c) \/ QuitLoop(c)
  <2>1. Handles /\ pc[c] # "joinCreate" /\ In(UntilJoined)
    BY <1>4 DEF LowerFlags, Disconnect, Teardown, QuitLoop, GstTypeOK, PtrField, In, UntilJoined,
       threadVars
  <2> QED
    BY <1>3, <2>1
<1>5. CASE JoinLoopThread(c)
  <2>1. pc[c] = "joinLoop" /\ pc'[c] = "joinCreate" /\ In(UntilJoined) /\ ~In({"joinCreate"})
    BY <1>0, <1>5 DEF JoinLoopThread, Goto, GstTypeOK, In, UntilJoined
  <2>2. ptr.mCreateThread = None \/ create[ptr.mCreateThread] = "done"
    BY <2>1 DEF Joinable
  <2>3. ptr.mLoopThread = None \/ play[ptr.mLoopThread] # "joined"
    BY <2>1, <2>2 DEF Joinable, GstTypeOK, PtrField, Gone
  <2>4. UNCHANGED <<ptr, create>> /\ fault' = fault
    BY <1>5, <2>3 DEF JoinLoopThread
  <2>5. In({"joinCreate"})'
    BY <2>1 DEF In
  <2> QED
    BY <1>1, <1>2, <2>2, <2>4, <2>5 DEF Joinable
<1>6. CASE JoinCreateThread(c)
  <2>1. pc[c] = "joinCreate" /\ pc'[c] = "releaseContext" /\ In(UntilJoined)
    BY <1>6 DEF JoinCreateThread, Goto, GstTypeOK, In, UntilJoined
  <2>2. ptr.mCreateThread = None \/ create[ptr.mCreateThread] = "done"
    BY <2>1 DEF Joinable
  <2>3. fault' = fault /\ ptr' = ptr /\ \A h \in Slot : create'[h] # "done"
    BY <1>6, <2>2 DEF JoinCreateThread, LifeInv, InReach
  <2>4. ~In(UntilJoined)'
    BY <1>0, <2>1 DEF In, UntilJoined
  <2> QED
    BY <1>1, <1>2, <2>3, <2>4 DEF Joinable
<1>7. CASE ReleaseContext(c) \/ ClearContext(c)
  <2>1. Handles /\ pc[c] # "joinCreate" /\ ~In(UntilJoined)'
    BY <1>0, <1>7 DEF ReleaseContext, ClearContext, Goto, GstTypeOK, PtrField, In, UntilJoined,
       threadVars
  <2> QED
    BY <1>3, <2>1
<1> QED
  BY <1>4, <1>5, <1>6, <1>7 DEF StopStream

LEMMA JoinableKept ==
  ASSUME Joinable, UNCHANGED <<flag, ptr, create, play, pc>>, fault' = fault \/ fault' = "sink"
  PROVE  Joinable'
  BY DEF Joinable, In

\* A call that stops the stream finds threads that were not joined, or none at all.
LEMMA CallJoins ==
  ASSUME GstTypeOK, LifeInv, Joinable, NEW c \in Caller, NEW l \in {"start", "clear", "stop"},
         Call(c, l), StopsOnce', UNCHANGED <<flag, ptr, create, play>>,
         fault' = fault \/ fault' = "sink"
  PROVE  Joinable'
<1>0. Idle /\ Goto(c, l) /\ \A g \in Slot : ~StartsUp(g)
  BY CallInTurn DEF StopsOnce
<1>1. \A d \in Caller : pc[d] = "idle" /\ pc'[d] = IF d = c THEN l ELSE "idle"
  BY <1>0 DEF Idle, Goto, GstTypeOK
<1>2. ~In({"quitOld", "spawn"}) /\ ~In({"joinCreate"})
  BY <1>1 DEF In
<1>3. l = "stop" \/ (l = "clear" /\ c = "timer") => flag.starting \/ ptr.mCreateThread = None
  BY CallerAssumption DEF StopsOnce, Call, Meets, Meeting
<1>4. ASSUME flag.starting
      PROVE  create[ptr.mCreateThread] = "done"
  <2>1. ptr.mCreateThread # None /\ create[ptr.mCreateThread] \notin Gone
    BY <1>2, <1>4 DEF Joinable
  <2> QED
    BY <1>0, <2>1 DEF StartsUp, GstTypeOK, PtrField, CreateState, Gone
<1>5. In(UntilJoined)' => l = "stop"
  BY <1>1 DEF In, UntilJoined
<1>6. pc'["timer"] = "clear" => l = "clear" /\ c = "timer"
  BY <1>1, CallerAssumption
<1> QED
  BY <1>2, <1>3, <1>4, <1>5, <1>6 DEF Joinable, Gone

LEMMA EmptiedJoins ==
  ASSUME GstTypeOK, OneCaller, LifeInv, Joinable, NEW c \in Caller, EmptyQueueFirst(c)
  PROVE  Joinable'
<1>0. "timer" \in Caller
  BY CallerAssumption
<1>1. /\ pc[c] = "clear" /\ pc'[c] = IF c = "timer" THEN "stop" ELSE "start"
      /\ \A d \in Caller : d # c => pc[d] = "idle" /\ pc'[d] = "idle"
      /\ UNCHANGED <<flag, ptr, create, play, fault>>
  BY Alone DEF EmptyQueueFirst, threadVars
<1>2. ~In({"joinCreate"}) /\ ~In({"quitOld", "spawn"}) /\ pc'["timer"] # "clear"
  BY <1>0, <1>1 DEF In
<1>3. ASSUME c = "timer"
      PROVE  ptr.mCreateThread = None \/ create[ptr.mCreateThread] = "done"
  <2>1. ptr.mCreateThread = None \/ create[ptr.mCreateThread] \notin Gone
    BY <1>1, <1>2, <1>3 DEF Joinable
  <2> QED
    BY <1>1, <2>1, NobodyStarts DEF StartsUp, GstTypeOK, PtrField, CreateState, Gone
<1>4. In(UntilJoined)' => c = "timer"
  BY <1>1 DEF In, UntilJoined
<1> QED
  BY <1>1, <1>2, <1>3, <1>4 DEF Joinable

LEMMA JoinableNext ==
  ASSUME GstTypeOK, OneCaller, LifeInv, Joinable, [Next]_vars, StopsOnce'
  PROVE  Joinable'
<1>1. CASE UNCHANGED gstVars
  BY <1>1, JoinableKept DEF gstVars, threadVars
<1>2. ASSUME NEW c \in Caller, Interface(StartStream(c)) \/ Interface(StopStream(c))
      PROVE  Joinable'
  BY <1>2, StartStreamJoins, StopStreamJoins DEF Interface
<1>3. ASSUME NEW g \in Slot,
             \/ Interface(CreatePipeline(g))
             \/ Interface(PlayStream(g))
             \/ Interface(StreamEventCallBack(g))
      PROVE  Joinable'
  BY <1>3, CreatePipelineJoins, RunningJoins DEF Interface
<1>4. CASE \/ UNCHANGED vars
           \/ \E g \in Slot :
                \/ Interface(NeedData(g))
                \/ Interface(ServeNeedData(g))
                \/ Interface(SpuriousWakeup(g) /\ UNCHANGED gstVars)
  BY <1>1, <1>4 DEF vars, Interface, NeedData, ServeNeedData
<1>5. CASE \/ VideoMsg
           \/ PublisherComesOrGoes
           \/ HandleStreamStatus
           \/ MisreadQueue
           \/ VideoStreamCommand
           \/ \E c \in Caller : EmptyQueueFirst(c)
           \/ Destroy
  BY <1>5, NodeCalls, CallJoins, EmptiedJoins, JoinableKept
<1> QED
  BY <1>2, <1>3, <1>4, <1>5 DEF Next

\* As long as calls come in turn no front of an empty queue is read; and no thread is
\* joined twice if, besides, no stop comes for a stream that was stopped and the destructor
\* does not cut a start short.
THEOREM NoFaultHappens == Spec => []NoFault
<1>1. Init => (StopsOnce => Joinable)
  <2>1. ASSUME Init
        PROVE  /\ ~flag.starting /\ fault = "none" /\ ptr.mLoopThread = None
               /\ \A g \in Slot : create[g] = "none"
               /\ \A c \in Caller : pc[c] \in {"idle", "start"}
    BY <2>1 DEF Init, GstInit, PtrField
  <2> QED
    BY <2>1, CallerAssumption DEF Joinable, In, UntilJoined
<1>2. GstTypeOK /\ (InTurn => OneCaller) /\ (InTurn => StreamInv) /\ (StopsOnce => Joinable)
        /\ [Next]_vars => (StopsOnce => Joinable)'
  BY JoinableNext, MetStays DEF StreamInv, StopsOnce, Undisturbed, InTurn
<1>3. (InTurn => Awaited) /\ (StopsOnce => Joinable) => NoFault
  BY DEF StopsOnce, Undisturbed, Joinable, Awaited, NoFault, JoinedOnce
<1> QED
  BY <1>1, <1>2, <1>3, LifeHolds, NodeBasics, AwaitedHolds, PTL DEF Spec

-----------------------------------------------------------------------------
(* The flags as other code reads them.                                        *)

LEMMA StatusStep ==
  ASSUME GstTypeOK, LifeInv, UpInv, [Next]_vars
  PROVE  [Status!Next]_(IF flag.playing THEN "playing"
                        ELSE IF flag.starting THEN "starting" ELSE "down")
<1>1. CASE UNCHANGED flag
  BY <1>1
<1>2. ASSUME NEW c \in Caller, StartAccepted(c)
      PROVE  Status!Start
  <2>1. ~flag.starting /\ ~flag.playing
    BY <1>2 DEF StartAccepted, LifeInv, StartsFromDown
  <2>2. flag'.starting /\ ~flag'.playing
    BY <1>2, <2>1 DEF StartAccepted, GstTypeOK
  <2> QED
    BY <2>1, <2>2 DEF Status!Start
<1>3. ASSUME NEW g \in Slot, BusPlaying(g)
      PROVE  Status!Connect \/ UNCHANGED flag
  <2>1. flag.starting /\ ~flag.playing
    BY <1>3, Connecting DEF BusPlaying
  <2> QED
    BY <1>3, <2>1 DEF BusPlaying, Status!Connect, GstTypeOK
<1>4. ASSUME NEW g \in Slot, BusError(g)
      PROVE  Status!Break \/ (~flag.playing /\ ~flag'.playing /\ flag'.starting = flag.starting)
  BY <1>4 DEF BusError, Status!Break, GstTypeOK, UpInv, PlayingIsUp
<1>5. ASSUME NEW c \in Caller, LowerFlags(c)
      PROVE  \/ Status!Stop
             \/ ~flag.playing /\ ~flag'.playing /\ flag'.starting = flag.starting
  BY <1>5 DEF LowerFlags, Status!Stop, GstTypeOK
<1>6. \/ UNCHANGED flag
      \/ \E c \in Caller : StartAccepted(c) \/ LowerFlags(c)
      \/ \E g \in Slot : BusPlaying(g) \/ BusError(g)
  <2>1. ASSUME NEW c \in Caller, StartStream(c) \/ StopStream(c)
        PROVE  UNCHANGED flag \/ StartAccepted(c) \/ LowerFlags(c)
    BY <2>1 DEF StartStream, StartIgnored, QuitOldLoop, SpawnCreate, StopStream, Disconnect,
       Teardown, QuitLoop, JoinLoopThread, JoinCreateThread, ReleaseContext, ClearContext
  <2>2. ASSUME NEW g \in Slot, CreatePipeline(g) \/ PlayStream(g) \/ StreamEventCallBack(g)
        PROVE  UNCHANGED flag \/ BusPlaying(g) \/ BusError(g)
    BY <2>2 DEF CreatePipeline, AwaitFrame, ChoosePipeline, BuildPipeline, BuildDefaultPipeline,
       BuildCameraPipeline, Build, WatchBus, PlayStream, SetPlaying, LoadLoop, RunLoop,
       LeaveLoop, StreamEventCallBack, BusEos, gstVars
  <2>3. CASE \/ UNCHANGED vars
             \/ VideoMsg
             \/ PublisherComesOrGoes
             \/ HandleStreamStatus
             \/ MisreadQueue
             \/ VideoStreamCommand
             \/ \E c \in Caller : EmptyQueueFirst(c)
             \/ Destroy
             \/ \E g \in Slot :
                  \/ Interface(NeedData(g))
                  \/ Interface(ServeNeedData(g))
                  \/ Interface(SpuriousWakeup(g) /\ UNCHANGED gstVars)
    BY <2>3 DEF vars, gstVars, VideoMsg, PublisherComesOrGoes, HandleStreamStatus, RetryStart,
       SwitchToCamera, SwitchToDefault, MisreadQueue, VideoStreamCommand, StartCommand,
       StopCommand, UntypedCommand, EmptyQueueFirst, Destroy, Interface, NeedData, ServeNeedData
  <2> QED
    BY <2>1, <2>2, <2>3 DEF Next, Interface
<1> QED
  BY <1>1, <1>2, <1>3, <1>4, <1>5, <1>6 DEF Status!Next

\* What no call is taken to meet is not met.
LEMMA AvoidedIsNotMet == Spec => [](met \cap Avoided = {})
<1>1. Init => met \cap Avoided = {}
  BY DEF Init
<1>2. met \cap Avoided = {} /\ [Next]_vars => (met \cap Avoided = {})'
  <2> SUFFICES ASSUME met \cap Avoided = {}, [Next]_vars
               PROVE  met' \cap Avoided = {}
    OBVIOUS
  <2>1. \/ met' = met
        \/ \E c \in {"timer", "cmd", "main"}, l \in {"start", "stop", "clear"} : Call(c, l)
    BY DEF Next, Interface, vars, VideoMsg, PublisherComesOrGoes, EmptyQueueFirst,
       HandleStreamStatus, RetryStart, SwitchToCamera, SwitchToDefault, MisreadQueue,
       VideoStreamCommand, StartCommand, AcceptStart, RefuseProfile, StopCommand,
       UntypedCommand, Destroy
  <2> QED
    BY <2>1 DEF Call
<1> QED
  BY <1>1, <1>2, PTL DEF Spec

LEMMA StatusFollows ==
  ASSUME {"call", "threads", "stream", "connection"} \subseteq Avoided
  PROVE  Spec /\ []("cut" \notin met) => StatusSpec
<1>1. met \cap Avoided = {} /\ "cut" \notin met => InTurn /\ Unhurried
  BY DEF InTurn, Unhurried, Undisturbed
<1>2. Init => Status!Init
  BY DEF Init, GstInit, Status!Init
<1>3. GstTypeOK /\ met \cap Avoided = {} /\ "cut" \notin met /\ (InTurn => StreamInv)
        /\ (Unhurried => UpInv) /\ [Next]_vars
        => [Status!Next]_(IF flag.playing THEN "playing"
                          ELSE IF flag.starting THEN "starting" ELSE "down")
  BY <1>1, StatusStep DEF StreamInv
<1> QED
  BY <1>2, <1>3, AvoidedIsNotMet, LifeHolds, NodeBasics, UpHolds, PTL
     DEF Spec, StatusSpec, Status!Spec

\* When calls come in turn, none stops a connection, and no start is cut short,
\* IsStreamStarting and IsStreamPlaying go the way StreamStatus says: a stream plays only
\* after a start, an error takes it back to starting, and a stop takes it down.
THEOREM ImplementsStatus ==
  ASSUME {"call", "threads", "stream", "connection", "cut"} \subseteq Avoided
  PROVE  Spec => StatusSpec
<1>1. met \cap Avoided = {} => "cut" \notin met
  OBVIOUS
<1>2. Spec /\ []("cut" \notin met) => StatusSpec
  BY StatusFollows
<1> QED
  BY <1>1, <1>2, AvoidedIsNotMet, PTL
=============================================================================
