------------------------ MODULE DepthAIGStreamerProofs ------------------------
(* The node implements the monitor FrameQueue, with any number of pipelines,   *)
(* under any executor and any commands: so what FrameQueueProofs shows of the  *)
(* queue, whose callers act as they like there, holds of the node's queue.     *)
EXTENDS DepthAIGStreamer, GstInterfaceProofs

\* A step of the node is a step of the monitor or leaves its variables alone.
LEMMA StartStreamStep ==
  ASSUME NEW c \in Caller, StartStream(c)
  PROVE  [FQNext]_fqVars
<1>1. CASE StartIgnored(c)
  BY <1>1 DEF StartIgnored
<1>2. CASE StartAccepted(c)
  BY <1>2 DEF StartAccepted, FQNext
<1>3. CASE QuitOldLoop(c)
  BY <1>3 DEF QuitOldLoop
<1>4. CASE SpawnCreate(c)
  BY <1>4 DEF SpawnCreate, FQNext
<1> QED
  BY <1>1, <1>2, <1>3, <1>4 DEF StartStream

LEMMA StopStreamStep ==
  ASSUME NEW c \in Caller, StopStream(c)
  PROVE  [FQNext]_fqVars
<1>1. CASE LowerFlags(c)
  BY <1>1 DEF LowerFlags, FQNext
<1>2. CASE ~LowerFlags(c)
  BY <1>2 DEF StopStream, Disconnect, Teardown, QuitLoop, JoinLoopThread,
              JoinCreateThread, ReleaseContext, ClearContext
<1> QED
  BY <1>1, <1>2

LEMMA CreatePipelineStep ==
  ASSUME NEW g \in Slot, CreatePipeline(g)
  PROVE  [FQNext]_fqVars
<1>1. CASE AwaitFrame(g)
  BY <1>1 DEF AwaitFrame, FQNext
<1>2. CASE ChoosePipeline(g)
  BY <1>2 DEF ChoosePipeline, FQNext
<1>3. CASE BuildPipeline(g) \/ WatchBus(g)
  BY <1>3 DEF BuildPipeline, BuildDefaultPipeline, BuildCameraPipeline, Build, WatchBus
<1> QED
  BY <1>1, <1>2, <1>3 DEF CreatePipeline

LEMMA PipelineStep ==
  ASSUME NEW g \in Slot, PlayStream(g) \/ StreamEventCallBack(g)
  PROVE  UNCHANGED fqVars
  BY DEF PlayStream, SetPlaying, LoadLoop, RunLoop, LeaveLoop, StreamEventCallBack,
         BusPlaying, BusError, BusEos

LEMMA NeedDataStep ==
  ASSUME NEW g \in Slot, NeedData(g) \/ ServeNeedData(g)
  PROVE  FQNext
  BY DEF NeedData, ServeNeedData, FQNext

LEMMA NodeStep ==
  ASSUME \/ VideoMsg
         \/ PublisherComesOrGoes
         \/ HandleStreamStatus
         \/ MisreadQueue
         \/ VideoStreamCommand
         \/ \E c \in Caller : EmptyQueueFirst(c)
         \/ Destroy
  PROVE  [FQNext]_fqVars
<1>1. CASE VideoMsg
  BY <1>1 DEF VideoMsg, FQNext
<1>2. CASE \E c \in Caller : EmptyQueueFirst(c)
  BY <1>2 DEF EmptyQueueFirst, FQNext
<1>3. CASE PublisherComesOrGoes \/ HandleStreamStatus \/ MisreadQueue \/ Destroy
  BY <1>3 DEF PublisherComesOrGoes, HandleStreamStatus, RetryStart, SwitchToCamera,
              SwitchToDefault, MisreadQueue, Destroy
<1>4. CASE VideoStreamCommand
  BY <1>4 DEF VideoStreamCommand, StartCommand, StopCommand, UntypedCommand
<1> QED
  BY <1>1, <1>2, <1>3, <1>4

LEMMA MonitorStep == [Next]_vars => [FQNext]_fqVars
<1> SUFFICES ASSUME [Next]_vars PROVE [FQNext]_fqVars
  OBVIOUS
<1>1. CASE UNCHANGED vars
  BY <1>1 DEF vars
<1>2. ASSUME NEW c \in Caller, Interface(StartStream(c)) \/ Interface(StopStream(c))
      PROVE  [FQNext]_fqVars
  BY <1>2, StartStreamStep, StopStreamStep DEF Interface
<1>3. ASSUME NEW g \in Slot,
             \/ Interface(CreatePipeline(g))
             \/ Interface(PlayStream(g))
             \/ Interface(StreamEventCallBack(g))
             \/ Interface(NeedData(g))
             \/ Interface(ServeNeedData(g))
      PROVE  [FQNext]_fqVars
  BY <1>3, CreatePipelineStep, PipelineStep, NeedDataStep DEF Interface
<1>4. ASSUME NEW g \in Slot, Interface(SpuriousWakeup(g) /\ UNCHANGED gstVars)
      PROVE  [FQNext]_fqVars
  BY <1>4 DEF Interface, FQNext
<1> QED
  BY <1>1, <1>2, <1>3, <1>4, NodeStep DEF Next

\* The node, with its timer, commands, pipelines and destructor, implements the monitor.
THEOREM ImplementsMonitor == Spec => FQSpec
<1>1. Init => FQInit
  BY DEF Init
<1> QED
  BY <1>1, MonitorStep, PTL DEF Spec, FQSpec

\* Under every interleaving of the node the queue stays within two seconds of video,
\* is an unbroken run of the latest messages, and is used by one thread at a time.
THEOREM NodeQueueSafe == Spec => [](QueueBounded /\ QueueConsecutive /\ MutexHeldByOne)
  BY ImplementsMonitor, InvHolds, PTL DEF FQInv

-----------------------------------------------------------------------------
(* Type correctness.                                                          *)

NodeTypeOK ==
  /\ GstTypeOK
  /\ stopRequested \in BOOLEAN
  /\ publishing \in BOOLEAN
  /\ thrown \in BOOLEAN
  /\ met \subseteq Meeting

LEMMA NodeTypeInit == ASSUME Init PROVE NodeTypeOK
<1>1. pc \in [Caller -> CallerState]
  BY DEF Init, CallerState, StartSteps
<1>2. built \in [Slot -> [default : BOOLEAN, sink : {"rtsp", "udp", None},
                         profile : Profiles \union {None}]]
  BY DEF Init, GstInit, Nothing
<1>3. stopRequested \in BOOLEAN /\ publishing \in BOOLEAN /\ thrown \in BOOLEAN
  BY DEF Init
<1> QED
  BY <1>1, <1>2, <1>3 DEF Init, GstInit, NodeTypeOK, GstTypeOK, CreateState, PlayState,
     PipeState, Fault

LEMMA TimerType == ASSUME NodeTypeOK, HandleStreamStatus \/ MisreadQueue PROVE NodeTypeOK'
<1>1. pc' \in [Caller -> CallerState]
  BY DEF NodeTypeOK, GstTypeOK, HandleStreamStatus, RetryStart, SwitchToCamera,
         SwitchToDefault, MisreadQueue, Call, Goto, CallerState, StartSteps, StopSteps
<1>2. met' \subseteq Meeting
  BY DEF NodeTypeOK, HandleStreamStatus, RetryStart, SwitchToCamera, SwitchToDefault,
         MisreadQueue, Call, Meets
<1> QED
  BY <1>1, <1>2 DEF NodeTypeOK, GstTypeOK, HandleStreamStatus, RetryStart, SwitchToCamera,
     SwitchToDefault, MisreadQueue, threadVars, pipeVars, setting, nodeVars

LEMMA StartCommandType ==
  ASSUME NodeTypeOK, NEW a \in StartArgs, StartCommand(a)
  PROVE  NodeTypeOK'
<1>1. /\ a.address \in Addresses \union {NoArg}
      /\ ProfilePasses(a.profile) => a.profile \in Profiles \union {NoArg}
  BY StartArgsAssumption DEF StartCommand
<1>2. ApplyAddress(a.address) => address' \in Addresses /\ fault' \in Fault
  BY <1>1 DEF ApplyAddress, SetStreamAddress, NodeTypeOK, GstTypeOK, Fault
<1>3. CASE AcceptStart(a)
  <2>1. profile' \in Profiles
    BY <1>1, <1>3 DEF AcceptStart, ApplyProfile, SetEncoderProfile, NodeTypeOK, GstTypeOK
  <2>2. pc' \in [Caller -> CallerState]
    BY <1>3 DEF AcceptStart, Call, Goto, NodeTypeOK, GstTypeOK, CallerState
  <2>3. met' \subseteq Meeting
    BY <1>3 DEF AcceptStart, Call, Meets, NodeTypeOK
  <2> QED
    BY <1>2, <1>3, <2>1, <2>2, <2>3 DEF AcceptStart, StartCommand, NodeTypeOK, GstTypeOK,
       threadVars, pipeVars
<1>4. CASE RefuseProfile(a)
  BY <1>2, <1>4 DEF RefuseProfile, StartCommand, NodeTypeOK, GstTypeOK, threadVars, pipeVars
<1> QED
  BY <1>3, <1>4 DEF StartCommand

LEMMA UntypedCommandType == ASSUME NodeTypeOK, UntypedCommand PROVE NodeTypeOK'
  BY DEF UntypedCommand, NodeTypeOK, GstTypeOK, gstVars, threadVars, pipeVars, setting

LEMMA StopCommandType == ASSUME NodeTypeOK, StopCommand PROVE NodeTypeOK'
<1>1. pc' \in [Caller -> CallerState]
  BY DEF NodeTypeOK, GstTypeOK, StopCommand, Call, Goto, CallerState, StopSteps
<1>2. met' \subseteq Meeting
  BY DEF NodeTypeOK, StopCommand, Call, Meets
<1> QED
  BY <1>1, <1>2 DEF NodeTypeOK, GstTypeOK, StopCommand, threadVars, pipeVars, setting

LEMMA NodeStepType ==
  ASSUME NodeTypeOK,
         \/ VideoMsg
         \/ PublisherComesOrGoes
         \/ \E c \in Caller : EmptyQueueFirst(c)
         \/ Destroy
  PROVE  NodeTypeOK'
<1>1. CASE VideoMsg
  BY <1>1 DEF VideoMsg, NodeTypeOK, GstTypeOK, gstVars, threadVars, pipeVars, setting, nodeVars
<1>2. CASE PublisherComesOrGoes
  BY <1>2 DEF PublisherComesOrGoes, NodeTypeOK, GstTypeOK, gstVars, threadVars, pipeVars,
              setting
<1>3. ASSUME NEW c \in Caller, EmptyQueueFirst(c)
      PROVE  NodeTypeOK'
  <2>1. pc' \in [Caller -> CallerState]
    BY <1>3 DEF EmptyQueueFirst, NodeTypeOK, GstTypeOK, Goto, CallerState, StartSteps,
                StopSteps
  <2> QED
    BY <1>3, <2>1 DEF EmptyQueueFirst, NodeTypeOK, GstTypeOK, threadVars, pipeVars, setting,
                      nodeVars
<1>4. CASE Destroy
  <2>1. pc' \in [Caller -> CallerState]
    BY <1>4 DEF Destroy, NodeTypeOK, GstTypeOK, Call, Goto, CallerState, StopSteps
  <2>2. met' \subseteq Meeting
    BY <1>4 DEF Destroy, Call, Meets, NodeTypeOK
  <2> QED
    BY <1>4, <2>1, <2>2 DEF Destroy, NodeTypeOK, GstTypeOK, threadVars, pipeVars, setting, nodeVars
<1> QED
  BY <1>1, <1>2, <1>3, <1>4

LEMMA NodeTypeNext == NodeTypeOK /\ FQTypeOK /\ [Next]_vars => NodeTypeOK'
<1> SUFFICES ASSUME NodeTypeOK, FQTypeOK, [Next]_vars PROVE NodeTypeOK'
  OBVIOUS
<1>1. CASE UNCHANGED vars
  BY <1>1 DEF vars, NodeTypeOK, GstTypeOK, gstVars, threadVars, pipeVars, setting, nodeVars
<1>2. ASSUME NEW c \in Caller, Interface(StartStream(c)) \/ Interface(StopStream(c))
      PROVE  NodeTypeOK'
  BY <1>2, StartStreamType, StopStreamType DEF Interface, NodeTypeOK, nodeVars
<1>3. ASSUME NEW g \in Slot,
             \/ Interface(CreatePipeline(g))
             \/ Interface(PlayStream(g))
             \/ Interface(StreamEventCallBack(g))
      PROVE  NodeTypeOK'
  BY <1>3, CreatePipelineType, PlayStreamType, StreamEventType
     DEF Interface, NodeTypeOK, nodeVars
<1>4. ASSUME UNCHANGED <<gstVars, nodeVars, met>>
      PROVE  NodeTypeOK'
  BY <1>4 DEF NodeTypeOK, GstTypeOK, gstVars, threadVars, pipeVars, setting, nodeVars
<1>5. ASSUME NEW g \in Slot,
             \/ Interface(NeedData(g))
             \/ Interface(ServeNeedData(g))
             \/ Interface(SpuriousWakeup(g) /\ UNCHANGED gstVars)
      PROVE  NodeTypeOK'
  BY <1>4, <1>5 DEF Interface, NeedData, ServeNeedData
<1>6. CASE VideoStreamCommand
  BY <1>6, StartCommandType, StopCommandType, UntypedCommandType DEF VideoStreamCommand
<1> QED
  BY <1>1, <1>2, <1>3, <1>5, <1>6, TimerType, NodeStepType DEF Next

\* The node's variables keep their types whatever the executor, the timing and the
\* clients do.
THEOREM NodeTypeCorrect == Spec => []TypeOK
<1>1. Spec => []FQTypeOK
  BY ImplementsMonitor, TypeCorrect, PTL
<1>2. NodeTypeOK /\ FQTypeOK => TypeOK
  BY DEF NodeTypeOK, TypeOK
<1> QED
  BY <1>1, <1>2, NodeTypeInit, NodeTypeNext, PTL DEF Spec

-----------------------------------------------------------------------------
(* The references to the main context, as long as calls do not overlap.       *)

OneCaller == \A c, d \in Caller : pc[c] # "idle" /\ pc[d] # "idle" => c = d

\* By the time a main loop is made, the reference of the one before has been given up.
SpawnsWithout == \A c \in Caller : pc[c] = "spawn" => ptr.context = None

\* ContextCounted, whatever calls have met.
Counted ==
  ctxRefs = IF ptr.context # None /\ \A c \in Caller : pc[c] # "clearContext" THEN 2 ELSE 1

CountInv == OneCaller /\ SpawnsWithout /\ Counted

\* A caller that is under way goes on, or one sets out when none is under way.
LEMMA OneCallerGoes ==
  ASSUME GstTypeOK, OneCaller, NEW c \in Caller, NEW l, Goto(c, l), pc[c] # "idle" \/ Idle
  PROVE  OneCaller'
<1>1. \A d \in Caller : d # c => pc'[d] = pc[d]
  BY DEF GstTypeOK, Goto
<1>2. \A d \in Caller : d # c => pc'[d] = "idle"
  BY <1>1 DEF OneCaller, Idle
<1> QED
  BY <1>2 DEF OneCaller

LEMMA CountKept ==
  ASSUME CountInv, ptr'.context = ptr.context, ctxRefs' = ctxRefs, UNCHANGED pc
  PROVE  CountInv'
  BY DEF CountInv, OneCaller, SpawnsWithout, Counted

LEMMA CountKeptGoing ==
  ASSUME GstTypeOK, CountInv, ptr'.context = ptr.context, ctxRefs' = ctxRefs,
         NEW c \in Caller, NEW l, Goto(c, l), pc[c] # "idle" \/ Idle,
         pc[c] # "clearContext", l \notin {"spawn", "clearContext"}
  PROVE  CountInv'
<1>1. OneCaller'
  BY OneCallerGoes DEF CountInv
<1>2. \A d \in Caller : pc'[d] = IF d = c THEN l ELSE pc[d]
  BY DEF GstTypeOK, Goto
<1>3. SpawnsWithout'
  BY <1>2 DEF CountInv, SpawnsWithout
<1>4. (\A d \in Caller : pc'[d] # "clearContext") <=> (\A d \in Caller : pc[d] # "clearContext")
  BY <1>2
<1>5. Counted'
  BY <1>4 DEF CountInv, Counted
<1> QED
  BY <1>1, <1>3, <1>5 DEF CountInv

LEMMA StartStreamCount ==
  ASSUME GstTypeOK, CountInv, NEW c \in Caller, StartStream(c)
  PROVE  CountInv'
<1>1. CASE StartIgnored(c)
  BY <1>1, CountKeptGoing DEF StartIgnored
<1>2. CASE StartAccepted(c)
  BY <1>2, CountKeptGoing DEF StartAccepted
<1>3. CASE QuitOldLoop(c)
  <2>1. OneCaller'
    BY <1>3, OneCallerGoes DEF CountInv, QuitOldLoop
  <2>2. ptr'.context = None
    BY <1>3 DEF QuitOldLoop, GstTypeOK, PtrField
  <2>3. \A d \in Caller : pc[d] # "clearContext"
    BY <1>3 DEF QuitOldLoop, CountInv, OneCaller
  <2>4. ctxRefs' = 1
    BY <1>3, <2>3 DEF QuitOldLoop, CountInv, Counted
  <2> QED
    BY <2>1, <2>2, <2>4 DEF CountInv, SpawnsWithout, Counted
<1>4. CASE SpawnCreate(c)
  <2>1. OneCaller'
    BY <1>4, OneCallerGoes DEF CountInv, SpawnCreate
  <2>2. ptr'.context # None
    <3>1. PICK g \in Slot :
            ptr' = [ptr EXCEPT !.mLoop = g, !.mCreateThread = g, !.context = g]
      BY <1>4 DEF SpawnCreate
    <3> QED
      BY <3>1, NoneAssumption DEF GstTypeOK, PtrField
  <2>3. ctxRefs' = 2
    BY <1>4 DEF SpawnCreate, CountInv, SpawnsWithout, Counted
  <2>4. \A d \in Caller : pc'[d] = "idle"
    BY <1>4 DEF SpawnCreate, GstTypeOK, Goto, CountInv, OneCaller
  <2> QED
    BY <2>1, <2>2, <2>3, <2>4 DEF CountInv, SpawnsWithout, Counted
<1> QED
  BY <1>1, <1>2, <1>3, <1>4 DEF StartStream

LEMMA StopStreamCount ==
  ASSUME GstTypeOK, CountInv, NEW c \in Caller, StopStream(c)
  PROVE  CountInv'
<1>1. CASE LowerFlags(c)
  BY <1>1, CountKeptGoing DEF LowerFlags
<1>2. CASE Disconnect(c)
  <2>1. ptr'.context = ptr.context
    BY <1>2 DEF Disconnect, GstTypeOK, PtrField
  <2> QED
    BY <1>2, <2>1, CountKeptGoing DEF Disconnect
<1>3. CASE Teardown(c)
  <2>1. ptr'.context = ptr.context
    BY <1>3 DEF Teardown, GstTypeOK, PtrField
  <2> QED
    BY <1>3, <2>1, CountKeptGoing DEF Teardown
<1>4. CASE QuitLoop(c)
  <2>1. ptr'.context = ptr.context
    BY <1>4 DEF QuitLoop, GstTypeOK, PtrField
  <2> QED
    BY <1>4, <2>1, CountKeptGoing DEF QuitLoop
<1>5. CASE JoinLoopThread(c)
  BY <1>5, CountKeptGoing DEF JoinLoopThread
<1>6. CASE JoinCreateThread(c)
  BY <1>6, CountKeptGoing DEF JoinCreateThread
<1>7. CASE ReleaseContext(c)
  <2>1. OneCaller'
    BY <1>7, OneCallerGoes DEF CountInv, ReleaseContext
  <2>2. (\A d \in Caller : pc[d] # "clearContext") /\ pc'[c] = "clearContext"
    BY <1>7 DEF ReleaseContext, GstTypeOK, Goto, CountInv, OneCaller
  <2>3. ctxRefs' = 1
    BY <1>7, <2>2 DEF ReleaseContext, CountInv, Counted
  <2>4. SpawnsWithout'
    BY <2>1, <2>2 DEF OneCaller, SpawnsWithout
  <2> QED
    BY <2>1, <2>2, <2>3, <2>4 DEF CountInv, Counted
<1>8. CASE ClearContext(c)
  <2>1. OneCaller'
    BY <1>8, OneCallerGoes DEF CountInv, ClearContext
  <2>2. ptr'.context = None
    BY <1>8 DEF ClearContext, GstTypeOK, PtrField
  <2>3. ctxRefs' = 1
    BY <1>8 DEF ClearContext, CountInv, Counted
  <2> QED
    BY <2>1, <2>2, <2>3 DEF CountInv, SpawnsWithout, Counted
<1> QED
  BY <1>1, <1>2, <1>3, <1>4, <1>5, <1>6, <1>7, <1>8 DEF StopStream

LEMMA PipelineCount ==
  ASSUME GstTypeOK, CountInv, NEW g \in Slot,
         CreatePipeline(g) \/ PlayStream(g) \/ StreamEventCallBack(g)
  PROVE  CountInv'
<1>1. ctxRefs' = ctxRefs /\ UNCHANGED pc
  BY DEF CreatePipeline, AwaitFrame, ChoosePipeline, BuildPipeline, BuildDefaultPipeline,
         BuildCameraPipeline, Build, WatchBus, PlayStream, SetPlaying, LoadLoop, RunLoop,
         LeaveLoop, StreamEventCallBack, BusPlaying, BusError, BusEos, gstVars
<1>2. ptr'.context = ptr.context
  <2>0. "context" \in DOMAIN ptr
    BY DEF GstTypeOK, PtrField
  <2>1. CASE BuildPipeline(g)
    <3>1. ASSUME NEW F, "context" \notin F, Build(g, F)
          PROVE  ptr'.context = ptr.context
      BY <2>0, <3>1 DEF Build
    <3>2. Build(g, {}) \/ Build(g, {"appSource", "signal"})
      BY <2>1 DEF BuildPipeline, BuildDefaultPipeline, BuildCameraPipeline
    <3> QED
      BY <3>1, <3>2
  <2>2. CASE WatchBus(g)
    BY <2>2 DEF WatchBus, GstTypeOK, PtrField
  <2>3. CASE ~BuildPipeline(g) /\ ~WatchBus(g)
    BY <2>3 DEF CreatePipeline, AwaitFrame, ChoosePipeline, PlayStream, SetPlaying, LoadLoop,
                RunLoop, LeaveLoop, StreamEventCallBack, BusPlaying, BusError, BusEos, gstVars
  <2> QED
    BY <2>1, <2>2, <2>3
<1> QED
  BY <1>1, <1>2, CountKept

\* Calls that have not overlapped came when nobody was under way.
LEMMA CallFindsIdle ==
  ASSUME NEW c \in Caller, NEW l, Call(c, l), "call" \notin met'
  PROVE  Idle /\ Goto(c, l)
  BY DEF Call, Meets, Meeting

\* What calls have met stays met.
LEMMA MetStays == [Next]_vars => met \subseteq met'
<1> SUFFICES ASSUME [Next]_vars PROVE met \subseteq met'
  OBVIOUS
<1>1. CASE HandleStreamStatus \/ MisreadQueue \/ Destroy
  BY <1>1 DEF HandleStreamStatus, RetryStart, SwitchToCamera, SwitchToDefault, MisreadQueue,
     Destroy, Call
<1>2. CASE VideoStreamCommand
  BY <1>2 DEF VideoStreamCommand, StartCommand, AcceptStart, RefuseProfile, StopCommand,
     UntypedCommand, Call
<1>3. CASE \/ UNCHANGED vars
           \/ VideoMsg
           \/ PublisherComesOrGoes
           \/ \E c \in Caller : EmptyQueueFirst(c)
  BY <1>3 DEF vars, VideoMsg, PublisherComesOrGoes, EmptyQueueFirst
<1> QED
  BY <1>1, <1>2, <1>3 DEF Next, Interface

LEMMA NodeCount ==
  ASSUME GstTypeOK, CountInv, "call" \notin met',
         \/ HandleStreamStatus
         \/ MisreadQueue
         \/ VideoStreamCommand
         \/ \E c \in Caller : EmptyQueueFirst(c)
         \/ Destroy
  PROVE  CountInv'
<1>1. {"timer", "cmd", "main"} \subseteq Caller
  BY CallerAssumption
<1>2. CASE HandleStreamStatus \/ MisreadQueue
  <2>1. PICK l \in {"start", "stop", "clear"} : Call("timer", l)
    BY <1>2 DEF HandleStreamStatus, RetryStart, SwitchToCamera, SwitchToDefault, MisreadQueue
  <2>2. Idle /\ Goto("timer", l) /\ pc["timer"] # "clearContext"
    BY <1>1, <2>1, CallFindsIdle DEF Idle
  <2> QED
    BY <1>1, <1>2, <2>2, CountKeptGoing DEF HandleStreamStatus, RetryStart, SwitchToCamera,
       SwitchToDefault, MisreadQueue
<1>3. ASSUME NEW a \in StartArgs, StartCommand(a)
      PROVE  CountInv'
  <2>1. CASE AcceptStart(a)
    BY <1>1, <1>3, <2>1, CallFindsIdle, CountKeptGoing DEF StartCommand, AcceptStart, MayRun
  <2>2. CASE RefuseProfile(a)
    BY <1>3, <2>2, CountKept DEF StartCommand, RefuseProfile
  <2> QED
    BY <1>3, <2>1, <2>2 DEF StartCommand
<1>4. CASE StopCommand
  BY <1>1, <1>4, CallFindsIdle, CountKeptGoing DEF StopCommand, MayRun
<1>5. CASE UntypedCommand
  BY <1>5, CountKept DEF UntypedCommand, gstVars
<1>6. ASSUME NEW c \in Caller, EmptyQueueFirst(c)
      PROVE  CountInv'
  BY <1>6, CountKeptGoing DEF EmptyQueueFirst
<1>7. CASE Destroy
  BY <1>1, <1>7, CallFindsIdle, CountKeptGoing DEF Destroy, Idle
<1> QED
  BY <1>2, <1>3, <1>4, <1>5, <1>6, <1>7 DEF VideoStreamCommand

LEMMA CountInit == ASSUME Init PROVE CountInv
<1>1. ptr.context = None
  BY DEF Init, GstInit, PtrField
<1>2. \A c \in Caller : pc[c] = "idle" \/ (c = "main" /\ pc[c] = "start")
  BY DEF Init
<1> QED
  BY <1>1, <1>2 DEF Init, GstInit, CountInv, OneCaller, SpawnsWithout, Counted

LEMMA CountNext ==
  ASSUME GstTypeOK, CountInv, [Next]_vars, "call" \notin met'
  PROVE  CountInv'
<1>1. CASE UNCHANGED <<ptr, ctxRefs, pc>>
  BY <1>1, CountKept
<1>2. ASSUME NEW c \in Caller, Interface(StartStream(c)) \/ Interface(StopStream(c))
      PROVE  CountInv'
  BY <1>2, StartStreamCount, StopStreamCount DEF Interface
<1>3. ASSUME NEW g \in Slot,
             \/ Interface(CreatePipeline(g))
             \/ Interface(PlayStream(g))
             \/ Interface(StreamEventCallBack(g))
      PROVE  CountInv'
  BY <1>3, PipelineCount DEF Interface
<1>4. CASE \/ UNCHANGED vars
           \/ VideoMsg
           \/ PublisherComesOrGoes
           \/ \E g \in Slot :
                \/ Interface(NeedData(g))
                \/ Interface(ServeNeedData(g))
                \/ Interface(SpuriousWakeup(g) /\ UNCHANGED gstVars)
  BY <1>1, <1>4 DEF vars, gstVars, VideoMsg, PublisherComesOrGoes, Interface, NeedData,
                    ServeNeedData
<1> QED
  BY <1>2, <1>3, <1>4, NodeCount DEF Next

\* As long as calls do not overlap there is one caller at a time, and the count is right.
LEMMA CountHolds == Spec => []("call" \notin met => CountInv)
<1>1. Spec => []GstTypeOK
  BY NodeTypeCorrect, PTL DEF TypeOK
<1>2. GstTypeOK /\ ("call" \notin met => CountInv) /\ [Next]_vars
        => ("call" \notin met => CountInv)'
  BY CountNext, MetStays
<1>3. Init => ("call" \notin met => CountInv)
  BY CountInit
<1> QED
  BY <1>1, <1>2, <1>3, PTL DEF Spec

\* Until two calls overlap, each reference to the main context that StopStream or a
\* restart gives up is made up for by one main loop, and the count comes back to one.
THEOREM ContextStaysCounted == Spec => []ContextCounted
<1>1. ("call" \notin met => CountInv) => ContextCounted
  BY DEF CountInv, Counted, ContextCounted
<1> QED
  BY <1>1, CountHolds, PTL
=============================================================================
