-------------------------- MODULE GstInterfaceProofs --------------------------
(* The steps of GstInterface keep its type invariant, whoever takes them.      *)
EXTENDS GstInterface, FrameQueueProofs

LEMMA StartStreamType ==
  ASSUME GstTypeOK, NEW c \in Caller, StartStream(c)
  PROVE  GstTypeOK'
<1>1. CASE StartIgnored(c)
  BY <1>1 DEF GstTypeOK, StartIgnored, Goto, CallerState, threadVars, pipeVars, setting
<1>2. CASE StartAccepted(c)
  BY <1>2 DEF GstTypeOK, StartAccepted, Goto, CallerState, StartSteps, threadVars, pipeVars,
              setting
<1>3. CASE QuitOldLoop(c)
  <2>1. ptr' \in [PtrField -> Slot \union {None}]
    BY <1>3 DEF GstTypeOK, QuitOldLoop
  <2>2. ctxRefs' \in Int
    BY <1>3 DEF GstTypeOK, QuitOldLoop
  <2>3. pc' \in [Caller -> CallerState]
    BY <1>3 DEF GstTypeOK, QuitOldLoop, Goto, CallerState, StartSteps
  <2> QED
    BY <1>3, <2>1, <2>2, <2>3 DEF GstTypeOK, QuitOldLoop, pipeVars, setting
<1>4. CASE SpawnCreate(c)
  <2>1. PICK g \in Slot :
          /\ ptr' = [ptr EXCEPT !.mLoop = g, !.mCreateThread = g, !.context = g]
          /\ create' = [create EXCEPT ![g] = "choose"]
          /\ play' = [play EXCEPT ![g] = "none"]
          /\ pipe' = [pipe EXCEPT ![g] = "none"]
    BY <1>4 DEF SpawnCreate
  <2>2. ptr' \in [PtrField -> Slot \union {None}]
    BY <2>1 DEF GstTypeOK
  <2>3. create' \in [Slot -> CreateState]
    BY <2>1 DEF GstTypeOK, CreateState
  <2>4. play' \in [Slot -> PlayState]
    BY <2>1 DEF GstTypeOK, PlayState
  <2>5. pipe' \in [Slot -> PipeState]
    BY <2>1 DEF GstTypeOK, PipeState
  <2>6. pc' \in [Caller -> CallerState]
    BY <1>4 DEF GstTypeOK, SpawnCreate, Goto, CallerState
  <2> QED
    BY <1>4, <2>2, <2>3, <2>4, <2>5, <2>6 DEF GstTypeOK, SpawnCreate, setting
<1> QED
  BY <1>1, <1>2, <1>3, <1>4 DEF StartStream

LEMMA CreatePipelineType ==
  ASSUME GstTypeOK, FQTypeOK, NEW g \in Slot, CreatePipeline(g)
  PROVE  GstTypeOK'
<1>1. CASE AwaitFrame(g)
  BY <1>1 DEF GstTypeOK, AwaitFrame, gstVars, threadVars, pipeVars, setting
<1>2. CASE ChoosePipeline(g)
  BY <1>2 DEF GstTypeOK, ChoosePipeline, CreateState, pipeVars, setting
<1>3. ASSUME NEW F \in SUBSET PtrField, Build(g, F),
             connected' \subseteq connected \union {g}
      PROVE  GstTypeOK'
  <2>1. Protocol(address) \in {"rtsp", "udp", None}
    BY DEF Protocol
  <2>2. isDefault \in BOOLEAN /\ profile \in Profiles
    BY DEF FQTypeOK, GstTypeOK
  <2>3. built' \in [Slot -> [default : BOOLEAN, sink : {"rtsp", "udp", None},
                             profile : Profiles \union {None}]]
    BY <1>3, <2>1, <2>2 DEF GstTypeOK, Build
  <2>4. ptr' \in [PtrField -> Slot \union {None}]
    BY <1>3 DEF GstTypeOK, Build
  <2>5. create' \in [Slot -> CreateState] /\ pipe' \in [Slot -> PipeState]
    BY <1>3 DEF GstTypeOK, Build, CreateState, PipeState
  <2> QED
    BY <1>3, <2>3, <2>4, <2>5 DEF GstTypeOK, Build, setting
<1>4. CASE BuildPipeline(g)
  <2>1. {} \in SUBSET PtrField /\ {"appSource", "signal"} \in SUBSET PtrField
    BY DEF PtrField
  <2> QED
    BY <1>3, <1>4, <2>1 DEF BuildPipeline, BuildDefaultPipeline, BuildCameraPipeline
<1>5. CASE WatchBus(g)
  BY <1>5 DEF GstTypeOK, WatchBus, PtrField, CreateState, PlayState, setting
<1> QED
  BY <1>1, <1>2, <1>4, <1>5 DEF CreatePipeline

LEMMA PlayStreamType ==
  ASSUME GstTypeOK, NEW g \in Slot, PlayStream(g)
  PROVE  GstTypeOK'
<1>1. CASE SetPlaying(g)
  BY <1>1 DEF GstTypeOK, SetPlaying, PlayState, PipeState, setting
<1>2. CASE LoadLoop(g)
  BY <1>2 DEF GstTypeOK, LoadLoop, PlayState, PtrField, pipeVars, setting
<1>3. CASE RunLoop(g)
  BY <1>3 DEF GstTypeOK, RunLoop, PlayState, pipeVars, setting
<1>4. CASE LeaveLoop(g)
  BY <1>4 DEF GstTypeOK, LeaveLoop, PlayState, pipeVars, setting
<1> QED
  BY <1>1, <1>2, <1>3, <1>4 DEF PlayStream

LEMMA StreamEventType ==
  ASSUME GstTypeOK, NEW g \in Slot, StreamEventCallBack(g)
  PROVE  GstTypeOK'
<1>1. CASE BusPlaying(g)
  BY <1>1 DEF GstTypeOK, BusPlaying, PipeState, threadVars, setting
<1>2. CASE BusError(g)
  BY <1>2 DEF GstTypeOK, BusError, PipeState, threadVars, setting
<1>3. CASE BusEos(g)
  BY <1>3 DEF GstTypeOK, BusEos, pipeVars, setting
<1> QED
  BY <1>1, <1>2, <1>3 DEF StreamEventCallBack

LEMMA StopStreamType ==
  ASSUME GstTypeOK, NEW c \in Caller, StopStream(c)
  PROVE  GstTypeOK'
<1> USE DEF GstTypeOK, Goto, CallerState, StopSteps, setting
<1>1. CASE LowerFlags(c)
  BY <1>1 DEF LowerFlags, threadVars, pipeVars
<1>2. CASE Disconnect(c)
  BY <1>2 DEF Disconnect, PtrField, threadVars
<1>3. CASE Teardown(c)
  <2>1. built' \in [Slot -> [default : BOOLEAN, sink : {"rtsp", "udp", None},
                             profile : Profiles \union {None}]]
    BY <1>3 DEF Teardown, Nothing
  <2>2. pipe' \in [Slot -> PipeState]
    BY <1>3 DEF Teardown, PipeState
  <2>3. ptr' \in [PtrField -> Slot \union {None}]
    BY <1>3 DEF Teardown, PtrField
  <2>4. pc' \in [Caller -> CallerState]
    BY <1>3 DEF Teardown
  <2> QED
    BY <1>3, <2>1, <2>2, <2>3, <2>4 DEF Teardown, threadVars
<1>4. CASE QuitLoop(c)
  BY <1>4 DEF QuitLoop, PtrField
<1>5. CASE JoinLoopThread(c)
  BY <1>5 DEF JoinLoopThread, PlayState, Fault, pipeVars
<1>6. CASE JoinCreateThread(c)
  BY <1>6 DEF JoinCreateThread, CreateState, Fault, pipeVars
<1>7. CASE ReleaseContext(c)
  BY <1>7 DEF ReleaseContext, threadVars, pipeVars
<1>8. CASE ClearContext(c)
  BY <1>8 DEF ClearContext, PtrField, threadVars, pipeVars
<1> QED
  BY <1>1, <1>2, <1>3, <1>4, <1>5, <1>6, <1>7, <1>8 DEF StopStream
=============================================================================
