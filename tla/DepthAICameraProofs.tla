------------------------- MODULE DepthAICameraProofs -------------------------
(* The safety of the camera node, for any streams, settings, commands, number  *)
(* of attempts and sizes of queues, whether or not the video queue fills up    *)
(* before its callback is added.                                               *)
EXTENDS DepthAICamera, TLAPS

Control == [auto : BOOLEAN, lens : 0..255]

(***************************************************************************)
(* What the provers need beside the properties.                            *)
(***************************************************************************)
\* A callback runs because a packet has arrived.
CallsHavePackets == \A s \in Stream : reader[s] = "call" => packets[s] # <<>>

\* Where the thread is tells whether there is a device and whether the node believes so.
Phases ==
  /\ step = "restart" => device = "none" /\ ~running
  /\ step = "connect" => ~running
  /\ step \in {"control", "queues"} => device # "none" /\ ~running
  /\ step \in {"callback", "lens"} => device # "none" /\ running
  /\ step = "idle" => (running <=> device # "none")

\* The pipeline was built from the settings as they are, and so was the device's.
Pipelines ==
  /\ step # "restart" => pipeline = Built(settings)
  /\ DeviceRunsSettings

\* Before the first queue is asked for nothing is on its way.
Opening == running \/ step = "queues"

Quiet ==
  ~Opening => /\ callbacks = {}
              /\ \A s \in Stream : /\ reader[s] = "off" /\ packets[s] = <<>>
                                   /\ produced[s] = 0 /\ published[s] = -1

\* A callback is added to a queue that was asked for.
CallbacksAsked == step = "queues" => \A s \in callbacks : Asked(s)

\* Without its callback a stream publishes nothing.
StreamsWait == \A s \in Stream \ callbacks : published[s] = -1

\* The control sent last, taken or not, is the one for the settings.
LastControl == IF controls = <<>> THEN focus ELSE controls[Len(controls)]

FocusSent ==
  /\ step = "lens" => ~settings.autofocus
  /\ step \in {"queues", "callback", "idle"} /\ device = "open" /\ died = "no"
       => LastControl = ControlFor(settings)

-----------------------------------------------------------------------------
(* What a command makes of the settings.                                      *)

LEMMA NumberGiven ==
  ASSUME NEW m \in Messages, NEW f \in {"width", "height", "fps", "bitrate", "lens"},
         NEW old \in Int
  PROVE  Given(m, f, old) \in Int
  BY InputAssumption DEF Given

LEMMA AutofocusGiven ==
  ASSUME NEW m \in Messages, NEW old \in BOOLEAN
  PROVE  Given(m, "autofocus", old) \in BOOLEAN
  BY InputAssumption DEF Given

LEMMA RequestedFields ==
  ASSUME settings \in Settings, NEW m \in Messages
  PROVE  /\ Requested(m).width = Given(m, "width", settings.width)
         /\ Requested(m).height = Given(m, "height", settings.height)
         /\ Requested(m).fps = Given(m, "fps", settings.fps)
         /\ Requested(m).bitrate = Given(m, "bitrate", settings.bitrate)
         /\ Requested(m).lens = Given(m, "lens", settings.lens)
  BY DEF Requested, AsParameters

LEMMA ApplyType ==
  ASSUME settings \in Settings, NEW m \in Messages
  PROVE  Apply(m) \in Settings
<1>1. /\ Requested(m).width \in Int
      /\ Requested(m).height \in Int
      /\ Requested(m).fps \in Int
      /\ Requested(m).bitrate \in Int
      /\ Requested(m).lens \in Int
  BY RequestedFields, NumberGiven DEF Settings
<1>2. Given(m, "autofocus", settings.autofocus) \in BOOLEAN
  BY AutofocusGiven DEF Settings
<1> QED
  BY <1>1, <1>2 DEF Apply, Settings

\* The settings a command leads to are what was validated.
LEMMA ApplyIsRequested ==
  ASSUME settings \in Settings, NEW m \in Messages, ValidateCameraParameters(Requested(m))
  PROVE  ValidateCameraParameters(AsParameters(Apply(m)))
<1> DEFINE r == Requested(m)
           t == Apply(m)
<1>1. /\ t.width = r.width /\ t.height = r.height /\ t.fps = r.fps
      /\ t.bitrate = r.bitrate /\ t.lens = r.lens
      /\ t.h265 = (r.encoding = "H265")
  BY DEF Apply, Settings
<1> QED
  BY <1>1 DEF ValidateCameraParameters, AsParameters

LEMMA ControlType ==
  ASSUME NEW t \in Settings
  PROVE  ControlFor(t) \in Control
<1>1. t.lens \in Int /\ t.autofocus \in BOOLEAN
  BY DEF Settings
<1>2. t.lens % 256 \in 0..255
  BY <1>1
<1>3. Manual(t.lens) \in Control
  BY <1>2 DEF Manual, Control
<1>4. AutoFocus \in Control
  BY DEF AutoFocus, Control
<1> QED
  BY <1>1, <1>3, <1>4 DEF ControlFor

LEMMA SendType ==
  ASSUME DeviceTypeOK, NEW c \in Control, Send(c), UNCHANGED <<plugged, device, focus>>
  PROVE  DeviceTypeOK'
<1>1. controls \in Seq(Control) /\ died \in {"no", "type", "device", "null"}
  BY DEF DeviceTypeOK, Control
<1>2. Append(controls, c) \in Seq(Control)
  BY <1>1
<1>3. controls' \in {controls, Append(controls, c)}
  BY DEF Send
<1>4. died' \in {died, "no", "device", "null"}
  BY DEF Send
<1>5. controls' \in Seq(Control) /\ died' \in {"no", "type", "device", "null"}
  BY <1>1, <1>2, <1>3, <1>4
<1> QED
  BY <1>5 DEF DeviceTypeOK, Control

-----------------------------------------------------------------------------
(* Type correctness.                                                          *)

LEMMA TypeInit == ASSUME CamInit PROVE CamTypeOK
<1>1. NodeTypeOK
  <2>1. settings \in Settings
    BY InputAssumption DEF CamInit
  <2>2. lensParam \in Int /\ lensWanted \in Int
    BY <2>1 DEF CamInit, Settings
  <2>3. tries \in 0..Attempts
    BY BoundsAssumption DEF CamInit
  <2> QED
    BY <2>1, <2>2, <2>3 DEF CamInit, NodeTypeOK, Step
<1>2. DeviceTypeOK
  BY DEF CamInit, DeviceTypeOK, AutoFocus
<1>3. StreamTypeOK
  BY BoundsAssumption DEF CamInit, StreamTypeOK
<1> QED
  BY <1>1, <1>2, <1>3 DEF CamTypeOK

\* A part whose variables a step leaves alone keeps its types.
LEMMA PartsKept ==
  ASSUME CamTypeOK
  PROVE  /\ UNCHANGED <<settings, lensParam, startVars>> => NodeTypeOK'
         /\ UNCHANGED <<died, deviceVars>> => DeviceTypeOK'
         /\ UNCHANGED streamVars => StreamTypeOK'
<1>1. UNCHANGED <<settings, lensParam, startVars>> => NodeTypeOK'
  BY DEF CamTypeOK, NodeTypeOK, startVars
<1>2. UNCHANGED <<died, deviceVars>> => DeviceTypeOK'
  BY DEF CamTypeOK, DeviceTypeOK, deviceVars
<1>3. UNCHANGED streamVars => StreamTypeOK'
  BY DEF CamTypeOK, StreamTypeOK, streamVars
<1> QED
  BY <1>1, <1>2, <1>3

LEMMA RestartingType == ASSUME CamTypeOK, TryRestarting PROVE CamTypeOK'
<1> USE DEF CamTypeOK
<1>1. CASE Restart
  <2>1. tries' \in 0..Attempts
    BY <1>1, BoundsAssumption DEF Restart
  <2>2. NodeTypeOK'
    BY <1>1, <2>1 DEF Restart, NodeTypeOK, Step
  <2> QED
    BY <1>1, <2>2, PartsKept DEF Restart
<1>2. CASE Connect \/ ConnectFails
  <2>1. tries' \in 0..Attempts
    BY <1>2, BoundsAssumption DEF Connect, ConnectFails, MayTry, NodeTypeOK
  <2>2. NodeTypeOK'
    BY <1>2, <2>1 DEF Connect, ConnectFails, NodeTypeOK
  <2>3. DeviceTypeOK'
    <3>1. CASE Connect
      BY <3>1 DEF Connect, DeviceTypeOK
    <3>2. CASE ConnectFails
      BY <3>2, PartsKept DEF ConnectFails
    <3> QED
      BY <1>2, <3>1, <3>2
  <2> QED
    BY <1>2, <2>2, <2>3, PartsKept DEF Connect, ConnectFails
<1>3. CASE LeaveLoop
  <2>1. NodeTypeOK'
    BY <1>3 DEF LeaveLoop, NodeTypeOK, Step
  <2> QED
    BY <1>3, <2>1, PartsKept DEF LeaveLoop
<1>4. CASE SendFirstControl
  <2>1. NodeTypeOK'
    BY <1>4 DEF SendFirstControl, NodeTypeOK, Step
  <2>2. ControlFor(settings) \in Control
    BY ControlType DEF NodeTypeOK
  <2>3. DeviceTypeOK'
    BY <1>4, <2>2, SendType DEF SendFirstControl
  <2> QED
    BY <1>4, <2>1, <2>3, PartsKept DEF SendFirstControl
<1>5. CASE SetRunning
  <2>1. NodeTypeOK'
    BY <1>5 DEF SetRunning, NodeTypeOK, Step
  <2> QED
    BY <1>5, <2>1, PartsKept DEF SetRunning
<1>6. CASE AddVideoCallback
  <2>1. NodeTypeOK'
    BY <1>6 DEF AddVideoCallback, NodeTypeOK, Step
  <2>2. StreamTypeOK'
    BY <1>6, BoundsAssumption DEF AddVideoCallback, StreamTypeOK
  <2> QED
    BY <1>6, <2>1, <2>2, PartsKept DEF AddVideoCallback
<1>7. ASSUME NEW s \in Stream, OpenQueue(s)
      PROVE  CamTypeOK'
  <2>1. StreamTypeOK'
    BY <1>7 DEF OpenQueue, StreamTypeOK
  <2>2. DeviceTypeOK'
    BY <1>7 DEF OpenQueue, DeviceTypeOK, deviceVars
  <2> QED
    BY <1>7, <2>1, <2>2, PartsKept DEF OpenQueue
<1>8. ASSUME NEW s \in Stream, AddRawCallback(s)
      PROVE  CamTypeOK'
  <2>1. StreamTypeOK'
    BY <1>8 DEF AddRawCallback, StreamTypeOK
  <2> QED
    BY <1>8, <2>1, PartsKept DEF AddRawCallback
<1> QED
  BY <1>1, <1>2, <1>3, <1>4, <1>5, <1>6, <1>7, <1>8 DEF TryRestarting

LEMMA CommandType == ASSUME CamTypeOK, VideoStreamCommand PROVE CamTypeOK'
<1> USE DEF CamTypeOK
<1>1. ASSUME NEW m \in Messages, StartCommand(m)
      PROVE  CamTypeOK'
  <2>1. settings' \in Settings
    BY <1>1, ApplyType DEF StartCommand, NodeTypeOK
  <2>2. NodeTypeOK'
    BY <1>1, <2>1 DEF StartCommand, NodeTypeOK, Step
  <2> QED
    BY <1>1, <2>2, PartsKept DEF StartCommand
<1>2. ASSUME NEW m \in Messages, ChangeFocus(m)
      PROVE  CamTypeOK'
  <2>1. settings' \in Settings
    BY <1>2, AutofocusGiven DEF ChangeFocus, NodeTypeOK, Settings
  <2>2. step' \in Step /\ lensWanted' \in Int
    BY <1>2, NumberGiven DEF ChangeFocus, NodeTypeOK, Step
  <2>3. NodeTypeOK'
    BY <1>2, <2>1, <2>2 DEF ChangeFocus, NodeTypeOK
  <2>4. DeviceTypeOK'
    <3>1. ControlFor(settings') \in Control
      BY <2>1, ControlType
    <3>2. CASE Send(ControlFor(settings'))
      BY <1>2, <3>1, <3>2, SendType DEF ChangeFocus
    <3>3. CASE UNCHANGED <<controls, died>>
      BY <1>2, <3>3, PartsKept DEF ChangeFocus, deviceVars
    <3> QED
      BY <1>2, <3>2, <3>3 DEF ChangeFocus
  <2> QED
    BY <1>2, <2>3, <2>4, PartsKept DEF ChangeFocus
<1>3. ASSUME NEW m \in Messages, UntypedCommand(m)
      PROVE  CamTypeOK'
  <2>1. DeviceTypeOK'
    BY <1>3 DEF UntypedCommand, DeviceTypeOK, deviceVars
  <2> QED
    BY <1>3, <2>1, PartsKept DEF UntypedCommand
<1>4. CASE ChangeLens
  <2>1. settings' \in Settings
    BY <1>4 DEF ChangeLens, NodeTypeOK, Settings
  <2>2. NodeTypeOK'
    BY <1>4, <2>1 DEF ChangeLens, NodeTypeOK, Step
  <2>3. Manual(lensWanted) \in Control
    <3>1. lensWanted % 256 \in 0..255
      BY DEF NodeTypeOK
    <3> QED
      BY <3>1 DEF Manual, Control
  <2>4. DeviceTypeOK'
    BY <1>4, <2>3, SendType DEF ChangeLens
  <2> QED
    BY <1>4, <2>2, <2>4, PartsKept DEF ChangeLens
<1> QED
  BY <1>1, <1>2, <1>3, <1>4 DEF VideoStreamCommand

LEMMA NumberType == ASSUME NEW n \in 0..(Cycle - 1) PROVE NextNumber(n) \in 0..(Cycle - 1)
  BY BoundsAssumption DEF NextNumber

\* What is left of a queue when a packet is to be appended.
Room(q) == IF Len(q) < QueueSize THEN q ELSE Tail(q)

LEMMA RoomType ==
  ASSUME NEW q \in Seq(0..(Cycle - 1)), Len(q) <= QueueSize, NEW n \in 0..(Cycle - 1)
  PROVE  /\ Append(Room(q), n) \in Seq(0..(Cycle - 1))
         /\ Append(Room(q), n) # <<>>
         /\ Len(Append(Room(q), n)) <= QueueSize
<1>1. QueueSize \in Nat \ {0} /\ Len(q) \in Nat
  BY BoundsAssumption
<1>2. CASE Len(q) < QueueSize
  <2>1. Room(q) = q
    BY <1>2 DEF Room
  <2>2. Append(q, n) \in Seq(0..(Cycle - 1)) /\ Append(q, n) # <<>> /\ Len(Append(q, n)) = Len(q) + 1
    BY <1>1
  <2> QED
    BY <1>1, <1>2, <2>1, <2>2
<1>3. CASE Len(q) = QueueSize
  <2>1. q # <<>>
    BY <1>1, <1>3
  <2>2. Tail(q) \in Seq(0..(Cycle - 1)) /\ Len(Tail(q)) = QueueSize - 1
    BY <1>1, <1>3, <2>1
  <2>3. Room(q) = Tail(q)
    BY <1>1, <1>3 DEF Room
  <2> QED
    BY <1>1, <2>2, <2>3
<1> QED
  BY <1>1, <1>2, <1>3

LEMMA LastType ==
  ASSUME NEW S, NEW q \in Seq(S), q # <<>> PROVE q[Len(q)] \in S
  OBVIOUS

LEMMA ReadType ==
  ASSUME CamTypeOK, CallsHavePackets, NEW s \in Stream, ReadStream(s)
  PROVE  CamTypeOK'
<1> USE DEF CamTypeOK
<1>1. /\ packets[s] \in Seq(0..(Cycle - 1)) /\ Len(packets[s]) <= QueueSize
      /\ produced[s] \in 0..(Cycle - 1)
  BY DEF StreamTypeOK
<1>2. CASE PacketArrives(s)
  <2> DEFINE q == Append(Room(packets[s]), produced[s])
  <2>1. q \in Seq(0..(Cycle - 1)) /\ Len(q) <= QueueSize
    BY <1>1, RoomType
  <2>2. packets' = [packets EXCEPT ![s] = q]
    BY <1>2 DEF PacketArrives, Room
  <2>3. packets' \in [Stream -> Seq(0..(Cycle - 1))] /\ \A t \in Stream : Len(packets'[t]) <= QueueSize
    <3> HIDE DEF q
    <3> QED
      BY <2>1, <2>2 DEF StreamTypeOK
  <2>4. produced' \in [Stream -> 0..(Cycle - 1)]
    BY <1>1, <1>2, NumberType DEF PacketArrives, StreamTypeOK
  <2>5. StreamTypeOK'
    BY <1>2, <2>3, <2>4 DEF PacketArrives, StreamTypeOK
  <2> QED
    BY <1>2, <2>5, PartsKept DEF PacketArrives
<1>3. CASE PublishAll(s)
  <2>1. packets[s] # <<>>
    BY <1>3 DEF CallsHavePackets, PublishAll
  <2>2. packets[s][Len(packets[s])] \in 0..(Cycle - 1)
    BY <1>1, <2>1, LastType
  <2>3. published' \in [Stream -> -1..(Cycle - 1)]
    BY <1>3, <2>2 DEF PublishAll, StreamTypeOK
  <2>4. packets' \in [Stream -> Seq(0..(Cycle - 1))] /\ \A t \in Stream : Len(packets'[t]) <= QueueSize
    BY <1>3, BoundsAssumption DEF PublishAll, StreamTypeOK
  <2>5. StreamTypeOK'
    BY <1>3, <2>3, <2>4 DEF PublishAll, StreamTypeOK
  <2> QED
    BY <1>3, <2>5, PartsKept DEF PublishAll
<1>4. CASE NoCallback(s)
  <2>1. StreamTypeOK'
    BY <1>4 DEF NoCallback, StreamTypeOK
  <2> QED
    BY <1>4, <2>1, PartsKept DEF NoCallback
<1> QED
  BY <1>2, <1>3, <1>4 DEF ReadStream

LEMMA StopType == ASSUME CamTypeOK, Stop PROVE CamTypeOK'
<1>1. NodeTypeOK'
  BY DEF CamTypeOK, NodeTypeOK, Stop, Step
<1>2. DeviceTypeOK'
  BY DEF CamTypeOK, DeviceTypeOK, Stop
<1>3. StreamTypeOK'
  BY DEF CamTypeOK, StreamTypeOK, Stop
<1> QED
  BY <1>1, <1>2, <1>3 DEF CamTypeOK

LEMMA DeviceType == ASSUME CamTypeOK, ApplyControl \/ PlugOrUnplug PROVE CamTypeOK'
<1> USE DEF CamTypeOK
<1>1. CASE ApplyControl
  <2>1. controls \in Seq(Control) /\ controls # <<>>
    BY <1>1 DEF ApplyControl, DeviceTypeOK, Control
  <2>2. Head(controls) \in Control /\ Tail(controls) \in Seq(Control)
    BY <2>1
  <2>3. DeviceTypeOK'
    BY <1>1, <2>2 DEF ApplyControl, DeviceTypeOK, Control
  <2> QED
    BY <1>1, <2>3, PartsKept DEF ApplyControl
<1>2. CASE PlugOrUnplug
  <2>1. DeviceTypeOK'
    BY <1>2 DEF PlugOrUnplug, DeviceTypeOK
  <2> QED
    BY <1>2, <2>1, PartsKept DEF PlugOrUnplug
<1> QED
  BY <1>1, <1>2

LEMMA TypeStep ==
  ASSUME CamTypeOK, CallsHavePackets, [CamNext]_camVars PROVE CamTypeOK'
<1>1. CASE UNCHANGED camVars
  BY <1>1, PartsKept DEF camVars, deviceVars, CamTypeOK
<1> QED
  BY <1>1, RestartingType, CommandType, StopType, DeviceType, ReadType
  DEF CamNext, Process

-----------------------------------------------------------------------------
(* Callbacks and packets.                                                     *)

\* What a step does that is not of the streams.
LEMMA StreamsKept ==
  ASSUME [CamNext]_camVars,
         ~AddVideoCallback, ~Stop,
         \A s \in Stream : ~OpenQueue(s) /\ ~AddRawCallback(s) /\ ~ReadStream(s)
  PROVE  UNCHANGED streamVars
<1>1. CASE UNCHANGED camVars
  BY <1>1 DEF camVars
<1>2. CASE TryRestarting
  BY <1>2 DEF TryRestarting, Restart, Connect, ConnectFails, LeaveLoop, SendFirstControl,
              SetRunning
<1>3. CASE VideoStreamCommand
  BY <1>3 DEF VideoStreamCommand, StartCommand, ChangeFocus, UntypedCommand, ChangeLens
<1>4. CASE ApplyControl \/ PlugOrUnplug
  BY <1>4 DEF ApplyControl, PlugOrUnplug
<1> QED
  BY <1>1, <1>2, <1>3, <1>4 DEF CamNext, Process

LEMMA CallsStep ==
  ASSUME CamTypeOK, CallsHavePackets, [CamNext]_camVars PROVE CallsHavePackets'
<1>1. ASSUME NEW s \in Stream, OpenQueue(s) \/ AddRawCallback(s)
      PROVE  CallsHavePackets'
  BY <1>1 DEF OpenQueue, AddRawCallback, CallsHavePackets, CamTypeOK, StreamTypeOK
<1>2. CASE AddVideoCallback
  BY <1>2 DEF AddVideoCallback, CallsHavePackets
<1>3. CASE Stop
  BY <1>3 DEF Stop, CallsHavePackets
<1>4. ASSUME NEW s \in Stream, PacketArrives(s)
      PROVE  CallsHavePackets'
  <2> DEFINE q == Append(Room(packets[s]), produced[s])
  <2>1. q # <<>>
    BY RoomType DEF CamTypeOK, StreamTypeOK
  <2>3. packets' = [packets EXCEPT ![s] = q]
    BY <1>4 DEF PacketArrives, Room
  <2> HIDE DEF q
  <2>4. packets'[s] # <<>>
    BY <2>1, <2>3 DEF CamTypeOK, StreamTypeOK
  <2>5. \A t \in Stream \ {s} : packets'[t] = packets[t] /\ reader'[t] = reader[t]
    BY <1>4, <2>3 DEF PacketArrives, CamTypeOK, StreamTypeOK
  <2> QED
    BY <2>4, <2>5 DEF CallsHavePackets
<1>5. ASSUME NEW s \in Stream, PublishAll(s) \/ NoCallback(s)
      PROVE  CallsHavePackets'
  BY <1>5 DEF PublishAll, NoCallback, CallsHavePackets, CamTypeOK, StreamTypeOK
<1>6. CASE UNCHANGED streamVars
  BY <1>6 DEF streamVars, CallsHavePackets
<1> QED
  BY <1>1, <1>2, <1>3, <1>4, <1>5, <1>6, StreamsKept DEF ReadStream

\* The types hold: no value is ever outside the kind its variable is for.
THEOREM CamTypeHolds == CamSpec => []CamTypeOK
<1>1. CamInit => CamTypeOK /\ CallsHavePackets
  BY TypeInit DEF CamInit, CallsHavePackets
<1>2. CamTypeOK /\ CallsHavePackets /\ [CamNext]_camVars => CamTypeOK' /\ CallsHavePackets'
  BY TypeStep, CallsStep
<1> QED
  BY <1>1, <1>2, PTL DEF CamSpec

-----------------------------------------------------------------------------
(* The device and what the node believes of it.                               *)

\* What a step does that is not of the node's thread.
LEMMA ThreadKept ==
  ASSUME [CamNext]_camVars, ~TryRestarting, ~VideoStreamCommand, ~Stop
  PROVE  /\ UNCHANGED <<settings, startVars, flashed, died>>
         /\ device' # device => device = "open" /\ device' = "lost"
<1>1. CASE UNCHANGED camVars
  BY <1>1 DEF camVars, deviceVars
<1>2. CASE ApplyControl \/ PlugOrUnplug
  BY <1>2 DEF ApplyControl, PlugOrUnplug
<1>3. CASE \E s \in Stream : ReadStream(s)
  BY <1>3 DEF ReadStream, PacketArrives, PublishAll, NoCallback, deviceVars
<1> QED
  BY <1>1, <1>2, <1>3 DEF CamNext, Process

LEMMA PhasesStep ==
  ASSUME CamTypeOK, Phases, [CamNext]_camVars PROVE Phases'
<1>1. CASE Restart
  BY <1>1 DEF Restart, Phases, deviceVars
<1>2. CASE Connect
  BY <1>2 DEF Connect, MayTry, Phases
<1>3. CASE ConnectFails
  BY <1>3 DEF ConnectFails, MayTry, Phases, deviceVars
<1>4. CASE LeaveLoop
  BY <1>4 DEF LeaveLoop, Phases, deviceVars
<1>5. CASE SendFirstControl
  BY <1>5 DEF SendFirstControl, Phases
<1>6. CASE SetRunning
  BY <1>6 DEF SetRunning, Phases, deviceVars
<1>7. CASE AddVideoCallback
  BY <1>7 DEF AddVideoCallback, Phases, deviceVars
<1>8. ASSUME NEW m \in Messages, StartCommand(m)
      PROVE  Phases'
  BY <1>8 DEF StartCommand, Phases, deviceVars
<1>9. ASSUME NEW m \in Messages, ChangeFocus(m)
      PROVE  Phases'
  <2>1. step' \in {"idle", "lens"} /\ UNCHANGED <<running, device>>
    BY <1>9 DEF ChangeFocus
  <2>2. running /\ device # "none"
    BY <1>9 DEF ChangeFocus, Phases
  <2> QED
    BY <2>1, <2>2 DEF Phases
<1>10. ASSUME NEW m \in Messages, UntypedCommand(m)
       PROVE  Phases'
  BY <1>10 DEF UntypedCommand, Phases, startVars, deviceVars
<1>11. CASE ChangeLens
  BY <1>11 DEF ChangeLens, Phases
<1>12. CASE Stop
  BY <1>12 DEF Stop, Phases
<1>13. CASE ~TryRestarting /\ ~VideoStreamCommand /\ ~Stop
  BY <1>13, ThreadKept DEF Phases, startVars
<1>14. ASSUME NEW s \in Stream, OpenQueue(s) \/ AddRawCallback(s)
       PROVE  Phases'
  BY <1>14 DEF OpenQueue, AddRawCallback, Phases, startVars, deviceVars
<1> QED
  BY <1>1, <1>2, <1>3, <1>4, <1>5, <1>6, <1>7, <1>8, <1>9, <1>10, <1>11, <1>12, <1>13, <1>14
  DEF TryRestarting, VideoStreamCommand

LEMMA FocusNotBuilt ==
  ASSUME settings \in Settings, NEW auto, NEW lens
  PROVE  /\ Built([settings EXCEPT !.autofocus = auto]) = Built(settings)
         /\ Built([settings EXCEPT !.lens = lens]) = Built(settings)
  BY DEF Built, Settings

LEMMA PipelinesStep ==
  ASSUME CamTypeOK, Phases, Pipelines, [CamNext]_camVars PROVE Pipelines'
<1> USE DEF Pipelines, DeviceRunsSettings
<1>1. CASE Restart
  BY <1>1 DEF Restart, Phases, deviceVars
<1>2. CASE Connect
  BY <1>2 DEF Connect, MayTry
<1>3. CASE ConnectFails \/ LeaveLoop
  BY <1>3 DEF ConnectFails, LeaveLoop, MayTry, deviceVars
<1>4. CASE SendFirstControl \/ SetRunning \/ AddVideoCallback
  BY <1>4 DEF SendFirstControl, SetRunning, AddVideoCallback, deviceVars
<1>5. ASSUME NEW m \in Messages, StartCommand(m)
      PROVE  Pipelines'
  BY <1>5 DEF StartCommand, Phases, deviceVars
<1>6. ASSUME NEW m \in Messages, ChangeFocus(m)
      PROVE  Pipelines'
  <2>1. Built(settings)' = Built(settings)
    BY <1>6, FocusNotBuilt DEF ChangeFocus, CamTypeOK, NodeTypeOK
  <2>2. step # "restart" /\ UNCHANGED <<pipeline, device, flashed>>
    BY <1>6 DEF ChangeFocus
  <2> QED
    BY <2>1, <2>2
<1>7. ASSUME NEW m \in Messages, UntypedCommand(m)
      PROVE  Pipelines'
  BY <1>7 DEF UntypedCommand, startVars, deviceVars
<1>8. CASE ChangeLens
  <2>1. Built(settings)' = Built(settings)
    BY <1>8, FocusNotBuilt DEF ChangeLens, CamTypeOK, NodeTypeOK
  <2>2. step # "restart" /\ UNCHANGED <<pipeline, device, flashed>>
    BY <1>8 DEF ChangeLens
  <2> QED
    BY <2>1, <2>2
<1>9. CASE Stop
  BY <1>9 DEF Stop
<1>10. CASE ~TryRestarting /\ ~VideoStreamCommand /\ ~Stop
  BY <1>10, ThreadKept DEF startVars
<1>11. ASSUME NEW s \in Stream, OpenQueue(s) \/ AddRawCallback(s)
       PROVE  Pipelines'
  BY <1>11 DEF OpenQueue, AddRawCallback, startVars, deviceVars
<1> QED
  BY <1>1, <1>2, <1>3, <1>4, <1>5, <1>6, <1>7, <1>8, <1>9, <1>10, <1>11
  DEF TryRestarting, VideoStreamCommand

LEMMA CrashStep ==
  ASSUME CamTypeOK, Phases, NoDeviceNoCrash, [CamNext]_camVars PROVE NoDeviceNoCrash'
<1> USE DEF NoDeviceNoCrash
<1>1. CASE SendFirstControl
  BY <1>1 DEF SendFirstControl, Send, Phases
<1>2. ASSUME NEW m \in Messages, ChangeFocus(m)
      PROVE  NoDeviceNoCrash'
  <2>1. device # "none" /\ device' = device
    BY <1>2 DEF ChangeFocus, Phases
  <2>2. died' # "null"
    BY <1>2, <2>1 DEF ChangeFocus, Send
  <2> QED
    BY <2>1, <2>2
<1>3. CASE ChangeLens
  BY <1>3 DEF ChangeLens, Send, Phases
<1>4. ASSUME NEW m \in Messages, StartCommand(m) \/ UntypedCommand(m)
      PROVE  NoDeviceNoCrash'
  BY <1>4 DEF StartCommand, UntypedCommand, deviceVars
<1>5. CASE Restart \/ ConnectFails \/ LeaveLoop \/ SetRunning \/ AddVideoCallback
  BY <1>5 DEF Restart, ConnectFails, LeaveLoop, SetRunning, AddVideoCallback, deviceVars
<1>6. CASE Connect
  BY <1>6 DEF Connect
<1>7. CASE Stop
  BY <1>7 DEF Stop
<1>8. CASE ~TryRestarting /\ ~VideoStreamCommand /\ ~Stop
  BY <1>8, ThreadKept
<1>9. ASSUME NEW s \in Stream, OpenQueue(s) \/ AddRawCallback(s)
      PROVE  NoDeviceNoCrash'
  BY <1>9 DEF OpenQueue, AddRawCallback, deviceVars
<1> QED
  BY <1>1, <1>2, <1>3, <1>4, <1>5, <1>6, <1>7, <1>8, <1>9 DEF TryRestarting, VideoStreamCommand

\* A start command leads to settings that were validated; only a camera that runs changes
\* them otherwise.
LEMMA StartedStep ==
  ASSUME CamTypeOK, Phases, StartedValid, [CamNext]_camVars PROVE StartedValid'
<1> USE DEF StartedValid
<1>1. CASE TryRestarting
  <2>1. UNCHANGED <<settings, commanded>>
    BY <1>1 DEF TryRestarting, Restart, Connect, ConnectFails, LeaveLoop, SendFirstControl,
                SetRunning, OpenQueue, AddRawCallback, AddVideoCallback, startVars
  <2>2. ~running' => ~running
    BY <1>1 DEF TryRestarting, Restart, Connect, ConnectFails, LeaveLoop, SendFirstControl,
                SetRunning, OpenQueue, AddRawCallback, AddVideoCallback, startVars, Phases
  <2> QED
    BY <2>1, <2>2 DEF AsParameters
<1>2. ASSUME NEW m \in Messages, StartCommand(m)
      PROVE  StartedValid'
  <2>1. settings' = Apply(m) /\ ValidateCameraParameters(Requested(m))
    BY <1>2 DEF StartCommand
  <2>2. ValidateCameraParameters(AsParameters(Apply(m)))
    BY <2>1, ApplyIsRequested DEF CamTypeOK, NodeTypeOK
  <2> QED
    BY <2>1, <2>2
<1>3. ASSUME NEW m \in Messages, ChangeFocus(m)
      PROVE  StartedValid'
  BY <1>3 DEF ChangeFocus
<1>4. ASSUME NEW m \in Messages, UntypedCommand(m)
      PROVE  StartedValid'
  BY <1>4 DEF UntypedCommand, startVars
<1>5. CASE ChangeLens
  BY <1>5 DEF ChangeLens, Phases
<1>6. CASE Stop
  BY <1>6 DEF Stop
<1>7. CASE ~TryRestarting /\ ~VideoStreamCommand /\ ~Stop
  BY <1>7, ThreadKept DEF startVars
<1> QED
  BY <1>1, <1>2, <1>3, <1>4, <1>5, <1>6, <1>7 DEF VideoStreamCommand

-----------------------------------------------------------------------------
(* Packets follow one upon the other.                                         *)

Follow(q) == \A i \in 1..(Len(q) - 1) : q[i + 1] = NextNumber(q[i])

\* StreamsFaithful and NoLag of one stream.
Faithful(s) ==
  /\ Follow(packets[s])
  /\ packets[s] # <<>> => produced[s] = NextNumber(packets[s][Len(packets[s])])
  /\ s = "video" =>
       NextNumber(published[s]) = IF packets[s] = <<>> THEN produced[s] ELSE packets[s][1]

LagFree(s) ==
  s \in callbacks =>
    (reader[s] = "read" /\ packets[s] # <<>> => published[s] = -1)

LEMMA FaithfulIsAll == StreamsFaithful <=> \A s \in Stream : Faithful(s)
  BY DEF StreamsFaithful, Faithful, Follow

LEMMA LagFreeIsAll == ASSUME CamTypeOK PROVE NoLag <=> \A s \in Stream : LagFree(s)
  BY DEF NoLag, LagFree, CamTypeOK, StreamTypeOK

LEMMA FirstNumber == NextNumber(-1) = 0
<1>1. Cycle \in Nat \ {0}
  BY BoundsAssumption
<1>2. 0 % Cycle = 0
  BY <1>1
<1> QED
  BY <1>2 DEF NextNumber

LEMMA AppendFollows ==
  ASSUME NEW q \in Seq(0..(Cycle - 1)), Follow(q),
         NEW n \in 0..(Cycle - 1), q # <<>> => n = NextNumber(q[Len(q)])
  PROVE  /\ Follow(Append(q, n))
         /\ Append(q, n) # <<>>
         /\ Append(q, n)[Len(Append(q, n))] = n
         /\ Append(q, n)[1] = IF q = <<>> THEN n ELSE q[1]
<1> DEFINE a == Append(q, n)
<1>1. /\ Len(a) = Len(q) + 1 /\ Len(q) \in Nat
      /\ \A i \in 1..Len(q) : a[i] = q[i]
      /\ a[Len(q) + 1] = n
      /\ a # <<>>
  OBVIOUS
<1>2. q = <<>> <=> Len(q) = 0
  OBVIOUS
<1> HIDE DEF a
<1>3. ASSUME NEW i \in 1..(Len(a) - 1)
      PROVE  a[i + 1] = NextNumber(a[i])
  <2>1. CASE i = Len(q)
    BY <1>1, <1>2, <2>1
  <2>2. CASE i < Len(q)
    <3>1. i \in 1..(Len(q) - 1) /\ i + 1 \in 1..Len(q) /\ i \in 1..Len(q)
      BY <1>1, <2>2
    <3>2. q[i + 1] = NextNumber(q[i])
      BY <3>1 DEF Follow
    <3> QED
      BY <1>1, <3>1, <3>2
  <2> QED
    BY <1>1, <2>1, <2>2
<1>4. a[1] = IF q = <<>> THEN n ELSE q[1]
  BY <1>1, <1>2
<1> QED
  BY <1>1, <1>3, <1>4 DEF Follow, a

LEMMA TailElements ==
  ASSUME NEW S, NEW q \in Seq(S), q # <<>>
  PROVE  /\ Len(Tail(q)) = Len(q) - 1 /\ Len(q) \in Nat \ {0}
         /\ \A i \in 1..Len(Tail(q)) : Tail(q)[i] = q[i + 1]
         /\ Tail(q) # <<>> => Len(Tail(q)) # 0
<1>1. Len(q) \in Nat \ {0}
  OBVIOUS
<1>2. Tail(q) \in Seq(S) /\ Len(Tail(q)) = Len(q) - 1
  OBVIOUS
<1>3. \A i \in 1..Len(Tail(q)) : Tail(q)[i] = q[i + 1]
  BY <1>2
<1>4. Tail(q) # <<>> => Len(Tail(q)) # 0
  BY <1>2
<1> QED
  BY <1>1, <1>2, <1>3, <1>4

LEMMA TailLast ==
  ASSUME NEW S, NEW q \in Seq(S), q # <<>>
  PROVE  q[Len(q)] = IF Tail(q) = <<>> THEN Head(q) ELSE Tail(q)[Len(Tail(q))]
<1> DEFINE t == Tail(q)
           n == Len(q)
<1>1. /\ Len(t) = n - 1 /\ n \in Nat \ {0}
      /\ \A i \in 1..Len(t) : t[i] = q[i + 1]
      /\ t # <<>> => Len(t) # 0
  BY TailElements
<1>2. Head(q) = q[1]
  OBVIOUS
<1> HIDE DEF t, n
<1>3. CASE t = <<>>
  <2>1. Len(t) = 0
    BY <1>3
  <2>2. n = 1
    BY <1>1, <2>1
  <2> QED
    BY <1>2, <1>3, <2>2 DEF t, n
<1>4. CASE t # <<>>
  <2>1. t[Len(t)] = q[n]
    BY <1>1, <1>4
  <2> QED
    BY <1>4, <2>1 DEF t, n
<1> QED
  BY <1>3, <1>4

LEMMA TailFollows ==
  ASSUME NEW q \in Seq(0..(Cycle - 1)), Follow(q), q # <<>>
  PROVE  /\ Follow(Tail(q))
         /\ Tail(q) # <<>> => Tail(q)[Len(Tail(q))] = q[Len(q)]
<1> DEFINE t == Tail(q)
<1>1. /\ Len(t) = Len(q) - 1 /\ Len(q) \in Nat \ {0}
      /\ \A i \in 1..Len(t) : t[i] = q[i + 1]
  BY TailElements
<1>3. t # <<>> => t[Len(t)] = q[Len(q)]
  BY TailLast
<1> HIDE DEF t
<1>2. ASSUME NEW i \in 1..(Len(t) - 1)
      PROVE  t[i + 1] = NextNumber(t[i])
  <2>1. i \in 1..Len(t) /\ i + 1 \in 1..Len(t) /\ i + 1 \in 1..(Len(q) - 1)
    BY <1>1
  <2>2. q[(i + 1) + 1] = NextNumber(q[i + 1])
    BY <2>1 DEF Follow
  <2> QED
    BY <1>1, <2>1, <2>2
<1> QED
  BY <1>2, <1>3 DEF Follow, t

LEMMA ArrivalFollows ==
  ASSUME CamTypeOK, NEW s \in Stream, Faithful(s), PacketArrives(s)
  PROVE  Faithful(s)'
<1> DEFINE q == packets[s]
           n == produced[s]
<1>1. q \in Seq(0..(Cycle - 1)) /\ Len(q) <= QueueSize /\ n \in 0..(Cycle - 1)
  BY DEF CamTypeOK, StreamTypeOK
<1>2. Follow(q) /\ (q # <<>> => n = NextNumber(q[Len(q)]))
  BY DEF Faithful
<1>3. packets'[s] = Append(Room(q), n) /\ produced'[s] = NextNumber(n) /\ published' = published
  BY DEF PacketArrives, Room, CamTypeOK, StreamTypeOK
<1>4. s = "video" => Len(q) < QueueSize
  BY DEF PacketArrives
<1>5. s = "video" => NextNumber(published[s]) = IF q = <<>> THEN n ELSE q[1]
  BY DEF Faithful
<1> HIDE DEF q, n
<1>6. CASE Len(q) < QueueSize
  <2>1. Room(q) = q
    BY <1>6 DEF Room
  <2> QED
    BY <1>1, <1>2, <1>3, <1>5, <2>1, AppendFollows DEF Faithful
<1>7. CASE ~(Len(q) < QueueSize)
  <2>1. Room(q) = Tail(q) /\ s # "video"
    BY <1>4, <1>7 DEF Room
  <2>2. q # <<>>
    BY <1>7, BoundsAssumption
  <2>3. Tail(q) \in Seq(0..(Cycle - 1))
    BY <1>1, <2>2
  <2>4. Follow(Tail(q)) /\ (Tail(q) # <<>> => n = NextNumber(Tail(q)[Len(Tail(q))]))
    BY <1>1, <1>2, <2>2, TailFollows
  <2> DEFINE a == Append(Tail(q), n)
  <2>5. Follow(a) /\ a # <<>> /\ a[Len(a)] = n
    BY <1>1, <2>3, <2>4, AppendFollows
  <2>6. packets'[s] = a
    BY <1>3, <2>1
  <2> HIDE DEF a
  <2> QED
    BY <1>3, <2>1, <2>5, <2>6 DEF Faithful
<1> QED
  BY <1>6, <1>7

LEMMA PublicationFollows ==
  ASSUME CamTypeOK, CallsHavePackets, NEW s \in Stream, Faithful(s), PublishAll(s)
  PROVE  Faithful(s)'
<1>1. packets'[s] = <<>> /\ published'[s] = packets[s][Len(packets[s])] /\ produced' = produced
  BY DEF PublishAll, CamTypeOK, StreamTypeOK
<1>2. packets[s] # <<>>
  BY DEF PublishAll, CallsHavePackets
<1> QED
  BY <1>1, <1>2 DEF Faithful, Follow

LEMMA FaithfulKept ==
  ASSUME NEW s \in Stream, Faithful(s),
         packets'[s] = packets[s], produced'[s] = produced[s], published'[s] = published[s]
  PROVE  Faithful(s)'
  BY DEF Faithful, Follow

LEMMA LagFreeArrival ==
  ASSUME CamTypeOK, NEW s \in Stream, PacketArrives(s) \/ NoCallback(s), LagFree(s)
  PROVE  LagFree(s)'
  BY DEF PacketArrives, NoCallback, LagFree, CamTypeOK, StreamTypeOK

\* A stream reads its own queue only, and only once it was asked for.
LEMMA ReadingApart ==
  ASSUME CamTypeOK, Quiet, NEW s \in Stream, ReadStream(s)
  PROVE  /\ Opening /\ UNCHANGED <<running, step, callbacks>>
         /\ \A t \in Stream \ {s} : /\ packets'[t] = packets[t] /\ reader'[t] = reader[t]
                                    /\ produced'[t] = produced[t]
                                    /\ published'[t] = published[t]
         /\ Asked(s) /\ Asked(s)'
<1>1. Opening
  BY DEF Quiet, ReadStream, PacketArrives, PublishAll, NoCallback
<1>2. CASE PacketArrives(s)
  BY <1>1, <1>2 DEF PacketArrives, startVars, CamTypeOK, StreamTypeOK, Asked
<1>3. CASE PublishAll(s)
  BY <1>1, <1>3 DEF PublishAll, startVars, CamTypeOK, StreamTypeOK, Asked
<1>4. CASE NoCallback(s)
  BY <1>1, <1>4 DEF NoCallback, startVars, CamTypeOK, StreamTypeOK, Asked
<1> QED
  BY <1>2, <1>3, <1>4 DEF ReadStream

\* Once the queues are asked for, the node goes on to run and stays so.
LEMMA OpeningKept ==
  ASSUME CamTypeOK, Phases, [CamNext]_camVars
  PROVE  /\ Opening => Opening'
         /\ step' = "queues" => step = "queues" \/ ~Opening
<1> USE DEF Opening
<1>1. CASE TryRestarting
  BY <1>1 DEF TryRestarting, Restart, Connect, ConnectFails, LeaveLoop, SendFirstControl,
              SetRunning, OpenQueue, AddRawCallback, AddVideoCallback, startVars, Phases,
              CamTypeOK, NodeTypeOK
<1>2. CASE VideoStreamCommand
  BY <1>2 DEF VideoStreamCommand, StartCommand, ChangeFocus, UntypedCommand, ChangeLens, startVars
<1>3. CASE Stop
  BY <1>3 DEF Stop
<1>4. CASE ~TryRestarting /\ ~VideoStreamCommand /\ ~Stop
  BY <1>4, ThreadKept DEF startVars
<1> QED
  BY <1>1, <1>2, <1>3, <1>4

StreamsInv == Quiet /\ CallbacksAsked /\ StreamsWait /\ StreamsFaithful /\ NoLag

\* A queue that has just been asked for has no callback.
LEMMA QueueStep ==
  ASSUME CamTypeOK, StreamsInv, NEW s \in Stream, OpenQueue(s)
  PROVE  StreamsInv'
<1> USE DEF StreamsInv
<1>1. /\ step = "queues" /\ step' = "queues" /\ s \notin callbacks
      /\ UNCHANGED <<running, callbacks, packets, produced, published>>
  BY DEF OpenQueue, startVars, CallbacksAsked, Asked
<1>2. \A t \in Stream \ {s} : reader'[t] = reader[t]
  BY DEF OpenQueue, CamTypeOK, StreamTypeOK
<1>3. callbacks \subseteq Stream
  BY DEF CamTypeOK, StreamTypeOK
<1>4. Quiet' /\ StreamsWait' /\ StreamsFaithful'
  BY <1>1 DEF Quiet, Opening, StreamsWait, StreamsFaithful
<1>5. CallbacksAsked'
  BY <1>1, <1>2, <1>3 DEF CallbacksAsked, Asked
<1>6. NoLag'
  BY <1>1, <1>2, <1>3 DEF NoLag
<1> QED
  BY <1>4, <1>5, <1>6

\* A stream whose callback is added has published nothing.
LEMMA CallbackStep ==
  ASSUME CamTypeOK, Phases, StreamsInv, NEW s \in Stream,
         AddRawCallback(s) \/ (s = "video" /\ AddVideoCallback)
  PROVE  StreamsInv'
<1> USE DEF StreamsInv
<1>1. /\ Opening /\ Opening'
      /\ callbacks' = callbacks \union {s}
      /\ UNCHANGED <<packets, reader, produced, published>>
  BY DEF AddRawCallback, AddVideoCallback, startVars, Opening, Phases
<1>2. step' = "queues" => step = "queues" /\ Asked(s)
  BY DEF AddRawCallback, AddVideoCallback, startVars
<1>3. Quiet' /\ StreamsWait' /\ StreamsFaithful'
  BY <1>1 DEF Quiet, StreamsWait, StreamsFaithful
<1>4. CallbacksAsked'
  BY <1>1, <1>2 DEF CallbacksAsked, Asked
<1>5. NoLag'
  BY <1>1 DEF StreamsWait, NoLag
<1> QED
  BY <1>3, <1>4, <1>5

LEMMA ReadingStep ==
  ASSUME CamTypeOK, CallsHavePackets, StreamsInv, NEW s \in Stream, ReadStream(s)
  PROVE  StreamsInv'
<1> USE DEF StreamsInv
<1>0. (\A t \in Stream : Faithful(t)) /\ (\A t \in Stream : LagFree(t))
  BY FaithfulIsAll, LagFreeIsAll
<1>1. /\ Opening /\ UNCHANGED <<running, step, callbacks>>
      /\ \A t \in Stream \ {s} : /\ packets'[t] = packets[t] /\ reader'[t] = reader[t]
                                 /\ produced'[t] = produced[t]
                                 /\ published'[t] = published[t]
      /\ Asked(s) /\ Asked(s)'
  BY ReadingApart
<1>2. Quiet' /\ CallbacksAsked'
  BY <1>1 DEF Quiet, Opening, CallbacksAsked, Asked, CamTypeOK, StreamTypeOK
<1>3. StreamsWait'
  <2>1. s \notin callbacks => published'[s] = published[s]
    BY DEF ReadStream, PacketArrives, PublishAll, NoCallback
  <2> QED
    BY <1>1, <2>1 DEF StreamsWait
<1>4. Faithful(s)' /\ LagFree(s)'
  <2>1. CASE PacketArrives(s)
    BY <1>0, <2>1, ArrivalFollows, LagFreeArrival
  <2>2. CASE PublishAll(s)
    <3>1. packets'[s] = <<>>
      BY <2>2 DEF PublishAll, CamTypeOK, StreamTypeOK
    <3> QED
      BY <1>0, <2>2, <3>1, PublicationFollows DEF LagFree
  <2>3. CASE NoCallback(s)
    BY <1>0, <2>3, FaithfulKept, LagFreeArrival DEF NoCallback
  <2> QED
    BY <2>1, <2>2, <2>3 DEF ReadStream
<1>5. \A t \in Stream \ {s} : Faithful(t)' /\ LagFree(t)'
  BY <1>0, <1>1, FaithfulKept DEF LagFree
<1>6. StreamsFaithful'
  BY <1>4, <1>5 DEF StreamsFaithful, Faithful, Follow
<1>7. NoLag'
  <2>1. callbacks' \subseteq Stream
    BY <1>1 DEF CamTypeOK, StreamTypeOK
  <2> QED
    BY <1>4, <1>5, <2>1 DEF NoLag, LagFree
<1> QED
  BY <1>2, <1>3, <1>6, <1>7

LEMMA StreamsStep ==
  ASSUME CamTypeOK, CallsHavePackets, Phases, StreamsInv, [CamNext]_camVars
  PROVE  StreamsInv'
<1>1. ASSUME NEW s \in Stream, OpenQueue(s)
      PROVE  StreamsInv'
  BY <1>1, QueueStep
<1>2. ASSUME NEW s \in Stream, AddRawCallback(s)
      PROVE  StreamsInv'
  BY <1>2, CallbackStep
<1>3. CASE AddVideoCallback
  BY <1>3, CallbackStep, BoundsAssumption
<1>4. CASE Stop
  <2> USE DEF StreamsInv
  <2>1. /\ step = "idle" /\ step' = "gone"
        /\ UNCHANGED <<running, packets, callbacks, produced, published>>
        /\ reader' = [s \in Stream |-> "off"]
    BY <1>4 DEF Stop
  <2>2. Quiet' /\ StreamsWait' /\ CallbacksAsked'
    BY <2>1 DEF Quiet, Opening, StreamsWait, CallbacksAsked
  <2>3. StreamsFaithful'
    BY <2>1 DEF StreamsFaithful
  <2>4. NoLag'
    BY <2>1 DEF NoLag, CamTypeOK, StreamTypeOK
  <2> QED
    BY <2>2, <2>3, <2>4
<1>5. ASSUME NEW s \in Stream, ReadStream(s)
      PROVE  StreamsInv'
  BY <1>5, ReadingStep
<1>6. CASE UNCHANGED streamVars
  <2> USE DEF StreamsInv
  <2>1. Quiet'
    BY <1>6, OpeningKept DEF streamVars, Quiet
  <2>2. CallbacksAsked'
    BY <1>6, OpeningKept DEF streamVars, Quiet, CallbacksAsked, Asked
  <2>3. StreamsWait' /\ StreamsFaithful' /\ NoLag'
    BY <1>6 DEF streamVars, StreamsWait, StreamsFaithful, NoLag
  <2> QED
    BY <2>1, <2>2, <2>3
<1> QED
  BY <1>1, <1>2, <1>3, <1>4, <1>5, <1>6, StreamsKept

-----------------------------------------------------------------------------
(* The controls that were sent and the settings.                              *)

LEMMA SentIsLast ==
  ASSUME CamTypeOK, NEW c, Send(c), UNCHANGED <<device, focus>>
  PROVE  device' = "open" /\ died' = "no" => LastControl' = c
<1>1. CASE device = "open"
  <2>1. controls' = Append(controls, c)
    BY <1>1 DEF Send
  <2>2. controls \in Seq(Control)
    BY DEF CamTypeOK, DeviceTypeOK, Control
  <2>3. controls' # <<>> /\ controls'[Len(controls')] = c
    BY <2>1, <2>2
  <2> QED
    BY <2>3 DEF LastControl
<1> QED
  BY <1>1

LEMMA FocusStep ==
  ASSUME CamTypeOK, Phases, FocusSent, [CamNext]_camVars
  PROVE  FocusSent'
<1> USE DEF FocusSent
<1>1. CASE Restart \/ Connect \/ ConnectFails
  BY <1>1 DEF Restart, Connect, ConnectFails, MayTry
<1>2. CASE LeaveLoop
  BY <1>2 DEF LeaveLoop, deviceVars
<1>3. CASE SendFirstControl
  BY <1>3, SentIsLast DEF SendFirstControl
<1>4. CASE SetRunning \/ AddVideoCallback
  BY <1>4 DEF SetRunning, AddVideoCallback, deviceVars, LastControl
<1>5. ASSUME NEW m \in Messages, StartCommand(m)
      PROVE  FocusSent'
  BY <1>5 DEF StartCommand
<1>6. ASSUME NEW m \in Messages, ChangeFocus(m)
      PROVE  FocusSent'
  <2> DEFINE auto == Given(m, "autofocus", settings.autofocus)
  <2>1. /\ settings' = [settings EXCEPT !.autofocus = auto]
        /\ step = "idle" /\ UNCHANGED <<device, focus>>
        /\ IF auto # settings.autofocus THEN Send(ControlFor(settings'))
                                        ELSE UNCHANGED <<controls, died>>
        /\ step' = IF auto THEN step ELSE "lens"
    BY <1>6 DEF ChangeFocus
  <2> HIDE DEF auto
  <2>2. settings'.autofocus = auto
    BY <2>1 DEF CamTypeOK, NodeTypeOK, Settings
  <2>3. CASE auto # settings.autofocus
    BY <2>1, <2>2, <2>3, SentIsLast
  <2>4. CASE auto = settings.autofocus
    <3>1. settings' = settings
      BY <2>1, <2>4 DEF CamTypeOK, NodeTypeOK, Settings
    <3> QED
      BY <2>1, <2>2, <2>4, <3>1 DEF LastControl
  <2> QED
    BY <2>3, <2>4
<1>7. ASSUME NEW m \in Messages, UntypedCommand(m)
      PROVE  FocusSent'
  BY <1>7 DEF UntypedCommand, startVars
<1>8. CASE ChangeLens
  <2>1. settings' = [settings EXCEPT !.lens = lensWanted] /\ step = "lens" /\ step' = "idle"
    BY <1>8 DEF ChangeLens
  <2>2. ~settings'.autofocus /\ settings'.lens = lensWanted
    BY <2>1 DEF CamTypeOK, NodeTypeOK, Settings
  <2>3. ControlFor(settings)' = Manual(lensWanted)
    BY <2>2 DEF ControlFor
  <2> QED
    BY <1>8, <2>1, <2>3, SentIsLast DEF ChangeLens
<1>9. CASE Stop
  BY <1>9 DEF Stop
<1>10. CASE ApplyControl
  <2>1. controls \in Seq(Control) /\ controls # <<>> /\ focus' = Head(controls) /\ controls' = Tail(controls)
    BY <1>10 DEF ApplyControl, CamTypeOK, DeviceTypeOK, Control
  <2>2. LastControl' = LastControl
    BY <2>1, TailLast DEF LastControl
  <2> QED
    BY <1>10, <2>2 DEF ApplyControl, startVars
<1>11. CASE PlugOrUnplug
  BY <1>11 DEF PlugOrUnplug, startVars, LastControl
<1>12. ASSUME NEW s \in Stream, ReadStream(s)
       PROVE  FocusSent'
  BY <1>12 DEF ReadStream, PacketArrives, PublishAll, NoCallback, startVars, deviceVars, LastControl
<1>13. CASE UNCHANGED camVars
  BY <1>13 DEF camVars, startVars, deviceVars, LastControl
<1>14. ASSUME NEW s \in Stream, OpenQueue(s) \/ AddRawCallback(s), died = "no"
       PROVE  FocusSent'
  BY <1>14 DEF OpenQueue, AddRawCallback, startVars, deviceVars, LastControl
<1> QED
  BY <1>1, <1>2, <1>3, <1>4, <1>5, <1>6, <1>7, <1>8, <1>9, <1>10, <1>11, <1>12, <1>13, <1>14
  DEF CamNext, Process, TryRestarting, VideoStreamCommand

-----------------------------------------------------------------------------
(* The properties.                                                            *)

CamInv ==
  /\ CamTypeOK /\ CallsHavePackets
  /\ Phases /\ Pipelines /\ NoDeviceNoCrash /\ StartedValid
  /\ StreamsInv /\ FocusSent

LEMMA CamInvInit == CamInit => CamInv
<1> SUFFICES ASSUME CamInit PROVE CamInv
  OBVIOUS
<1>1. CamTypeOK /\ CallsHavePackets
  BY TypeInit DEF CamInit, CallsHavePackets
<1>2. Phases /\ Pipelines /\ NoDeviceNoCrash /\ StartedValid
  BY DEF CamInit, Phases, Pipelines, DeviceRunsSettings, NoDeviceNoCrash, StartedValid
<1>3. Quiet /\ CallbacksAsked /\ StreamsWait /\ NoLag
  BY DEF CamInit, Quiet, CallbacksAsked, StreamsWait, NoLag
<1>4. StreamsFaithful
  BY FirstNumber DEF CamInit, StreamsFaithful
<1>5. FocusSent
  BY DEF CamInit, FocusSent
<1> QED
  BY <1>1, <1>2, <1>3, <1>4, <1>5 DEF CamInv, StreamsInv

\* The invariant holds in every state of every behaviour.
THEOREM CamInvHolds == CamSpec => []CamInv
<1>1. CamInv /\ [CamNext]_camVars => CamInv'
  BY TypeStep, CallsStep, PhasesStep, PipelinesStep, CrashStep, StartedStep, StreamsStep,
     FocusStep
  DEF CamInv
<1> QED
  BY <1>1, CamInvInit, PTL DEF CamSpec

\* No sequence of starts, failed attempts, losses of the device and commands makes the node
\* believe it runs without a device, or have a device and not run.
THEOREM RunningIsDevice == CamSpec => []RunningIffDevice
<1>1. CamInv => RunningIffDevice
  BY DEF CamInv, Phases, RunningIffDevice
<1> QED
  BY <1>1, CamInvHolds, PTL

\* Whatever commands come, the device encodes what the node's settings say.
THEOREM SettingsAreRun == CamSpec => []DeviceRunsSettings
<1>1. CamInv => DeviceRunsSettings
  BY DEF CamInv, Pipelines
<1> QED
  BY <1>1, CamInvHolds, PTL

\* After any sequence of starts and focus commands the lens ends up where the settings say.
THEOREM FocusIsSettings == CamSpec => []FocusSettles
<1>1. CamInv => FocusSettles
  BY DEF CamInv, FocusSent, LastControl, FocusSettles
<1> QED
  BY <1>1, CamInvHolds, PTL

\* What a start command leads to has passed the validation.
THEOREM StartsAreValid == CamSpec => []StartedValid
<1>1. CamInv => StartedValid
  BY DEF CamInv
<1> QED
  BY <1>1, CamInvHolds, PTL

\* Without a device nothing is sent to one.
THEOREM NoDeviceIsSafe == CamSpec => []NoDeviceNoCrash
<1>1. CamInv => NoDeviceNoCrash
  BY DEF CamInv
<1> QED
  BY <1>1, CamInvHolds, PTL

\* No video packet is lost, repeated or reordered between the device and the topic, for
\* queues of any size.
THEOREM StreamsAreFaithful == CamSpec => []StreamsFaithful
<1>1. CamInv => StreamsFaithful
  BY DEF CamInv, StreamsInv
<1> QED
  BY <1>1, CamInvHolds, PTL

\* A callback leaves nothing behind that would be published a frame late from then on,
\* whatever came between a queue and its callback.
THEOREM NothingLags == CamSpec => []NoLag
<1>1. CamInv => NoLag
  BY DEF CamInv, StreamsInv
<1> QED
  BY <1>1, CamInvHolds, PTL

-----------------------------------------------------------------------------
(* The node implements CameraFeed.                                            *)

\* A thread reads a stream of the device's pipeline, and only while there is a device.
ReadersOfJob ==
  /\ device = "closed" => step = "gone"
  /\ \A s \in Stream :
       reader[s] # "off" => s \in StreamsOf(flashed) /\ device \in {"open", "lost"}

LEMMA ReadersStep ==
  ASSUME CamInv, ReadersOfJob, [CamNext]_camVars
  PROVE  ReadersOfJob'
<1> USE DEF ReadersOfJob
<1>1. CASE Connect
  <2>1. device = "none" /\ device' = "open" /\ reader' = reader
    BY <1>1 DEF Connect, MayTry, streamVars
  <2> QED
    BY <2>1
<1>2. CASE \/ Restart \/ ConnectFails \/ LeaveLoop \/ SendFirstControl \/ SetRunning
           \/ AddVideoCallback \/ \E s \in Stream : AddRawCallback(s)
  <2>1. step # "gone" /\ UNCHANGED <<device, flashed, reader>>
    BY <1>2 DEF Restart, ConnectFails, MayTry, LeaveLoop, SendFirstControl, SetRunning,
                AddVideoCallback, AddRawCallback, startVars, deviceVars, streamVars
  <2> QED
    BY <2>1
<1>3. ASSUME NEW s \in Stream, OpenQueue(s)
      PROVE  ReadersOfJob'
  <2>1. /\ step = "queues" /\ UNCHANGED <<device, flashed, step>>
        /\ s \in StreamsOf(pipeline)
        /\ reader' = [reader EXCEPT ![s] = "read"]
    BY <1>3 DEF OpenQueue, startVars, deviceVars
  <2>2. device \in {"open", "lost"}
    BY <2>1 DEF CamInv, CamTypeOK, DeviceTypeOK, Phases
  <2>3. flashed = pipeline
    BY <2>1, <2>2 DEF CamInv, Pipelines, DeviceRunsSettings
  <2> QED
    BY <2>1, <2>2, <2>3 DEF StreamsOf
<1>4. ASSUME NEW m \in Messages, StartCommand(m) \/ ChangeFocus(m) \/ UntypedCommand(m)
      PROVE  ReadersOfJob'
  <2>1. step = "idle" /\ UNCHANGED <<device, flashed, reader>>
    BY <1>4 DEF StartCommand, ChangeFocus, UntypedCommand, deviceVars, streamVars
  <2> QED
    BY <2>1
<1>5. CASE ChangeLens
  <2>1. step = "lens" /\ UNCHANGED <<device, flashed, reader>>
    BY <1>5 DEF ChangeLens, streamVars
  <2> QED
    BY <2>1
<1>6. CASE Stop
  BY <1>6 DEF Stop
<1>7. ASSUME NEW s \in Stream, ReadStream(s)
      PROVE  ReadersOfJob'
  <2>1. UNCHANGED <<device, flashed, step>>
    BY <1>7 DEF ReadStream, PacketArrives, PublishAll, NoCallback, deviceVars, startVars
  <2>2. \A t \in Stream : reader'[t] # "off" => reader[t] # "off"
    BY <1>7 DEF ReadStream, PacketArrives, PublishAll, NoCallback, CamInv, CamTypeOK, StreamTypeOK
  <2> QED
    BY <2>1, <2>2
<1>8. CASE ApplyControl \/ PlugOrUnplug
  BY <1>8 DEF ApplyControl, PlugOrUnplug, startVars, streamVars
<1>9. CASE UNCHANGED camVars
  BY <1>9 DEF camVars, startVars, deviceVars, streamVars
<1> QED
  BY <1>1, <1>2, <1>3, <1>4, <1>5, <1>6, <1>7, <1>8, <1>9
  DEF CamNext, Process, TryRestarting, VideoStreamCommand

\* What a step that is not of the abstract feed leaves alone.
LEMMA FeedKept ==
  ASSUME Built(settings)' = Built(settings),
         UNCHANGED <<device, flashed, packets, produced, published>>
  PROVE  UNCHANGED Feed!feedVars
  BY DEF Feed!feedVars

\* A full queue keeps its length, any other grows by one.
LEMMA RoomLength ==
  ASSUME NEW q \in Seq(0..(Cycle - 1)), Len(q) <= QueueSize, NEW n \in 0..(Cycle - 1)
  PROVE  Len(Append(Room(q), n)) = IF Len(q) < QueueSize THEN Len(q) + 1 ELSE Len(q)
<1>1. QueueSize \in Nat \ {0} /\ Len(q) \in Nat
  BY BoundsAssumption
<1>2. CASE Len(q) < QueueSize
  BY <1>1, <1>2 DEF Room
<1>3. CASE ~(Len(q) < QueueSize)
  <2>1. q # <<>>
    BY <1>1, <1>3
  <2>2. Tail(q) \in Seq(0..(Cycle - 1)) /\ Len(Tail(q)) = Len(q) - 1
    BY <2>1
  <2> QED
    BY <1>1, <1>3, <2>2 DEF Room
<1> QED
  BY <1>2, <1>3

LEMMA CarriedStream ==
  ASSUME NEW s \in Stream, ReadersOfJob, reader[s] # "off"
  PROVE  Feed!Carried(s) /\ device \in {"open", "lost"}
  BY DEF ReadersOfJob, StreamsOf, Feed!Carried

LEMMA ArrivalRecords ==
  ASSUME CamInv, ReadersOfJob, NEW s \in Stream, PacketArrives(s)
  PROVE  Feed!Record(s)
<1> DEFINE q == packets[s]
           a == Append(Room(q), produced[s])
<1>1. q \in Seq(0..(Cycle - 1)) /\ Len(q) <= QueueSize /\ produced[s] \in 0..(Cycle - 1)
  BY DEF CamInv, CamTypeOK, StreamTypeOK
<1>2. Len(a) = IF Len(q) < QueueSize THEN Len(q) + 1 ELSE Len(q)
  BY <1>1, RoomLength
<1>3. packets' = [packets EXCEPT ![s] = a]
  BY DEF PacketArrives, Room
<1>4. Feed!Carried(s)
  BY CarriedStream DEF PacketArrives
<1>5. packets \in [Stream -> Seq(0..(Cycle - 1))]
  BY DEF CamInv, CamTypeOK, StreamTypeOK
<1> HIDE DEF a
<1>6. [t \in Stream |-> Len(packets'[t])]
        = [[t \in Stream |-> Len(packets[t])] EXCEPT
             ![s] = IF @ < QueueSize THEN @ + 1 ELSE @]
  BY <1>2, <1>3, <1>5
<1>7. UNCHANGED <<device, flashed, published>> /\ Built(settings)' = Built(settings)
  BY DEF PacketArrives, deviceVars, Built
<1>8. produced' = [produced EXCEPT ![s] = Feed!Following(@)]
  BY DEF PacketArrives, NextNumber, Feed!Following
<1>9. device = "open" /\ (s = "video" => Len(q) < QueueSize)
  BY DEF PacketArrives
<1> QED
  BY <1>4, <1>6, <1>7, <1>8, <1>9 DEF Feed!Record

\* The newest packet of a queue is the one before the next to come.
LEMMA PublicationShows ==
  ASSUME CamInv, ReadersOfJob, NEW s \in Stream, PublishAll(s)
  PROVE  Feed!Show(s)
<1> DEFINE q == packets[s]
           n == q[Len(q)]
<1>1. q \in Seq(0..(Cycle - 1)) /\ q # <<>>
  BY DEF CamInv, CamTypeOK, StreamTypeOK, CallsHavePackets, PublishAll
<1>2. n \in 0..(Cycle - 1) /\ Len(q) > 0
  <2>1. n \in 0..(Cycle - 1)
    BY <1>1, LastType
  <2>2. Len(q) > 0
    BY <1>1
  <2> QED
    BY <2>1, <2>2
<1>3. produced[s] = NextNumber(n)
  BY <1>1 DEF CamInv, StreamsInv, StreamsFaithful
<1>4. published' = [published EXCEPT ![s] = n] /\ packets' = [packets EXCEPT ![s] = <<>>]
  BY DEF PublishAll
<1>5. packets \in [Stream -> Seq(0..(Cycle - 1))]
  BY DEF CamInv, CamTypeOK, StreamTypeOK
<1>6. Feed!Carried(s) /\ device \in {"open", "lost"}
  BY CarriedStream DEF PublishAll
<1>7. [t \in Stream |-> Len(packets'[t])] = [[t \in Stream |-> Len(packets[t])] EXCEPT ![s] = 0]
  BY <1>4, <1>5
<1>8. UNCHANGED <<device, flashed, produced>> /\ Built(settings)' = Built(settings)
  BY DEF PublishAll, deviceVars, Built
<1> HIDE DEF n
<1>9. \E k \in 0..(Cycle - 1) : /\ Feed!Following(k) = produced[s]
                                /\ published' = [published EXCEPT ![s] = k]
  BY <1>2, <1>3, <1>4 DEF NextNumber, Feed!Following
<1> QED
  BY <1>2, <1>6, <1>7, <1>8, <1>9 DEF Feed!Show

LEMMA ApplyKeepsStreams ==
  ASSUME settings \in Settings, NEW m \in Messages
  PROVE  /\ Built(Apply(m))["raw"] = Built(settings)["raw"]
         /\ Built(Apply(m))["mono"] = Built(settings)["mono"]
  BY DEF Built, Apply, Settings

LEMMA CommandAsks ==
  ASSUME CamInv, VideoStreamCommand
  PROVE  [Feed!Next]_Feed!feedVars
<1>1. settings \in Settings
  BY DEF CamInv, CamTypeOK, NodeTypeOK
<1>2. ASSUME NEW m \in Messages, StartCommand(m)
      PROVE  Feed!Ask
  <2>1. device = "none" /\ settings' = Apply(m)
    BY <1>2 DEF StartCommand, CamInv, Phases
  <2>2. /\ Built(settings)'["raw"] = Built(settings)["raw"]
        /\ Built(settings)'["mono"] = Built(settings)["mono"]
    BY <1>1, <2>1, ApplyKeepsStreams
  <2>3. UNCHANGED <<device, flashed, packets, produced, published>>
    BY <1>2 DEF StartCommand, deviceVars, streamVars
  <2> QED
    BY <2>1, <2>2, <2>3 DEF Feed!Ask
<1>3. ASSUME NEW m \in Messages, ChangeFocus(m)
      PROVE  UNCHANGED Feed!feedVars
  <2>1. Built(settings)' = Built(settings)
    BY <1>1, <1>3, FocusNotBuilt DEF ChangeFocus
  <2> QED
    BY <1>3, <2>1, FeedKept DEF ChangeFocus, streamVars
<1>4. ASSUME NEW m \in Messages, UntypedCommand(m)
      PROVE  UNCHANGED Feed!feedVars
  BY <1>4, FeedKept DEF UntypedCommand, deviceVars, streamVars
<1>5. CASE ChangeLens
  <2>1. Built(settings)' = Built(settings)
    BY <1>1, <1>5, FocusNotBuilt DEF ChangeLens
  <2>2. UNCHANGED Feed!feedVars
    BY <1>5, <2>1, FeedKept DEF ChangeLens, streamVars
  <2> QED
    BY <2>2
<1> QED
  BY <1>2, <1>3, <1>4, <1>5 DEF VideoStreamCommand, Feed!Next

LEMMA FeedStep ==
  ASSUME CamInv, ReadersOfJob, [CamNext]_camVars
  PROVE  [Feed!Next]_Feed!feedVars
<1>1. CASE Connect
  <2>1. device = "none" /\ device' = "open" /\ flashed' = pipeline
    BY <1>1 DEF Connect, MayTry
  <2>2. pipeline = Built(settings)
    BY <1>1 DEF Connect, MayTry, CamInv, Pipelines
  <2>3. Built(settings)' = Built(settings) /\ UNCHANGED <<packets, produced, published>>
    BY <1>1 DEF Connect, streamVars
  <2>4. Feed!Open
    BY <2>1, <2>2, <2>3 DEF Feed!Open
  <2> QED
    BY <2>4 DEF Feed!Next
<1>2. CASE \/ Restart \/ ConnectFails \/ LeaveLoop \/ SendFirstControl \/ SetRunning
           \/ AddVideoCallback \/ \E s \in Stream : OpenQueue(s) \/ AddRawCallback(s)
  <2>1. UNCHANGED <<settings, device, flashed, packets, produced, published>>
    BY <1>2 DEF Restart, ConnectFails, LeaveLoop, SendFirstControl, SetRunning, OpenQueue,
                AddRawCallback, AddVideoCallback, deviceVars, streamVars
  <2> QED
    BY <2>1, FeedKept
<1>3. CASE VideoStreamCommand
  BY <1>3, CommandAsks
<1>4. CASE Stop
  <2>1. UNCHANGED <<settings, flashed, packets, produced, published>>
    BY <1>4 DEF Stop
  <2>2. CASE device = "none"
    BY <1>4, <2>1, <2>2, FeedKept DEF Stop
  <2>3. CASE device # "none"
    <3>1. device \in {"open", "lost"} /\ device' = "closed"
      BY <1>4, <2>3 DEF Stop, ReadersOfJob, CamInv, CamTypeOK, DeviceTypeOK
    <3>2. Feed!Close
      BY <2>1, <3>1 DEF Feed!Close
    <3> QED
      BY <3>2 DEF Feed!Next
  <2> QED
    BY <2>2, <2>3
<1>5. ASSUME NEW s \in Stream, ReadStream(s)
      PROVE  [Feed!Next]_Feed!feedVars
  <2>1. CASE PacketArrives(s)
    BY <2>1, ArrivalRecords DEF Feed!Next
  <2>2. CASE PublishAll(s)
    BY <2>2, PublicationShows DEF Feed!Next
  <2>3. CASE NoCallback(s)
    BY <2>3, FeedKept DEF NoCallback, deviceVars
  <2> QED
    BY <1>5, <2>1, <2>2, <2>3 DEF ReadStream
<1>6. CASE ApplyControl
  BY <1>6, FeedKept DEF ApplyControl, streamVars
<1>7. CASE PlugOrUnplug
  <2>1. UNCHANGED <<settings, flashed, packets, produced, published>>
    BY <1>7 DEF PlugOrUnplug, streamVars
  <2>2. CASE device' = device
    BY <2>1, <2>2, FeedKept
  <2>3. CASE device' # device
    <3>1. Feed!Lose
      BY <1>7, <2>1, <2>3 DEF PlugOrUnplug, Feed!Lose
    <3> QED
      BY <3>1 DEF Feed!Next
  <2> QED
    BY <2>2, <2>3
<1>8. CASE UNCHANGED camVars
  BY <1>8, FeedKept DEF camVars, deviceVars, streamVars
<1> QED
  BY <1>1, <1>2, <1>3, <1>4, <1>5, <1>6, <1>7, <1>8 DEF CamNext, Process, TryRestarting

LEMMA FeedStart == CamInit => Feed!Init /\ ReadersOfJob
<1> SUFFICES ASSUME CamInit PROVE Feed!Init /\ ReadersOfJob
  OBVIOUS
<1>1. [s \in Stream |-> Len(packets[s])] = [s \in Stream |-> 0]
  BY DEF CamInit
<1> QED
  BY <1>1 DEF CamInit, Feed!Init, ReadersOfJob

\* Every behaviour of the node is one of the feed it promises: commands, attempts, reading
\* threads, the loss of the device and the destructor, in any order.
THEOREM ImplementsFeed == CamSpec => FeedSpec
<1>1. CamInv /\ ReadersOfJob /\ [CamNext]_camVars => ReadersOfJob'
  BY ReadersStep
<1>2. CamInv /\ ReadersOfJob /\ [CamNext]_camVars => [Feed!Next]_Feed!feedVars
  BY FeedStep
<1> QED
  BY <1>1, <1>2, FeedStart, CamInvHolds, PTL DEF CamSpec, FeedSpec, Feed!Spec

=============================================================================
