--------------------------- MODULE DepthAICamera ---------------------------
(***************************************************************************)
(* The ROS 2 node DepthAICamera: the camera's settings and the commands    *)
(* that change them (VideoStreamCommand), the start with its attempts to   *)
(* open a device (TryRestarting), the controls sent to the device, and the *)
(* packets on their way from the device over a bounded queue per stream    *)
(* and a callback to the topics.                                           *)
(*                                                                         *)
(* The node's commands are in one callback group, so that one is handled   *)
(* at a time; the constructor's start comes before all of them.  The       *)
(* device, its reading threads and its loss go on beside them.             *)
(***************************************************************************)
EXTENDS DepthAIUtils

CONSTANTS
  Stream,         \* the device's output streams: "video", "color", "left", "right"
  StartSettings,  \* what the node's parameters may ask for
  Messages,       \* the commands that may arrive
  Attempts,       \* how often TryRestarting tries: 5
  QueueSize,      \* the size of a stream's queue: 30
  ControlsSize,   \* the default size of an input queue
  Cycle,          \* packets are numbered 0 .. Cycle - 1, again and again
  PromptSetup,    \* the video queue does not fill up before its callback is added
  MayUnplug,      \* whether devices come and go
  MayClose        \* whether the node is deleted

ASSUME BoundsAssumption ==
  /\ "video" \in Stream
  /\ Attempts \in Nat \ {0}
  /\ QueueSize \in Nat \ {0}
  /\ ControlsSize \in Nat \ {0}
  /\ Cycle \in Nat \ {0}

Settings == [width : Int, height : Int, fps : Int, bitrate : Int, lens : Int,
             h265 : BOOLEAN, mono : BOOLEAN, raw : BOOLEAN, autofocus : BOOLEAN]

\* A command has a field or it has not.  A value whose type the code tests for and does
\* not find counts as missing; that of another type of "command" is "untyped", and "mono"
\* is there only as the string the code asks for.
ASSUME InputAssumption ==
  /\ StartSettings \subseteq Settings
  /\ \A m \in Messages :
       /\ "command" \in DOMAIN m
       /\ \A f \in {"width", "height", "fps", "bitrate", "lens"} \cap DOMAIN m : m[f] \in Int
       /\ "autofocus" \in DOMAIN m => m["autofocus"] \in BOOLEAN

VARIABLES
  settings,   \* _videoWidth to _useAutoFocus
  lensParam,  \* the parameter lens_position
  commanded,  \* history: a start command has been accepted
  step,       \* where the thread that starts, commands or deletes the node is
  tries,      \* the attempts this TryRestarting has made
  lensWanted, \* videoLensPosition of the change_focus under way
  running,    \* _thread_running
  pipeline,   \* the settings _pipeline was built from
  died,       \* what has ended the process, if something has
  plugged,    \* whether a device can be found
  device,     \* _device
  flashed,    \* the pipeline that the device executes
  controls,   \* _colorCamInputQueue
  focus,      \* what the device's lens was told last
  packets,    \* the streams' queues
  reader,     \* the threads that read the streams
  callbacks,  \* the streams whose callback was added
  produced,   \* the number of a stream's next packet
  published   \* the number of the packet a stream published last, -1: none yet

startVars  == <<step, tries, lensWanted, running, pipeline, commanded>>
deviceVars == <<plugged, device, flashed, controls, focus>>
streamVars == <<packets, reader, callbacks, produced, published>>
camVars    == <<settings, lensParam, startVars, died, deviceVars, streamVars>>

\* "queues": between the first control and _thread_running; "lens": between the two controls
\* of a change_focus.
Step == {"restart", "connect", "control", "queues", "callback", "idle", "lens", "gone"}

Unbuilt == [s \in {} |-> s]

\* The part of the settings that a pipeline is built from.
Built(s) == [f \in {"width", "height", "fps", "bitrate", "h265", "mono", "raw"} |-> s[f]]

StreamsOf(p) ==
  {s \in Stream : \/ s = "video"
                  \/ s = "color" /\ p["raw"]
                  \/ s \in {"left", "right"} /\ p["mono"]}

\* setManualFocus takes a byte.
Manual(lens) == [auto |-> FALSE, lens |-> lens % 256]
AutoFocus == [auto |-> TRUE, lens |-> 0]
ControlFor(s) == IF s.autofocus THEN AutoFocus ELSE Manual(s.lens)

CamInit ==
  /\ settings \in StartSettings
  /\ lensParam = settings.lens
  /\ commanded = FALSE
  /\ step = "restart"
  /\ tries = 0
  /\ lensWanted = lensParam
  /\ running = FALSE
  /\ pipeline = Unbuilt
  /\ died = "no"
  /\ plugged \in BOOLEAN
  /\ device = "none"
  /\ flashed = Unbuilt
  /\ controls = <<>>
  /\ focus = AutoFocus
  /\ packets = [s \in Stream |-> <<>>]
  /\ reader = [s \in Stream |-> "off"]
  /\ callbacks = {}
  /\ produced = [s \in Stream |-> 0]
  /\ published = [s \in Stream |-> -1]

-----------------------------------------------------------------------------
(* TryRestarting.                                                            *)

\* Mutant: the attempts of all starts are counted together.
RestartCountsOn ==
  /\ step = "restart"
  /\ step' = "connect"
  /\ running' = FALSE
  /\ pipeline' = Built(settings)
  /\ UNCHANGED <<settings, lensParam, tries, lensWanted, commanded, died, deviceVars, streamVars>>

\* Mutant: the pipeline is built by the first start only.
RestartKeepsPipeline ==
  /\ step = "restart"
  /\ step' = "connect"
  /\ tries' = 0
  /\ running' = FALSE
  /\ pipeline' = IF pipeline = Unbuilt THEN Built(settings) ELSE pipeline
  /\ UNCHANGED <<settings, lensParam, lensWanted, commanded, died, deviceVars, streamVars>>

\* The pipeline is built anew; a device that is there is kept.
Restart ==
  /\ step = "restart"
  /\ step' = "connect"
  /\ tries' = 0
  /\ running' = FALSE
  /\ pipeline' = Built(settings)
  /\ UNCHANGED <<settings, lensParam, lensWanted, commanded, died, deviceVars, streamVars>>

MayTry == step = "connect" /\ device = "none" /\ tries < Attempts

Connect ==
  /\ MayTry
  /\ plugged
  /\ tries' = tries + 1
  /\ device' = "open"
  /\ flashed' = pipeline
  /\ UNCHANGED <<settings, lensParam, step, lensWanted, running, pipeline, commanded, died,
                 plugged, controls, focus, streamVars>>

\* Mutant: an attempt that fails is not counted.
ConnectFailsUncounted ==
  /\ MayTry
  /\ UNCHANGED camVars

\* There is no device, or it does not start.
ConnectFails ==
  /\ MayTry
  /\ tries' = tries + 1
  /\ UNCHANGED <<settings, lensParam, step, lensWanted, running, pipeline, commanded, died,
                 deviceVars, streamVars>>

\* Mutant: the start goes on without a device.
LeaveLoopAnyway ==
  /\ step = "connect"
  /\ device # "none" \/ tries = Attempts
  /\ step' = "control"
  /\ UNCHANGED <<settings, lensParam, tries, lensWanted, running, pipeline, commanded, died,
                 deviceVars, streamVars>>

LeaveLoop ==
  /\ step = "connect"
  /\ device # "none" \/ tries = Attempts
  /\ step' = IF device = "none" THEN "idle" ELSE "control"
  /\ UNCHANGED <<settings, lensParam, tries, lensWanted, running, pipeline, commanded, died,
                 deviceVars, streamVars>>

\* A full queue blocks the sender.  To send to a device that was lost throws or leads
\* nowhere.  Without a device there is no queue to send to.
Send(c) ==
  \/ /\ device = "open"
     /\ Len(controls) < ControlsSize
     /\ controls' = Append(controls, c)
     /\ UNCHANGED died
  \/ device = "lost" /\ died' \in {"no", "device"} /\ UNCHANGED controls
  \/ device = "none" /\ died' = "null" /\ UNCHANGED controls

SendFirstControl ==
  /\ step = "control"
  /\ step' = "queues"
  /\ Send(ControlFor(settings))
  /\ UNCHANGED <<settings, lensParam, tries, lensWanted, running, pipeline, commanded,
                 plugged, device, flashed, focus, streamVars>>

\* The order in which the code asks for the streams' queues.
Place == [color |-> 1, video |-> 2, left |-> 3, right |-> 4]

Asked(s) == reader[s] # "off"

\* The colour stream gets its callback before any other queue is asked for, the mono streams
\* get theirs after both of their queues.
OpenQueue(s) ==
  /\ step = "queues"
  /\ s \in StreamsOf(pipeline) /\ ~Asked(s)
  /\ \A t \in StreamsOf(pipeline) :
       Place[t] < Place[s] => Asked(t) /\ (t = "color" => t \in callbacks)
  /\ reader' = [reader EXCEPT ![s] = "read"]
  /\ died' \in {"no"} \union (IF device = "lost" THEN {"device"} ELSE {})
  /\ UNCHANGED <<settings, lensParam, startVars, deviceVars, packets, callbacks, produced,
                 published>>

\* Packets that came since the queue was opened wait in it.
AddRawCallback(s) ==
  /\ step = "queues"
  /\ s \in StreamsOf(pipeline) \ (callbacks \union {"video"})
  /\ Asked(s)
  /\ s # "color" => \A t \in StreamsOf(pipeline) : Asked(t)
  /\ s = "right" => "left" \notin StreamsOf(pipeline) \ callbacks
  /\ callbacks' = callbacks \union {s}
  /\ UNCHANGED <<settings, lensParam, startVars, died, deviceVars, packets, reader, produced,
                 published>>

AllSet ==
  \A s \in StreamsOf(pipeline) : Asked(s) /\ (s # "video" => s \in callbacks)

\* Mutant: _thread_running is not set.
SetNotRunning ==
  /\ step = "queues"
  /\ AllSet
  /\ step' = "callback"
  /\ UNCHANGED <<settings, lensParam, tries, lensWanted, running, pipeline, commanded, died,
                 deviceVars, streamVars>>

SetRunning ==
  /\ step = "queues"
  /\ AllSet
  /\ step' = "callback"
  /\ running' = TRUE
  /\ UNCHANGED <<settings, lensParam, tries, lensWanted, pipeline, commanded, died,
                 deviceVars, streamVars>>

\* Mutant: the video stream is left without a callback.
AddNoCallback ==
  /\ step = "callback"
  /\ step' = "idle"
  /\ UNCHANGED <<settings, lensParam, tries, lensWanted, running, pipeline, commanded, died,
                 deviceVars, streamVars>>

AddVideoCallback ==
  /\ step = "callback"
  /\ step' = "idle"
  /\ callbacks' = callbacks \union {"video"}
  /\ UNCHANGED <<settings, lensParam, tries, lensWanted, running, pipeline, commanded, died,
                 deviceVars, packets, reader, produced, published>>

TryRestarting ==
  \/ Restart \/ Connect \/ ConnectFails \/ LeaveLoop
  \/ SendFirstControl \/ SetRunning \/ AddVideoCallback
  \/ \E s \in Stream : OpenQueue(s) \/ AddRawCallback(s)

-----------------------------------------------------------------------------
(* VideoStreamCommand.                                                       *)

Given(m, field, old) == IF field \in DOMAIN m THEN m[field] ELSE old

\* The settings as ValidateCameraParameters gets them.
AsParameters(s) ==
  [width |-> s.width, height |-> s.height, fps |-> s.fps, bitrate |-> s.bitrate,
   lens |-> s.lens, encoding |-> IF s.h265 THEN "H265" ELSE "H264"]

Requested(m) == [f \in DOMAIN AsParameters(settings) |-> Given(m, f, AsParameters(settings)[f])]

\* useMonoCams and useRawColorCam keep their values: no command that says otherwise gets
\* this far.
Apply(m) ==
  LET r == Requested(m) IN
  [settings EXCEPT !.width = r.width, !.height = r.height, !.fps = r.fps,
                   !.bitrate = r.bitrate, !.lens = r.lens, !.h265 = (r.encoding = "H265"),
                   !.autofocus = Given(m, "autofocus", settings.autofocus)]

\* Mutant: a start is taken by a camera that runs.
StartCommandAnyway(m) ==
  /\ step = "idle"
  /\ m["command"] = "start"
  /\ "mono" \notin DOMAIN m
  /\ ValidateCameraParameters(Requested(m))
  /\ settings' = Apply(m)
  /\ commanded' = TRUE
  /\ step' = "restart"
  /\ UNCHANGED <<lensParam, tries, lensWanted, running, pipeline, died, deviceVars, streamVars>>

\* Mutant: the settings are changed before they are looked at.
StartCommandAppliesFirst(m) ==
  /\ step = "idle"
  /\ m["command"] = "start"
  /\ ~running
  /\ "mono" \notin DOMAIN m
  /\ settings' = Apply(m)
  /\ commanded' = (commanded \/ ValidateCameraParameters(Requested(m)))
  /\ step' = IF ValidateCameraParameters(Requested(m)) THEN "restart" ELSE "idle"
  /\ UNCHANGED <<lensParam, tries, lensWanted, running, pipeline, died, deviceVars, streamVars>>

\* A command is taken as a whole or not at all.
StartCommand(m) ==
  /\ step = "idle"
  /\ m["command"] = "start"
  /\ ~running
  /\ "mono" \notin DOMAIN m
  /\ ValidateCameraParameters(Requested(m))
  /\ settings' = Apply(m)
  /\ commanded' = TRUE
  /\ step' = "restart"
  /\ UNCHANGED <<lensParam, tries, lensWanted, running, pipeline, died, deviceVars, streamVars>>

\* Mutant: the device is not told of the change to manual focus before the lens is.
ChangeFocusSilently(m) ==
  LET auto == Given(m, "autofocus", settings.autofocus) IN
  /\ step = "idle"
  /\ m["command"] = "change_focus"
  /\ running
  /\ settings' = [settings EXCEPT !.autofocus = auto]
  /\ IF auto THEN UNCHANGED <<step, lensWanted>>
             ELSE step' = "lens" /\ lensWanted' = Given(m, "lens", lensParam)
  /\ UNCHANGED <<lensParam, tries, running, pipeline, commanded, died, deviceVars, streamVars>>

\* UseAutoFocus takes effect at once, even when the command then has no lens to change.
\* Without a lens position the lens goes to the parameter's, not back to where it is.
ChangeFocus(m) ==
  LET auto == Given(m, "autofocus", settings.autofocus) IN
  /\ step = "idle"
  /\ m["command"] = "change_focus"
  /\ running
  /\ settings' = [settings EXCEPT !.autofocus = auto]
  /\ IF auto # settings.autofocus THEN Send(ControlFor(settings')) ELSE UNCHANGED <<controls, died>>
  /\ IF auto THEN UNCHANGED <<step, lensWanted>>
             ELSE step' = "lens" /\ lensWanted' = Given(m, "lens", lensParam)
  /\ UNCHANGED <<lensParam, tries, running, pipeline, commanded, plugged, device, flashed,
                 focus, streamVars>>

\* Every number is at least 0 or at most 255.
LensAccepted(lens) == lens >= 0 \/ lens <= 255

ChangeLens ==
  /\ step = "lens"
  /\ step' = "idle"
  /\ LensAccepted(lensWanted)
  /\ settings' = [settings EXCEPT !.lens = lensWanted]
  /\ Send(Manual(lensWanted))
  /\ UNCHANGED <<lensParam, tries, lensWanted, running, pipeline, commanded, plugged, device,
                 flashed, focus, streamVars>>

\* A command that is not a string, or a UseMonoCams that is one: the conversion throws
\* outside the try block.
Mistyped(m) ==
  \/ m["command"] = "untyped"
  \/ m["command"] = "start" /\ ~running /\ "mono" \in DOMAIN m

UntypedCommand(m) ==
  /\ step = "idle"
  /\ Mistyped(m)
  /\ died' = "type"
  /\ UNCHANGED <<settings, lensParam, startVars, deviceVars, streamVars>>

VideoStreamCommand ==
  \/ \E m \in Messages : StartCommand(m) \/ ChangeFocus(m) \/ UntypedCommand(m)
  \/ ChangeLens

\* Mutant: the reading threads are not waited for.
StopWithoutWaiting ==
  /\ MayClose
  /\ step = "idle"
  /\ step' = "gone"
  /\ device' = IF device = "none" THEN "none" ELSE "closed"
  /\ UNCHANGED <<settings, lensParam, tries, lensWanted, running, pipeline, commanded, died,
                 plugged, flashed, controls, focus, streamVars>>

\* The destructor.  close waits for the reading threads.
Stop ==
  /\ MayClose
  /\ step = "idle"
  /\ step' = "gone"
  /\ \A s \in Stream : reader[s] # "call"
  /\ device' = IF device = "none" THEN "none" ELSE "closed"
  /\ reader' = [s \in Stream |-> "off"]
  /\ UNCHANGED <<settings, lensParam, tries, lensWanted, running, pipeline, commanded, died,
                 plugged, flashed, controls, focus, packets, callbacks, produced, published>>

-----------------------------------------------------------------------------
(* The device.                                                               *)

PlugOrUnplug ==
  /\ MayUnplug
  /\ plugged' = ~plugged
  /\ device' = IF plugged /\ device = "open" THEN "lost" ELSE device
  /\ UNCHANGED <<settings, lensParam, startVars, died, flashed, controls, focus, streamVars>>

ApplyControl ==
  /\ device = "open"
  /\ controls # <<>>
  /\ focus' = Head(controls)
  /\ controls' = Tail(controls)
  /\ UNCHANGED <<settings, lensParam, startVars, died, plugged, device, flashed, streamVars>>

NextNumber(n) == (n + 1) % Cycle

\* Mutant: the video queue does not block either.
PacketArrivesDropping(s) ==
  LET room == IF Len(packets[s]) < QueueSize THEN packets[s] ELSE Tail(packets[s]) IN
  /\ reader[s] = "read"
  /\ device = "open"
  /\ packets' = [packets EXCEPT ![s] = Append(room, produced[s])]
  /\ produced' = [produced EXCEPT ![s] = NextNumber(@)]
  /\ reader' = [reader EXCEPT ![s] = "call"]
  /\ UNCHANGED <<settings, lensParam, startVars, died, deviceVars, callbacks, published>>

\* Mutant: the bound of the queue is off by one.
PacketArrivesLate(s) ==
  LET room == IF Len(packets[s]) <= QueueSize THEN packets[s] ELSE Tail(packets[s]) IN
  /\ reader[s] = "read"
  /\ device = "open"
  /\ s = "video" => Len(packets[s]) <= QueueSize
  /\ packets' = [packets EXCEPT ![s] = Append(room, produced[s])]
  /\ produced' = [produced EXCEPT ![s] = NextNumber(@)]
  /\ reader' = [reader EXCEPT ![s] = "call"]
  /\ UNCHANGED <<settings, lensParam, startVars, died, deviceVars, callbacks, published>>

\* The video queue blocks when it is full; the others drop their oldest packet.
PacketArrives(s) ==
  LET room == IF Len(packets[s]) < QueueSize THEN packets[s] ELSE Tail(packets[s]) IN
  /\ reader[s] = "read"
  /\ device = "open"
  /\ s = "video" => Len(packets[s]) < QueueSize
  /\ PromptSetup /\ s = "video" /\ s \notin callbacks => Len(packets[s]) < QueueSize - 1
  /\ packets' = [packets EXCEPT ![s] = Append(room, produced[s])]
  /\ produced' = [produced EXCEPT ![s] = NextNumber(@)]
  /\ reader' = [reader EXCEPT ![s] = "call"]
  /\ UNCHANGED <<settings, lensParam, startVars, died, deviceVars, callbacks, published>>

\* Mutant: one packet is published for each that arrives.
PublishOne(s) ==
  /\ reader[s] = "call"
  /\ s \in callbacks
  /\ packets' = [packets EXCEPT ![s] = Tail(@)]
  /\ published' = [published EXCEPT ![s] = Head(packets[s])]
  /\ reader' = [reader EXCEPT ![s] = "read"]
  /\ UNCHANGED <<settings, lensParam, startVars, died, deviceVars, callbacks, produced>>

\* onVideoEncoderCallback, onColorCamCallback, onLeftCamCallback, onRightCallback: whatever
\* is in the queue is published.
PublishAll(s) ==
  /\ reader[s] = "call"
  /\ s \in callbacks
  /\ packets' = [packets EXCEPT ![s] = <<>>]
  /\ published' = [published EXCEPT ![s] = packets[s][Len(packets[s])]]
  /\ reader' = [reader EXCEPT ![s] = "read"]
  /\ UNCHANGED <<settings, lensParam, startVars, died, deviceVars, callbacks, produced>>

NoCallback(s) ==
  /\ reader[s] = "call"
  /\ s \notin callbacks
  /\ reader' = [reader EXCEPT ![s] = "read"]
  /\ UNCHANGED <<settings, lensParam, startVars, died, deviceVars, packets, callbacks,
                 produced, published>>

ReadStream(s) == PacketArrives(s) \/ PublishAll(s) \/ NoCallback(s)

-----------------------------------------------------------------------------
\* The process is there.
Process(A) == died = "no" /\ A

CamNext ==
  \/ Process(TryRestarting)
  \/ Process(VideoStreamCommand)
  \/ Process(Stop)
  \/ Process(ApplyControl)
  \/ \E s \in Stream : Process(ReadStream(s))
  \/ PlugOrUnplug

CamSpec == CamInit /\ [][CamNext]_camVars

(***************************************************************************)
(* The threads go on and the device works as long as it is there.  Nothing *)
(* is assumed of commands, of devices that come and go and of the          *)
(* destructor.                                                             *)
(***************************************************************************)
CamFairness ==
  /\ WF_camVars(Process(TryRestarting))
  /\ WF_camVars(Process(ChangeLens))
  /\ WF_camVars(Process(ApplyControl))
  /\ \A s \in Stream : WF_camVars(Process(ReadStream(s)))

CamLiveSpec == CamSpec /\ CamFairness

-----------------------------------------------------------------------------
NodeTypeOK ==
  /\ settings \in Settings
  /\ lensParam \in Int
  /\ lensWanted \in Int
  /\ commanded \in BOOLEAN
  /\ running \in BOOLEAN
  /\ step \in Step
  /\ tries \in 0..Attempts

DeviceTypeOK ==
  /\ died \in {"no", "type", "device", "null"}
  /\ plugged \in BOOLEAN
  /\ device \in {"none", "open", "lost", "closed"}
  /\ controls \in Seq([auto : BOOLEAN, lens : 0..255])
  /\ focus \in [auto : BOOLEAN, lens : 0..255]

StreamTypeOK ==
  /\ packets \in [Stream -> Seq(0..(Cycle - 1))]
  /\ \A s \in Stream : Len(packets[s]) <= QueueSize
  /\ reader \in [Stream -> {"off", "read", "call"}]
  /\ callbacks \subseteq Stream
  /\ produced \in [Stream -> 0..(Cycle - 1)]
  /\ published \in [Stream -> -1..(Cycle - 1)]

\* Every variable keeps to its kind, and no queue exceeds its size.
CamTypeOK == NodeTypeOK /\ DeviceTypeOK /\ StreamTypeOK

\* Between commands the node counts as running exactly when it has a device: a start whose
\* attempts all failed leaves nothing behind that would make the node ignore the next one.
RunningIffDevice ==
  died = "no" /\ step \in {"idle", "lens"} => (running <=> device # "none")

\* The device executes a pipeline for the settings the node has: neither a start command
\* that is refused or ignored nor one that came between two attempts changes what the
\* node believes the device encodes.
DeviceRunsSettings == device # "none" => flashed = Built(settings)

\* When the device has taken every control that was sent, its lens is where the settings
\* say, cut to a byte, whatever sequence of starts and focus commands led there.
FocusSettles ==
  device = "open" /\ died = "no" /\ running /\ step = "idle" /\ controls = <<>>
    => focus = ControlFor(settings)

\* Once a start command was accepted, whatever the parameters were, each further attempt
\* is made with settings that the validation accepts.
StartedValid == commanded /\ ~running => ValidateCameraParameters(AsParameters(settings))

\* A node that has not found a device ends by an untyped command only.
NoDeviceNoCrash == died # "null" /\ (died = "device" => device # "none")

\* No video packet is lost or published twice between device and topic: the one published
\* last, those in the queue and the next one follow one upon the other.  The queue of a raw
\* stream holds the latest packets in order.
StreamsFaithful ==
  \A s \in Stream :
    LET q == packets[s] IN
    /\ \A i \in 1..(Len(q) - 1) : q[i + 1] = NextNumber(q[i])
    /\ q # <<>> => produced[s] = NextNumber(q[Len(q)])
    /\ s = "video" =>
         NextNumber(published[s]) = IF q = <<>> THEN produced[s] ELSE q[1]

\* What a callback left in its queue would be published late by a frame for good: once a
\* stream has published anything, its queue is empty whenever no packet is in a callback's
\* hands, however many packets came before the callback was added.
NoLag ==
  \A s \in callbacks : reader[s] = "read" /\ packets[s] # <<>> => published[s] = -1

\* The node implements CameraFeed: its settings are frozen while it has a device, each
\* device works on the settings it was started with, a callback publishes the newest packet
\* of a stream of that pipeline, however reading threads, commands and losses of the device
\* interleave, and none does once the destructor has closed the device.
Feed == INSTANCE CameraFeed WITH
  status <- device, asked <- Built(settings), job <- flashed,
  made <- produced, shown <- published, backlog <- [s \in Stream |-> Len(packets[s])]

FeedSpec == Feed!Spec

\* As long as a client asks again, the camera comes up once a device is there and starts,
\* whatever attempts have failed before.
CameraComesUp ==
  /\ <>[]plugged
  /\ <>[][~ConnectFails]_camVars
  /\ []<>(step = "restart" \/ running)
  => <>(running \/ died # "no" \/ step = "gone")

\* The executor's thread gets back from every start and every command.
HandlerEnds == step # "idle" ~> step \in {"idle", "gone"} \/ died # "no"

\* Video goes on being published for as long as the device is there, with a queue that
\* blocks the device when it is full.
VideoFlows ==
  <>[](running /\ device = "open" /\ died = "no")
    => []<>(reader["video"] = "read") /\ []<>(reader["video"] = "call")
=============================================================================
