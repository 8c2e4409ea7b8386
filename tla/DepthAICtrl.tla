----------------------------- MODULE DepthAICtrl -----------------------------
(***************************************************************************)
(* The program depthai_ctrl: the camera node and the streaming node in one *)
(* process.  The camera publishes what the streamer streams, and each      *)
(* command reaches both, which handle it when they get to it, take or      *)
(* leave it by rules of their own and never ask each other.                *)
(*                                                                         *)
(* The camera's publisher is there before the streamer is, so that the     *)
(* streamer never sees a topic without one.                                *)
(*                                                                         *)
(* What concerns one node alone is left to its own module: commands that   *)
(* end the process, the focus with the controls a device is sent, the loss *)
(* of the device, and the destructors.  To the streamer a camera that has  *)
(* lost its device is one that sends nothing more, and so is one that has  *)
(* not found its device.                                                   *)
(***************************************************************************)
EXTENDS DepthAIGStreamer

CONSTANTS
  Stream, StartSettings, Messages, Attempts, QueueSize, ControlsSize, Cycle,
  PromptSetup,  \* of DepthAICamera
  MaxPending    \* how many start commands may wait for a node

ASSUME CommandAssumption ==
  /\ \A m \in Messages : m["command"] = "start" /\ "mono" \notin DOMAIN m
  /\ MaxPending \in Nat \ {0}

\* The part of a command the streamer reads.
Args(m) == [address |-> IF "address" \in DOMAIN m THEN m["address"] ELSE NoArg,
            profile |-> IF "encoding" \in DOMAIN m THEN m["encoding"] ELSE NoArg]

\* The commands that reach the streamer are those that reach the camera.
ASSUME ArgsAssumption ==
  \A m \in Messages :
    Args(m) \in StartArgs /\ ("encoding" \in DOMAIN m => m["encoding"] # NoArg)

VARIABLES
  settings, lensParam, commanded, step, tries, lensWanted, camRunning, pipeline, died,
  plugged, device, flashed, controls, focus, packets, reader, callbacks, produced,
  published,    \* of DepthAICamera
  topic,        \* a message of the video topic is on its way
  camInbox,     \* the start commands the camera has not handled yet
  gstInbox,     \* those the streamer has not
  split,        \* history: an encoding has been taken by one node and not by the other
  constructed   \* the camera's constructor is over

Camera == INSTANCE DepthAICamera WITH running <- camRunning, MayUnplug <- FALSE, MayClose <- FALSE

\* What DepthAICamera assumes of its constants.
ASSUME CameraAssumption ==
  /\ "video" \in Stream
  /\ Attempts \in Nat \ {0} /\ QueueSize \in Nat \ {0} /\ ControlsSize \in Nat \ {0}
  /\ Cycle \in Nat \ {0}
  /\ StartSettings \subseteq Camera!Settings
  /\ \A m \in Messages :
       /\ "command" \in DOMAIN m
       /\ \A f \in {"width", "height", "fps", "bitrate", "lens"} \cap DOMAIN m : m[f] \in Int
       /\ "autofocus" \in DOMAIN m => m["autofocus"] \in BOOLEAN

camVars == <<settings, lensParam, commanded, step, tries, lensWanted, camRunning, pipeline, died,
             plugged, device, flashed, controls, focus, packets, reader, callbacks,
             produced, published>>
linkVars == <<topic, camInbox, gstInbox, split, constructed>>
ctrlVars == <<vars, camVars, linkVars>>

Encoding(s) == IF s.h265 THEN "H265" ELSE "H264"

\* Both nodes get the parameter "encoding".  There is a device, which each attempt may fail
\* to open.
CtrlInit ==
  /\ Init
  /\ Camera!CamInit
  /\ plugged
  /\ publishing
  /\ profile = Encoding(settings)
  /\ topic = FALSE
  /\ camInbox = <<>>
  /\ gstInbox = <<>>
  /\ split = FALSE
  /\ constructed = FALSE

-----------------------------------------------------------------------------
(* What one node does by itself.                                             *)

\* main constructs the camera, with its first start, before the streamer.
OfStreamer(A) == constructed /\ died = "no" /\ A /\ UNCHANGED <<camVars, linkVars>>

OfCamera(A) == Camera!Process(A) /\ UNCHANGED vars

CameraRestarts ==
  /\ OfCamera(Camera!TryRestarting)
  /\ constructed' = (constructed \/ step' = "idle")
  /\ UNCHANGED <<topic, camInbox, gstInbox, split>>

-----------------------------------------------------------------------------
(* The video topic.                                                          *)

\* Mutant: the streamer is not subscribed to what the camera publishes.
CameraReadsApart(s) ==
  /\ OfCamera(Camera!ReadStream(s))
  /\ UNCHANGED linkVars

\* A message published before the streamer subscribes is lost.
CameraReads(s) ==
  /\ OfCamera(Camera!ReadStream(s))
  /\ topic' = (topic \/ (s = "video" /\ constructed /\ packets[s] # <<>> /\ packets'[s] = <<>>))
  /\ UNCHANGED <<camInbox, gstInbox, split, constructed>>

StreamerGrabs ==
  /\ constructed /\ died = "no"
  /\ topic
  /\ VideoMsg
  /\ topic' = FALSE
  /\ UNCHANGED <<camVars, camInbox, gstInbox, split, constructed>>

-----------------------------------------------------------------------------
(* The start commands.                                                       *)

\* The program spins.
Spinning == constructed /\ died = "no" /\ pc["main"] = "idle"

Command(m) ==
  /\ Spinning
  /\ Len(camInbox) < MaxPending /\ Len(gstInbox) < MaxPending
  /\ camInbox' = Append(camInbox, [msg |-> m, other |-> "waits"])
  /\ gstInbox' = Append(gstInbox, [msg |-> m, other |-> "waits"])
  /\ UNCHANGED <<vars, camVars, topic, split, constructed>>

\* A node has handled the first command of its inbox.  The node that is behind has it in
\* its inbox still: what the first did with it is noted there.
Handled(mine, theirs, verdict) ==
  LET lead == Len(theirs) - Len(mine) IN
  /\ mine' = Tail(mine)
  /\ IF lead >= 0
     THEN theirs' = [theirs EXCEPT ![lead + 1].other = verdict] /\ UNCHANGED split
     ELSE /\ UNCHANGED theirs
          /\ split' = (split \/ ("encoding" \in DOMAIN Head(mine).msg /\ Head(mine).other # verdict))
  /\ UNCHANGED <<topic, constructed>>

CameraTakes(m) == OfCamera(Camera!StartCommand(m)) /\ Handled(camInbox, gstInbox, "took")

CameraLeaves(m) ==
  /\ step = "idle"
  /\ camRunning \/ ~ValidateCameraParameters(Camera!Requested(m))
  /\ UNCHANGED <<vars, camVars>>
  /\ Handled(camInbox, gstInbox, "left")

CameraHandles ==
  /\ Spinning
  /\ camInbox # <<>>
  /\ LET m == Head(camInbox).msg IN CameraTakes(m) \/ CameraLeaves(m)

\* A start command whose encoding is refused may still have set the address.
StreamerTakes(m) ==
  /\ StartCommand(Args(m))
  /\ Handled(gstInbox, camInbox, IF ProfilePasses(Args(m).profile) THEN "took" ELSE "left")

StreamerLeaves(m) ==
  /\ MayRun("cmd")
  /\ flag.playing \/ ~AddressPasses(Args(m).address)
  /\ UNCHANGED vars
  /\ Handled(gstInbox, camInbox, "left")

StreamerHandles ==
  /\ Spinning
  /\ gstInbox # <<>>
  /\ LET m == Head(gstInbox).msg IN StreamerTakes(m) \/ StreamerLeaves(m)
  /\ UNCHANGED camVars

-----------------------------------------------------------------------------
CtrlNext ==
  \/ \E c \in Caller : OfStreamer(Interface(StartStream(c) \/ StopStream(c)))
  \/ \E g \in Slot : OfStreamer(Interface(CreatePipeline(g) \/ PlayStream(g)))
  \/ \E g \in Slot : OfStreamer(Interface(StreamEventCallBack(g)))
  \/ \E g \in Slot : OfStreamer(Interface(NeedData(g) \/ ServeNeedData(g)))
  \/ OfStreamer(HandleStreamStatus)
  \/ topic /\ OfStreamer(MisreadQueue)
  \/ \E c \in Caller : OfStreamer(EmptyQueueFirst(c))
  \/ CameraRestarts
  \/ \E s \in Stream : CameraReads(s)
  \/ StreamerGrabs
  \/ \E m \in Messages : Command(m)
  \/ CameraHandles
  \/ StreamerHandles
  \/ OfStreamer(StopCommand)

CtrlSpec == CtrlInit /\ [][CtrlNext]_ctrlVars

(***************************************************************************)
(* What the two nodes rely on, but nothing of a publisher: that messages   *)
(* come has to follow from the camera's device and threads.  At most one   *)
(* caller and one pipeline are under way, so that the fairness of a step   *)
(* need not tell them apart.                                               *)
(***************************************************************************)
CtrlFairness ==
  /\ WF_ctrlVars(\E c \in Caller : OfStreamer(Interface(StartStream(c) \/ StopStream(c))))
  /\ SF_ctrlVars(\E c \in Caller : OfStreamer(EmptyQueueFirst(c)))
  /\ SF_ctrlVars(\E g \in Slot : OfStreamer(Interface(CreatePipeline(g))))
  /\ WF_ctrlVars(\E g \in Slot : OfStreamer(Interface(PlayStream(g) \/ Connects(g))))
  /\ WF_ctrlVars(\E g \in Slot : OfStreamer(Interface(NeedData(g))))
  /\ SF_ctrlVars(\E g \in Slot : OfStreamer(Interface(ServeNeedData(g))))
  /\ WF_ctrlVars(OfStreamer(HandleStreamStatus))
  /\ WF_ctrlVars(CameraRestarts)
  /\ \A s \in Stream : WF_ctrlVars(CameraReads(s))
  /\ SF_ctrlVars(StreamerGrabs)

CtrlLiveSpec == CtrlSpec /\ CtrlFairness

-----------------------------------------------------------------------------
\* As long as calls came in turn and every encoding a command asked for was taken by both
\* nodes or by neither, whichever handled it first, the pipeline that streams the camera is
\* built for the encoding the device was started with.
EncodingKept ==
  InTurn /\ ~split /\ camInbox = <<>> /\ gstInbox = <<>> /\ device # "none" =>
    \A g \in Slot : Alive(g) /\ ~built[g].default => built[g].profile = Encoding(flashed)

\* Once the device is open for good, commands and errors have ceased and no stop is in
\* force, the camera's pictures are streamed for good, whatever either node did before.
CameraReachesClient ==
  /\ <>[](camRunning /\ device = "open" /\ ~stopRequested /\ gstInbox = <<>>)
  /\ <>[][\A g \in Slot : ~BusError(g)]_ctrlVars
  => <>[](flag.playing /\ ~isDefault)
=============================================================================
