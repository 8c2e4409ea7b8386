---------------------------- MODULE MCDepthAICtrl ----------------------------
(* DepthAICtrl for TLC: one message, one rtsp address, the video stream alone. *)
EXTENDS DepthAICtrl

CONSTANT f1

MCFrame == {f1}
MCNextFrame == [f \in MCFrame |-> f]
MCCaller == {"timer", "cmd", "main"}
MCAddresses == {RtspForm}
MCUdp == {}

MCStart ==
  {[width |-> 1280, height |-> 720, fps |-> 25, bitrate |-> 3000000, lens |-> 120,
    h265 |-> FALSE, mono |-> FALSE, raw |-> FALSE, autofocus |-> FALSE]}

MCMessages == {[command |-> "start", encoding |-> "H265"]}

MCStartArgs == {Args(m) : m \in MCMessages}
=============================================================================
