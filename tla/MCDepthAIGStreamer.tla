------------------------- MODULE MCDepthAIGStreamer -------------------------
(* DepthAIGStreamer for TLC.  One message stands for all: which message it is  *)
(* matters in MCFrameQueue only.                                              *)
EXTENDS DepthAIGStreamer, TLC

CONSTANT f1

MCFrame == {f1}
MCNextFrame == [f \in MCFrame |-> f]
MCCaller == {"timer", "cmd", "main"}

MCAddresses == {UdpForm, RtspForm}
MCUdpOnly == {UdpForm}

\* Start commands: none; any combination of arguments, the refused ones among them an
\* address that lacks the key, an empty one and an encoding in lower case.
MCNoStart == {}
MCAnyStart ==
  [address : MCAddresses \union {SelectSeq(RtspForm, LAMBDA t : t # "key"), <<>>, NoArg, WrongType},
   profile : Profiles \union {"h264", NoArg, WrongType}]

\* Slots are alike.
MCSymmetry == Permutations(Slot)

-----------------------------------------------------------------------------
(* The validation of addresses, on whatever is left of a form when pieces are *)
(* left out.                                                                  *)

Pick(s, D) == [i \in 1..Cardinality(D) |->
                 s[CHOOSE d \in D : Cardinality(D \cap (1..d)) = i]]
Parts(s) == {Pick(s, D) : D \in SUBSET DOMAIN s}

\* Of the udp form the full one and the one without a port pass; nothing passes without
\* a dotted quad, and a full form passes and gives back its ip and its port.
ASSUME {a \in Parts(UdpForm) : ValidateAddressParameters(a)} = {UdpForm, <<"udp://", "ip">>}
ASSUME \A a \in Parts(RtspForm) : ValidateAddressParameters(a) => \E i \in DOMAIN a : a[i] = "ip"
ASSUME ValidateAddressParameters(RtspForm)
ASSUME ReadIpFromUdpAddress(UdpForm) = <<"ip">> /\ ReadPortFromUdpAddress(UdpForm) = <<"port">>
=============================================================================
