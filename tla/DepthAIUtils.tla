---------------------------- MODULE DepthAIUtils ----------------------------
(***************************************************************************)
(* The checks both nodes put a command through, and the two readers of a   *)
(* udp address.  They keep no state.                                       *)
(*                                                                         *)
(* An address is the sequence of its pieces: the protocol, the separators  *)
(* ":", "@" and "/", "ip" for a dotted quad, and any other string for a    *)
(* run of other characters.                                                *)
(***************************************************************************)
EXTENDS Integers, Sequences

LOCAL INSTANCE SequencesExt

ValidateCameraParameters(p) ==
  /\ p.width <= 3840 /\ p.width % 8 = 0
  /\ p.height <= 2160 /\ p.height % 8 = 0
  /\ p.fps >= 5 /\ p.fps <= 60
  /\ p.bitrate >= 400000
  /\ p.lens >= 0 /\ p.lens <= 255
  /\ p.encoding \in {"H264", "H265"}

ValidateEncodingProfile(p) == p \in {"H264", "H265"}

-----------------------------------------------------------------------------
(* Addresses.  find returns npos when there is no separator: substr(0, npos)   *)
(* is then the whole string, and so is substr(npos + 1), which is substr(0).   *)

Find(s, sep) == SelectInSeq(s, LAMBDA x : x = sep)

Until(s, sep) == IF Find(s, sep) = 0 THEN s ELSE SubSeq(s, 1, Find(s, sep) - 1)

After(s, sep) == SubSeq(s, Find(s, sep) + 1, Len(s))

\* inet_pton takes a dotted quad and nothing else.
IsIpAddressValid(s) == s = <<"ip">>

ValidUdp(rest) == IsIpAddressValid(Until(rest, ":")) /\ After(rest, ":") # <<>>

ValidRtsp(rest) ==
  LET key  == After(rest, ":")
      ip   == After(key, "@")
      port == After(ip, ":")
  IN /\ Until(rest, ":") # <<>>
     /\ Until(key, "@") # <<>>
     /\ IsIpAddressValid(Until(ip, ":"))
     /\ Until(port, "/") # <<>>
     /\ After(port, "/") # <<>>

ValidateAddressParameters(a) ==
  /\ a # <<>>
  /\ \/ a[1] = "udp://" /\ ValidUdp(Tail(a))
     \/ a[1] \in {"rtsp://", "rtsps://"} /\ ValidRtsp(Tail(a))

ReadIpFromUdpAddress(a) == Until(Tail(a), ":")

\* What atoi is applied to.
ReadPortFromUdpAddress(a) == After(Tail(a), ":")

-----------------------------------------------------------------------------
(* The forms the parameter's description gives:                               *)
(* udp://<ip_address>:<port> and rtsp://<user>:<key>@<ip_address>:<port>/<path> *)

UdpForm == <<"udp://", "ip", ":", "port">>

RtspForm == <<"rtsp://", "user", ":", "key", "@", "ip", ":", "port", "/", "path">>
=============================================================================
