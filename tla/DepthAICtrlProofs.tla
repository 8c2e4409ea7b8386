--------------------------- MODULE DepthAICtrlProofs ---------------------------
(* The program does nothing that one of its nodes would not do by itself, so   *)
(* that what is proved of each node holds of the program; and the two agree    *)
(* on the encoding, for any number of commands on their way, as long as no     *)
(* encoding is taken by one of them alone.                                     *)
EXTENDS DepthAICtrl, StreamLifeProofs

CamProofs ==
  INSTANCE DepthAICameraProofs WITH running <- camRunning, MayUnplug <- FALSE, MayClose <- FALSE

Entry == [msg : Messages, other : {"waits", "took", "left"}]

InboxesOK == camInbox \in Seq(Entry) /\ gstInbox \in Seq(Entry)

LEMMA HeadType ==
  ASSUME NEW a \in Seq(Entry), a # <<>>
  PROVE  Head(a).msg \in Messages /\ Tail(a) \in Seq(Entry)
<1>1. Head(a) \in Entry /\ Tail(a) \in Seq(Entry)
  OBVIOUS
<1> QED
  BY <1>1 DEF Entry

\* To note a verdict makes an entry of an entry.
LEMMA NoteType ==
  ASSUME NEW a \in Seq(Entry), NEW b \in Seq(Entry), a # <<>>, NEW v \in {"took", "left"},
         Len(b) - Len(a) >= 0
  PROVE  [b EXCEPT ![Len(b) - Len(a) + 1].other = v] \in Seq(Entry)
<1>1. Len(a) \in Nat \ {0} /\ Len(b) \in Nat
  OBVIOUS
<1>2. Len(b) - Len(a) + 1 \in 1..Len(b)
  BY <1>1
<1>3. b[Len(b) - Len(a) + 1] \in Entry
  BY <1>2
<1>4. [b[Len(b) - Len(a) + 1] EXCEPT !.other = v] \in Entry
  BY <1>3 DEF Entry
<1> QED
  BY <1>2, <1>4

LEMMA HandledType ==
  ASSUME InboxesOK, NEW v \in {"took", "left"},
         \/ camInbox # <<>> /\ Handled(camInbox, gstInbox, v)
         \/ gstInbox # <<>> /\ Handled(gstInbox, camInbox, v)
  PROVE  InboxesOK'
<1>1. CASE camInbox # <<>> /\ Handled(camInbox, gstInbox, v)
  <2>1. camInbox' \in Seq(Entry)
    BY <1>1, HeadType DEF Handled, InboxesOK
  <2>2. CASE Len(gstInbox) - Len(camInbox) >= 0
    <3>1. gstInbox' = [gstInbox EXCEPT ![Len(gstInbox) - Len(camInbox) + 1].other = v]
      BY <1>1, <2>2 DEF Handled
    <3> QED
      BY <1>1, <2>1, <2>2, <3>1, NoteType DEF InboxesOK
  <2>3. CASE ~(Len(gstInbox) - Len(camInbox) >= 0)
    BY <1>1, <2>1, <2>3 DEF Handled, InboxesOK
  <2> QED
    BY <2>2, <2>3
<1>2. CASE gstInbox # <<>> /\ Handled(gstInbox, camInbox, v)
  <2>1. gstInbox' \in Seq(Entry)
    BY <1>2, HeadType DEF Handled, InboxesOK
  <2>2. CASE Len(camInbox) - Len(gstInbox) >= 0
    <3>1. camInbox' = [camInbox EXCEPT ![Len(camInbox) - Len(gstInbox) + 1].other = v]
      BY <1>2, <2>2 DEF Handled
    <3> QED
      BY <1>2, <2>1, <2>2, <3>1, NoteType DEF InboxesOK
  <2>3. CASE ~(Len(camInbox) - Len(gstInbox) >= 0)
    BY <1>2, <2>1, <2>3 DEF Handled, InboxesOK
  <2> QED
    BY <2>2, <2>3
<1> QED
  BY <1>1, <1>2

LEMMA InboxesNext ==
  ASSUME InboxesOK, [CtrlNext]_ctrlVars
  PROVE  InboxesOK'
<1>1. CASE UNCHANGED <<camInbox, gstInbox>>
  BY <1>1 DEF InboxesOK
<1>2. ASSUME NEW m \in Messages, Command(m)
      PROVE  InboxesOK'
  BY <1>2 DEF Command, InboxesOK, Entry
<1>3. CASE CameraHandles
  <2>1. PICK v \in {"took", "left"} : camInbox # <<>> /\ Handled(camInbox, gstInbox, v)
    BY <1>3 DEF CameraHandles, CameraTakes, CameraLeaves
  <2> QED
    BY <2>1, HandledType
<1>4. CASE StreamerHandles
  <2>1. PICK v \in {"took", "left"} : gstInbox # <<>> /\ Handled(gstInbox, camInbox, v)
    BY <1>4 DEF StreamerHandles, StreamerTakes, StreamerLeaves
  <2> QED
    BY <2>1, HandledType
<1> QED
  BY <1>1, <1>2, <1>3, <1>4 DEF CtrlNext, ctrlVars, linkVars, OfStreamer, CameraRestarts, CameraReads,
     StreamerGrabs

LEMMA InboxesHold == CtrlSpec => []InboxesOK
<1>1. CtrlInit => InboxesOK
  BY DEF CtrlInit, InboxesOK
<1> QED
  BY <1>1, InboxesNext, PTL DEF CtrlSpec

-----------------------------------------------------------------------------
(* The nodes are themselves.                                                  *)

LEMMA StreamerStep ==
  ASSUME InboxesOK, [CtrlNext]_ctrlVars
  PROVE  [Next]_vars
<1>1. CASE UNCHANGED vars
  BY <1>1
<1>2. CASE StreamerHandles
  <2>1. gstInbox # <<>> /\ Head(gstInbox).msg \in Messages
    BY <1>2, HeadType DEF StreamerHandles, InboxesOK
  <2>2. StartCommand(Args(Head(gstInbox).msg)) \/ UNCHANGED vars
    BY <1>2 DEF StreamerHandles, StreamerTakes, StreamerLeaves
  <2> QED
    BY <2>1, <2>2, ArgsAssumption DEF Next, VideoStreamCommand
<1>3. CASE StreamerGrabs
  BY <1>3 DEF StreamerGrabs, Next
<1>4. CASE \/ \E c \in Caller : OfStreamer(Interface(StartStream(c) \/ StopStream(c)))
           \/ \E g \in Slot : OfStreamer(Interface(CreatePipeline(g) \/ PlayStream(g)))
           \/ \E g \in Slot : OfStreamer(Interface(StreamEventCallBack(g)))
           \/ \E g \in Slot : OfStreamer(Interface(NeedData(g) \/ ServeNeedData(g)))
           \/ OfStreamer(HandleStreamStatus)
           \/ topic /\ OfStreamer(MisreadQueue)
           \/ \E c \in Caller : OfStreamer(EmptyQueueFirst(c))
           \/ OfStreamer(StopCommand)
  BY <1>4 DEF OfStreamer, Interface, Next, VideoStreamCommand
<1> QED
  BY <1>1, <1>2, <1>3, <1>4 DEF CtrlNext, ctrlVars, CameraRestarts, CameraReads, OfCamera, Command,
     CameraHandles, CameraTakes, CameraLeaves

\* Whatever the camera does beside it, and however commands are passed on, the streamer
\* goes its own way: each theorem about the streamer is one about the program.
THEOREM ProgramRunsStreamer == CtrlSpec => Spec
<1>1. CtrlInit => Init
  BY DEF CtrlInit
<1> QED
  BY <1>1, InboxesHold, StreamerStep, PTL DEF CtrlSpec, Spec

LEMMA CameraStep ==
  ASSUME InboxesOK, [CtrlNext]_ctrlVars
  PROVE  [Camera!CamNext]_camVars
<1>1. CASE UNCHANGED camVars
  BY <1>1
<1>2. CASE CameraHandles
  <2>1. camInbox # <<>> /\ Head(camInbox).msg \in Messages
    BY <1>2, HeadType DEF CameraHandles, InboxesOK
  <2>2. OfCamera(Camera!StartCommand(Head(camInbox).msg)) \/ UNCHANGED camVars
    BY <1>2 DEF CameraHandles, CameraTakes, CameraLeaves
  <2> QED
    BY <2>1, <2>2 DEF OfCamera, Camera!Process, Camera!CamNext, Camera!VideoStreamCommand
<1>3. CASE CameraRestarts
  BY <1>3 DEF CameraRestarts, OfCamera, Camera!CamNext
<1>4. ASSUME NEW s \in Stream, CameraReads(s)
      PROVE  Camera!CamNext
  BY <1>4 DEF CameraReads, OfCamera, Camera!CamNext
<1> QED
  BY <1>1, <1>2, <1>3, <1>4 DEF CtrlNext, ctrlVars, OfStreamer, StreamerGrabs, Command,
     StreamerHandles

\* Nor does the streamer make the camera do what it would not do by itself.
THEOREM ProgramRunsCamera == CtrlSpec => Camera!CamSpec
<1>1. CtrlInit => Camera!CamInit
  BY DEF CtrlInit
<1>2. InboxesOK /\ [CtrlNext]_ctrlVars => [Camera!CamNext]_(Camera!camVars)
  BY CameraStep DEF camVars, Camera!camVars, Camera!startVars, Camera!deviceVars,
     Camera!streamVars
<1> QED
  BY <1>1, <1>2, InboxesHold, PTL DEF CtrlSpec, Camera!CamSpec
-----------------------------------------------------------------------------
(* The two agree.  What the node that is behind will have come to, once it has *)
(* handled what the other has, is what the other has come to already.          *)

Sets(x) == x.other = "took" /\ "encoding" \in DOMAIN x.msg

\* A node whose encoding is e and that takes what was taken of q has the encoding r then.
FinalIs(q, e, r) ==
  \/ r = e /\ \A i \in 1..Len(q) : ~Sets(q[i])
  \/ \E i \in 1..Len(q) :
       Sets(q[i]) /\ r = q[i].msg["encoding"] /\ \A j \in (i + 1)..Len(q) : ~Sets(q[j])

\* A node with inbox a and encoding va is ahead of one with b and vb: what is left in a is
\* the end of b, and nobody has handled it.
Shared(a, b) ==
  \A i \in 1..Len(a) : LET x == b[Len(b) - Len(a) + i] IN
    a[i].other = "waits" /\ x.other = "waits" /\ a[i].msg = x.msg

Ahead(a, b, va, vb) == Len(a) <= Len(b) => Shared(a, b) /\ FinalIs(b, vb, va)

Sync(a, b, va, vb) == Ahead(a, b, va, vb) /\ Ahead(b, a, vb, va)

SyncInv == ~split => Sync(camInbox, gstInbox, Encoding(settings), profile)

\* What a node has made of its encoding e when it has handled m.
EncodingAfter(m, v, e) == IF v = "took" /\ "encoding" \in DOMAIN m THEN m["encoding"] ELSE e

\* Places in the longer of two inboxes, counted from its start or from that of the shorter.
LEMMA Places ==
  ASSUME NEW m \in Nat \ {0}, NEW n \in Nat
  PROVE  /\ n - m >= 0 => \A i \in (n - m + 1)..n :
              i - (n - m + 1) + 1 \in 1..m /\ n - m + (i - (n - m + 1) + 1) = i
         /\ n - m >= 0 => \A i \in 1..(m - 1) :
              /\ i + 1 \in 1..m
              /\ n - m + (i + 1) = n - (m - 1) + i
              /\ n - (m - 1) + i \in 1..n
              /\ n - (m - 1) + i # n - m + 1
         /\ ~(n - m >= 0) /\ m - 1 <= n => m - 1 = n
  OBVIOUS

LEMMA TailEntries ==
  ASSUME NEW a \in Seq(Entry), a # <<>>
  PROVE  /\ Len(a) \in Nat \ {0}
         /\ Len(Tail(a)) = Len(a) - 1
         /\ \A i \in 1..(Len(a) - 1) : Tail(a)[i] = a[i + 1]
         /\ Head(a) = a[1]
  OBVIOUS

\* The first command is handled as the other node did.
LEMMA FinalTail ==
  ASSUME NEW q \in Seq(Entry), q # <<>>, NEW e, NEW r, FinalIs(q, e, r), NEW v \in {"took", "left"},
         "encoding" \in DOMAIN Head(q).msg => Head(q).other = v
  PROVE  FinalIs(Tail(q), EncodingAfter(Head(q).msg, v, e), r)
<1>1. /\ Len(q) \in Nat \ {0}
      /\ Len(Tail(q)) = Len(q) - 1
      /\ \A i \in 1..(Len(q) - 1) : Tail(q)[i] = q[i + 1]
      /\ Head(q) = q[1]
  BY TailEntries
<1>2. CASE r = e /\ \A i \in 1..Len(q) : ~Sets(q[i])
  <2>1. \A i \in 1..(Len(q) - 1) : ~Sets(Tail(q)[i])
    BY <1>1, <1>2
  <2>2. EncodingAfter(Head(q).msg, v, e) = e
    BY <1>1, <1>2 DEF EncodingAfter, Sets
  <2> QED
    BY <1>1, <1>2, <2>1, <2>2 DEF FinalIs
<1>3. ASSUME NEW i \in 1..Len(q), Sets(q[i]), r = q[i].msg["encoding"],
             \A j \in (i + 1)..Len(q) : ~Sets(q[j])
      PROVE  FinalIs(Tail(q), EncodingAfter(Head(q).msg, v, e), r)
  <2>1. CASE i = 1
    <3>1. \A j \in 1..(Len(q) - 1) : ~Sets(Tail(q)[j])
      BY <1>1, <1>3, <2>1
    <3>2. EncodingAfter(Head(q).msg, v, e) = r
      BY <1>1, <1>3, <2>1 DEF EncodingAfter, Sets
    <3> QED
      BY <1>1, <3>1, <3>2 DEF FinalIs
  <2>2. CASE i # 1
    <3>1. i - 1 \in 1..(Len(q) - 1) /\ Tail(q)[i - 1] = q[i]
      BY <1>1, <2>2
    <3>2. \A j \in ((i - 1) + 1)..(Len(q) - 1) : ~Sets(Tail(q)[j])
      BY <1>1, <1>3, <2>2
    <3> QED
      BY <1>1, <1>3, <3>1, <3>2 DEF FinalIs
  <2> QED
    BY <2>1, <2>2
<1> QED
  BY <1>2, <1>3 DEF FinalIs

\* The command at k is noted; nothing from there on was noted before.
LEMMA FinalNote ==
  ASSUME NEW q \in Seq(Entry), NEW e, NEW r, FinalIs(q, e, r), NEW v \in {"took", "left"},
         NEW k \in 1..Len(q), \A i \in k..Len(q) : q[i].other = "waits"
  PROVE  FinalIs([q EXCEPT ![k].other = v], e, EncodingAfter(q[k].msg, v, r))
<1> DEFINE p == [q EXCEPT ![k].other = v]
<1>1. Len(q) \in Nat /\ Len(p) = Len(q) /\ q[k] \in Entry
  OBVIOUS
<1>2. p[k].other = v /\ p[k].msg = q[k].msg
  BY <1>1 DEF Entry
<1>3. \A i \in 1..Len(q) : i # k => p[i] = q[i]
  BY <1>1
<1>4. \A i \in k..Len(q) : ~Sets(q[i])
  BY DEF Sets
<1>5. \A i \in (k + 1)..Len(q) : ~Sets(p[i])
  BY <1>1, <1>3, <1>4
<1> HIDE DEF p
<1>6. CASE Sets(p[k])
  <2>1. EncodingAfter(q[k].msg, v, r) = p[k].msg["encoding"]
    BY <1>2, <1>6 DEF EncodingAfter, Sets
  <2> QED
    BY <1>1, <1>5, <1>6, <2>1 DEF FinalIs, p
<1>7. CASE ~Sets(p[k])
  <2>1. EncodingAfter(q[k].msg, v, r) = r
    BY <1>2, <1>7 DEF EncodingAfter, Sets
  <2>2. \A i \in 1..Len(q) : Sets(p[i]) <=> Sets(q[i])
    BY <1>1, <1>3, <1>4, <1>7
  <2>3. \A i \in 1..Len(q) : p[i].msg = q[i].msg
    BY <1>2, <1>3
  <2> QED
    BY <1>1, <2>1, <2>2, <2>3 DEF FinalIs, p
<1> QED
  BY <1>6, <1>7

\* However far apart the two are, a command handled by one keeps them in step.
LEMMA HandledSync ==
  ASSUME NEW a \in Seq(Entry), NEW b \in Seq(Entry), a # <<>>, NEW va, NEW vb, Sync(a, b, va, vb),
         NEW v \in {"took", "left"}, NEW b2,
         Len(b) - Len(a) >= 0 => b2 = [b EXCEPT ![Len(b) - Len(a) + 1].other = v],
         ~(Len(b) - Len(a) >= 0) =>
           b2 = b /\ ("encoding" \in DOMAIN Head(a).msg => Head(a).other = v)
  PROVE  Sync(Tail(a), b2, EncodingAfter(Head(a).msg, v, va), vb)
<1> DEFINE va2 == EncodingAfter(Head(a).msg, v, va)
<1>1. /\ Len(a) \in Nat \ {0} /\ Len(b) \in Nat
      /\ Len(Tail(a)) = Len(a) - 1
      /\ \A i \in 1..(Len(a) - 1) : Tail(a)[i] = a[i + 1]
      /\ Head(a) = a[1]
  BY TailEntries
<1> HIDE DEF va2
<1>2. CASE Len(b) - Len(a) >= 0
  <2> DEFINE k == Len(b) - Len(a) + 1
  <2>1. k \in 1..Len(b) /\ b2 = [b EXCEPT ![k].other = v]
    BY <1>1, <1>2
  <2>2. Len(b2) = Len(b) /\ \A i \in 1..Len(b) : i # k => b2[i] = b[i]
    BY <1>1, <2>1
  <2>3. Shared(a, b) /\ FinalIs(b, vb, va)
    BY <1>1, <1>2 DEF Sync, Ahead
  <2>4. \A i \in k..Len(b) : b[i].other = "waits"
    <3>1. ASSUME NEW i \in k..Len(b)
          PROVE  b[i].other = "waits"
      <4>1. i - k + 1 \in 1..Len(a) /\ Len(b) - Len(a) + (i - k + 1) = i
        <5>1. \A j \in (Len(b) - Len(a) + 1)..Len(b) :
                /\ j - (Len(b) - Len(a) + 1) + 1 \in 1..Len(a)
                /\ Len(b) - Len(a) + (j - (Len(b) - Len(a) + 1) + 1) = j
          BY <1>1, <1>2, Places
        <5> QED
          BY <3>1, <5>1
      <4> QED
        BY <2>3, <4>1 DEF Shared
    <3> QED
      BY <3>1
  <2>5. b[k].msg = Head(a).msg
    <3>1. 1 \in 1..Len(a) /\ Len(b) - Len(a) + 1 = k
      BY <1>1
    <3> QED
      BY <1>1, <2>3, <3>1 DEF Shared
  <2>6. FinalIs(b2, vb, va2)
    BY <2>1, <2>3, <2>4, <2>5, FinalNote DEF va2
  <2>7. Shared(Tail(a), b2)
    <3>1. ASSUME NEW i \in 1..(Len(a) - 1)
          PROVE  LET x == b2[Len(b) - (Len(a) - 1) + i] IN
                   /\ Tail(a)[i].other = "waits" /\ x.other = "waits"
                   /\ Tail(a)[i].msg = x.msg
      <4>1. /\ i + 1 \in 1..Len(a)
            /\ Len(b) - Len(a) + (i + 1) = Len(b) - (Len(a) - 1) + i
            /\ Len(b) - (Len(a) - 1) + i \in 1..Len(b)
            /\ Len(b) - (Len(a) - 1) + i # k
        BY <1>1, <1>2, <3>1, Places
      <4>2. b2[Len(b) - (Len(a) - 1) + i] = b[Len(b) - Len(a) + (i + 1)]
        BY <2>2, <4>1
      <4>3. Tail(a)[i] = a[i + 1]
        BY <1>1, <3>1
      <4> QED
        BY <2>3, <4>1, <4>2, <4>3 DEF Shared
    <3> QED
      BY <1>1, <2>2, <3>1 DEF Shared
  <2>8. ~(Len(b2) <= Len(Tail(a)))
    BY <1>1, <1>2, <2>2
  <2> QED
    BY <2>6, <2>7, <2>8 DEF Sync, Ahead, va2
<1>3. CASE ~(Len(b) - Len(a) >= 0)
  <2>1. b2 = b /\ ("encoding" \in DOMAIN Head(a).msg => Head(a).other = v)
    BY <1>3
  <2>2. Shared(b, a) /\ FinalIs(a, va, vb)
    BY <1>1, <1>3 DEF Sync, Ahead
  <2>3. FinalIs(Tail(a), va2, vb)
    BY <2>1, <2>2, FinalTail DEF va2
  <2>4. \A i \in 1..Len(b) :
          /\ Len(a) - Len(b) + i \in 2..Len(a)
          /\ Tail(a)[Len(a) - 1 - Len(b) + i] = a[Len(a) - Len(b) + i]
    BY <1>1, <1>3
  <2>5. Shared(b, Tail(a))
    BY <1>1, <2>2, <2>4 DEF Shared
  <2>6. CASE Len(Tail(a)) <= Len(b)
    <3>1. Len(a) - 1 = Len(b) /\ Len(Tail(a)) = Len(b)
      BY <1>1, <1>3, <2>6, Places
    <3>2. \A i \in 1..Len(b) :
            /\ b[i].other = "waits" /\ Tail(a)[i].other = "waits" /\ Tail(a)[i].msg = b[i].msg
            /\ Len(b) - Len(b) + i = i
      BY <1>1, <2>5, <3>1 DEF Shared
    <3>3. Shared(Tail(a), b)
      BY <1>1, <3>1, <3>2 DEF Shared
    <3>4. vb = va2
      BY <2>3, <3>1, <3>2 DEF FinalIs, Sets
    <3>5. FinalIs(b, vb, va2)
      BY <3>2, <3>4 DEF FinalIs, Sets
    <3> QED
      BY <2>1, <2>3, <2>5, <3>3, <3>5 DEF Sync, Ahead, va2
  <2>7. CASE ~(Len(Tail(a)) <= Len(b))
    BY <2>1, <2>3, <2>5, <2>7 DEF Sync, Ahead, va2
  <2> QED
    BY <2>6, <2>7
<1> QED
  BY <1>2, <1>3
-----------------------------------------------------------------------------
(* The camera that DepthAICameraProofs is about is the program's: the two      *)
(* instances define the same.                                                 *)

LEMMA SameInit == Camera!CamInit => CamProofs!CamInit
BY DEF Camera!CamInit, CamProofs!CamInit, Camera!Unbuilt, CamProofs!Unbuilt, Camera!AutoFocus,
   CamProofs!AutoFocus

LEMMA SameRestart == Camera!TryRestarting => CamProofs!TryRestarting
<1> USE DEF Camera!startVars, CamProofs!startVars, Camera!deviceVars, CamProofs!deviceVars,
        Camera!streamVars, CamProofs!streamVars
<1>1. Camera!Restart => CamProofs!Restart
  BY DEF Camera!Restart, CamProofs!Restart, Camera!Built, CamProofs!Built
<1>2. Camera!Connect => CamProofs!Connect
  BY DEF Camera!Connect, CamProofs!Connect, Camera!MayTry, CamProofs!MayTry
<1>3. Camera!ConnectFails => CamProofs!ConnectFails
  BY DEF Camera!ConnectFails, CamProofs!ConnectFails, Camera!MayTry, CamProofs!MayTry
<1>4. Camera!LeaveLoop => CamProofs!LeaveLoop
  BY DEF Camera!LeaveLoop, CamProofs!LeaveLoop
<1>5. Camera!SendFirstControl => CamProofs!SendFirstControl
  BY DEF Camera!SendFirstControl, CamProofs!SendFirstControl, Camera!Send, CamProofs!Send,
     Camera!ControlFor, CamProofs!ControlFor, Camera!AutoFocus, CamProofs!AutoFocus,
     Camera!Manual, CamProofs!Manual
<1>6. Camera!SetRunning => CamProofs!SetRunning
  BY DEF Camera!SetRunning, CamProofs!SetRunning, Camera!AllSet, CamProofs!AllSet,
     Camera!StreamsOf, CamProofs!StreamsOf, Camera!Asked, CamProofs!Asked
<1>7. Camera!AddVideoCallback => CamProofs!AddVideoCallback
  BY DEF Camera!AddVideoCallback, CamProofs!AddVideoCallback
<1>8. ASSUME NEW s \in Stream
      PROVE  /\ Camera!OpenQueue(s) => CamProofs!OpenQueue(s)
             /\ Camera!AddRawCallback(s) => CamProofs!AddRawCallback(s)
  BY DEF Camera!OpenQueue, CamProofs!OpenQueue, Camera!AddRawCallback, CamProofs!AddRawCallback,
     Camera!StreamsOf, CamProofs!StreamsOf, Camera!Asked, CamProofs!Asked, Camera!Place,
     CamProofs!Place
<1> QED
  BY <1>1, <1>2, <1>3, <1>4, <1>5, <1>6, <1>7, <1>8
     DEF Camera!TryRestarting, CamProofs!TryRestarting

LEMMA SameCommand == Camera!VideoStreamCommand => CamProofs!VideoStreamCommand
<1> USE DEF Camera!startVars, CamProofs!startVars, Camera!deviceVars, CamProofs!deviceVars,
        Camera!streamVars, CamProofs!streamVars
<1>1. ASSUME NEW m \in Messages, Camera!StartCommand(m)
      PROVE  CamProofs!StartCommand(m)
  BY <1>1 DEF Camera!StartCommand, CamProofs!StartCommand, Camera!Apply, CamProofs!Apply,
     Camera!Requested, CamProofs!Requested, Camera!AsParameters, CamProofs!AsParameters,
     Camera!Given, CamProofs!Given, Camera!ValidateCameraParameters,
     CamProofs!ValidateCameraParameters
<1>2. ASSUME NEW m \in Messages, Camera!ChangeFocus(m) \/ Camera!UntypedCommand(m)
      PROVE  FALSE
  BY <1>2, CommandAssumption DEF Camera!ChangeFocus, Camera!UntypedCommand, Camera!Mistyped
<1>3. Camera!ChangeLens => CamProofs!ChangeLens
  BY DEF Camera!ChangeLens, CamProofs!ChangeLens, Camera!LensAccepted, CamProofs!LensAccepted,
     Camera!Send, CamProofs!Send, Camera!Manual, CamProofs!Manual
<1> QED
  BY <1>1, <1>2, <1>3 DEF Camera!VideoStreamCommand, CamProofs!VideoStreamCommand

LEMMA SameDevice ==
  /\ Camera!ApplyControl => CamProofs!ApplyControl
  /\ \A s \in Stream : Camera!ReadStream(s) => CamProofs!ReadStream(s)
  /\ Camera!PlugOrUnplug => CamProofs!PlugOrUnplug
  /\ ~Camera!Stop
<1> USE DEF Camera!startVars, CamProofs!startVars, Camera!deviceVars, CamProofs!deviceVars,
        Camera!streamVars, CamProofs!streamVars
<1>1. Camera!ApplyControl => CamProofs!ApplyControl
  BY DEF Camera!ApplyControl, CamProofs!ApplyControl
<1>2. ASSUME NEW s \in Stream
      PROVE  Camera!ReadStream(s) => CamProofs!ReadStream(s)
  <2>1. Camera!PacketArrives(s) => CamProofs!PacketArrives(s)
    BY DEF Camera!PacketArrives, CamProofs!PacketArrives, Camera!NextNumber, CamProofs!NextNumber
  <2>2. Camera!PublishAll(s) => CamProofs!PublishAll(s)
    BY DEF Camera!PublishAll, CamProofs!PublishAll
  <2>3. Camera!NoCallback(s) => CamProofs!NoCallback(s)
    BY DEF Camera!NoCallback, CamProofs!NoCallback
  <2> QED
    BY <2>1, <2>2, <2>3 DEF Camera!ReadStream, CamProofs!ReadStream
<1>3. Camera!PlugOrUnplug => CamProofs!PlugOrUnplug
  BY DEF Camera!PlugOrUnplug, CamProofs!PlugOrUnplug
<1>4. ~Camera!Stop
  BY DEF Camera!Stop
<1> QED
  BY <1>1, <1>2, <1>3, <1>4

LEMMA SameCamera == Camera!CamSpec => CamProofs!CamSpec
<1>1. Camera!CamNext => CamProofs!CamNext
  BY SameRestart, SameCommand, SameDevice DEF Camera!CamNext, CamProofs!CamNext, Camera!Process,
     CamProofs!Process
<1>2. [Camera!CamNext]_(Camera!camVars) => [CamProofs!CamNext]_(CamProofs!camVars)
  BY <1>1 DEF Camera!camVars, CamProofs!camVars, Camera!startVars, CamProofs!startVars,
     Camera!deviceVars, CamProofs!deviceVars, Camera!streamVars, CamProofs!streamVars
<1> QED
  BY <1>2, SameInit, PTL DEF Camera!CamSpec, CamProofs!CamSpec

LEMMA CameraHolds == Camera!CamSpec => [](settings \in Camera!Settings /\ Camera!DeviceRunsSettings)
<1>1. CamProofs!CamSpec => []CamProofs!CamInv
  BY CamProofs!CamInvHolds, CameraAssumption DEF Camera!Settings, CamProofs!Settings
<1>2. CamProofs!CamInv => settings \in Camera!Settings /\ Camera!DeviceRunsSettings
  BY DEF CamProofs!CamInv, CamProofs!Pipelines, CamProofs!CamTypeOK, CamProofs!NodeTypeOK,
     CamProofs!DeviceRunsSettings, Camera!DeviceRunsSettings, CamProofs!Built, Camera!Built,
     CamProofs!Settings, Camera!Settings
<1> QED
  BY <1>1, <1>2, SameCamera, PTL
-----------------------------------------------------------------------------
(* What a node makes of a command, and what it leaves alone.                  *)

LEMMA CameraEncoding ==
  ASSUME settings \in Camera!Settings, NEW m \in Messages, Camera!StartCommand(m)
  PROVE  Encoding(settings') = EncodingAfter(m, "took", Encoding(settings))
<1> DEFINE r == Camera!Requested(m)
<1>1. settings' = Camera!Apply(m) /\ Camera!ValidateCameraParameters(r)
  BY DEF Camera!StartCommand
<1>2. settings'.h265 = (r.encoding = "H265")
  BY <1>1 DEF Camera!Apply, Camera!Settings
<1>3. r.encoding = IF "encoding" \in DOMAIN m THEN m["encoding"] ELSE Encoding(settings)
  BY DEF Camera!Requested, Camera!AsParameters, Camera!Given, Encoding
<1>4. r.encoding \in {"H264", "H265"}
  BY <1>1 DEF Camera!ValidateCameraParameters
<1> QED
  BY <1>2, <1>3, <1>4 DEF Encoding, EncodingAfter

LEMMA StreamerEncoding ==
  ASSUME NEW m \in Messages, StartCommand(Args(m))
  PROVE  profile' = EncodingAfter(m, IF ProfilePasses(Args(m).profile) THEN "took" ELSE "left", profile)
<1>1. Args(m).profile = IF "encoding" \in DOMAIN m THEN m["encoding"] ELSE NoArg
  BY DEF Args
<1>2. "encoding" \in DOMAIN m => m["encoding"] # NoArg
  BY ArgsAssumption
<1>3. CASE AcceptStart(Args(m))
  BY <1>1, <1>2, <1>3 DEF AcceptStart, ApplyProfile, SetEncoderProfile, EncodingAfter
<1>4. CASE RefuseProfile(Args(m))
  BY <1>4 DEF RefuseProfile, EncodingAfter
<1> QED
  BY <1>3, <1>4 DEF StartCommand

LEMMA CameraKeepsSettings ==
  ASSUME Camera!TryRestarting \/ Camera!PlugOrUnplug \/ \E s \in Stream : Camera!ReadStream(s)
  PROVE  settings' = settings
BY DEF Camera!PlugOrUnplug, Camera!TryRestarting, Camera!Restart, Camera!Connect, Camera!ConnectFails,
   Camera!LeaveLoop, Camera!SendFirstControl, Camera!OpenQueue, Camera!AddRawCallback,
   Camera!SetRunning, Camera!AddVideoCallback,
   Camera!ReadStream, Camera!PacketArrives, Camera!PublishAll, Camera!NoCallback

LEMMA StreamerKeepsProfile ==
  ASSUME \/ \E c \in Caller : Interface(StartStream(c) \/ StopStream(c))
         \/ \E g \in Slot : Interface(CreatePipeline(g) \/ PlayStream(g))
         \/ \E g \in Slot : Interface(StreamEventCallBack(g))
         \/ \E g \in Slot : Interface(NeedData(g) \/ ServeNeedData(g))
         \/ HandleStreamStatus
         \/ MisreadQueue
         \/ \E c \in Caller : EmptyQueueFirst(c)
         \/ VideoMsg
         \/ StopCommand
  PROVE  profile' = profile
<1>1. ASSUME NEW c \in Caller, StartStream(c) \/ StopStream(c)
      PROVE  profile' = profile
  BY <1>1 DEF StartStream, StartIgnored, StartAccepted, QuitOldLoop, SpawnCreate, StopStream,
     LowerFlags, Disconnect, QuitLoop, JoinLoopThread, JoinCreateThread, Teardown,
     ReleaseContext, ClearContext, setting
<1>2. ASSUME NEW g \in Slot, CreatePipeline(g)
      PROVE  profile' = profile
  BY <1>2 DEF CreatePipeline, AwaitFrame, ChoosePipeline, BuildPipeline, BuildDefaultPipeline,
     BuildCameraPipeline, Build, WatchBus, gstVars, setting
<1>3. ASSUME NEW g \in Slot, PlayStream(g) \/ StreamEventCallBack(g)
      PROVE  profile' = profile
  BY <1>3 DEF PlayStream, SetPlaying, LoadLoop, RunLoop, LeaveLoop, StreamEventCallBack,
     BusPlaying, BusError, BusEos, setting
<1>4. CASE \/ \E g \in Slot : Interface(NeedData(g) \/ ServeNeedData(g))
           \/ HandleStreamStatus
           \/ MisreadQueue
           \/ \E c \in Caller : EmptyQueueFirst(c)
           \/ VideoMsg
           \/ StopCommand
  BY <1>4 DEF Interface, NeedData, ServeNeedData, HandleStreamStatus, RetryStart, SwitchToCamera,
     SwitchToDefault, MisreadQueue, EmptyQueueFirst, VideoMsg, StopCommand, gstVars, setting
<1> QED
  BY <1>1, <1>2, <1>3, <1>4 DEF Interface

-----------------------------------------------------------------------------
(* Both inboxes get a command at once.                                        *)

LEMMA CommandSync ==
  ASSUME NEW a \in Seq(Entry), NEW b \in Seq(Entry), NEW va, NEW vb, Ahead(a, b, va, vb),
         NEW x \in Entry, x.other = "waits"
  PROVE  Ahead(Append(a, x), Append(b, x), va, vb)
<1> DEFINE a2 == Append(a, x)
           b2 == Append(b, x)
<1>1. /\ Len(a) \in Nat /\ Len(b) \in Nat
      /\ Len(a2) = Len(a) + 1 /\ Len(b2) = Len(b) + 1
      /\ \A i \in 1..Len(a) : a2[i] = a[i]
      /\ \A i \in 1..Len(b) : b2[i] = b[i]
      /\ a2[Len(a) + 1] = x /\ b2[Len(b) + 1] = x
  OBVIOUS
<1> HIDE DEF a2, b2
<1>2. SUFFICES ASSUME Len(a) <= Len(b)
               PROVE  Shared(a2, b2) /\ FinalIs(b2, vb, va)
  BY <1>1 DEF Ahead, a2, b2
<1>3. Shared(a, b) /\ FinalIs(b, vb, va)
  BY <1>2 DEF Ahead
<1>4. Shared(a2, b2)
  <2>1. ASSUME NEW i \in 1..Len(a)
        PROVE  /\ Len(b) - Len(a) + i \in 1..Len(b)
               /\ Len(b2) - Len(a2) + i = Len(b) - Len(a) + i
    BY <1>1, <1>2, <2>1
  <2>2. Len(b2) - Len(a2) + (Len(a) + 1) = Len(b) + 1
    BY <1>1
  <2>3. \A i \in 1..Len(a) : LET y == b2[Len(b2) - Len(a2) + i] IN
          a2[i].other = "waits" /\ y.other = "waits" /\ a2[i].msg = y.msg
    BY <1>1, <1>3, <2>1 DEF Shared
  <2>4. \A i \in 1..(Len(a) + 1) : i \in 1..Len(a) \/ i = Len(a) + 1
    BY <1>1
  <2> QED
    BY <1>1, <2>2, <2>3, <2>4 DEF Shared
<1>5. FinalIs(b2, vb, va)
  <2>1. ~Sets(b2[Len(b) + 1])
    BY <1>1 DEF Sets
  <2>2. \A i \in 1..(Len(b) + 1) : i \in 1..Len(b) \/ i = Len(b) + 1
    BY <1>1
  <2>3. CASE va = vb /\ \A i \in 1..Len(b) : ~Sets(b[i])
    BY <1>1, <2>1, <2>2, <2>3 DEF FinalIs
  <2>4. ASSUME NEW i \in 1..Len(b), Sets(b[i]), va = b[i].msg["encoding"],
               \A j \in (i + 1)..Len(b) : ~Sets(b[j])
        PROVE  FinalIs(b2, vb, va)
    <3>1. \A j \in (i + 1)..(Len(b) + 1) : ~Sets(b2[j])
      BY <1>1, <2>1, <2>2, <2>4
    <3>2. i \in 1..(Len(b) + 1) /\ b2[i] = b[i]
      BY <1>1
    <3> QED
      BY <1>1, <2>4, <3>1, <3>2 DEF FinalIs
  <2> QED
    BY <1>3, <2>3, <2>4 DEF FinalIs
<1> QED
  BY <1>4, <1>5
-----------------------------------------------------------------------------
LEMMA SyncCommand ==
  ASSUME InboxesOK, SyncInv, NEW m \in Messages, Command(m)
  PROVE  SyncInv'
<1> DEFINE x == [msg |-> m, other |-> "waits"]
<1>1. /\ camInbox' = Append(camInbox, x) /\ gstInbox' = Append(gstInbox, x)
      /\ UNCHANGED <<split, settings, profile>>
  BY DEF Command, vars, gstVars, setting, camVars
<1>2. x \in Entry /\ x.other = "waits"
  BY DEF Entry
<1> HIDE DEF x
<1>3. Encoding(settings)' = Encoding(settings)
  BY <1>1 DEF Encoding
<1>4. SUFFICES ASSUME ~split
               PROVE  Sync(camInbox, gstInbox, Encoding(settings), profile)'
  BY <1>1 DEF SyncInv
<1>5. Sync(camInbox, gstInbox, Encoding(settings), profile)
  BY <1>4 DEF SyncInv
<1>6. Sync(Append(camInbox, x), Append(gstInbox, x), Encoding(settings), profile)
  BY <1>2, <1>5, CommandSync DEF Sync, InboxesOK
<1> QED
  BY <1>1, <1>3, <1>6 DEF Sync, Ahead, Shared, FinalIs, Sets

LEMMA SyncCamera ==
  ASSUME InboxesOK, settings \in Camera!Settings, SyncInv, CameraHandles
  PROVE  SyncInv'
<1> DEFINE m == Head(camInbox).msg
<1>1. camInbox # <<>> /\ m \in Messages
  BY HeadType DEF CameraHandles, InboxesOK
<1>2. UNCHANGED profile
  BY DEF CameraHandles, CameraTakes, CameraLeaves, OfCamera, vars, gstVars, setting
<1>3. PICK v \in {"took", "left"} :
        /\ Handled(camInbox, gstInbox, v)
        /\ Encoding(settings)' = EncodingAfter(m, v, Encoding(settings))
  <2>1. CASE CameraTakes(m)
    BY <1>1, <2>1, CameraEncoding DEF CameraTakes, OfCamera, Camera!Process, Encoding
  <2>2. CASE CameraLeaves(m)
    BY <2>2 DEF CameraLeaves, camVars, Encoding, EncodingAfter
  <2> QED
    BY <2>1, <2>2 DEF CameraHandles
<1> HIDE DEF m
<1>4. SUFFICES ASSUME ~split'
               PROVE  Sync(camInbox, gstInbox, Encoding(settings), profile)'
  BY DEF SyncInv
<1>5. /\ camInbox' = Tail(camInbox)
      /\ Len(gstInbox) - Len(camInbox) >= 0 =>
           gstInbox' = [gstInbox EXCEPT ![Len(gstInbox) - Len(camInbox) + 1].other = v]
      /\ ~(Len(gstInbox) - Len(camInbox) >= 0) =>
           gstInbox' = gstInbox /\ ("encoding" \in DOMAIN m => Head(camInbox).other = v)
      /\ ~split
  BY <1>3, <1>4 DEF Handled, m
<1>6. Sync(camInbox, gstInbox, Encoding(settings), profile)
  BY <1>5 DEF SyncInv
<1>7. Sync(Tail(camInbox), gstInbox', EncodingAfter(m, v, Encoding(settings)), profile)
  BY <1>1, <1>5, <1>6, HandledSync DEF InboxesOK, m
<1> QED
  BY <1>2, <1>3, <1>5, <1>7 DEF Sync, Ahead, Shared, FinalIs, Sets

LEMMA SyncStreamer ==
  ASSUME InboxesOK, SyncInv, StreamerHandles
  PROVE  SyncInv'
<1> DEFINE m == Head(gstInbox).msg
<1>1. gstInbox # <<>> /\ m \in Messages
  BY HeadType DEF StreamerHandles, InboxesOK
<1>2. UNCHANGED settings /\ Encoding(settings)' = Encoding(settings)
  BY DEF StreamerHandles, camVars, Encoding
<1>3. PICK v \in {"took", "left"} :
        /\ Handled(gstInbox, camInbox, v)
        /\ profile' = EncodingAfter(m, v, profile)
  <2>1. CASE StreamerTakes(m)
    BY <1>1, <2>1, StreamerEncoding DEF StreamerTakes
  <2>2. CASE StreamerLeaves(m)
    BY <2>2 DEF StreamerLeaves, vars, gstVars, setting, EncodingAfter
  <2> QED
    BY <2>1, <2>2 DEF StreamerHandles
<1> HIDE DEF m
<1>4. SUFFICES ASSUME ~split'
               PROVE  Sync(camInbox, gstInbox, Encoding(settings), profile)'
  BY DEF SyncInv
<1>5. /\ gstInbox' = Tail(gstInbox)
      /\ Len(camInbox) - Len(gstInbox) >= 0 =>
           camInbox' = [camInbox EXCEPT ![Len(camInbox) - Len(gstInbox) + 1].other = v]
      /\ ~(Len(camInbox) - Len(gstInbox) >= 0) =>
           camInbox' = camInbox /\ ("encoding" \in DOMAIN m => Head(gstInbox).other = v)
      /\ ~split
  BY <1>3, <1>4 DEF Handled, m
<1>6. Sync(gstInbox, camInbox, profile, Encoding(settings))
  BY <1>5 DEF SyncInv, Sync
<1>7. Sync(Tail(gstInbox), camInbox', EncodingAfter(m, v, profile), Encoding(settings))
  BY <1>1, <1>5, <1>6, HandledSync DEF InboxesOK, m
<1> QED
  BY <1>2, <1>3, <1>5, <1>7 DEF Sync, Ahead, Shared, FinalIs, Sets

LEMMA SyncKept ==
  ASSUME SyncInv, UNCHANGED <<camInbox, gstInbox, split, settings, profile>>
  PROVE  SyncInv'
BY DEF SyncInv, Sync, Ahead, Shared, FinalIs, Sets, Encoding

LEMMA SyncNext ==
  ASSUME InboxesOK, settings \in Camera!Settings, SyncInv, [CtrlNext]_ctrlVars
  PROVE  SyncInv'
<1>1. CASE UNCHANGED ctrlVars
  BY <1>1, SyncKept DEF ctrlVars, vars, gstVars, setting, camVars, linkVars
<1>2. CASE CameraRestarts \/ \E s \in Stream : CameraReads(s)
  BY <1>2, SyncKept, CameraKeepsSettings DEF CameraRestarts, CameraReads,
     OfCamera, Camera!Process, vars, gstVars, setting, linkVars
<1>3. CASE StreamerGrabs
  BY <1>3, SyncKept, StreamerKeepsProfile DEF StreamerGrabs, camVars
<1>4. ASSUME NEW m \in Messages, Command(m)
      PROVE  SyncInv'
  BY <1>4, SyncCommand
<1>5. CASE CameraHandles \/ StreamerHandles
  BY <1>5, SyncCamera, SyncStreamer
<1>6. CASE \/ \E c \in Caller : OfStreamer(Interface(StartStream(c) \/ StopStream(c)))
           \/ \E g \in Slot : OfStreamer(Interface(CreatePipeline(g) \/ PlayStream(g)))
           \/ \E g \in Slot : OfStreamer(Interface(StreamEventCallBack(g)))
           \/ \E g \in Slot : OfStreamer(Interface(NeedData(g) \/ ServeNeedData(g)))
           \/ OfStreamer(HandleStreamStatus)
           \/ topic /\ OfStreamer(MisreadQueue)
           \/ \E c \in Caller : OfStreamer(EmptyQueueFirst(c))
           \/ OfStreamer(StopCommand)
  <2>1. UNCHANGED profile
    BY <1>6, StreamerKeepsProfile DEF OfStreamer
  <2>2. UNCHANGED <<camInbox, gstInbox, split, settings>>
    BY <1>6 DEF OfStreamer, camVars, linkVars
  <2> QED
    BY <2>1, <2>2, SyncKept
<1> QED
  BY <1>1, <1>2, <1>3, <1>4, <1>5, <1>6 DEF CtrlNext

LEMMA SyncHolds == CtrlSpec => []SyncInv
<1>1. CtrlInit => SyncInv
  BY DEF CtrlInit, SyncInv, Sync, Ahead, Shared, FinalIs
<1>2. CtrlSpec => [](settings \in Camera!Settings /\ Camera!DeviceRunsSettings)
  BY ProgramRunsCamera, CameraHolds, PTL
<1>3. /\ InboxesOK
      /\ settings \in Camera!Settings /\ Camera!DeviceRunsSettings
      /\ SyncInv /\ [CtrlNext]_ctrlVars
      => SyncInv'
  BY SyncNext
<1> QED
  BY <1>1, <1>2, <1>3, InboxesHold, PTL DEF CtrlSpec

\* However many commands wait and whichever node handles them first: while calls come in
\* turn, the pipeline is built for what the device encodes, unless an encoding was taken by
\* one of the two alone.
THEOREM EncodingStaysKept == CtrlSpec => []EncodingKept
<1>1. Spec => [](InTurn => BuiltForProfile)
  BY ProfileStaysBuilt
<1>2. CtrlSpec => [](settings \in Camera!Settings /\ Camera!DeviceRunsSettings)
  BY ProgramRunsCamera, CameraHolds, PTL
<1>3. /\ SyncInv /\ (InTurn => BuiltForProfile)
      /\ settings \in Camera!Settings /\ Camera!DeviceRunsSettings
      => EncodingKept
  <2> SUFFICES ASSUME SyncInv, BuiltForProfile, Camera!DeviceRunsSettings,
                      ~split, camInbox = <<>>, gstInbox = <<>>, device # "none",
                      NEW g \in Slot, Alive(g)
               PROVE  built[g].profile = Encoding(flashed)
    BY DEF EncodingKept
  <2>1. Encoding(settings) = profile
    BY DEF SyncInv, Sync, Ahead, FinalIs
  <2>2. flashed = Camera!Built(settings)
    BY DEF Camera!DeviceRunsSettings
  <2>3. Encoding(flashed) = Encoding(settings)
    BY <2>2 DEF Camera!Built, Encoding
  <2> QED
    BY <2>1, <2>3 DEF BuiltForProfile
<1> QED
  BY <1>1, <1>2, <1>3, SyncHolds, ProgramRunsStreamer, PTL

-----------------------------------------------------------------------------
(* What the program promises as a whole.                                      *)

\* The feed of the camera that DepthAICameraProofs is about is that of the program's.
LEMMA SameFeed == CamProofs!FeedSpec => Camera!FeedSpec
<1>1. CamProofs!Feed!Init => Camera!Feed!Init
  BY DEF CamProofs!Feed!Init, Camera!Feed!Init
<1>2. [CamProofs!Feed!Next]_(CamProofs!Feed!feedVars) => [Camera!Feed!Next]_(Camera!Feed!feedVars)
  BY DEF CamProofs!Feed!Next, Camera!Feed!Next, CamProofs!Feed!feedVars, Camera!Feed!feedVars,
     CamProofs!Feed!Ask, Camera!Feed!Ask, CamProofs!Feed!Open, Camera!Feed!Open,
     CamProofs!Feed!Record, Camera!Feed!Record, CamProofs!Feed!Show, Camera!Feed!Show,
     CamProofs!Feed!Lose, Camera!Feed!Lose, CamProofs!Feed!Close, Camera!Feed!Close,
     CamProofs!Feed!Carried, Camera!Feed!Carried, CamProofs!Feed!Following,
     Camera!Feed!Following, CamProofs!Built, Camera!Built
<1> QED
  BY <1>1, <1>2, PTL DEF CamProofs!FeedSpec, Camera!FeedSpec, CamProofs!Feed!Spec,
     Camera!Feed!Spec

\* The program deletes no node: no call in it is a destructor's.
LEMMA CutIsOfMain ==
  ASSUME NEW c \in Caller, NEW l, Call(c, l), c # "main"
  PROVE  "cut" \in met' => "cut" \in met
BY DEF Call, Meets

LEMMA NothingIsCutStep ==
  ASSUME InboxesOK, "cut" \notin met, [CtrlNext]_ctrlVars
  PROVE  "cut" \notin met'
<1>0. "timer" \in Caller /\ "cmd" \in Caller
  BY CallerAssumption
<1>1. CASE HandleStreamStatus \/ MisreadQueue
  <2>1. \E l : Call("timer", l)
    BY <1>1 DEF HandleStreamStatus, RetryStart, SwitchToCamera, SwitchToDefault, MisreadQueue
  <2> QED
    BY <1>0, <2>1, CutIsOfMain
<1>2. ASSUME NEW a, StartCommand(a) \/ StopCommand
      PROVE  "cut" \notin met'
  <2>1. met' = met \/ \E l : Call("cmd", l)
    BY <1>2 DEF StartCommand, AcceptStart, RefuseProfile, StopCommand
  <2> QED
    BY <1>0, <2>1, CutIsOfMain
<1>3. CASE UNCHANGED met
  BY <1>3
<1>4. \/ UNCHANGED met
      \/ HandleStreamStatus \/ MisreadQueue \/ StopCommand
      \/ \E a : StartCommand(a)
  BY DEF CtrlNext, ctrlVars, vars, OfStreamer, Interface, CameraRestarts, OfCamera,
     CameraReads, StreamerGrabs, VideoMsg, Command, CameraHandles, CameraTakes,
     CameraLeaves, StreamerHandles, StreamerTakes, StreamerLeaves, EmptyQueueFirst
<1> QED
  BY <1>1, <1>2, <1>3, <1>4

LEMMA NothingIsCut == CtrlSpec => []("cut" \notin met)
<1>1. CtrlInit => "cut" \notin met
  BY DEF CtrlInit, Init
<1>2. InboxesOK /\ "cut" \notin met /\ [CtrlNext]_ctrlVars => ("cut" \notin met)'
  BY NothingIsCutStep
<1> QED
  BY <1>1, <1>2, InboxesHold, PTL DEF CtrlSpec

\* All the abstract specifications at once: with both nodes in one process the streamer's
\* queue is a monitor, its status goes the way it should, the camera's feed keeps its
\* promises, and only calls out of turn and stops of a stopped stream join a thread twice,
\* however the two nodes and the commands to them interleave.  The status, and it alone,
\* takes clients and connections that never call out of turn.
THEOREM ProgramKeepsPromises ==
  /\ CtrlSpec => FQSpec /\ Camera!FeedSpec
  /\ CtrlSpec => [](InTurn /\ "stopped" \notin met => JoinedOnce)
  /\ {"call", "threads", "stream", "connection"} \subseteq Avoided => (CtrlSpec => StatusSpec)
<1>1. CtrlSpec => FQSpec
  BY ImplementsMonitor, ProgramRunsStreamer, PTL
<1>2. CamProofs!CamSpec => CamProofs!FeedSpec
  BY CamProofs!ImplementsFeed, CameraAssumption DEF Camera!Settings, CamProofs!Settings
<1>3. CtrlSpec => Camera!FeedSpec
  BY <1>2, ProgramRunsCamera, SameCamera, SameFeed, PTL
<1>4. NoFault /\ "cut" \notin met => (InTurn /\ "stopped" \notin met => JoinedOnce)
  BY DEF NoFault
<1>5. CtrlSpec => [](InTurn /\ "stopped" \notin met => JoinedOnce)
  BY <1>4, NoFaultHappens, NothingIsCut, ProgramRunsStreamer, PTL
<1>6. ASSUME {"call", "threads", "stream", "connection"} \subseteq Avoided
      PROVE  CtrlSpec => StatusSpec
  <2>1. Spec /\ []("cut" \notin met) => StatusSpec
    BY <1>6, StatusFollows
  <2> QED
    BY <2>1, NothingIsCut, ProgramRunsStreamer, PTL
<1> QED
  BY <1>1, <1>3, <1>5, <1>6
=============================================================================
