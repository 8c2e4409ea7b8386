----------------------------- MODULE FrameTiming -----------------------------
(***************************************************************************)
(* The timestamps NeedDataCallBack gives the buffers it pushes, computed   *)
(* in GstClockTime, an unsigned word, from the stamp of the message and    *)
(* from two members that StartStream sets to zero.                         *)
(***************************************************************************)
EXTENDS Integers

CONSTANTS
  Word,      \* the number of values of GstClockTime, 2^64 in the code
  MaxStamp,  \* the last stamp looked at
  MaxGap     \* the longest time between two messages

ASSUME WordAssumption == Word \in Nat \ {0}
ASSUME StampAssumption == MaxStamp \in 1 .. Word - 1 /\ MaxGap \in Nat \ {0}

VARIABLES
  gstStartTimestamp,  \* _gstStartTimestamp
  gstTimestamp,       \* _gstTimestamp
  pts,                \* GST_BUFFER_PTS of the last buffer
  duration,           \* its GST_BUFFER_DURATION
  stamps              \* the stamps of the stream's first, last but one and last
                      \* message, and how many there were, up to three

vars == <<gstStartTimestamp, gstTimestamp, pts, duration, stamps>>

\* Mutant: signed arithmetic.
MinusSigned(a, b) == a - b

Minus(a, b) == (a - b) % Word

Init ==
  /\ gstStartTimestamp = 0
  /\ gstTimestamp = 0
  /\ pts = 0
  /\ duration = 0
  /\ stamps = [first |-> 0, previous |-> 0, last |-> 0, count |-> 0]

\* The first message of a stream follows at any time.
StartStream ==
  /\ gstStartTimestamp' = 0
  /\ gstTimestamp' = 0
  /\ stamps' = [stamps EXCEPT !.count = 0]
  /\ UNCHANGED <<pts, duration>>

\* Mutant: the start is taken again on every frame.
StartEachTime(stamp) == gstTimestamp

\* Zero means that the start is yet to be taken, and it is taken from the timestamp of
\* the frame before, which is zero as well on the first frame.
StartOf(stamp) == IF gstStartTimestamp = 0 THEN gstTimestamp ELSE gstStartTimestamp

NeedDataCallBack(stamp) ==
  LET fromStart == Minus(stamp, StartOf(stamp)) IN
  /\ gstStartTimestamp' = StartOf(stamp)
  /\ gstTimestamp' = fromStart
  /\ pts' = fromStart
  /\ duration' = Minus(fromStart, gstTimestamp)
  /\ stamps' = [first    |-> IF stamps.count = 0 THEN stamp ELSE stamps.first,
                previous |-> stamps.last,
                last     |-> stamp,
                count    |-> IF stamps.count = 3 THEN 3 ELSE stamps.count + 1]

Next ==
  \/ StartStream
  \/ \E gap \in 1 .. MaxGap :
       stamps.last + gap <= MaxStamp /\ NeedDataCallBack(stamps.last + gap)

Spec == Init /\ [][Next]_vars

-----------------------------------------------------------------------------
TypeOK ==
  /\ {gstStartTimestamp, gstTimestamp, pts, duration} \subseteq 0 .. Word - 1
  /\ stamps \in [first : 0 .. MaxStamp, previous : 0 .. MaxStamp, last : 0 .. MaxStamp,
                 count : 0 .. 3]

\* From the third buffer of a stream on, buffers are timed from its first message and
\* last from one message to the next.
SettledTiming ==
  stamps.count = 3 =>
    /\ pts = stamps.last - stamps.first
    /\ duration = stamps.last - stamps.previous
=============================================================================
