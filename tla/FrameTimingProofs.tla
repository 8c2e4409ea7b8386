-------------------------- MODULE FrameTimingProofs --------------------------
(* Proofs about FrameTiming, for words of any width and any frame rate.       *)
EXTENDS FrameTiming, TLAPS

\* A difference that is not negative and fits in a word is computed exactly.
LEMMA MinusExact ==
  ASSUME NEW a \in Nat, NEW b \in Nat, b <= a, a < Word
  PROVE  Minus(a, b) = a - b
  BY WordAssumption, StampAssumption DEF Minus

\* Any difference is a word.
LEMMA MinusType ==
  ASSUME NEW a \in Int, NEW b \in Int
  PROVE  Minus(a, b) \in 0 .. Word - 1
  BY WordAssumption DEF Minus

-----------------------------------------------------------------------------
(* The inductive invariant follows a stream over its first two messages: on    *)
(* the first the start is still zero, on the second it becomes the first one's *)
(* stamp, and from then on it stays.                                          *)

TimingInv ==
  /\ TypeOK
  /\ stamps.count = 0 => gstStartTimestamp = 0 /\ gstTimestamp = 0
  /\ stamps.count = 1 =>
       /\ gstStartTimestamp = 0
       /\ gstTimestamp = stamps.first
       /\ stamps.last = stamps.first
       /\ stamps.first > 0
  /\ stamps.count > 1 =>
       /\ gstStartTimestamp = stamps.first
       /\ gstTimestamp = stamps.last - stamps.first
       /\ stamps.last > stamps.first
       /\ stamps.first > 0
  /\ SettledTiming

LEMMA TimingInit == Init => TimingInv
<1> SUFFICES ASSUME Init PROVE TimingInv
  OBVIOUS
<1>1. TypeOK
  BY WordAssumption, StampAssumption DEF Init, TypeOK
<1> QED
  BY <1>1 DEF Init, TimingInv, SettledTiming

LEMMA TimingStart ==
  ASSUME TimingInv, StartStream
  PROVE  TimingInv'
<1>1. TypeOK'
  BY WordAssumption DEF TimingInv, TypeOK, StartStream
<1>2. stamps'.count = 0
  BY DEF TimingInv, TypeOK, StartStream
<1> QED
  BY <1>1, <1>2 DEF TimingInv, StartStream, SettledTiming

LEMMA TimingFrame ==
  ASSUME TimingInv, NEW stamp \in 1 .. MaxStamp, stamp > stamps.last,
         NeedDataCallBack(stamp)
  PROVE  TimingInv'
<1> DEFINE fromStart == Minus(stamp, StartOf(stamp))
<1>1. /\ gstStartTimestamp' = StartOf(stamp)
      /\ gstTimestamp' = fromStart
      /\ pts' = fromStart
      /\ duration' = Minus(fromStart, gstTimestamp)
      /\ stamps'.first = IF stamps.count = 0 THEN stamp ELSE stamps.first
      /\ stamps'.previous = stamps.last
      /\ stamps'.last = stamp
      /\ stamps'.count = IF stamps.count = 3 THEN 3 ELSE stamps.count + 1
  BY DEF NeedDataCallBack
<1>2. /\ gstTimestamp \in 0 .. Word - 1
      /\ gstStartTimestamp \in 0 .. Word - 1
      /\ stamps.first \in 0 .. MaxStamp /\ stamps.last \in 0 .. MaxStamp
      /\ stamps.count \in 0 .. 3
      /\ stamp < Word /\ Word \in Nat \ {0}
  BY StampAssumption, WordAssumption DEF TimingInv, TypeOK
<1>3. TypeOK'
  <2>1. StartOf(stamp) \in 0 .. Word - 1
    BY <1>2 DEF StartOf
  <2>2. fromStart \in 0 .. Word - 1
    BY <1>2, <2>1, MinusType
  <2>3. Minus(fromStart, gstTimestamp) \in 0 .. Word - 1
    <3>1. fromStart \in Int /\ gstTimestamp \in Int
      BY <1>2, <2>2
    <3> HIDE DEF fromStart
    <3> QED
      BY <3>1, MinusType
  <2>4. stamps' \in [first : 0 .. MaxStamp, previous : 0 .. MaxStamp, last : 0 .. MaxStamp,
                     count : 0 .. 3]
    BY <1>2 DEF NeedDataCallBack
  <2> QED
    BY <1>1, <2>1, <2>2, <2>3, <2>4 DEF TypeOK
<1>4. CASE stamps.count = 0
  <2>1. StartOf(stamp) = 0
    BY <1>4 DEF TimingInv, StartOf
  <2>2. fromStart = stamp
    BY <1>2, <2>1, MinusExact
  <2> QED
    BY <1>1, <1>3, <1>4, <2>1, <2>2 DEF TimingInv, SettledTiming
<1>5. CASE stamps.count = 1
  <2>1. StartOf(stamp) = stamps.first /\ stamps.first = stamps.last /\ stamps.first > 0
    BY <1>5 DEF TimingInv, StartOf
  <2>2. fromStart = stamp - stamps.first
    BY <1>2, <2>1, MinusExact
  <2> QED
    BY <1>1, <1>2, <1>3, <1>5, <2>1, <2>2 DEF TimingInv, SettledTiming
<1>6. CASE stamps.count \in {2, 3}
  <2>1. /\ StartOf(stamp) = stamps.first
        /\ stamps.first > 0 /\ stamps.first < stamps.last
        /\ gstTimestamp = stamps.last - stamps.first
    BY <1>2, <1>6 DEF TimingInv, StartOf
  <2>2. fromStart = stamp - stamps.first
    BY <1>2, <2>1, MinusExact
  <2>3. Minus(fromStart, gstTimestamp) = fromStart - gstTimestamp
    BY <1>2, <2>1, <2>2, MinusExact
  <2> QED
    BY <1>1, <1>2, <1>3, <1>6, <2>1, <2>2, <2>3 DEF TimingInv, SettledTiming
<1> QED
  BY <1>2, <1>4, <1>5, <1>6

LEMMA TimingNext == TimingInv /\ [Next]_vars => TimingInv'
<1> SUFFICES ASSUME TimingInv, [Next]_vars PROVE TimingInv'
  OBVIOUS
<1>1. CASE StartStream
  BY <1>1, TimingStart
<1>2. ASSUME NEW gap \in 1 .. MaxGap,
             stamps.last + gap <= MaxStamp, NeedDataCallBack(stamps.last + gap)
      PROVE  TimingInv'
  <2>1. stamps.last + gap \in 1 .. MaxStamp /\ stamps.last + gap > stamps.last
    BY <1>2, StampAssumption DEF TimingInv, TypeOK
  <2> QED
    BY <1>2, <2>1, TimingFrame
<1>3. CASE UNCHANGED vars
  BY <1>3 DEF vars, TimingInv, TypeOK, SettledTiming
<1> QED
  BY <1>1, <1>2, <1>3 DEF Next

THEOREM TimingInvHolds == Spec => []TimingInv
  BY TimingInit, TimingNext, PTL DEF Spec

\* The times stay within the clock's word and the stamps within theirs.
THEOREM TimingTypeCorrect == Spec => []TypeOK
  BY TimingInvHolds, PTL DEF TimingInv

\* From its third buffer on every stream is timed from its first message, each buffer
\* lasting until the next message.
THEOREM StreamSettles == Spec => []SettledTiming
  BY TimingInvHolds, PTL DEF TimingInv
=============================================================================
