-------------------------- MODULE FrameQueueProofs --------------------------
(* Proofs about FrameQueue, for any number of pipelines, any frame rate and   *)
(* any set of messages.                                                       *)
EXTENDS FrameQueue, SequenceTheorems, TLAPS

-----------------------------------------------------------------------------
(* The queue as a sequence.                                                   *)

\* The capacity is a positive number.
LEMMA CapacityType == Capacity \in Nat \ {0}
  BY FpsAssumption DEF Capacity

\* Pushing a message gives a queue of messages.
LEMMA PushType ==
  ASSUME NEW q \in Seq(Frame), NEW f \in Frame
  PROVE  Push(q, f) \in Seq(Frame)
<1>1. Append(q, f) \in Seq(Frame) /\ Append(q, f) # <<>>
  BY AppendProperties
<1>2. Tail(Append(q, f)) \in Seq(Frame)
  BY <1>1, HeadTailProperties
<1> QED
  BY <1>1, <1>2 DEF Push

\* Pushing never takes a bounded queue over its capacity.
LEMMA PushLen ==
  ASSUME NEW q \in Seq(Frame), NEW f \in Frame, Len(q) <= Capacity
  PROVE  Len(Push(q, f)) <= Capacity
<1>1. Append(q, f) \in Seq(Frame) /\ Append(q, f) # <<>> /\ Len(Append(q, f)) = Len(q) + 1
  BY AppendProperties
<1>2. Len(Tail(Append(q, f))) = Len(q)
  BY <1>1, HeadTailProperties, LenProperties
<1>3. Len(q) \in Nat /\ Capacity \in Nat
  BY LenProperties, CapacityType
<1> QED
  BY <1>1, <1>2, <1>3 DEF Push

\* Dropping the oldest message leaves the others consecutive.
LEMMA TailFollows ==
  ASSUME NEW q \in Seq(Frame), NEW f, q # <<>>, Follows(q, f)
  PROVE  Follows(Tail(q), f)
<1> DEFINE t == Tail(q)
<1>1. /\ t \in Seq(Frame)
      /\ Len(t) = Len(q) - 1
      /\ \A i \in 1 .. Len(t) : t[i] = q[i + 1]
      /\ Len(q) \in Nat \ {0}
  BY HeadTailProperties, EmptySeq
<1>2. ASSUME NEW i \in 1 .. Len(t) - 1
      PROVE  t[i + 1] = NextFrame[t[i]]
  <2>1. i \in 1 .. Len(t) /\ i + 1 \in 1 .. Len(t) /\ i + 1 \in 1 .. Len(q) - 1
    BY <1>1
  <2>2. t[i] = q[i + 1] /\ t[i + 1] = q[i + 1 + 1]
    BY <1>1, <2>1
  <2> QED
    BY <2>1, <2>2 DEF Follows
<1>3. t # <<>> => f = NextFrame[t[Len(t)]]
  <2>1. SUFFICES ASSUME t # <<>>
                 PROVE  f = NextFrame[t[Len(t)]]
    OBVIOUS
  <2>2. Len(t) \in Nat \ {0}
    BY <1>1, <2>1, EmptySeq
  <2>3. t[Len(t)] = q[Len(q)]
    BY <1>1, <2>2
  <2> QED
    BY <2>3 DEF Follows
<1> QED
  BY <1>2, <1>3 DEF Follows

\* The message that followed the queue before the push is its last one after it.
LEMMA PushFollows ==
  ASSUME NEW q \in Seq(Frame), NEW f \in Frame, Follows(q, f)
  PROVE  Follows(Push(q, f), NextFrame[f])
<1> DEFINE a == Append(q, f)
<1>1. /\ a \in Seq(Frame) /\ a # <<>>
      /\ Len(a) = Len(q) + 1
      /\ \A i \in 1 .. Len(q) : a[i] = q[i]
      /\ a[Len(q) + 1] = f
      /\ Len(q) \in Nat
  BY AppendProperties, LenProperties
<1>2. Follows(a, NextFrame[f])
  <2>1. ASSUME NEW i \in 1 .. Len(a) - 1
        PROVE  a[i + 1] = NextFrame[a[i]]
    <3>1. CASE i < Len(q)
      <4>1. a[i + 1] = q[i + 1] /\ a[i] = q[i] /\ i \in 1 .. Len(q) - 1
        BY <1>1, <3>1
      <4> QED
        BY <4>1 DEF Follows
    <3>2. CASE i = Len(q)
      <4>1. q # <<>> /\ a[i + 1] = f /\ a[i] = q[Len(q)]
        BY <1>1, <3>2, EmptySeq
      <4> QED
        BY <4>1 DEF Follows
    <3> QED
      BY <1>1, <3>1, <3>2
  <2>2. a[Len(a)] = f
    BY <1>1
  <2> QED
    BY <2>1, <2>2 DEF Follows
<1>3. Follows(Tail(a), NextFrame[f])
  BY <1>1, <1>2, TailFollows
<1> QED
  BY <1>2, <1>3 DEF Push


-----------------------------------------------------------------------------
(* The inductive invariant.  The queue's shape needs nothing but the types;   *)
(* what a step may not do needs that one thread at most holds the mutex.      *)

FQInv ==
  /\ FQTypeOK
  /\ MutexHeldByOne
  /\ QueueBounded
  /\ QueueConsecutive

\* Waking threads changes no type and gives nobody the mutex.
LEMMA WakeEffect ==
  ASSUME FQTypeOK, NEW N \in SUBSET Slot, NEW C \in SUBSET Slot, Wake(N, C)
  PROVE  /\ need' \in [Slot -> NeedState]
         /\ choose' \in [Slot -> ChooseState]
         /\ \A g \in Slot : HoldsMutex(g)' => HoldsMutex(g) /\ need'[g] = need[g]
  BY DEF FQTypeOK, Wake, NeedState, ChooseState, HoldsMutex

LEMMA SignalEffect ==
  ASSUME FQTypeOK, Signal
  PROVE  /\ need' \in [Slot -> NeedState]
         /\ choose' \in [Slot -> ChooseState]
         /\ \A g \in Slot : HoldsMutex(g)' => HoldsMutex(g) /\ need'[g] = need[g]
<1>1. PICK N \in SUBSET Asleep, C \in SUBSET Waiting : Wake(N, C)
  BY DEF Signal
<1>2. N \in SUBSET Slot /\ C \in SUBSET Slot
  BY DEF Asleep, Waiting
<1> QED
  BY <1>1, <1>2, WakeEffect

\* An invariant is kept by a step that leaves the queue and its next message alone.
LEMMA QueueUntouched ==
  ASSUME FQInv, UNCHANGED <<queue, incoming>>
  PROVE  QueueBounded' /\ QueueConsecutive'
  BY DEF FQInv, QueueBounded, QueueConsecutive, Follows

LEMMA QueueEmptied ==
  ASSUME FQInv, queue' = <<>>
  PROVE  queue' \in Seq(Frame) /\ QueueBounded' /\ QueueConsecutive'
<1>1. queue' \in Seq(Frame) /\ Len(queue') = 0
  BY EmptySeq
<1>2. QueueBounded'
  BY <1>1, CapacityType DEF QueueBounded, Capacity
<1>3. QueueConsecutive'
  BY <1>1 DEF QueueConsecutive, Follows
<1> QED
  BY <1>1, <1>2, <1>3

LEMMA InvInit == FQInit => FQInv
<1> SUFFICES ASSUME FQInit PROVE FQInv
  OBVIOUS
<1>1. queue \in Seq(Frame) /\ Len(queue) = 0
  BY EmptySeq DEF FQInit
<1>2. FQTypeOK
  BY <1>1 DEF FQInit, FQTypeOK, NeedState, ChooseState
<1>3. MutexHeldByOne
  BY DEF FQInit, MutexHeldByOne, HoldsMutex
<1>4. QueueBounded
  BY <1>1, CapacityType DEF QueueBounded
<1>5. QueueConsecutive
  BY <1>1 DEF FQInit, QueueConsecutive, Follows
<1> QED
  BY <1>2, <1>3, <1>4, <1>5 DEF FQInv

LEMMA InvNext == FQInv /\ [FQNext]_fqVars => FQInv'
<1> SUFFICES ASSUME FQInv, [FQNext]_fqVars PROVE FQInv'
  OBVIOUS
<1> USE DEF FQInv
<1>1. CASE GrabVideoMsg
  <2>1. queue' = Push(queue, incoming) /\ incoming' = NextFrame[incoming] /\ Signal
    BY <1>1 DEF GrabVideoMsg
  <2>2. queue' \in Seq(Frame) /\ incoming' \in Frame
    BY <2>1, PushType, FrameAssumption DEF FQTypeOK
  <2>3. FQTypeOK'
    BY <1>1, <2>1, <2>2, SignalEffect DEF FQTypeOK, GrabVideoMsg
  <2>4. MutexHeldByOne'
    BY <2>1, SignalEffect DEF MutexHeldByOne
  <2>5. QueueBounded'
    BY <2>1, PushLen DEF QueueBounded, FQTypeOK, Capacity
  <2>6. QueueConsecutive'
    BY <2>1, PushFollows DEF QueueConsecutive, FQTypeOK, Follows
  <2> QED
    BY <2>3, <2>4, <2>5, <2>6
<1>2. CASE ClearQueue
  <2>1. FQTypeOK' /\ MutexHeldByOne'
    BY <1>2, QueueEmptied DEF ClearQueue, FQTypeOK, MutexHeldByOne, HoldsMutex
  <2> QED
    BY <1>2, <2>1, QueueEmptied DEF ClearQueue
<1>3. CASE LowerShutdown
  <2>1. FQTypeOK' /\ MutexHeldByOne'
    BY <1>3 DEF LowerShutdown, FQTypeOK, MutexHeldByOne, HoldsMutex
  <2> QED
    BY <1>3, <2>1, QueueUntouched DEF LowerShutdown
<1>4. CASE RaiseShutdown
  <2>1. Asleep \in SUBSET Slot /\ Waiting \in SUBSET Slot /\ Wake(Asleep, Waiting)
    BY <1>4 DEF RaiseShutdown, Asleep, Waiting
  <2>2. FQTypeOK'
    BY <1>4, <2>1, WakeEffect DEF RaiseShutdown, FQTypeOK
  <2>3. MutexHeldByOne'
    BY <2>1, WakeEffect DEF MutexHeldByOne
  <2> QED
    BY <1>4, <2>2, <2>3, QueueUntouched DEF RaiseShutdown
<1>5. ASSUME NEW g \in Slot, EnterNeedData(g)
      PROVE  FQInv'
  <2>1. FQTypeOK' /\ MutexHeldByOne'
    BY <1>5 DEF EnterNeedData, FQTypeOK, NeedState, MutexHeldByOne, HoldsMutex
  <2> QED
    BY <1>5, <2>1, QueueUntouched DEF EnterNeedData
<1>6. ASSUME NEW g \in Slot, NeedDataCallBack(g)
      PROVE  FQInv'
  <2>1. CASE TestQueue(g)
    <3>1. FQTypeOK'
      BY <2>1 DEF TestQueue, FQTypeOK, NeedState
    <3>2. MutexHeldByOne'
      BY <2>1 DEF TestQueue, MutexFree, MutexHeldByOne, HoldsMutex, FQTypeOK
    <3> QED
      BY <2>1, <3>1, <3>2, QueueUntouched DEF TestQueue
  <2>2. CASE FallAsleep(g)
    <3>1. FQTypeOK' /\ MutexHeldByOne'
      BY <2>2 DEF FallAsleep, FQTypeOK, NeedState, MutexHeldByOne, HoldsMutex
    <3> QED
      BY <2>2, <3>1, QueueUntouched DEF FallAsleep
  <2>3. CASE LeaveOnShutdown(g)
    <3>1. FQTypeOK' /\ MutexHeldByOne'
      BY <2>3 DEF LeaveOnShutdown, FQTypeOK, NeedState, MutexHeldByOne, HoldsMutex
    <3> QED
      BY <2>3, <3>1, QueueUntouched DEF LeaveOnShutdown
  <2>4. CASE TakeFrame(g)
    <3>1. /\ queue' \in Seq(Frame)
          /\ Len(queue') = Len(queue) - 1
          /\ Len(queue) \in Nat /\ Capacity \in Nat
      BY <2>4, HeadTailProperties, LenProperties, CapacityType DEF TakeFrame, FQTypeOK
    <3>2. FQTypeOK' /\ MutexHeldByOne'
      BY <2>4, <3>1 DEF TakeFrame, FQTypeOK, NeedState, MutexHeldByOne, HoldsMutex
    <3>3. QueueBounded'
      BY <3>1 DEF QueueBounded, Capacity
    <3>4. Follows(Tail(queue), incoming)
      BY <2>4, TailFollows DEF TakeFrame, QueueConsecutive, FQTypeOK
    <3>5. QueueConsecutive'
      BY <2>4, <3>4 DEF TakeFrame, QueueConsecutive, Follows
    <3> QED
      BY <3>2, <3>3, <3>5
  <2>5. CASE FrontOfEmpty(g)
    <3>1. FQTypeOK' /\ MutexHeldByOne'
      BY <2>5 DEF FrontOfEmpty, FQTypeOK, NeedState, MutexHeldByOne, HoldsMutex
    <3> QED
      BY <2>5, <3>1, QueueUntouched DEF FrontOfEmpty
  <2> QED
    BY <1>6, <2>1, <2>2, <2>3, <2>4, <2>5 DEF NeedDataCallBack
<1>7. ASSUME NEW g \in Slot, EnterChoice(g) \/ WaitForFrame(g) \/ TimeOut(g) \/ LeaveChoice(g)
      PROVE  FQInv'
  <2>1. UNCHANGED <<queue, incoming, shutdown, need>>
    BY <1>7 DEF EnterChoice, WaitForFrame, TimeOut, LeaveChoice, KeepChoice, ChooseDefault, ChooseCamera
  <2>2. isDefault' \in BOOLEAN /\ choose' \in [Slot -> ChooseState]
    BY <1>7 DEF EnterChoice, WaitForFrame, TimeOut, LeaveChoice, KeepChoice, ChooseDefault,
                ChooseCamera, FQTypeOK, ChooseState
  <2>3. FQTypeOK' /\ MutexHeldByOne'
    BY <2>1, <2>2 DEF FQTypeOK, MutexHeldByOne, HoldsMutex
  <2> QED
    BY <2>1, <2>3, QueueUntouched
<1>8. ASSUME NEW g \in Slot, SpuriousWakeup(g)
      PROVE  FQInv'
  <2>1. /\ {g} \intersect Asleep \in SUBSET Slot
        /\ {g} \intersect Waiting \in SUBSET Slot
        /\ Wake({g} \intersect Asleep, {g} \intersect Waiting)
    BY <1>8 DEF SpuriousWakeup
  <2>2. FQTypeOK'
    BY <1>8, <2>1, WakeEffect DEF SpuriousWakeup, FQTypeOK
  <2>3. MutexHeldByOne'
    BY <2>1, WakeEffect DEF MutexHeldByOne
  <2> QED
    BY <1>8, <2>2, <2>3, QueueUntouched DEF SpuriousWakeup
<1>9. CASE UNCHANGED fqVars
  <2>1. FQTypeOK' /\ MutexHeldByOne'
    BY <1>9 DEF fqVars, FQTypeOK, MutexHeldByOne, HoldsMutex
  <2> QED
    BY <1>9, <2>1, QueueUntouched DEF fqVars
<1> QED
  BY <1>1, <1>2, <1>3, <1>4, <1>5, <1>6, <1>7, <1>8, <1>9 DEF FQNext

THEOREM InvHolds == FQSpec => []FQInv
  BY InvInit, InvNext, PTL DEF FQSpec

\* The variables always have their types.
THEOREM TypeCorrect == FQSpec => []FQTypeOK
  BY InvHolds, PTL DEF FQInv

\* At most one streaming thread is between its test of the queue and its use.
THEOREM MutualExclusion == FQSpec => []MutexHeldByOne
  BY InvHolds, PTL DEF FQInv

\* GrabVideoMsg keeps the queue within two seconds of video.
THEOREM QueueStaysBounded == FQSpec => []QueueBounded
  BY InvHolds, PTL DEF FQInv

\* The queue is always an unbroken run of the latest messages.
THEOREM QueueStaysConsecutive == FQSpec => []QueueConsecutive
  BY InvHolds, PTL DEF FQInv

-----------------------------------------------------------------------------
(* What no step does.                                                         *)

\* A step that changes the queue is one of the producer, of a callback that
\* empties it, or of the one thread that holds the mutex and leaves with a message.
LEMMA QueueChanges ==
  ASSUME FQInv, FQNext, queue' # queue
  PROVE  \/ MutexFree
         \/ \E h \in Slot : TakeFrame(h)
  BY DEF FQNext, GrabVideoMsg, ClearQueue, LowerShutdown, RaiseShutdown, EnterNeedData,
         NeedDataCallBack, TestQueue, FallAsleep, LeaveOnShutdown, FrontOfEmpty,
         EnterChoice, WaitForFrame, TimeOut, LeaveChoice, KeepChoice, ChooseDefault,
         ChooseCamera, SpuriousWakeup

LEMMA HeldQueueStep ==
  ASSUME FQInv, FQNext, NEW g \in Slot, HoldsMutex(g), need'[g] = need[g]
  PROVE  queue' = queue
<1> SUFFICES ASSUME queue' # queue PROVE FALSE
  OBVIOUS
<1>1. ~MutexFree
  BY DEF MutexFree
<1>2. PICK h \in Slot : TakeFrame(h)
  BY <1>1, QueueChanges
<1>3. h = g
  BY <1>2 DEF TakeFrame, FQInv, MutexHeldByOne, HoldsMutex
<1> QED
  BY <1>2, <1>3 DEF TakeFrame, FQInv, FQTypeOK

\* While a streaming thread holds the mutex nobody else changes the queue.
THEOREM HeldQueueIsStable == FQSpec => HeldQueueStable
<1> DEFINE A == \A g \in Slot : HoldsMutex(g) /\ need'[g] = need[g] => queue' = queue
<1>1. FQInv /\ [FQNext]_fqVars => [A]_fqVars
  BY HeldQueueStep
<1> QED
  BY <1>1, InvHolds, PTL DEF FQSpec, HeldQueueStable

LEMMA DoomedStep ==
  ASSUME FQInv, FQNext, NEW g \in Slot, ~Doomed(g), Doomed(g)'
  PROVE  shutdown /\ ~shutdown'
<1>1. need'[g] = "awake" /\ queue' = <<>> /\ ~shutdown'
  BY DEF Doomed
<1>2. CASE need[g] = "awake"
  <2>1. HoldsMutex(g) /\ need'[g] = need[g]
    BY <1>1, <1>2 DEF HoldsMutex
  <2>2. queue = <<>>
    BY <1>1, <2>1, HeldQueueStep
  <2> QED
    BY <1>1, <1>2, <2>2 DEF Doomed, FQInv, FQTypeOK
<1>3. CASE need[g] # "awake"
  <2>1. ~Wake(Asleep, Waiting)
    BY <1>1, <1>3 DEF Wake, FQInv, FQTypeOK
  <2>2. ~SpuriousWakeup(g) /\ ~Signal
    BY <1>1, <1>3 DEF Wake, Signal, SpuriousWakeup, FQInv, FQTypeOK
  <2>3. need' # need
    BY <1>1, <1>3
  <2>4. \A h \in Slot : ~SpuriousWakeup(h)
    BY <1>1, <1>3 DEF Wake, SpuriousWakeup, FQInv, FQTypeOK
  <2>5. PICK h \in Slot : EnterNeedData(h) \/ NeedDataCallBack(h)
    BY <2>1, <2>2, <2>3, <2>4 DEF FQNext, GrabVideoMsg, ClearQueue, LowerShutdown,
       RaiseShutdown, EnterChoice, WaitForFrame, TimeOut, LeaveChoice, KeepChoice,
       ChooseDefault, ChooseCamera
  <2>6. TestQueue(g)
    BY <1>1, <1>3, <2>5 DEF EnterNeedData, NeedDataCallBack, TestQueue, FallAsleep,
       LeaveOnShutdown, TakeFrame, FrontOfEmpty, FQInv, FQTypeOK
  <2>7. queue = <<>> /\ shutdown' = shutdown
    BY <1>1, <2>6 DEF TestQueue
  <2>8. shutdown
    BY <1>1, <2>6, <2>7 DEF TestQueue, FQInv, FQTypeOK
  <2> QED
    BY <1>1, <2>7, <2>8
<1> QED
  BY <1>2, <1>3

\* The front of an empty queue is read only after StartStream lowered the flag
\* that a streaming thread had left its loop on.
THEOREM DoomedOnlyByRestart == FQSpec => DoomedByRestartOnly
<1> DEFINE A == \A g \in Slot : ~Doomed(g) /\ Doomed(g)' => shutdown /\ ~shutdown'
<1>1. FQInv /\ [FQNext]_fqVars => [A]_fqVars
  BY DoomedStep
<1> QED
  BY <1>1, InvHolds, PTL DEF FQSpec, DoomedByRestartOnly
=============================================================================
