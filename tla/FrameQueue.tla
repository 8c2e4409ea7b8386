------------------------------ MODULE FrameQueue ------------------------------
(***************************************************************************)
(* The queue of video messages that the ROS 2 node and GStreamer share,    *)
(* with the mutex haveDataCondMutex and the condition haveDataCond that    *)
(* guard it (GstInterface::queue).                                         *)
(*                                                                         *)
(* Four kinds of thread meet here:                                         *)
(*   - the video subscription pushes a message (GrabVideoMsg);             *)
(*   - the streaming thread of a pipeline pops one (NeedDataCallBack);     *)
(*   - the thread that creates a pipeline waits, at most two seconds, for  *)
(*     a first message and chooses the kind of pipeline (CreatePipeline);  *)
(*   - the timer and command callbacks empty the queue, and raise or lower *)
(*     _isStreamShutdown WITHOUT holding the mutex.                        *)
(*                                                                         *)
(* Here those last ones act whenever they like; DepthAIGStreamer says when *)
(* they do, and implements this module.  A streaming thread keeps the      *)
(* mutex from the moment it has tested the queue until it sleeps or        *)
(* leaves, so the mutex is the set of threads at such a place.  Every      *)
(* other critical section is one step.                                     *)
(***************************************************************************)
EXTENDS Naturals, Sequences

CONSTANTS
  Slot,       \* the pipelines that can exist side by side
  Fps,        \* GetEncoderFps()
  Frame,      \* the video messages
  NextFrame,  \* NextFrame[f] is published right after f
  Spurious    \* whether g_cond_wait may return although nobody signalled

ASSUME FpsAssumption == Fps \in Nat \ {0}
ASSUME FrameAssumption == NextFrame \in [Frame -> Frame]
ASSUME SpuriousAssumption == Spurious \in BOOLEAN

VARIABLES
  queue,      \* the messages, oldest first
  incoming,   \* the message the camera publishes next
  shutdown,   \* _isStreamShutdown
  isDefault,  \* _isStreamDefault
  need,       \* where the streaming thread of a pipeline is in NeedDataCallBack
  choose      \* where the creating thread of a pipeline is in CreatePipeline

fqVars == <<queue, incoming, shutdown, isDefault, need, choose>>

\* "lock": wants the mutex in order to test the queue; "sleepy": found nothing,
\* holds the mutex, is about to wait; "asleep": in g_cond_wait; "awake": left
\* the loop, still holds the mutex; "crashed": read the front of an empty queue.
NeedState == {"out", "lock", "sleepy", "asleep", "awake", "crashed"}

\* "lock": wants the mutex; "waiting": in g_cond_wait_until; "signalled": was
\* woken before the two seconds were over, "late": was not.  Both want the mutex again.
ChooseState == {"out", "lock", "waiting", "signalled", "late"}

Capacity == 2 * Fps

HoldsMutex(g) == need[g] \in {"sleepy", "awake", "crashed"}

MutexFree == \A g \in Slot : ~HoldsMutex(g)

Asleep  == {g \in Slot : need[g] = "asleep"}
Waiting == {g \in Slot : choose[g] = "waiting"}

\* Mutant: an if where NeedDataCallBack has a while around its wait.
WakeWithoutRetest(N, C) ==
  /\ need'   = [g \in Slot |-> IF g \in N THEN "awake" ELSE need[g]]
  /\ choose' = [g \in Slot |-> IF g \in C THEN "signalled" ELSE choose[g]]

\* Mutant: the two kinds of waiting threads are taken for each other.
WakeSwapped(N, C) ==
  /\ need'   = [g \in Slot |-> IF g \in N THEN "signalled" ELSE need[g]]
  /\ choose' = [g \in Slot |-> IF g \in C THEN "lock" ELSE choose[g]]

\* The sleepers in N and the waiters in C return from their waits.
Wake(N, C) ==
  /\ need'   = [g \in Slot |-> IF g \in N THEN "lock" ELSE need[g]]
  /\ choose' = [g \in Slot |-> IF g \in C THEN "signalled" ELSE choose[g]]

\* Mutant: the signal is forgotten.
SignalForgotten == Wake({}, {})

\* g_cond_signal wakes at least one of the threads that wait, if any does.
Signal ==
  \E N \in SUBSET Asleep, C \in SUBSET Waiting :
    /\ Asleep \union Waiting # {} => N \union C # {}
    /\ Wake(N, C)

FQInit ==
  /\ queue = <<>>
  /\ incoming \in Frame
  /\ shutdown = FALSE
  /\ isDefault = FALSE
  /\ need = [g \in Slot |-> "out"]
  /\ choose = [g \in Slot |-> "out"]

-----------------------------------------------------------------------------
(* The producer and the callbacks that empty the queue.                     *)

\* Mutants: the size is tested before the push; the new message is the one dropped.
PushTestsFirst(q, f) == IF Len(q) > Capacity THEN Tail(Append(q, f)) ELSE Append(q, f)
PushDropsNewest(q, f) == IF Len(q) >= Capacity THEN q ELSE Append(q, f)

\* Messages beyond the capacity push out the oldest one.
Push(q, f) ==
  IF Len(q) >= Capacity THEN Tail(Append(q, f)) ELSE Append(q, f)

GrabVideoMsg ==
  /\ MutexFree
  /\ queue' = Push(queue, incoming)
  /\ incoming' = NextFrame[incoming]
  /\ Signal
  /\ UNCHANGED <<shutdown, isDefault>>

\* Mutant: the queue is emptied without the mutex.
ClearUnlocked ==
  /\ queue' = <<>>
  /\ UNCHANGED <<incoming, shutdown, isDefault, need, choose>>

ClearQueue ==
  /\ MutexFree
  /\ queue' = <<>>
  /\ UNCHANGED <<incoming, shutdown, isDefault, need, choose>>

-----------------------------------------------------------------------------
(* The streaming thread of pipeline g.                                      *)

EnterNeedData(g) ==
  /\ need[g] = "out"
  /\ ~isDefault
  /\ need' = [need EXCEPT ![g] = "lock"]
  /\ UNCHANGED <<queue, incoming, shutdown, isDefault, choose>>

\* Mutant: the queue is tested before the mutex is locked.
TestQueueUnlocked(g) ==
  /\ need[g] = "lock"
  /\ need' = [need EXCEPT ![g] =
                 IF queue = <<>> /\ ~shutdown THEN "sleepy" ELSE "awake"]
  /\ UNCHANGED <<queue, incoming, shutdown, isDefault, choose>>

TestQueue(g) ==
  /\ need[g] = "lock"
  /\ MutexFree
  /\ need' = [need EXCEPT ![g] =
                 IF queue = <<>> /\ ~shutdown THEN "sleepy" ELSE "awake"]
  /\ UNCHANGED <<queue, incoming, shutdown, isDefault, choose>>

\* g_cond_wait: releases the mutex and sleeps.
FallAsleep(g) ==
  /\ need[g] = "sleepy"
  /\ need' = [need EXCEPT ![g] = "asleep"]
  /\ UNCHANGED <<queue, incoming, shutdown, isDefault, choose>>

\* _isStreamShutdown is read again here, after the loop.  With an empty queue the
\* loop ended on a read of TRUE, and the build may use that read a second time.
LeaveOnShutdown(g) ==
  /\ need[g] = "awake"
  /\ shutdown \/ queue = <<>>
  /\ need' = [need EXCEPT ![g] = "out"]
  /\ UNCHANGED <<queue, incoming, shutdown, isDefault, choose>>

TakeFrame(g) ==
  /\ need[g] = "awake"
  /\ ~shutdown
  /\ queue # <<>>
  /\ queue' = Tail(queue)
  /\ need' = [need EXCEPT ![g] = "out"]
  /\ UNCHANGED <<incoming, shutdown, isDefault, choose>>

\* front() of an empty std::queue is undefined: the thread gets no further.
FrontOfEmpty(g) ==
  /\ need[g] = "awake"
  /\ ~shutdown
  /\ queue = <<>>
  /\ need' = [need EXCEPT ![g] = "crashed"]
  /\ UNCHANGED <<queue, incoming, shutdown, isDefault, choose>>

NeedDataCallBack(g) ==
  \/ TestQueue(g)
  \/ FallAsleep(g)
  \/ LeaveOnShutdown(g)
  \/ TakeFrame(g)
  \/ FrontOfEmpty(g)

-----------------------------------------------------------------------------
(* The creating thread of pipeline g: CreatePipeline up to its unlock.      *)

EnterChoice(g) ==
  /\ choose[g] = "out"
  /\ choose' = [choose EXCEPT ![g] = "lock"]
  /\ UNCHANGED <<queue, incoming, shutdown, isDefault, need>>

WaitForFrame(g) ==
  /\ choose[g] = "lock"
  /\ MutexFree
  /\ queue = <<>>
  /\ choose' = [choose EXCEPT ![g] = "waiting"]
  /\ UNCHANGED <<queue, incoming, shutdown, isDefault, need>>

\* With a message in the queue the loop is skipped, and with it the assignment.
KeepChoice(g) ==
  /\ choose[g] = "lock"
  /\ MutexFree
  /\ queue # <<>>
  /\ choose' = [choose EXCEPT ![g] = "out"]
  /\ UNCHANGED <<queue, incoming, shutdown, isDefault, need>>

TimeOut(g) ==
  /\ choose[g] = "waiting"
  /\ choose' = [choose EXCEPT ![g] = "late"]
  /\ UNCHANGED <<queue, incoming, shutdown, isDefault, need>>

\* A message that comes between the two seconds and the lock is not looked at.
ChooseDefault(g) ==
  /\ choose[g] = "late"
  /\ MutexFree
  /\ isDefault' = TRUE
  /\ choose' = [choose EXCEPT ![g] = "out"]
  /\ UNCHANGED <<queue, incoming, shutdown, need>>

\* Any wake-up counts as data: the queue is not looked at again.
ChooseCamera(g) ==
  /\ choose[g] = "signalled"
  /\ MutexFree
  /\ isDefault' = FALSE
  /\ choose' = [choose EXCEPT ![g] = "out"]
  /\ UNCHANGED <<queue, incoming, shutdown, need>>

LeaveChoice(g) == KeepChoice(g) \/ ChooseDefault(g) \/ ChooseCamera(g)

-----------------------------------------------------------------------------
(* What StartStream and StopStream do here; neither takes the mutex.        *)

LowerShutdown ==
  /\ shutdown' = FALSE
  /\ UNCHANGED <<queue, incoming, isDefault, need, choose>>

RaiseShutdown ==
  /\ shutdown' = TRUE
  /\ isDefault' = FALSE
  /\ Wake(Asleep, Waiting)
  /\ UNCHANGED <<queue, incoming>>

SpuriousWakeup(g) ==
  /\ Spurious
  /\ g \in Asleep \union Waiting
  /\ Wake({g} \intersect Asleep, {g} \intersect Waiting)
  /\ UNCHANGED <<queue, incoming, shutdown, isDefault>>

-----------------------------------------------------------------------------
FQNext ==
  \/ GrabVideoMsg
  \/ ClearQueue
  \/ LowerShutdown
  \/ RaiseShutdown
  \/ \E g \in Slot :
       \/ EnterNeedData(g)
       \/ NeedDataCallBack(g)
       \/ EnterChoice(g)
       \/ WaitForFrame(g)
       \/ TimeOut(g)
       \/ LeaveChoice(g)
       \/ SpuriousWakeup(g)

FQSpec == FQInit /\ [][FQNext]_fqVars

-----------------------------------------------------------------------------
FQTypeOK ==
  /\ queue \in Seq(Frame)
  /\ incoming \in Frame
  /\ shutdown \in BOOLEAN
  /\ isDefault \in BOOLEAN
  /\ need \in [Slot -> NeedState]
  /\ choose \in [Slot -> ChooseState]

\* The messages of q were published one after the other, and f right after them.
Follows(q, f) ==
  /\ \A i \in 1 .. Len(q) - 1 : q[i + 1] = NextFrame[q[i]]
  /\ q # <<>> => f = NextFrame[q[Len(q)]]

\* No two streaming threads are between the test of the queue and its use.
MutexHeldByOne == \A g, h \in Slot : HoldsMutex(g) /\ HoldsMutex(h) => g = h

\* GrabVideoMsg lets the queue hold no more than two seconds of video, however
\* pushes, pops and clearings interleave.
QueueBounded == Len(queue) <= Capacity

\* The queue is an unbroken run of the latest messages, in the order they were
\* published: frames are lost only at the old end, which is all an H.264 stream
\* recovers from.
QueueConsecutive == Follows(queue, incoming)

\* From its test of the queue until it pops a message or sleeps, a streaming
\* thread is the only one to change the queue: no producer and no callback that
\* empties it gets between the test and front().
HeldQueueStable ==
  [][\A g \in Slot :
       HoldsMutex(g) /\ need'[g] = need[g] => queue' = queue]_fqVars

\* A streaming thread comes to read the front of an empty queue in one way only:
\* StartStream lowers _isStreamShutdown after the thread has left the loop on it.
\* No pop of another thread, no clearing and no wake-up does that.
Doomed(g) == need[g] = "awake" /\ queue = <<>> /\ ~shutdown

DoomedByRestartOnly ==
  [][\A g \in Slot : ~Doomed(g) /\ Doomed(g)' => shutdown /\ ~shutdown']_fqVars
=============================================================================
