----------------------------- MODULE CameraFeed -----------------------------
(* What the camera node promises to the subscribers of its streams: one device *)
(* is opened, for what was asked for last; while it is open nothing else can   *)
(* be asked for; the streams of its pipeline, and no others, show the newest   *)
(* packet they have; the video loses none; and nothing is shown once the       *)
(* device was given up.                                                        *)
EXTENDS Integers

CONSTANTS
  Stream,     \* the streams a device may have
  QueueSize,  \* how many packets of a stream may wait
  Cycle       \* packets are numbered 0 .. Cycle - 1, again and again

VARIABLES
  status,   \* whether there is a device, and in which condition
  asked,    \* what a device will be asked to do
  job,      \* what the device was asked to do
  made,     \* the number of a stream's next packet
  shown,    \* the number of the packet a stream showed last, -1: none yet
  backlog   \* how many packets of a stream wait

feedVars == <<status, asked, job, made, shown, backlog>>

Carried(s) ==
  \/ s = "video"
  \/ s = "color" /\ job["raw"]
  \/ s \in {"left", "right"} /\ job["mono"]

Following(n) == (n + 1) % Cycle

Init ==
  /\ status = "none"
  /\ made = [s \in Stream |-> 0]
  /\ shown = [s \in Stream |-> -1]
  /\ backlog = [s \in Stream |-> 0]

\* Which streams there are was settled when the node was made.
Ask ==
  /\ status = "none"
  /\ asked'["raw"] = asked["raw"]
  /\ asked'["mono"] = asked["mono"]
  /\ UNCHANGED <<status, job, made, shown, backlog>>

Open ==
  /\ status = "none"
  /\ status' = "open"
  /\ job' = asked
  /\ UNCHANGED <<asked, made, shown, backlog>>

\* A raw stream that is full loses its oldest packet, the video waits.
Record(s) ==
  /\ status = "open"
  /\ Carried(s)
  /\ s = "video" => backlog[s] < QueueSize
  /\ made' = [made EXCEPT ![s] = Following(@)]
  /\ backlog' = [backlog EXCEPT ![s] = IF @ < QueueSize THEN @ + 1 ELSE @]
  /\ UNCHANGED <<status, asked, job, shown>>

\* All that waits is shown; the newest comes last.
Show(s) ==
  /\ status \in {"open", "lost"}
  /\ Carried(s)
  /\ backlog[s] > 0
  /\ backlog' = [backlog EXCEPT ![s] = 0]
  /\ \E n \in 0..(Cycle - 1) : /\ Following(n) = made[s]
                               /\ shown' = [shown EXCEPT ![s] = n]
  /\ UNCHANGED <<status, asked, job, made>>

Lose ==
  /\ status = "open"
  /\ status' = "lost"
  /\ UNCHANGED <<asked, job, made, shown, backlog>>

\* The device is given up, and what waits is never shown.
Close ==
  /\ status \in {"open", "lost"}
  /\ status' = "closed"
  /\ UNCHANGED <<asked, job, made, shown, backlog>>

Next ==
  \/ Ask \/ Open \/ Lose \/ Close
  \/ \E s \in Stream : Record(s) \/ Show(s)

Spec == Init /\ [][Next]_feedVars
=============================================================================
