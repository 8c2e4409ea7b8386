---------------------------- MODULE MCFrameQueue ----------------------------
(* FrameQueue for TLC: messages are numbered modulo Cycle, more than the      *)
(* queue holds, so that two neighbours in the queue never look alike.         *)
EXTENDS FrameQueue

CONSTANT Cycle

MCFrame == 0 .. Cycle - 1
MCNextFrame == [f \in 0 .. Cycle - 1 |-> (f + 1) % Cycle]

=============================================================================
