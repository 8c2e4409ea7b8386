---------------------------- MODULE StreamStatus ----------------------------
(* What IsStreamStarting and IsStreamPlaying promise to those who read them:   *)
(* a stream is started before it plays, an error takes it back to starting,    *)
(* and once stopped it stays down until it is started again.                   *)
VARIABLE status

Init == status = "down"

Start == status = "down" /\ status' = "starting"

Connect == status = "starting" /\ status' = "playing"

Break == status = "playing" /\ status' = "starting"

Stop == status # "down" /\ status' = "down"

Next == Start \/ Connect \/ Break \/ Stop

Spec == Init /\ [][Next]_status
=============================================================================
