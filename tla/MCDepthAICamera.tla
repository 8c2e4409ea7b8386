--------------------------- MODULE MCDepthAICamera ---------------------------
(* DepthAICamera for TLC.                                                      *)
EXTENDS DepthAICamera

\* The defaults with a mono stream, and parameters that no command would be allowed, with a
\* raw colour stream.
MCStart ==
  LET defaults == [width |-> 1280, height |-> 720, fps |-> 25, bitrate |-> 3000000,
                   lens |-> 120, h265 |-> FALSE, mono |-> TRUE, raw |-> FALSE,
                   autofocus |-> FALSE]
  IN {defaults, [defaults EXCEPT !.bitrate = 300000, !.mono = FALSE, !.raw = TRUE]}

MCMessages ==
  {[command |-> "start"],
   [command |-> "start", encoding |-> "H265", bitrate |-> 3000000],
   [command |-> "start", autofocus |-> TRUE, lens |-> 256],
   [command |-> "start", width |-> 1284],
   [command |-> "start", mono |-> "true"],
   [command |-> "change_focus"],
   [command |-> "change_focus", lens |-> 300],
   [command |-> "change_focus", autofocus |-> TRUE, lens |-> 7],
   [command |-> "change_focus", autofocus |-> FALSE],
   [command |-> "untyped"]}
=============================================================================
