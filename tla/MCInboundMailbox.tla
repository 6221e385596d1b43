-------------------------- MODULE MCInboundMailbox --------------------------
(* Small sets of frames for InboundMailbox.  Weights are in units of which   *)
(* the mailbox holds Capacity.                                               *)
EXTENDS InboundMailbox

Frame(kind, pane, image, bytes, media) ==
  [kind |-> kind, pane |-> pane, image |-> image, bytes |-> bytes, media |-> media]

\* One of each kind that can stand between two others, two panes, and one
\* frame that no queue of this capacity could ever hold.
MCMixedFrames ==
  {Frame("output", "A", 0, 1, 0), Frame("output", "B", 0, 1, 0),
   Frame("graphics", "A", 1, 1, 1), Frame("graphics", "A", 1, 2, 0),
   Frame("graphics", "A", 2, 1, 0),
   Frame("reset", "A", 0, 1, 0), Frame("mark", "none", 0, 1, 0),
   Frame("control", "none", 0, 9, 0)}

\* Output only, of two sizes: the merge limit decides what joins what.
MCOutputFrames ==
  {Frame("output", "A", 0, 1, 0), Frame("output", "A", 0, 2, 0), Frame("output", "B", 0, 2, 0)}
=============================================================================
