--------------------------- MODULE InboundStreams ---------------------------
(***************************************************************************)
(* What a client's inbound mailbox promises its UI: frames may be merged,  *)
(* superseded and reordered, but only where nobody can tell.               *)
(*                                                                         *)
(* A frame waits in `pending` until it is delivered.  Output of different  *)
(* panes may change places, and so may an independent graphics frame and   *)
(* whatever does not depend on it.  A graphics frame may take the place of *)
(* an older one of the same image with nothing that depends on it between. *)
(*                                                                         *)
(* Source: the contract in the comments of src/src/session/queue.rs and    *)
(* src/src/session/client.rs (enqueue_inbound_frame).                      *)
(***************************************************************************)
EXTENDS Naturals

CONSTANT Frames            \* the frames that may be queued, each with its number

VARIABLE pending           \* frames accepted and not yet delivered, numbered

\* The order in which two frames arrived may be changed only if neither can
\* depend on the other.  `g` arrived first.
MayOvertake(f, g) ==
  \/ f.kind = "output" /\ g.kind = "output" /\ f.pane # g.pane
  \/ /\ f.kind = "graphics" /\ g.kind # "mark"
     /\ g.pane # f.pane \/ (g.kind = "graphics" /\ g.image # f.image)

SameImage(f, g) ==
  f.kind = "graphics" /\ g.kind = "graphics" /\ f.pane = g.pane /\ f.image = g.image

Accept(f) ==
  /\ \A g \in pending : g.id < f.id
  /\ \/ pending' = pending \cup {f}
     \/ \E old \in pending :
          /\ SameImage(f, old)
          /\ \A g \in pending : g.id > old.id => MayOvertake(f, g)
          /\ pending' = (pending \ {old}) \cup {f}

\* Several frames may be handed over at once.
Deliver(batch) ==
  /\ batch # {}
  /\ \A f \in batch, g \in pending \ batch : g.id < f.id => MayOvertake(f, g)
  /\ pending' = pending \ batch

Init == pending = {}

Next ==
  \/ \E f \in Frames : Accept(f)
  \/ \E batch \in SUBSET pending : Deliver(batch)

Spec == Init /\ [][Next]_pending
=============================================================================
