--------------------------- MODULE InboundMailbox ---------------------------
(***************************************************************************)
(* The client's half of an attached connection: frames decoded by a reader *)
(* thread, queued in a byte-budgeted mailbox and drained by the UI thread. *)
(*                                                                         *)
(* Four actors share the mailbox:                                          *)
(*   reader   forward_inbound_trusted, src/src/session/client.rs           *)
(*   writer   the thread that writes requests and may fail the mailbox     *)
(*   attach   the UI's SessionConnected handler, which activates it        *)
(*   ui       drain_session_frames, src/src/update/mod.rs                  *)
(* and `dropper` is ClientTransport::disconnect.  Queue operations hold    *)
(* the queue's mutex and are one step; the three atomics (active,          *)
(* scheduled, ended) are read and written in steps of their own.           *)
(*                                                                         *)
(* A frame's number is its place in the order in which frames were queued. *)
(* Terminal output that the parser could not prove independent is          *)
(* "output"; a self-contained image is "graphics" and carries a key;       *)
(* "reset" is a reply that starts a pane's screen anew; "mark" is Attached *)
(* or InputMarked; "end" is Disconnected or Failed.                        *)
(***************************************************************************)
EXTENDS ByteQueue, FiniteSets

CONSTANTS Frames,          \* the frames the server may send
          MaxFrames,       \* bound: how many it sends
          MaxInterleaved,  \* MAX_INTERLEAVED_PANE_BYTES
          NoFrame          \* the reader holds no frame

\* What a frame is: a weighed message, of a pane or of none.  Only the client
\* itself makes up an "end".
ASSUME FramesAssumption ==
  /\ MaxFrames \in Nat /\ NoFrame \notin Frames
  /\ \A f \in Frames :
       /\ f.bytes \in Nat /\ f.media \in Nat
       /\ \/ f.kind \in {"output", "graphics", "reset"} /\ f.pane # "none"
          \/ f.kind \in {"mark", "control"} /\ f.pane = "none"
       /\ NoKey # <<f.pane, f.image>>

VARIABLES q,               \* InboundMailbox.queue
          scheduled,       \* InboundMailbox.scheduled
          active,          \* InboundMailbox.active
          ended,           \* InboundMailbox.ended
          shutdown,        \* ClientTransport.shutdown_signal
          drains,          \* DrainSessionFrames messages the UI has not taken
          pc,              \* where each actor stands
          hold,            \* the frame in the reader's hands
          next,            \* the number of the next frame queued
          heard            \* how many ends the UI has been told of

vars == <<q, scheduled, active, ended, shutdown, drains, pc, hold, next, heard>>

Actors == {"reader", "writer", "attach", "ui", "dropper"}

ReaderStates == {"read", "offer", "asleep", "push", "stuck", "schedule", "close", "end", "report", "done"}
UiStates == {"idle", "first", "more", "finish", "check", "schedule"}
WriterStates == {"run", "close", "end", "report", "done"}
AttachStates == {"run", "schedule", "done"}
DropperStates == {"run", "wake", "done"}

EndFrame(n) == [kind |-> "end", pane |-> "none", image |-> 0, bytes |-> 0, media |-> 0, id |-> n]
Numbered(f, n) == [kind |-> f.kind, pane |-> f.pane, image |-> f.image,
                   bytes |-> f.bytes, media |-> f.media, id |-> n]
QueuedFrame == {Numbered(f, n) : f \in Frames, n \in 1..(MaxFrames + 1)}
               \cup {EndFrame(n) : n \in 1..(MaxFrames + 1)}

----------------------------------------------------------------------------
(* enqueue_inbound_frame                                                   *)

inbound_replacement_key(f) == IF f.kind = "graphics" THEN <<f.pane, f.image>> ELSE NoKey

KeysOf(pane) == {k \in DOMAIN q.replacements : k[1] = pane}

\* Mutant: output is not a barrier for the graphics of its pane.
InvalidatedByResetsOnly(f) ==
  CASE f.kind = "mark" -> invalidate_replacements(q, DOMAIN q.replacements)
    [] f.kind = "reset" -> invalidate_replacements(q, KeysOf(f.pane))
    [] OTHER -> q

\* invalidate_inbound_replacements
Invalidated(f) ==
  CASE f.kind = "mark" -> invalidate_replacements(q, DOMAIN q.replacements)
    [] f.kind \in {"output", "reset"} -> invalidate_replacements(q, KeysOf(f.pane))
    [] OTHER -> q

\* coalesce_inbound_segment.  Only ordered output without media merges.
Mergeable(f) == f.kind = "output" /\ f.media = 0

Scan(entry, f, adjacent) ==
  IF ~ (Mergeable(entry.frames[1]) /\ Mergeable(f)) THEN "barrier"
  ELSE IF entry.frames[1].pane # f.pane THEN "continue"
  ELSE IF ~ adjacent /\ entry.bytes + f.bytes > MaxInterleaved THEN "barrier"
  ELSE "merged"

\* The entry that the backward scan of the queue's last segment merges into.
MergeTarget(entries, f) ==
  LET verdict(i) == Scan(entries[i], f, i = Len(entries))
      targets == {i \in DOMAIN entries :
                    /\ verdict(i) = "merged"
                    /\ \A j \in (i + 1)..Len(entries) : verdict(j) = "continue"}
  IN IF targets = {} THEN 0 ELSE CHOOSE i \in targets : TRUE

Enqueued(f) ==
  LET cleared == Invalidated(f)
      key == inbound_replacement_key(f)
  IN IF key # NoKey THEN push_latest(cleared, f, key)
     ELSE push_within_segment(cleared, f, MergeTarget(cleared.entries, f))

----------------------------------------------------------------------------
(* notify_all and the mailbox's own operations                             *)

Goto(p, there) == [pc EXCEPT ![p] = there]

\* notify_all: every thread on the queue's condition variable looks again.
Woken(pcs) ==
  [pcs EXCEPT !["reader"] = CASE @ = "asleep" -> "offer" [] @ = "stuck" -> "push" [] OTHER -> @]

\* Where an actor goes once it has tried to schedule a drain.
Return(p) ==
  IF pc[p] = "report" THEN "done"
  ELSE CASE p = "reader" -> "read" [] p = "attach" -> "done" [] p = "ui" -> "idle"

\* schedule: load `active`, compare-exchange `scheduled`, send the message it
\* earns.  `active` is never cleared, so the load and the exchange are one step.
Schedule(p) ==
  /\ pc[p] \in {"schedule", "report"}
  /\ scheduled' = (scheduled \/ active)
  /\ drains' = IF active /\ ~ scheduled THEN drains + 1 ELSE drains
  /\ pc' = Goto(p, Return(p))
  /\ UNCHANGED <<q, active, ended, shutdown, hold, next, heard>>

\* disconnected and fail: only the first of them is heard.  (A reader whose
\* wait failed calls both; the second finds `ended` set.)
Close(p) ==
  /\ pc[p] = "close"
  /\ ended' = TRUE
  /\ pc' = Goto(p, IF ended THEN "done" ELSE "end")
  /\ UNCHANGED <<q, scheduled, active, shutdown, drains, hold, next, heard>>

\* Mutant: the end is queued and no drain is scheduled for it.
PushEndQuietly(p) ==
  /\ pc[p] = "end"
  /\ q' = try_push(q, EndFrame(next))
  /\ next' = next + 1
  /\ pc' = [Woken(pc) EXCEPT ![p] = "done"]
  /\ UNCHANGED <<scheduled, active, ended, shutdown, drains, hold, heard>>

PushEnd(p) ==
  /\ pc[p] = "end"
  /\ q' = try_push(q, EndFrame(next))
  /\ next' = next + 1
  /\ pc' = [Woken(pc) EXCEPT ![p] = "report"]
  /\ UNCHANGED <<scheduled, active, ended, shutdown, drains, hold, heard>>

----------------------------------------------------------------------------
(* The reader: forward_inbound_trusted                                     *)

\* A frame is decoded, unless the connection is shutting down.
Read(f) ==
  /\ pc["reader"] = "read" /\ ~ shutdown /\ next <= MaxFrames
  /\ hold' = f
  /\ pc' = Goto("reader", "offer")
  /\ UNCHANGED <<q, scheduled, active, ended, shutdown, drains, next, heard>>

Leave ==
  /\ hold' = NoFrame
  /\ pc' = Goto("reader", "close")
  /\ UNCHANGED <<q, scheduled, active, ended, shutdown, drains, next, heard>>

\* End of file, a read error, or the silence watchdog.
ReadFails == pc["reader"] = "read" /\ Leave

\* The shutdown signal, read at the head of either loop.
ReadStops == pc["reader"] = "read" /\ shutdown /\ Leave

\* wait_for_capacity: refused, interrupted, granted, or asleep.
OfferRefused == pc["reader"] = "offer" /\ (exceeds_entry_limits(hold) \/ shutdown) /\ Leave

Offer ==
  /\ pc["reader"] = "offer" /\ ~ exceeds_entry_limits(hold) /\ ~ shutdown
  /\ pc' = Goto("reader",
             IF fits_in_state(q, hold, replacement_weight(q, inbound_replacement_key(hold)))
             THEN "push" ELSE "asleep")
  /\ UNCHANGED <<q, scheduled, active, ended, shutdown, drains, hold, next, heard>>

\* acquire_frame_media or enqueue_acquisition_acks fails.
AcquireFails == pc["reader"] = "push" /\ hold.media > 0 /\ Leave

\* push, and enqueue_inbound_frame under it.  It ignores the shutdown signal
\* and blocks when the queue is full.
Push ==
  /\ pc["reader"] = "push"
  /\ LET f == Numbered(hold, next)
         room == fits_in_state(q, f, replacement_weight(Invalidated(f), inbound_replacement_key(f)))
     IN IF room
        THEN /\ q' = Enqueued(f)
             /\ next' = next + 1
             /\ pc' = Goto("reader", "schedule")
             /\ hold' = NoFrame
        ELSE /\ q' = Invalidated(f)
             /\ pc' = Goto("reader", "stuck")
             /\ UNCHANGED <<next, hold>>
  /\ UNCHANGED <<scheduled, active, ended, shutdown, drains, heard>>

----------------------------------------------------------------------------
(* The writer, the attach handler and the transport's owner                *)

\* A write fails while nobody asked for a shutdown.
WriteFails ==
  /\ pc["writer"] = "run" /\ ~ shutdown
  /\ pc' = Goto("writer", "close")
  /\ UNCHANGED <<q, scheduled, active, ended, shutdown, drains, hold, next, heard>>

\* Mutant: activation relies on the next frame to schedule a drain.
ActivateQuietly ==
  /\ pc["attach"] = "run"
  /\ active' = TRUE
  /\ pc' = Goto("attach", "done")
  /\ UNCHANGED <<q, scheduled, ended, shutdown, drains, hold, next, heard>>

\* activate
Activate ==
  /\ pc["attach"] = "run"
  /\ active' = TRUE
  /\ pc' = Goto("attach", "schedule")
  /\ UNCHANGED <<q, scheduled, ended, shutdown, drains, hold, next, heard>>

\* ClientTransport::disconnect raises the signal and then wakes the queue.
Signal ==
  /\ pc["dropper"] = "run"
  /\ shutdown' = TRUE
  /\ pc' = Goto("dropper", "wake")
  /\ UNCHANGED <<q, scheduled, active, ended, drains, hold, next, heard>>

\* Mutant: nobody is notified.
WakeNobody ==
  /\ pc["dropper"] = "wake"
  /\ pc' = Goto("dropper", "done")
  /\ UNCHANGED <<q, scheduled, active, ended, shutdown, drains, hold, next, heard>>

Wake ==
  /\ pc["dropper"] = "wake"
  /\ pc' = [Woken(pc) EXCEPT !["dropper"] = "done"]
  /\ UNCHANGED <<q, scheduled, active, ended, shutdown, drains, hold, next, heard>>

----------------------------------------------------------------------------
(* The UI: drain_session_frames                                            *)

TakeDrain ==
  /\ pc["ui"] = "idle" /\ drains > 0
  /\ drains' = drains - 1
  /\ pc' = Goto("ui", "first")
  /\ UNCHANGED <<q, scheduled, active, ended, shutdown, hold, next, heard>>

\* pop, and the handler of the entry it returns.
Pop(there) ==
  /\ q.entries # <<>>
  /\ q' = pop_front(q)
  /\ heard' = heard + (IF Head(q.entries).frames[1].kind = "end" THEN 1 ELSE 0)
  /\ pc' = [Woken(pc) EXCEPT !["ui"] = there]
  /\ UNCHANGED <<scheduled, active, ended, shutdown, drains, hold, next>>

FinishNow ==
  /\ pc' = Goto("ui", "finish")
  /\ UNCHANGED <<q, scheduled, active, ended, shutdown, drains, hold, next, heard>>

\* The first entry is always handled.  With nothing behind it, or when its
\* handler started asynchronous work, the drain ends.
PopFirst ==
  /\ pc["ui"] = "first"
  /\ \/ Pop("finish")
     \/ Len(q.entries) > 1 /\ Pop("more")
     \/ q.entries = <<>> /\ FinishNow

\* drain_inbound_events_from_first: further entries while the budgets last.
PopMore ==
  /\ pc["ui"] = "more"
  /\ Pop("more") \/ Pop("finish") \/ FinishNow

\* finish_drain: clear `scheduled`, then look at the queue again.
FinishDrain ==
  /\ pc["ui"] = "finish"
  /\ scheduled' = FALSE
  /\ pc' = Goto("ui", "check")
  /\ UNCHANGED <<q, active, ended, shutdown, drains, hold, next, heard>>

\* Mutant: what arrived while the drain was ending is left for the next frame.
CheckNothing ==
  /\ pc["ui"] = "check"
  /\ pc' = Goto("ui", "idle")
  /\ UNCHANGED <<q, scheduled, active, ended, shutdown, drains, hold, next, heard>>

CheckQueue ==
  /\ pc["ui"] = "check"
  /\ pc' = Goto("ui", IF q.entries # <<>> THEN "schedule" ELSE "idle")
  /\ UNCHANGED <<q, scheduled, active, ended, shutdown, drains, hold, next, heard>>

----------------------------------------------------------------------------
Init ==
  /\ q = EmptyQueue
  /\ scheduled = FALSE /\ active = FALSE /\ ended = FALSE /\ shutdown = FALSE
  /\ drains = 0
  /\ pc = [p \in Actors |-> CASE p = "reader" -> "read" [] p = "ui" -> "idle" [] OTHER -> "run"]
  /\ hold = NoFrame /\ next = 1 /\ heard = 0

ReaderStep == \/ ReadStops \/ OfferRefused \/ Offer \/ AcquireFails \/ Push
              \/ Close("reader") \/ PushEnd("reader")
              \/ Schedule("reader")
WriterStep == Close("writer") \/ PushEnd("writer") \/ Schedule("writer")
AttachStep == Schedule("attach")
UiStep == \/ TakeDrain \/ PopFirst \/ PopMore \/ FinishDrain \/ CheckQueue
          \/ Schedule("ui")

Next == \/ \E f \in Frames : Read(f)
        \/ ReadFails \/ ReaderStep
        \/ WriteFails \/ WriterStep
        \/ Activate \/ AttachStep
        \/ Signal \/ Wake
        \/ UiStep

\* Threads that have begun an operation finish it.  Nothing obliges the server
\* to send or to hang up, a write to fail, the attach to complete or the
\* owner to let go.
Fairness == WF_vars(ReaderStep) /\ WF_vars(WriterStep) /\ WF_vars(AttachStep)
            /\ WF_vars(Wake) /\ WF_vars(UiStep)

Spec == Init /\ [][Next]_vars /\ Fairness
----------------------------------------------------------------------------
Queued == UNION {Range(q.entries[i].frames) : i \in DOMAIN q.entries}

TypeOK ==
  /\ q.entries \in Seq([frames : Seq(QueuedFrame), bytes : 0..Capacity, media : 0..MediaCapacity,
                        key : {NoKey} \cup {<<f.pane, f.image>> : f \in Frames}])
  /\ q.base \in Nat
  /\ {scheduled, active, ended, shutdown} \subseteq BOOLEAN
  /\ drains \in Nat /\ next \in 1..(MaxFrames + 2)
  /\ pc["reader"] \in ReaderStates /\ pc["ui"] \in UiStates /\ pc["writer"] \in WriterStates
  /\ pc["attach"] \in AttachStates /\ pc["dropper"] \in DropperStates
  /\ hold \in Frames \cup {NoFrame} /\ heard \in Nat

\* The running totals are what the entries weigh and stay within the budget
\* through every merge, replacement and pop (queue.rs State).
BudgetKept ==
  /\ q.bytes = TotalBytes(q) /\ q.bytes <= Capacity
  /\ q.media = TotalMedia(q) /\ q.media <= MediaCapacity

\* The index never names an entry of another key: a replacement cannot
\* overwrite somebody else's frame (queue.rs State.replacements and base).
IndexSound ==
  \A key \in DOMAIN q.replacements :
    LET at == q.replacements[key] - q.base + 1
    IN at \in DOMAIN q.entries /\ q.entries[at].key = key

\* Once wait_for_capacity has granted room, push finds it: the push ignores the
\* shutdown signal, so a reader blocked in it could not be stopped.
PushNeverBlocks == pc["reader"] # "stuck"

\* An active mailbox that holds something has a drain on its way, or an actor
\* about to schedule one (InboundMailbox::schedule, finish_drain, activate).
NoLostWakeup ==
  active /\ q.entries # <<>> =>
    \/ scheduled
    \/ pc["ui"] \in {"check", "schedule"}
    \/ \E p \in {"reader", "writer", "attach"} : pc[p] \in {"schedule", "report"}

\* `scheduled` counts the drains: one under way or none, never two handlers'
\* worth of DrainSessionFrames in the UI's channel.
OneDrain ==
  drains + (IF pc["ui"] \in {"first", "more", "finish"} THEN 1 ELSE 0) = (IF scheduled THEN 1 ELSE 0)

\* A pane's bytes keep their order inside the entry they were merged into.
MergedInOrder ==
  \A i \in DOMAIN q.entries : \A j, k \in DOMAIN q.entries[i].frames :
    j < k => q.entries[i].frames[j].id < q.entries[i].frames[k].id

\* The end of a connection is reported at most once, whoever notices it.
EndOnce == heard + Cardinality({f \in Queued : f.kind = "end"}) <= 1

\* The queue's books stay true through merges, replacements and pops by three
\* threads (queue.rs push_within_segment, push_latest, pop).
QueueSound == TypeOK /\ BudgetKept /\ IndexSound /\ MergedInOrder

\* The hand-over from reader to UI: no wake-up lost or doubled, no reader stuck
\* in a push, one report of the end (InboundMailbox::schedule, finish_drain, close).
HandOverSound == NoLostWakeup /\ OneDrain /\ PushNeverBlocks /\ EndOnce

\* Merging, replacing and reordering stay within what InboundStreams allows:
\* per-pane order, barriers, and no graphics frame past what it depends on.
Streams == INSTANCE InboundStreams WITH Frames <- QueuedFrame, pending <- Queued

StreamsKept == Streams!Spec

\* Whatever is queued in an active mailbox is handed over or superseded.
EverythingDrained ==
  \A n \in 1..(MaxFrames + 1) :
    (active /\ n \in {f.id : f \in Queued}) ~> (n \notin {f.id : f \in Queued})

\* A reader asked to stop stops, even asleep on a full mailbox that was never
\* activated and that nobody drains.
ReaderStops == shutdown ~> (pc["reader"] = "done")

\* When the reader is gone, the UI of an active mailbox hears of it.
EndReported == (active /\ pc["reader"] = "done") ~> (heard = 1)
=============================================================================
