--------------------------- MODULE ReplayBarrier ---------------------------
(***************************************************************************)
(* How the session server keeps one client's copy of the panes' screens    *)
(* right although the client reads at its own pace.                        *)
(*                                                                         *)
(* After an attach every pane's screen is exported and replayed behind a   *)
(* barrier: output of a pane not yet exported is in its coming snapshot    *)
(* and is suppressed; everything later waits in `catch_up` behind the      *)
(* replays.  A client too slow for a pane's output has the pane shed: its  *)
(* queued transcript is dropped and, once the outbox has drained, a second *)
(* barrier (a resync) replays the pane from the server's screen.           *)
(*                                                                         *)
(* A screen is a version: 0 when blank, then 1 .. Versions over and over,  *)
(* one step per output frame.  An output frame carries the version it      *)
(* makes and the geometry it was parsed at, so a client can tell whether   *)
(* it fits what it shows.  Every frame has size one; a replay is a         *)
(* PaneReset and Chunks frames (none for a blank screen).  Images, their   *)
(* replacement of queued frames, and the program-status baseline are left  *)
(* out.                                                                    *)
(*                                                                         *)
(* Source: src/src/session/server/mod.rs (ClientConn, AttachSeedState) and *)
(* lease.rs; on the client's side src/src/update/session/pane_events.rs.   *)
(***************************************************************************)
EXTENDS Naturals, Sequences, FiniteSets

CONSTANTS MaxPanes,        \* pane keys are 1 .. MaxPanes
          Opened,          \* the panes 1 .. Opened are open when the client attaches
          Versions,        \* screens are told apart modulo this
          Chunks,          \* frames in one replay
          max_backlog, SEED_SEND_WINDOW, SEED_CATCH_UP_LIMIT, RESYNC_START_BACKLOG,
          Inputs,          \* which kinds of input happen
          Flood,           \* panes that write without end
          MaxInputs        \* bound: other inputs in one behaviour

ASSUME SizesAssumption ==
  /\ Opened \in 0 .. MaxPanes /\ MaxPanes \in Nat
  /\ Versions \in Nat \ {0} /\ Chunks \in Nat \ {0} /\ MaxInputs \in Nat
  /\ {max_backlog, SEED_SEND_WINDOW, SEED_CATCH_UP_LIMIT, RESYNC_START_BACKLOG} \subseteq Nat \ {0}
  /\ SEED_SEND_WINDOW <= max_backlog

Pane == 1 .. MaxPanes
None == 0
After(v) == IF v = Versions THEN 1 ELSE v + 1      \* the next version

VARIABLES panes,      \* SessionServer.panes: state, screen and geometry of each
          conn,       \* the ClientConn
          ui,         \* what the client shows of each pane
          controls,   \* control frames sent, and applied by the client
          reading,    \* the client still reads its socket and answers pings
          inputs

vars == <<panes, conn, ui, controls, reading, inputs>>

-----------------------------------------------------------------------------
(* Frames. *)

Frame(type, pane, ver, geom, part, class) ==
  [type |-> type, pane |-> pane, ver |-> ver, geom |-> geom, part |-> part,
   class |-> class]

\* SeedDelta::pane, the pane whose shedding drops the frame from the catch-up,
\* and SeedDelta::output_pane, the one whose shedding drops it from the outbox.
DeltaPane(f) == IF f.type \in {"output", "resize"} THEN f.pane ELSE None
OutputPane(f) == IF f.type \in {"output", "replay"} THEN f.pane ELSE None

NoReplay == [pane |-> None, ver |-> 0, geom |-> 0, reset |-> FALSE, sent |-> 0]

NoSeed ==
  [kind |-> "none", manifest |-> [p \in Pane |-> "absent"], pending |-> <<>>,
   replay |-> NoReplay, catch_up |-> <<>>, baseline_queued |-> FALSE, outdated |-> {}]

\* The elements of a list whose places are in S, in order.
Kept(q, S) ==
  LET upto[n \in 0 .. Len(q)] == IF n = 0 THEN <<>>
                                 ELSE IF n \in S THEN Append(upto[n - 1], q[n]) ELSE upto[n - 1]
  IN  upto[Len(q)]

Ascending(S) == Kept([p \in Pane |-> p], S)

Live == {p \in Pane : panes[p].state = "live"}

\* AttachSeedState::new and ::resync: `stale` is replayed, the other live panes
\* only wait behind the replay.
Seed(kind, stale) ==
  [NoSeed EXCEPT
     !.kind = kind,
     !.manifest = [p \in Pane |-> IF p \in stale THEN "Pending"
                                  ELSE IF kind = "Resync" /\ p \in Live
                                       THEN "CatchingUp" ELSE "absent"],
     !.pending = Ascending(stale)]

-----------------------------------------------------------------------------
(* Shedding.  `s` is the ClientConn. *)

replay_barrier_up(s) == s.seed.kind # "none" /\ ~s.seed.baseline_queued

\* The places in the outbox that a shed may empty: a frame the socket has begun to
\* write must finish.
sheddable_outbox(s) == {i \in DOMAIN s.outbox : s.front_started => i > 1}

\* While the barrier is up a pane spawned behind it cannot be shed.
pane_is_sheddable(s, p) == replay_barrier_up(s) => s.seed.manifest[p] # "absent"

\* The pane with most frames queued, the smallest of those; None if there is none.
largest_sheddable(s, totals) ==
  LET heavy == {p \in Pane : totals[p] > 0 /\ pane_is_sheddable(s, p)}
      Before(p, q) == totals[p] > totals[q] \/ (totals[p] = totals[q] /\ p <= q)
  IN  IF heavy = {} THEN None ELSE CHOOSE p \in heavy : \A q \in heavy : Before(p, q)

\* A replay the barrier is still sending is never dropped.
Droppable(s, f) == ~(replay_barrier_up(s) /\ f.class = "SeedReplay")

Droppables(s, p) ==
  {i \in sheddable_outbox(s) : OutputPane(s.outbox[i]) = p /\ Droppable(s, s.outbox[i])}

\* The places of a pane's changes that wait behind the replay.
Waiting(s, p) == {i \in DOMAIN s.seed.catch_up : DeltaPane(s.seed.catch_up[i]) = p}

largest_outbox_pane(s) == largest_sheddable(s, [p \in Pane |-> Cardinality(Droppables(s, p))])

largest_catch_up_pane(s) ==
  largest_sheddable(s,
    [p \in Pane |->
       Cardinality(Waiting(s, p))
         + Cardinality({i \in sheddable_outbox(s) :
                          s.outbox[i].class = "SeedCatchUp" /\ OutputPane(s.outbox[i]) = p})])

purge_outbox_pane(s, p) ==
  [s EXCEPT !.outbox = Kept(s.outbox, (DOMAIN s.outbox) \ Droppables(s, p))]

\* Mutant of shed_pane: a pane already exported is exported afresh.
ShedRestarting(s, p) ==
  LET t == purge_outbox_pane(s, p)
  IN  IF ~replay_barrier_up(s) THEN [t EXCEPT !.resync_pending = @ \cup {p}]
      ELSE [t EXCEPT
              !.seed.catch_up = Kept(@, (DOMAIN @) \ Waiting(s, p)),
              !.seed.manifest[p] = "Pending",
              !.seed.replay = IF @.pane = p THEN NoReplay ELSE @,
              !.seed.pending = IF s.seed.manifest[p] = "Pending" THEN @ ELSE Append(@, p)]

\* Drop the pane's transcript.  A pane not yet exported needs nothing further; one
\* already exported finishes that replay and is replayed again after the barrier.
shed_pane(s, p) ==
  LET t == purge_outbox_pane(s, p)
  IN  IF ~replay_barrier_up(s) THEN [t EXCEPT !.resync_pending = s.resync_pending \cup {p}]
      ELSE [t EXCEPT
              !.seed = [s.seed EXCEPT
                          !.catch_up = Kept(s.seed.catch_up, (DOMAIN s.seed.catch_up) \ Waiting(s, p)),
                          !.outdated = IF s.seed.manifest[p] = "Pending" THEN s.seed.outdated
                                       ELSE s.seed.outdated \cup {p}]]

-----------------------------------------------------------------------------
(* Routing a frame against the barrier. *)

Overflow(s) == [s EXCEPT !.attached = FALSE]      \* remove_client

try_push_class(s, f, class) ==
  [s EXCEPT !.outbox = Append(s.outbox, [f EXCEPT !.class = class])]

\* Onto the outbox, shedding the heaviest pane if it is full.
push_live(s, f) ==
  LET pane == OutputPane(f)
      full == Len(s.outbox) >= max_backlog
      victim == largest_outbox_pane(s)
  IN  IF pane # None /\ pane \in s.resync_pending THEN s
      ELSE IF ~full THEN try_push_class(s, f, "Normal")
      ELSE IF victim = None
           THEN IF pane # None THEN [s EXCEPT !.resync_pending = s.resync_pending \cup {pane}]
                ELSE Overflow(s)
      ELSE IF pane = victim THEN shed_pane(s, victim)
      ELSE try_push_class(shed_pane(s, victim), f, "Normal")

\* Mutant of catch_up_retained: what has moved on to the outbox is not counted.
CatchUpOnly(s) == Len(s.seed.catch_up)

catch_up_retained(s) ==
  Len(s.seed.catch_up) + Cardinality({i \in DOMAIN s.outbox : s.outbox[i].class = "SeedCatchUp"})

Retain(s, f) == [s EXCEPT !.seed = [s.seed EXCEPT !.catch_up = Append(s.seed.catch_up, f)]]

\* Behind the replay, shedding the pane with most catch-up if that is full.
push_catch_up(s, f) ==
  LET pane == DeltaPane(f)
      heaviest == largest_catch_up_pane(s)
      victim == IF heaviest # None THEN heaviest
                ELSE IF pane # None /\ pane_is_sheddable(s, pane) THEN pane ELSE None
  IN  IF pane # None /\ pane \in s.seed.outdated THEN s
      ELSE IF catch_up_retained(s) < SEED_CATCH_UP_LIMIT THEN Retain(s, f)
      ELSE IF victim = None THEN Overflow(s)
      ELSE IF victim = pane THEN shed_pane(s, victim)
      ELSE Retain(shed_pane(s, victim), f)

output_precedes_snapshot(s, p) == p # None /\ s.seed.manifest[p] = "Pending"

\* Mutant of push_delta: output of a pane that waits for its export is kept too.
DeltaAlwaysKept(s, f) ==
  IF ~replay_barrier_up(s) THEN push_live(s, f)
  ELSE IF f.type = "resize" /\ output_precedes_snapshot(s, f.pane) THEN push_live(s, f)
  ELSE push_catch_up(s, f)

\* Mutant of push_delta: the barrier is over with the last replay, whatever still
\* waits behind it.
OverWithReplays(s, f) ==
  IF ~replay_barrier_up(s) \/ (s.seed.pending = <<>> /\ s.seed.replay = NoReplay)
  THEN push_live(s, f)
  ELSE IF output_precedes_snapshot(s, DeltaPane(f))
       THEN IF f.type = "output" THEN s ELSE push_live(s, f)
  ELSE push_catch_up(s, f)

push_delta(s, f) ==
  IF ~replay_barrier_up(s) THEN push_live(s, f)
  ELSE IF output_precedes_snapshot(s, DeltaPane(f))
       THEN IF f.type = "output" THEN s ELSE push_live(s, f)
  ELSE push_catch_up(s, f)

-----------------------------------------------------------------------------
(* What happens in the session.  Each of these is queued for the client. *)

Input(kind) ==
  /\ kind \in Inputs /\ conn.attached
  /\ inputs < MaxInputs /\ inputs' = inputs + 1

\* A pane's process writes.
Output(p) ==
  LET v == After(panes[p].ver) IN
  /\ panes[p].state = "live"
  /\ \/ p \in Flood /\ conn.attached /\ UNCHANGED inputs
     \/ p \notin Flood /\ Input("output")
  /\ panes' = [panes EXCEPT ![p].ver = v]
  /\ conn' = push_delta(conn, Frame("output", p, v, panes[p].geom, 0, "Normal"))
  /\ UNCHANGED <<ui, controls, reading>>

\* The controller's layout gives a pane the other of two sizes.
Resize(p) ==
  LET g == 3 - panes[p].geom IN
  /\ Input("resize")
  /\ panes[p].state = "live"
  /\ panes' = [panes EXCEPT ![p].geom = g]
  /\ conn' = push_delta(conn, Frame("resize", p, 0, g, 0, "Normal"))
  /\ UNCHANGED <<ui, controls, reading>>

\* A control broadcast; one may introduce a new pane to the client.
Control(p) ==
  /\ controls' = [controls EXCEPT !.sent = After(controls.sent)]
  /\ conn' = push_delta(conn, Frame("control", p, After(controls.sent), 1, 0, "Normal"))

Broadcast ==
  /\ Input("control")
  /\ Control(None)
  /\ UNCHANGED <<panes, ui, reading>>

Spawn(p) ==
  /\ Input("spawn")
  /\ panes[p].state = "none"
  /\ panes' = [panes EXCEPT ![p].state = "live"]
  /\ Control(p)
  /\ UNCHANGED <<ui, reading>>

Exit(p) ==
  /\ Input("exit")
  /\ panes[p].state = "live"
  /\ panes' = [panes EXCEPT ![p].state = "exited"]
  /\ Control(None)
  /\ UNCHANGED <<ui, reading>>

-----------------------------------------------------------------------------
(* The pump. *)

\* Put up a barrier for the panes shed earlier; one that has exited is forgotten.
start_client_resyncs ==
  /\ conn.attached /\ conn.seed.kind = "none"
  /\ conn.resync_pending # {} /\ Len(conn.outbox) <= RESYNC_START_BACKLOG
  /\ LET stale == conn.resync_pending \cap Live
     IN  conn' = [conn EXCEPT !.resync_pending = {},
                              !.seed = IF stale = {} THEN conn.seed ELSE Seed("Resync", stale)]
  /\ UNCHANGED <<panes, ui, controls, reading, inputs>>

WindowOpen(s) == Len(s.outbox) < SEED_SEND_WINDOW

ReplayDone(r) == ~r.reset /\ r.sent = (IF r.ver = 0 THEN 0 ELSE Chunks)

finish_pane_replay(seed) ==
  IF seed.replay = NoReplay \/ ~ReplayDone(seed.replay) THEN seed
  ELSE [seed EXCEPT !.manifest = [seed.manifest EXCEPT ![seed.replay.pane] = "CatchingUp"],
                    !.replay = NoReplay]

\* Mutant of complete_attach_baseline: what was shed behind the barrier is lost.
CompleteForgetting(s) ==
  IF s.seed.pending # <<>> \/ s.seed.replay # NoReplay \/ s.seed.catch_up # <<>> THEN s
  ELSE [s EXCEPT !.seed.baseline_queued = TRUE, !.seed.outdated = {}]

\* Nothing left to queue: the barrier lifts, and what was shed behind it is due.
complete_attach_baseline(s) ==
  IF s.seed.pending # <<>> \/ s.seed.replay # NoReplay \/ s.seed.catch_up # <<>> THEN s
  ELSE [s EXCEPT !.resync_pending = s.resync_pending \cup s.seed.outdated,
                 !.seed = [s.seed EXCEPT
                             !.baseline_queued = TRUE, !.outdated = {},
                             !.manifest = [p \in Pane |-> IF s.seed.manifest[p] = "absent"
                                                          THEN "absent" ELSE "Live"]]]

\* The rest of a round, which no budget can interrupt.
Settled(s) == complete_attach_baseline([s EXCEPT !.seed = finish_pane_replay(s.seed)])

\* Export the next pane; one that has exited has no replay.
begin_pane_replay(s) ==
  LET p == Head(s.seed.pending)
  IN  IF panes[p].state # "live"
      THEN [s EXCEPT !.seed = [s.seed EXCEPT
              !.pending = Tail(s.seed.pending),
              !.manifest = [s.seed.manifest EXCEPT ![p] = "CatchingUp"]]]
      ELSE [s EXCEPT !.seed = [s.seed EXCEPT
              !.pending = Tail(s.seed.pending),
              !.manifest = [s.seed.manifest EXCEPT ![p] = "Replaying"],
              !.replay = [pane |-> p, ver |-> panes[p].ver, geom |-> panes[p].geom,
                          reset |-> TRUE, sent |-> 0]]]

pump_replay_reset(s) ==
  LET r == s.seed.replay
  IN  [try_push_class(s, Frame("reset", r.pane, 0, r.geom, 0, ""), "SeedReplay") EXCEPT
         !.seed = [s.seed EXCEPT !.replay = [r EXCEPT !.reset = FALSE]]]

pump_replay_chunk(s) ==
  LET r == s.seed.replay
  IN  [try_push_class(s, Frame("replay", r.pane, r.ver, r.geom, r.sent + 1, ""), "SeedReplay") EXCEPT
         !.seed = [s.seed EXCEPT !.replay = [r EXCEPT !.sent = r.sent + 1]]]

pump_seed_catch_up(s) ==
  [try_push_class(s, Head(s.seed.catch_up), "SeedCatchUp") EXCEPT
     !.seed = [s.seed EXCEPT !.catch_up = Tail(s.seed.catch_up)]]

\* One step of the pump, while the send window has room.
pump_client_attach_seed ==
  /\ conn.attached /\ replay_barrier_up(conn)
  /\ UNCHANGED <<panes, ui, controls, reading, inputs>>
  /\ LET seed == conn.seed IN
     \/ /\ seed.replay # NoReplay /\ seed.replay.reset /\ WindowOpen(conn)
        /\ conn' = Settled(pump_replay_reset(conn))
     \/ /\ seed.replay # NoReplay /\ ~seed.replay.reset /\ WindowOpen(conn)
        /\ conn' = Settled(pump_replay_chunk(conn))
     \/ /\ seed.replay = NoReplay /\ seed.pending # <<>>
        /\ conn' = Settled(begin_pane_replay(conn))
     \/ /\ seed.replay = NoReplay /\ seed.pending = <<>> /\ seed.catch_up # <<>>
        /\ WindowOpen(conn)
        /\ conn' = Settled(pump_seed_catch_up(conn))
     \/ /\ seed.replay = NoReplay /\ seed.pending = <<>> /\ seed.catch_up = <<>>
        /\ conn' = Settled(conn)

-----------------------------------------------------------------------------
(* The socket and the client. *)

\* A frame fits what the client shows of its pane: the pane is known, a replay
\* goes on where it is, and output meets the screen and the size it was made for.
Fits(u, f) ==
  CASE f.type = "control" -> TRUE
    [] f.type \in {"resize", "reset"} -> u.known
    [] f.type = "replay" -> u.part = f.part - 1 /\ u.ver = (IF f.part = 1 THEN 0 ELSE f.ver)
    [] f.type = "output" -> u.known /\ u.part = 0 /\ After(u.ver) = f.ver /\ u.geom = f.geom

\* What the client shows of the frame's pane after it.  A replay in progress has
\* some of its chunks; `torn` records a frame that does not fit.
Drawn(u, f) ==
  [known |-> u.known \/ f.type = "control",
   ver   |-> CASE f.type \in {"control", "resize"} -> u.ver
               [] f.type = "reset" -> 0
               [] f.type \in {"replay", "output"} -> f.ver,
   part  |-> CASE f.type \in {"control", "resize", "output"} -> u.part
               [] f.type = "reset" -> 0
               [] f.type = "replay" -> IF f.part = Chunks THEN 0 ELSE f.part,
   geom  |-> IF f.type \in {"control", "resize", "reset"} THEN f.geom ELSE u.geom,
   torn  |-> u.torn \/ ~Fits(u, f)]

Shown(u, f) == IF f.pane = None THEN u ELSE [u EXCEPT ![f.pane] = Drawn(u[f.pane], f)]

SeedQueued(outbox) == \E i \in DOMAIN outbox : outbox[i].class # "Normal"

\* Mutant of take_completed_seed: only an attach is ever over.
AttachOnly(s) ==
  IF s.seed.kind = "Attach" /\ s.seed.baseline_queued /\ ~SeedQueued(s.outbox)
  THEN [s EXCEPT !.seed = NoSeed] ELSE s

\* A seed is over once its last frame has been written.
take_completed_seed(s) ==
  IF s.seed.kind # "none" /\ s.seed.baseline_queued /\ ~SeedQueued(s.outbox)
  THEN [s EXCEPT !.seed = NoSeed] ELSE s

\* The socket takes the whole front frame, or begins to; or it takes nothing.
Written ==
  /\ reading /\ conn.outbox # <<>>
  /\ LET f == Head(conn.outbox)
     IN  /\ conn' = take_completed_seed([conn EXCEPT !.outbox = Tail(conn.outbox),
                                                     !.front_started = FALSE])
         /\ ui' = Shown(ui, f)
         /\ controls' = IF f.type # "control" THEN controls
                        ELSE [controls EXCEPT
                                !.applied = f.ver,
                                !.lost = controls.lost \/ After(controls.applied) # f.ver]

flush_client_outbox ==
  /\ conn.attached
  /\ \/ Written
     \/ /\ reading /\ conn.outbox # <<>> /\ ~conn.front_started
        /\ conn' = take_completed_seed([conn EXCEPT !.front_started = TRUE])
        /\ UNCHANGED <<ui, controls>>
     \/ /\ conn' = take_completed_seed(conn) /\ conn' # conn
        /\ UNCHANGED <<ui, controls>>
  /\ UNCHANGED <<panes, reading, inputs>>

\* The client's UI stops: it reads nothing more and answers no ping.
Wedge ==
  /\ Input("wedge")
  /\ reading /\ reading' = FALSE
  /\ UNCHANGED <<panes, conn, ui, controls>>

\* Mutant of heartbeat: any replay holds the clock.
HeldByReplay ==
  /\ conn.attached /\ ~reading
  /\ conn.seed.kind = "none"
  /\ conn' = Overflow(conn)
  /\ UNCHANGED <<panes, ui, controls, reading, inputs>>

\* The pongs have stopped for heartbeat_timeout.  The clock is held at zero while
\* an attach's replay has not been written, but runs during a resync.
heartbeat ==
  /\ conn.attached /\ ~reading
  /\ conn.seed.kind \in {"none", "Resync"}
  /\ conn' = Overflow(conn)
  /\ UNCHANGED <<panes, ui, controls, reading, inputs>>

-----------------------------------------------------------------------------
\* The client has just attached: it knows the open panes and shows them blank.
Init ==
  /\ panes \in [Pane -> [state : {"none", "live"}, ver : 0 .. 1, geom : {1}]]
  /\ \A p \in Pane : /\ panes[p].state = IF p <= Opened THEN "live" ELSE "none"
                     /\ panes[p].state = "none" => panes[p].ver = 0
  /\ conn = [outbox |-> <<>>, front_started |-> FALSE, seed |-> Seed("Attach", Live),
             resync_pending |-> {}, attached |-> TRUE]
  /\ ui = [p \in Pane |-> [known |-> p <= Opened, ver |-> 0, part |-> 0, geom |-> 1,
                           torn |-> FALSE]]
  /\ controls = [sent |-> 0, applied |-> 0, lost |-> FALSE]
  /\ reading = TRUE /\ inputs = 0

Next ==
  \/ \E p \in Pane : Output(p) \/ Resize(p) \/ Spawn(p) \/ Exit(p)
  \/ Broadcast
  \/ start_client_resyncs \/ pump_client_attach_seed \/ flush_client_outbox
  \/ Wedge \/ heartbeat

Spec == Init /\ [][Next]_vars

\* The server's loop pumps, flushes and watches the heartbeat in every round.
Fairness ==
  /\ WF_vars(start_client_resyncs) /\ WF_vars(pump_client_attach_seed)
  /\ WF_vars(flush_client_outbox) /\ WF_vars(heartbeat)
  /\ WF_vars(Written /\ UNCHANGED <<panes, reading, inputs>>)

FairSpec == Spec /\ Fairness

-----------------------------------------------------------------------------
(* Properties. *)

\* Types, and the limits on what the server keeps for a client: the outbox within
\* max_backlog, the changes behind a replay within SEED_CATCH_UP_LIMIT.
TypeOK ==
  /\ panes \in [Pane -> [state : {"none", "live", "exited"}, ver : 0 .. Versions, geom : 1 .. 2]]
  /\ Len(conn.outbox) <= max_backlog
  /\ LET behind == {i \in DOMAIN conn.outbox : conn.outbox[i].class = "SeedCatchUp"}
     IN  Len(conn.seed.catch_up) + Cardinality(behind) <= SEED_CATCH_UP_LIMIT
  /\ conn.resync_pending \subseteq Pane
  /\ conn.front_started => conn.outbox # <<>>
  /\ inputs \in 0 .. MaxInputs

\* Every frame of a pane's transcript fits what the client shows when it arrives:
\* the output before it is on the screen, a replay starts on a cleared screen, and
\* the geometry is the one the server parsed it at, however panes are shed.
TranscriptIntact == \A p \in Pane : ~ui[p].torn

\* Control frames are delivered in the order they were sent and none is lost.
ControlsInOrder == ~controls.lost

Quiet == conn.outbox = <<>> /\ conn.seed.kind = "none" /\ conn.resync_pending = {}

ShownNow(p) == ui[p].part = 0 /\ ui[p].ver = panes[p].ver /\ ui[p].geom = panes[p].geom

\* Once everything queued has been delivered the client shows every live pane as
\* the server has it: whatever was suppressed or shed has been replayed since.
CurrentWhenQuiet ==
  conn.attached /\ Quiet => \A p \in Pane : panes[p].state = "live" => ShownNow(p)

\* The same for a pane the client was showing when its process ended: one that fell
\* behind is redrawn from its current screen.
ExitedShownToo ==
  conn.attached /\ Quiet =>
    \A p \in Pane : panes[p].state = "exited" /\ ui[p].ver # 0 => ShownNow(p)

\* Every export that is due is made and sent, even while panes flood the client
\* and are shed over and over behind the barrier.
BaselineFinishes ==
  (conn.seed.pending # <<>> \/ conn.seed.replay # NoReplay)
     ~> \/ conn.seed.pending = <<>> /\ conn.seed.replay = NoReplay
        \/ ~conn.attached \/ ~reading

\* A client that reads is brought up to date once the panes fall silent.
CatchesUp ==
  []<><<panes' # panes>>_vars \/ <>[](Quiet \/ ~conn.attached \/ ~reading)

\* A client that stops responding after its attach is disconnected in the end, even
\* if a resync of its panes can no longer make progress.
WedgedRemovedAfterAttach == ~reading /\ conn.seed.kind # "Attach" ~> ~conn.attached

\* A client that stops responding, at any time, is disconnected in the end.
WedgedIsRemoved == ~reading ~> ~conn.attached
=============================================================================
