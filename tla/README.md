# TLA+ verification of rozi's session core

rozi is a tiling terminal multiplexer. A *session server* owns the pseudo-terminals and the
authoritative layout; any number of *UI clients* attach to it over a local socket or a remote
proxy, show its panes and send it requests. This directory holds TLA+ models of the part of that
system where several processes or threads must agree: who controls the layout, what the layout is,
what each client shows of every pane, how frames reach a client's UI, what subscribers hear, when a
held request is answered, and what a restarted server finds on disk. TLC checks the models on small
instances; TLAPS proves the safety properties for every value of the constants.

Paths below are relative to the repository, whose crate is `src/src`.

## 1. The system: inventory

| Component | Source | State | Operations | What makes it correct |
|---|---|---|---|---|
| Layout-control lease | `session/server/lease.rs`, `connection.rs`; client: `update/session/lease.rs` | clients and their flags, `controller`, takeover policy, input lock, each client's copy | attach, attach again, detach, disconnect, heartbeat expiry, request, grant, decline, evict, park, drag relay | exactly one entitled holder whenever there is one; all UIs learn who it is; slow clients cannot break either |
| Shared layout | `lease.rs` (`handle_commit_layout`, `spawn_shared_pane`), `ops/session/control_lease.rs`, `update/session/control_replies.rs`, `pane/lifecycle`, `layout/shared` | document, revision; per client: document, last committed, assumed revision, spawn queue and flight | edit, debounced commit, spawn, kill, exit, hand-over, reconcile | live panes stay placed; clients converge; no lost update; commits come to rest |
| Replay, shedding, resync | `server/mod.rs` (`ClientConn`, `AttachSeedState`), `lease.rs` | outbox, barrier, catch-up, panes owed a resync | route a frame, shed a pane, export, flush, heartbeat | every frame fits the screen it meets; a client that has caught up shows the truth; memory is bounded; replays finish |
| Queues and the inbound mailbox | `session/queue.rs`, `session/client.rs` (`InboundMailbox`), `update/mod.rs` | entries with their weights, index of replaceable entries, `active`, `scheduled`, `ended` | blocking, latest-wins and merging pushes, pop, schedule, drain, activate, close, cancel | budgets hold, no producer sleeps for ever, no wake-up is lost, merging and replacing change no order that matters |
| Media fence | `server/media.rs`, `graphics*.rs`, `acquisition.rs` | uploads, deferred messages per client | defer, release, disconnect behind a fence | per-client order is kept |
| Events and subscriptions | `server/events.rs`, `subscriptions.rs` | ring of events, subscribers' cursors | emit, evict, subscribe, resume | no gap and no duplicate, or an explicit `CursorExpired` |
| Waits | `server/waits.rs`, `capture_waits.rs`, `pane/capture_wait.rs`, `runtime.rs` | pending waits, pane runtime, screens | register, resolve, observe, expire | one answer each, in time, about the agent and the output that were asked for |
| Snapshots | `server/resurrect.rs`, `shutdown.rs` | dirty and persisted generations, job in the background, directories on disk | start the writer, capture, stage, publish, fail, delete, recover, restore | never claims as saved what is not; what a restart restores never gets older |
| Naming and rename | `server/panes.rs`, `session/discovery.rs` | listener, pending listener | rename, adopt | clients stay attached, one session per name |
| Attach and reconnect | `session/bootstrap.rs`, `session/client.rs`, `ops/session/*` | epoch, connection state | attempt, abandon, adopt | a late answer of an old attempt changes nothing |
| Alert claims | `session/alert_claim.rs` | claim files | claim, expire | one process plays each alert |
| Extensions | `extension_runtime/*` | services, failures, backoff | start, exit, restart, give up | bounded restarts, reset only after real uptime |
| Deployments, invocations | `server/deployments.rs`, `invocations.rs`, ... | jobs and requesters | start, finish, cancel | a result reaches its requester once |
| Remote | `session/remote/*` | child process, proxy | connect, monitor | retries end |
| Tiling | `layout/*` | split tree | insert, remove, resize | the tree holds exactly the panes |
| UI, config, CLI, git, platform, recording | the rest | local | | sequential or pure input/output |

How they interact. The server is one thread: `pump_iteration` (`server/mod.rs` 1905-1943) accepts
connections, drains the terminals, serves the clients' messages, polls the waits, snapshots, checks
heartbeats, pumps the replays and flushes the outboxes, in that order, in every round. A handler
returns a list of responses, which are then queued one by one on the bounded outboxes. Clients are
separate processes that apply the server's messages in order and send theirs without waiting.

What is hard here: commits and spawns in flight when control changes hands; debounced publication
against immediate effects such as Kill; removal of slow clients *inside* a broadcast; output that
may be in a snapshot and in the stream; a crash between two file operations; threads that hand frames
over through atomics; buffers at their limits; timeouts that must tell a slow
client from a dead one. `PROJECT.json` lists each such hazard at its line, with the properties that
cover it or the module planned for it.

## 2. Modules

### SessionLease (and MCSessionLease)

The server's clients and their flags are sets of ids (`attached`, `read_only`, `parked`,
`requesting_control`, `close_after_flush`, `rows`); `controller`, `input_locked` and
`allow_takeover` are the server's fields; `outbox` is each connection's queue of control frames;
`view` and `remote_drag` are what each UI holds. One action per handler: `Accept`, `Attach` (of a new
client or one that is attached, `MayAttach`), `AttachRefused`, `Disconnect`, `Detach`, `HeartbeatExpire`, `RequestControl`, `GrantControl`,
`DeclineControl`, `SetControlTakeover`, `SetInputLock`, `EvictClient`, `Park`, `Unpark`, `Drag`,
`ReportPaneRows`, `PaneRuntimeChange`.

The response loop is part of the model, because it is where the server is re-entrant: when a frame
does not fit, `remove_client` runs in the middle of the loop, may promote a new controller and
broadcasts messages of its own before the interrupted loop goes on. `stack` is that call stack, one
entry per loop with the messages left and the slow clients left to remove; `Send`, `RemoveSlow`
and `Return` are its steps. `Flush` writes an outbox to the socket and lets the UI apply it
(`ViewAfter`, `DragAfter`). The clients in `Slow` may have a socket that takes nothing. Only the
Attached of `handle_attach` is queued before its responses are composed: when it does not fit
(`AttachOverflow`), the client is removed and its removal broadcast first, and `AttachReplies`
composes the responses from what is left; `attaching` is the handler that waits for this.

The protocol has a client send Attach once, but the server takes another from an attached client
(connection.rs:352) and then replaces its `read_only` only: it keeps the lease, a request for it and
its parking, and may be given a lease that nobody holds. The clients in `Rejoiners` do so, and
`rejoined` remembers the holder of the lease that did.

Abstracted: client names, pane contents, and the frame sizes (the backlog counts frames). A client
that was refused and is to be closed does not try again.

### SharedLayout

A layout document is the set of panes it places and one `arr` tag that stands for everything else
in it, so that an edit is visible as a change. `up` and `down` are the two directions of each
client's connection. `Serve` handles a client's first message (`handle_commit_layout`,
`spawn_shared_pane`, `kill_pane`, `assign_controller` for a request under immediate takeover);
`Receive` applies the first message in a client (`layout_committed`, `layout_rejected`,
`spawn_result`, `controller_changed`, `exited`), including the work each of them ends with:
reconciliation and `pump_shared_spawns`. `flush_layout_commit` is the 16 ms debounced publication.
Users and the outside world are `Edit`, `OpenPane`, `ClosePane`, `TakeControl`, `Leave` and `Exit`;
which of them happen in a run is the constant `Inputs`, and `MaxInputs` bounds them.

### ReplayBarrier

One client's connection against all panes. A screen is a version, advanced by each output frame, and
a geometry; an output frame carries the version it produces and the geometry it was parsed at, so
that `Shown` (what the UI does with a frame: whether it `Fits`, and what is `Drawn`) can record in
`torn` a frame that does not fit. `Kept` is `retain` on a queue, by the places that stay. The
barrier (`conn.seed`), `catch_up`, `resync_pending` and the outbox are the fields of `ClientConn`
and `AttachSeedState`; `push_delta`, `push_live`, `push_catch_up`, `shed_pane` and the rest are
operators of the same names. `flush_client_outbox` may write a frame, begin one (which then cannot
be shed) or write nothing. `Wedge` is a client that stops reading and answering.

Abstracted: every frame has size one; images and frame replacement, program-status baselines and
the 512 KiB round budget are left out; only frames that reach this client are modelled.

### InboundStreams, ByteQueue and InboundMailbox

The client's half of a connection. `ByteQueue` is `session/queue.rs` as operators on a record:
entries with their weight in bytes and media bytes, the running totals, and the index of replaceable
entries with its moving base; `Sums` holds the sums its budgets are about. `InboundMailbox` adds the threads that share one such queue: the
reader that decodes frames (`forward_inbound_trusted`, `enqueue_inbound_frame`), the writer that may
fail the connection, the UI's attach handler (`activate`) and drain (`drain_session_frames`), and the
drop of the transport, which raises the shutdown signal. A queue operation holds the queue's mutex
and is one step; every load, store or exchange of `active`, `scheduled` and `ended` is a step of its
own. The steps interleave sequentially: each atomic access is next to one of the mutex, and `active`
is never cleared, so no weaker order can be observed.

`InboundStreams` is the abstract specification: a set of pending frames, from which the UI may
receive anything whose overtaking nobody can tell. It says when a frame may overtake another and
when a newer image may take the place of an older one. `StreamsKept` states that the mailbox
implements it, with `pending` mapped to the frames in the queue.

Abstracted: a frame is its kind, pane, image and weight; the parser that tells independent graphics
from dependent ones is left out, both kinds of frame are inputs. The writer's own outbound queue uses
the same pushes and is not modelled separately.

### SessionEvents (and MCSessionEvents)

`events.rs` and `subscriptions.rs`: the ring with its two limits (`Retained`), sequence numbers,
subscribers with filters that start now, begin with a snapshot or resume after a cursor (`Subscribe`,
`SubscribeSnapshot`, `Resume`), the record that ends a stream (`Ended`: lagged, or the server stops), the deferred delivery to the
UIs (`FlushOne`, one event per step because a delivery may expire a client, which records an event),
the settling of titles, and the restart of a server under the same name. `srv` is threaded through a
handler like the `&mut self` it stands for. The module's history (`log`, every event of this server;
`from` and `base`, the cursor a stream was opened at; `got`, what its reader has read; `life`, which
of the panes under an id this is) is what the properties compare with.

### Snapshots

`resurrect.rs`: `dirty_generation`, `snapshot_generation` and `persisted_replays` in the loop; a job
captured and handed to the writer thread, whose start may fail (`dispatch_snapshot`); the writer's steps (`Stage`, `Aside`, `Publish`,
`SyncParent`, `DropBackup`, `Report`), each of which may fail; shutdown with its grace, deletion,
rename; and the recovery a starting server runs (`RecoverSelect`, `RecoverRename`, `RecoverSweep`)
before it restores. A removal may fail halfway: of a directory any files may be left (`Remnants`), and
of several any may be (`Leftovers`). A restored pane whose program does not start is in `unstarted`:
it is listed as an exited one, and no later capture contains it. The process may die between any two of these steps, in the recovery too. A
directory on disk is the capture that was wanted and the files it holds; a pane's bytes are the
number of the change that produced them beside the pane's own `content_generation`, so that a reuse
of the wrong file is visible. `opened` counts the programs each pane id has had in this server.

Abstracted: layout.json, other formats, ephemeral sessions, what restored programs do.
The clock that orders backups is assumed to move forward.

### HeldWaits

Requests whose answer the server holds. `agent_waits` and `capture_waits` are the server's maps;
`register_agent_wait`, `AgentPrompt`, `register_capture_wait` register or answer at once; the
operations that change a pane or its agent end with `resolve_agent_waits` (`Becomes`), two of them not
always: `sync_pane_runtime_inner` returns before it when the pane reads as its clients were last told
(`Quietly`), which an edited agent catalog (`apply_agent_definitions`) and the takeover of a pane whose
program has exited (`replace_with_keep_open_shell`, by a shell or by an agent attached to; how many may
still come is the pane's `heirs`) can bring about. `overlooked` holds the agents and panes that ended so
and that nobody has looked at since. `EndRound`
is the end of `pump_iteration`: expired agent waits, then a look at the screens. An answer that does
not fit a stalled client's outbox removes the client, with its other waits.

A screen is its `content_generation`, the number of its last visible change, the lines that show the
awaited text, numbered as they are drawn, and its history epoch; so it is known which text was there
before an input. Time is a small integer. An answered request leaves the state, and `reply` holds the
answers of the last step beside what was asked, for the properties.

Abstracted: text and agent names, the capture a reply carries, the waits a UI serves for itself
(`ops/capture_wait.rs`).

## 3. Runs

All runs use `CHECK_DEADLOCK FALSE`: inputs are bounded and a session may really come to rest.

| Run | Bounds | Shows |
|---|---|---|
| `lease_overflow` | 3 clients, 2 with 3 of 4 frames already queued, one of them free to attach again, 3 events | `LeaseSound`, `ControllerAgreed`, `DragFollowsLease`, `RecursionBounded` under nested removals |
| `lease_views` | 3 clients from the empty server, 2 free to attach again, 6 events, no slow socket | `TypeOK`, `RosterAgreed` |
| `layout_spawns` | 2 clients, 3 panes, 4 inputs | `TypeOK`, `LivePanesPlaced`, `FlightResolves` |
| `layout_handover` | 2 clients, 1 pane, 2 arrangements, 4 inputs | `DocsAgreeWhenQuiet`, `SettlesUnlessGhost` |
| `layout_id_collision` | open and take | violated: `KilledOnlyWhenAsked` |
| `replay_screens` | 3 panes (1 spawned later), outbox 3, catch-up 2, window 2, 4 inputs | `TypeOK`, `TranscriptIntact`, `ControlsInOrder`, `CurrentWhenQuiet` |
| `replay_liveness` | 2 panes, one writing without end, 2 other inputs, versions modulo 2 | `BaselineFinishes`, `CatchesUp`, `WedgedRemovedAfterAttach` |
| `inbound_mixed` | 3 frames of any kind, capacity 3, media 1, merging over 2 units | `QueueSound`, `HandOverSound`, the refinement `StreamsKept` |
| `inbound_liveness` | 3 output frames of two panes and two sizes, capacity 3, merging over 2 units | `EverythingDrained`, `ReaderStops`, `EndReported` |
| `events_streams` | 1 pane, 2 UIs (symmetric), 1 subscriber, ring of 2 events or 3 units, backlog 2, 4 events, 2 servers | `StreamSound`, `LastWord`, `PaneStory`, `UiSound` |
| `snapshots` | 2 names, 2 panes, 2 deaths, and 3 changes, faults and renames together, of which 1 fault and 1 rename | `SavedMarksTrue`, `OneWriter`, `NeverEmptyOverRemains`, `ForgottenIsGone`, `NeverOlder`, `ChangesReachDisk` |
| `held_waits` | 1 pane with or without an agent, its program on its own or with 1 or 2 heirs, a headless and an attached client, 2 states, 3 conditions, timeout 2, settle 0 or 1, 2 ticks, 2 events | `AnsweredOnce`, `NoMissedState`, `PromptAnswerFresh`, `ExactAgent`, `ScreenAnswers`, `DeadlinesKept` |

Some properties are conjunctions of named parts, each with its own comment: `LeaseSound`,
`QueueSound`, `HandOverSound`, `StreamSound`, `PaneStory`, `UiSound`, `SavedMarksTrue`,
`AnsweredOnce`, `ScreenAnswers`.

Why the bounds are enough to be interesting. Three clients are the least that have a removal nested
in a removal and a survivor to see the result; `lease_overflow` starts with outboxes one frame
from full, which a real client reaches by not reading. Two clients are all a hand-over has; four to
six inputs let the lease go there and back with an edit in between. In ReplayBarrier every buffer
is small enough that four inputs fill it, so each of the shedding branches is reached, and a replay
has two chunks so that a pane can be shed in the middle of one. Versions wrap at 4, more than the
frames that can be outstanding for one pane, so no stale frame is taken for a current one. In
`replay_liveness` no property compares versions, so two of them do.

Three frames in the mailbox are an entry, something between, and a frame that would merge with or
replace the first; capacity 3 makes the third wait. Four events overflow a ring of two twice, and are
two joins, an event, and the departure its delivery causes, and an
event of size 4 does not fit the ring at all. Two deaths let a crash of the writer be followed by a
crash of the recovery; three changes open a pane, close it and open another under its id, and one
change, with a fault and a second change, is saved after a failure. In `held_waits` an agent that is idle at the start can work and be idle again
within two events, which is a turn; two outputs restart a settle time; exit and respawn replace a
pane under its id.

Larger instances were checked once and hold as well: `InboundMailbox` with five output frames and
capacity 8 (1.3 million states), `Snapshots` with two faults among four changes and faults and one death
(640,000), `SessionEvents` with five events (2.6 million).

Limits that the passing runs respect and that are the code's:

- `LeaseSound` excepts a holder of the lease that has attached again (`rejoined`), which may be
  read-only, parked, or have a request for control pending (8 below). It is still
  attached, and loses the lease when it leaves.
- `ControllerAgreed` holds although removals nest (`lease_overflow`), but fails once the removed
  client had published rows (1 in the list below), and may leave a client with the name of a slow one
  that attached again: `handle_attach` announces the lease it granted last, behind a roster that may
  have had the holder removed. `ControllersSafe` proves it, without that exception, for
  `Publishers = {}` and slow clients that attach once.
- `RosterAgreed` is checked with sockets that take everything (`lease_views`). With `Slow = {2}`
  and outboxes that start full it fails in the same way: the removal inside the loop sends the newer
  roster first. A backlog that one request and the removals of the others can fill has the same
  effect whoever is slow, so `RostersSafe` is for `Slow = {}` and `MaxBacklog >= 3 * MaxClients`.
- `DocsAgreeWhenQuiet` is checked, and proved (`DocsSafe`), without opens. With
  `Inputs = {"edit", "open", "take", "fail"}` it fails: `reject_shared_spawn` tells a new controller
  that the server's layout is its last commit, so the republication that is due after the hand-over
  never happens. Without "fail" two panes are enough: the spawn is refused because the other client
  has used its id.
- `ForgottenIsGone` excepts a write that outlasts the grace of the shutdown, and a deletion that could
  not remove everything (7 below).
- `CleanIsSaved`, a part of `SavedMarksTrue`, compares every live pane with its file on disk. Two cases
  are excepted. A pane whose program could not be started again is still in the snapshot while the
  server has it as an exited one (10 below). And the file may be another's, where the pane's id had an
  earlier owner (`opened`, 6 below) or the session was renamed and the name it took had files: then
  only what the capture was to save is compared. The first case and the reuse of an id are met by
  `snapshots`; the renamed one needs `MaxEvents = 4`, and was found there.
- `ChangesReachDisk` excepts a server whose writer thread could not be started (9 below).
- `NoMissedState` excepts the two quiet ends (11 below) until the next change of a pane or an agent,
  which looks at all waits; a wait with a timeout ends when that has passed.
- `ReuseSameGeneration`, a part of `SavedMarksTrue`, is stated until the first rename.
  `persisted_replays` survives `rename_session`, so after it a file left under the new name is linked
  as if it were of the present generation. The attempt to prove it without that condition showed it. A
  rename by itself marks nothing dirty, so the new name has no
  snapshot until something changes.
- `SendAnswerFresh` excepts a screen whose history was rewritten: after a reflow old text answers a
  send, though src/docs/control.md:845 says "Only output that arrives after the input counts". The
  comment above `Baseline` (src/src/pane/capture_wait.rs:186) accepts this.

### Where the code and its documentation disagree

`layout_id_collision` has a run: both clients mint ids from their own
counters, and the clean-up of a refused spawn kills whatever runs under its id. The others below are
properties of the modules that TLC refutes with the constants given (those not named are as in the
runs above).

1. `SessionLease`, `ControllerAgreed` with `MaxBacklog = 5, Slow = {2}, Rejoiners = {},
   Publishers = {1}, Joined = 3, Backlog = 4`. Messages are composed before the loop that sends them, and a removal inside the loop
   sends newer ones first: the promoted client overflows on the withdrawn rows, its own removal
   announces another, and the outer loop then announces the first, which is gone (lease.rs:622).
   src/docs/shared-sessions.md:68: "the writable client that has been attached longest becomes
   controller".
2. `SharedLayout`, `CommitsSettle` with `Inputs = {"close", "take"}`. Kill acts at once, the commit
   that follows it is debounced; if control moves in between, the pane stays in the layout and the new
   controller's commits are rejected for ever (connection.rs:880).
   src/src/session/protocol/messages.rs:702: "Sent to the committer only, with the authoritative
   layout so the rejection self-heals".
3. `SharedLayout`, `NoLostUpdate` with `Inputs = {"edit", "take", "leave"}`. Base revisions are
   numbers, and an old commit's number can fit again after the lease has gone away and come back
   (lease.rs:170). src/src/session/server/lease.rs:168: "Non-controller commits are silently dropped".
4. `ReplayBarrier`, `ExitedShownToo` with `MaxPanes = 2, Inputs = {"output", "exit"}, MaxInputs = 6`.
   A pane shed for a slow client that exits before the resync is not replayed (lease.rs:1096).
   src/docs/shared-sessions.md:173: "rozi skips missed output and redraws the pane from its current
   screen".
5. `ReplayBarrier`, `WedgedIsRemoved` with `MaxPanes = 1, Inputs = {"output", "wedge"}, MaxInputs = 2`.
   The heartbeat clock stands still until an attach's replay has been written (lease.rs:696).
   src/docs/shared-sessions.md:172: "A client that stops responding is disconnected so it cannot hold
   layout control or block the session".
6. `Snapshots`, `SnapshotFaithful` with one pane and `MaxChanges = 3, MaxFaults = 0, MaxDeaths = 1,
   MaxRenames = 0, MaxEvents = 3`. `persisted_replays` is keyed by the pane id, and a pane respawned under the id of
   an exited one starts again at `content_generation` 0 (panes.rs:292). When it reaches the number its
   predecessor was saved with, the capture links the predecessor's file (resurrect.rs:670).
   src/src/session/server/resurrect.rs:662: "an idle pane reuses the file the last snapshot already
   wrote for this exact generation".
7. `Snapshots`, `DeletedIsGone`. The result of `finish_snapshots` is ignored, so a write that outlasts
   its grace may publish after the deletion (mod.rs:1958). src/src/session/server/resurrect.rs:1070:
   "both run with no write in flight, so nothing live is swept out from under". `SweptIsGone` fails
   without a late write: a removal that fails is only logged (mod.rs:1959) or ignored
   (resurrect.rs:1209), and a backup that was left is restored. src/src/session/server/resurrect.rs:1189:
   "A leftover that resists removal is not worth failing a delete over: it is already invisible to
   discovery".
8. `SessionLease`, with the constants of its runs: `LeaseHeldByUser` without `rejoined`
   (`lease_overflow`) and `NoSelfRequest` without it (`lease_views`). A client that attaches again keeps
   the lease and becomes read-only, or is given it although it has parked the session, and its pending
   request stays (connection.rs:1389-1408). src/src/session/server/mod.rs:967: "A parked client stays
   attached and keeps receiving output, but never holds the control lease"; src/src/session/server/lease.rs:414
   knows the other case: "A read-only controller cannot evict: it holds the lease only because nobody
   else does". The clients of this repository attach once per connection.
9. `Snapshots`, `RetriedUntilSaved`. A writer thread that could not be started leaves a worker that
   nobody serves (resurrect.rs:112) and that is never replaced (resurrect.rs:493): the attempt is counted
   and never settled, later ones go the same way, and the last save of a shutdown is skipped for it
   (resurrect.rs:615). src/src/session/server/resurrect.rs:469: "A transient filesystem error keeps the
   snapshot dirty for a later retry".
10. `Snapshots`, `UnstartedStaySaved`. A pane whose program cannot be started is kept "Exited(127)"
    (panes.rs:362) with its history on its screen, but the next save leaves exited panes out
    (resurrect.rs:635) and drops the backup: the pane and its history are gone after the next restart.
    The server counts itself saved meanwhile (resurrect.rs:888). No document says so: src/docs/sessions.md:330
    has "a command that fails to start affects only its own pane".
11. `HeldWaits`, `EveryEndNoticed`. `apply_agent_definitions` clears an agent before it asks what has
    changed; the state of an idle agent that is not named again reads the same, so the sync returns
    without a broadcast and without resolving the waits (runtime.rs:1423), and a wait for that agent,
    for "gone" too, sleeps on. A held pane whose program has exited ends in the same way, when a shell
    takes it over (panes.rs:863) or none could be started (panes.rs:888).
    src/src/session/server/runtime.rs:1270: "Re-detection broadcasts, so every attached client converges
    on the same identity and state".

## 4. Fairness

Users, panes' processes, failing sockets and slow readers are never fair. `SharedLayout`'s
`FairSpec` assumes weak fairness of `Serve` (the server polls every client in every round),
`Receive` (the UI's event loop) and `flush_layout_commit` (the debounce timer). `ReplayBarrier`'s
assumes it of the pump, the start of resyncs, the flush and the heartbeat, which `pump_iteration`
calls in every round, and of the socket taking frames as long as the client reads. The liveness
properties make an exception for a client that has left or no longer reads. `InboundMailbox` assumes
that each of its threads goes on when it can: reader, writer, the attach handler, the UI's drain, and
the wake-up of a reader that waits for room (a condition variable, notified by every pop and by the
cancellation). Nothing obliges the server to send, the user to leave or the transport to be
dropped. `Snapshots` assumes it of the server loop and of the writer thread. The number of faults is
bounded, so a write fails finitely often; `ChangesReachDisk` says nothing of a disk that fails for
ever, and excepts a writer thread that could not be started. `SessionEvents` and `HeldWaits` have no liveness properties; deadlines are covered by the
action property `DeadlinesKept`.

## 5. Proofs

Each proof module extends the model it is about. Every safety property that a run checks is a theorem,
`Spec => []P`; three of them have a hypothesis on the constants, without which they do not hold (limits
in section 3). The invariants that the runs check are seldom inductive; what each proof adds is this.

**SessionLeaseProofs**
- `LeaseSafety`: `LeaseSound` (`LeaseHeldByUser`, `LeaseNotIdle`, `NoSelfRequest`). Whoever is promoted
  must still be connected, and a request must come from a writable client: `LeaseInv` adds `FlagsOK`,
  the containments among the sets of ids. Clients may attach again; where the holder of the lease did,
  the theorem says that it is attached, and of an idle lease that nobody could hold it (`rejoined`). `CandidateIsEntitled` states what `promotion_candidate`
  returns. `RemoveSlow` is the interesting step: it may take place anywhere in a nest of loops.
- `TypeCorrect`: `TypeOK`. The work is in the response loops: every message composed, queued and applied
  by a UI has its type, and a frame on the stack names known clients only.
- `RecursionSafe`: `RecursionBounded`. Each nested loop is paid for by a client taken out of `clients`
  before it (`RecursionStep`); handlers start loops only when none is active (`OutermostLoop`).
- `DragsSafe`: `DragFollowsLease`. `DragInv` says of every client that it has no drag of another
  controller left once it has read its outbox (`Settled`), or that the announcement is still on the
  stack, or that it is about to be removed; drags are only sent by loops of their own (`DragsAlone`).
- `RostersSafe`: `RosterAgreed`, while every socket takes its output (`Slow = {}`) and the backlog is not
  shorter than `3 * MaxClients` frames. `RosterInv` says that loops nest in nothing that is left to send
  (`OneLoop`), that a client has room for what one request and the removals of all others still send
  (`RoomLeft`, so nobody is ever removed as slow), that whatever waits on the stack is true of the
  server's present state (`Current`), and that each client knows the lease and the roster once it has
  read its outbox, or that a frame which tells it is on the stack (`Informed`).
- `ControllersSafe`: `ControllerAgreed`, whichever sockets stop and however short the backlog is, when
  no client publishes rows and no slow one attaches again. A stack of nested loops is in one of three states (`HolderInv`). `Fresh`: the
  holder of the lease is named by the first message of the innermost loop or not at all, so that no
  removal can come between a move of the lease and its announcement; and each client has heard of the
  holder or is about to (`Heard`). `Granted`: an
  attach that was given the lease announces it last, behind its roster, and the new holder is still
  there. `Collapsing`: it is not, or is about to go, and the announcement is out of date; but the frame
  that overflowed it has gone to everybody, who were sent all it was but the Attached, so no outbox has
  room and the announcement reaches nobody. TLC checked `HolderInv` with backlogs of 0 to 3 before it
  was proved.

**SharedLayoutProofs**
- `PlacedSafe`: `LivePanesPlaced`. Commits are validated against the panes the server has when they
  arrive, not when they were composed, and spawns publish their placement in the same step.
- `TypesSafe`: `TypeOK`, that no client is ahead of the server or mints an id it has seen. `TypeInv`
  types every frame in flight in both directions, bounded by the revision the server has reached.
- `DocsSafe`: `DocsAgreeWhenQuiet`, without opens. `Agreement` speaks of the last frame of a kind in a
  socket (`Ends`): every client hears last of the present revision and of the present controller
  (`RevisionKnown`, `ControllerKnown`); the controller either still owes a publication (`Owes`) or its
  last commit in flight, or already accepted, carries what it published last (`CommitDue`), and then the
  last layout on its way to everybody else is that one (`Told`).

**SumsProofs** holds what the others share: sums of sequences, the last member of a set in a queue
(`LastIn`, `NoneIn`) when it grows or is read, and induction. `NatInduct`, `LeastNat` and
`GreatestNat` are drawn from the library's theorem that a non-empty set of naturals has a least element;
they speak of a set of numbers instead of a predicate, which the provers can instantiate, and so reach
the recursive functions of the models.

**InboundMailboxProofs**
- `QueueSafe`: `QueueSound`, for the queue operators and then the mailbox. `QInv` says of the entries
  that each is of one stream (`Shape`), that frames of a stream are in order (`InOrder`), what the index
  points at and what lies behind a replaceable entry (`Guarded`).
- `HandOverSafe`: `HandOverSound`. `ControlInv` relates the threads' program counters to the three
  atomics; `EndInv` says who is still to report the end.
- `StreamsRefined`: `StreamsKept`, that every step of the mailbox is a step of `InboundStreams` on
  `Content(q.entries)` or leaves it alone.

**SnapshotsProofs** share one invariant: `Types`; `Threads` (who may be at work in which phase of the
server); `Disk`, what lies under a name while a writer is at each of its stages (`Shelves`, `Progress`);
`Remains`, `Forgetting`, `Marks` and `Linked`, one for each property.
- `WritersSafe`: `OneWriter`. `RemainsFound`: `NeverEmptyOverRemains`. `ForgottenSafe`: `ForgottenIsGone`.
  `MarksSafe`: `SavedMarksTrue`, the marks in the loop against the files on disk: a file is the pane's
  own, or the map of replays to reuse names a pane of which that cannot be known.
  `ForgottenSafe` covers removals that fail: what the deletion could not remove is in `undeleted`.
- `NothingGetsOlder`: the action property `NeverOlder`, per step from the same invariant; the age of what
  is on disk is that of its newest complete directory (`AgeIsNewest`).

**HeldWaitsProofs** share one invariant: `Types`; `Once` (a request is held, answered or gone with its
client, one of the three); `Agented` and `Screened`, which relate each held wait to what its client asked
and to what has happened to its pane since; `Replied`.
- `AnswersSafe`: `AnsweredOnce`. `StatesNoticed`: `NoMissedState`; `Agented` says of each wait that it is
  awake (`Awake`) or has missed its end (`Missed`), and a quiet change makes no wait ready
  (`QuietKeeps`). `PromptsFresh`: `PromptAnswerFresh`.
  `AgentsExact`: `ExactAgent`. `ScreensTrue`: `ScreenAnswers`.
- `DeadlinesSafe`: the action property `DeadlinesKept`.

**SessionEventsProofs** share one invariant, in three parts that meet only in the log. `Running`: events
carry their positions (`Numbered`), the ring is the log's end (`Ringed`), what is undelivered is the end
of its numbers (`Pending`), and each connection is `Served`, what it was sent being the first of the
events it is due, all of them while it is subscribed. `Story`: what has been said of each pane against
what its watch knows. `Audience`: what each UI has heard against what has been delivered.
- `StreamsSound`: `StreamSound`. `LastWordSpoken`: `LastWord`. `StoriesTold`: `PaneStory`.
  `UisInformed`: `UiSound`.
- Eviction (`Retained`), the replay after a cursor (`Replayed`) and the ring's byte count are recursive
  functions; the lemmas about them are by `NatInduct`.

**ReplayBarrierProofs** share one invariant. Frames are queued long before they are shown, so it follows
every pane, and the control frames, as a *lane*: from what the client shows now, through the outbox, the
rest of the replay in progress (`Junction`) and what waits behind it, every frame fits what the one
before it leaves (`Chain`, `Lane`), and the last leaves what the server has, unless the pane is `Stale`:
waiting for its export, outdated, or due for a resync (`Ends`). `ConnOK` holds the rest: the list of
exports is the manifest's (`Listed`), nothing of a pane to be exported waits behind the replay
(`Orderly`), the limits (`Bounded`).
- `TranscriptStaysIntact`: `TranscriptIntact`. The hard part is a shed. `KeptLane` and `KeptSelf` say what
  leaving frames out does to a lane: nothing for the other panes; for the pane itself the frames that
  remain still fit, and a replay the barrier is sending still finds the cleared screen it expects
  (`Like`). `PushDelta` then covers every way a frame is routed (`Routed`), and the pump's steps leave
  every lane where it led (`Same`).
- `ControlsArriveInOrder`: `ControlsInOrder`. `QuietIsCurrent`: `CurrentWhenQuiet`, a lane with no frames.
- `TypeCorrect`: `TypeOK`. A shed always frees the place that is then used (`KeptShort`, `KeptCount`).
- `Kept` is a recursive function; what is true of it is by `KeptBy`, an induction on the places.

The proofs rest on the named assumptions of the modules only, which TLC evaluates in every run. They are
types of the bounds; that sets that are told apart are disjoint (`None` is no pane, no state, no time;
headless clients are not attached ones); that the clients of `SharedLayout` are a non-empty set of
positive numbers, and "none" no arrangement; that timeouts are positive and request ids are not the 0 that marks a capture wait
(`WaitsAssumption`); that the send window of a replay is no larger than the outbox (`SizesAssumption`);
and the shape of the frames a server sends (`FramesAssumption`).

Only model-checked:
- liveness and everything about fairness, which the prover does not handle: `FlightResolves`,
  `SettlesUnlessGhost`, `BaselineFinishes`, `CatchesUp`, `WedgedRemovedAfterAttach`, `EverythingDrained`,
  `ReaderStops`, `EndReported` and `ChangesReachDisk`.

## 6. Plan

1. `MediaFence`: order of a client's messages behind uploads. `Reconnect` with the rename's swap of
   listeners, `AlertClaim`, `Supervisor`.
2. Tiling operations as operators against a reference definition.

## 7. Not modelled

Rendering, input handling, configuration, the command line, recording, git and platform code are
sequential or pure input and output. Encoding of messages is generated by serde. Image codecs and
their pacing are data processing. The proxy of remote sessions copies bytes. Deployments and
invocations run workers whose results are answered like a held wait. The media fence, reconnection and
rename, alert claims, the extension supervisor and the tiling algorithms have state worth modelling
and are in the plan; their hazards are listed without a property in `PROJECT.json`.

Most of the repository by lines is user interface, configuration, command line and tests. The models
cover the session server's shared state and the client code that answers to it.
