--------------------------- MODULE SessionEvents ---------------------------
(***************************************************************************)
(* The events a session server raises, the ring it keeps of them, and      *)
(* their two audiences: `subscribe` connections, which stream records and  *)
(* may resume after a cursor, and attached UIs, which run hooks on them.   *)
(*                                                                         *)
(* Source: src/src/session/server/events.rs and subscriptions.rs, with the *)
(* places that raise events (panes.rs, runtime.rs, lease.rs, connection.rs)*)
(*                                                                         *)
(* The server is one thread, so a handler is one step; `srv` holds what a  *)
(* handler changes and is threaded through the events it records.  Sending *)
(* an event to the UIs is put off to the next flush, one event per step,   *)
(* because a slow UI may be expired between two of them.                   *)
(*                                                                         *)
(* `log`, and the `from`, `base` and `got` of a connection, are history:   *)
(* what was ever recorded, where a stream began and what its reader read.  *)
(***************************************************************************)
EXTENDS Integers, Sequences, SequencesExt, FiniteSets, FiniteSetsExt, Sums

CONSTANTS Panes, UIs, Readers,
          Titles,          \* titles a program may set; the first screen shows InitialTitle
          InitialTitle,
          Filters,         \* sets of event kinds a subscriber may name
          Sizes,           \* encoded sizes of an event
          MaxRing,         \* max_events
          MaxBytes,        \* max_bytes
          MaxBacklog,      \* max_backlog, in records
          MaxEvents,       \* bound: events recorded by one server
          MaxRuns,         \* bound: servers started under this name
          None

ASSUME SizesAssumption ==
  /\ Sizes \subseteq Nat /\ {MaxRing, MaxBytes, MaxBacklog, MaxEvents} \subseteq Nat
  /\ MaxRuns \in Nat \ {0}

ASSUME NamesAssumption == InitialTitle \in Titles /\ None \notin Panes

VARIABLES run,             \* which server this is: SessionInstanceId
          srv,             \* [log, ring, undelivered, conn]
          pane,            \* pane -> its PaneEventWatch and life
          ui,              \* UI -> the messages queued to it since it attached, or None
          phase            \* "work", "flush" or "stopping"; or the UI an attach flushes for

vars == <<run, srv, pane, ui, phase>>

latest == Len(srv.log)

\* A connection that streams records: <<"event", seq>>, <<"snapshot", seq>>,
\* <<"lagged", 0>>, <<"ended", 0>>.
Closed == [open |-> FALSE, sub |-> FALSE, closing |-> FALSE, filter |-> {}, base |-> 0,
           from |-> 0, out |-> <<>>, got |-> <<>>]

Absent == [here |-> FALSE, life |-> 0, reported |-> None, pending |-> None, exit_recorded |-> FALSE]

----------------------------------------------------------------------------
(* SessionEventBuffer                                                      *)

Bytes(events) == Total([i \in DOMAIN events |-> events[i].size], Len(events))

\* record: evict from the front until the newcomer fits.  One too large to
\* keep empties the ring, so that no cursor can step over it.
Retained(ring, e) ==
  IF MaxRing = 0 \/ e.size > MaxBytes THEN <<>>
  ELSE LET fits(k) == k < MaxRing /\ Bytes(SubSeq(ring, Len(ring) - k + 1, Len(ring))) + e.size <= MaxBytes
           keep == Max({0} \cup {k \in 1..Len(ring) : fits(k)})
       IN Append(SubSeq(ring, Len(ring) - keep + 1, Len(ring)), e)

\* after: the retained events beyond a cursor, or None for CursorExpired.
After(instance, seq) ==
  IF instance # run \/ seq > latest THEN None
  ELSE IF seq = latest THEN <<>>
  ELSE IF srv.ring = <<>> THEN None
  ELSE IF seq + 1 < srv.ring[1].seq THEN None
  ELSE SubSeq(srv.ring, seq + 1 - srv.ring[1].seq + 1, Len(srv.ring))

----------------------------------------------------------------------------
(* Subscribers                                                             *)

\* Mutant: the last record is subject to the backlog limit.
EndedIfRoom(c, record) ==
  [c EXCEPT !.sub = FALSE, !.closing = TRUE, !.out = IF Len(@) < MaxBacklog THEN Append(@, record) ELSE @]

\* end_subscriber: its last record goes past the backlog limit.
Ended(c, record) == [c EXCEPT !.sub = FALSE, !.closing = TRUE, !.out = Append(@, record)]

\* Mutant: a record that does not fit is dropped and the stream goes on.
DispatchedOrDropped(c, e) ==
  IF c.sub /\ e.kind \in c.filter /\ Len(c.out) < MaxBacklog
  THEN [c EXCEPT !.out = Append(@, <<"event", e.seq>>)] ELSE c

\* dispatch_session_subscribers, for one connection.
Dispatched(c, e) ==
  IF ~ (c.sub /\ e.kind \in c.filter) THEN c
  ELSE IF Len(c.out) < MaxBacklog THEN [c EXCEPT !.out = Append(@, <<"event", e.seq>>)]
  ELSE Ended(c, <<"lagged", 0>>)

\* record_session_event
Record(s, kind, p, was, now, size) ==
  LET e == [seq |-> Len(s.log) + 1, kind |-> kind, pane |-> p,
            life |-> IF p = None THEN 0 ELSE pane[p].life + (IF kind = "spawned" THEN 1 ELSE 0),
            was |-> was, now |-> now, size |-> size]
  IN [log |-> Append(s.log, e),
      ring |-> Retained(s.ring, e),
      undelivered |-> Append(s.undelivered, e.seq),
      conn |-> [r \in Readers |-> Dispatched(s.conn[r], e)]]

\* Broadcast: every attached UI is queued the state as of event n, unless that
\* is what it was queued last.
Told(n) == [u \in UIs |-> IF ui[u] = None \/ Last(ui[u]) = <<"state", n>> THEN ui[u]
                          ELSE Append(ui[u], <<"state", n>>)]

Working == phase = "work" /\ run > 0

\* A handler that leaves the server at srv', with its state messages queued.
Publish(s) ==
  /\ Len(s.log) <= MaxEvents
  /\ srv' = s
  /\ ui' = Told(Len(s.log))

----------------------------------------------------------------------------
(* What raises events                                                      *)

\* spawn_shared_pane: the runtime state of a pane being spawned is silent, then
\* pane-spawned, then the layout that shows it.
Spawn(p) ==
  /\ Working /\ ~ pane[p].here
  /\ Publish(Record(Record(srv, "spawned", p, None, None, 1), "layout", None, None, None, 1))
  /\ pane' = [pane EXCEPT ![p] = [here |-> TRUE, life |-> @.life + 1, reported |-> InitialTitle,
                                  pending |-> None, exit_recorded |-> FALSE]]
  /\ UNCHANGED <<run, phase>>

\* watch_output, PaneTitleWatch::observe
ObserveTitle(p, title) ==
  /\ Working /\ pane[p].here /\ ~ pane[p].exit_recorded
  /\ pane' = [pane EXCEPT ![p].pending = IF title = pane[p].reported THEN None ELSE title]
  /\ UNCHANGED <<run, srv, ui, phase>>

\* flush_pane_titles: a title that has held still long enough.
SettleTitle(p) ==
  /\ Working /\ pane[p].here /\ pane[p].pending # None
  /\ Publish(Record(srv, "title", p, pane[p].reported, pane[p].pending, 1))
  /\ pane' = [pane EXCEPT ![p].reported = pane[p].pending, ![p].pending = None]
  /\ UNCHANGED <<run, phase>>

\* Mutant: a pane is talked about after its exit.
RuntimeChangeLoud(p, size) ==
  /\ Working /\ pane[p].here
  /\ Publish(Record(srv, "status", p, None, None, size))
  /\ UNCHANGED <<run, pane, phase>>

\* finish_pane_runtime_change: a change of status, cwd, agent or foreground,
\* and bells.  A pane whose exit was recorded stays silent.
RuntimeChange(p, size) ==
  /\ Working /\ pane[p].here
  /\ Publish(IF pane[p].exit_recorded THEN srv ELSE Record(srv, "status", p, None, None, size))
  /\ UNCHANGED <<run, pane, phase>>

\* record_pane_exited: a title still waiting to settle goes first.
Exit(p) ==
  /\ Working /\ pane[p].here /\ ~ pane[p].exit_recorded
  /\ LET settled == IF pane[p].pending = None THEN srv
                    ELSE Record(srv, "title", p, pane[p].reported, pane[p].pending, 1)
     IN Publish(Record(settled, "exited", p, None, None, 1))
  /\ pane' = [pane EXCEPT ![p].exit_recorded = TRUE, ![p].pending = None,
                          ![p].reported = IF pane[p].pending = None THEN @ ELSE pane[p].pending]
  /\ UNCHANGED <<run, phase>>

\* Kill removes the pane and says nothing; close-pane also takes it out of the
\* layout.
Kill(p) ==
  /\ Working /\ pane[p].here
  /\ pane' = [pane EXCEPT ![p] = [Absent EXCEPT !.life = pane[p].life]]
  /\ UNCHANGED <<run, srv, ui, phase>>

ClosePane(p) ==
  /\ Working /\ pane[p].here
  /\ Publish(Record(srv, "layout", None, None, None, 1))
  /\ pane' = [pane EXCEPT ![p] = [Absent EXCEPT !.life = pane[p].life]]
  /\ UNCHANGED <<run, phase>>

----------------------------------------------------------------------------
(* Attached UIs                                                            *)

\* flush_session_events begins: before sockets are written, and before an
\* attach, whose reply already shows what those events are about.
BeginFlush ==
  /\ Working /\ srv.undelivered # <<>>
  /\ phase' = "flush"
  /\ UNCHANGED <<run, srv, pane, ui>>

BeginAttach(u) ==
  /\ Working /\ ui[u] = None
  /\ phase' = u
  /\ UNCHANGED <<run, srv, pane, ui>>

Flushing == phase = "flush" \/ phase \in UIs

FlushOne ==
  /\ Flushing /\ srv.undelivered # <<>>
  /\ ui' = [u \in UIs |-> IF ui[u] = None THEN None
                          ELSE Append(ui[u], <<"event", Head(srv.undelivered)>>)]
  /\ srv' = [srv EXCEPT !.undelivered = Tail(@)]
  /\ UNCHANGED <<run, pane, phase>>

EndFlush ==
  /\ phase = "flush" /\ srv.undelivered = <<>>
  /\ phase' = "work"
  /\ UNCHANGED <<run, srv, pane, ui>>

\* Mutant: attaching does not flush first.
AttachUnflushed(u) ==
  /\ phase = u /\ latest < MaxEvents
  /\ srv' = Record(srv, "joined", None, None, None, 1)
  /\ ui' = [Told(latest + 1) EXCEPT ![u] = <<<<"state", latest>>, <<"state", latest + 1>>>>]
  /\ phase' = "work"
  /\ UNCHANGED <<run, pane>>

\* handle_attach, after its flush: the reply, client-joined, the new roster.
Attach(u) ==
  /\ phase = u /\ srv.undelivered = <<>> /\ latest < MaxEvents
  /\ srv' = Record(srv, "joined", None, None, None, 1)
  /\ ui' = [Told(latest + 1) EXCEPT ![u] = <<<<"state", latest>>, <<"state", latest + 1>>>>]
  /\ phase' = "work"
  /\ UNCHANGED <<run, pane>>

\* remove_client: a UI that detached, hung up, went silent or fell behind.
\* The last of these happens in the middle of a flush.
Leave(u) ==
  /\ (Working \/ Flushing) /\ ui[u] # None /\ latest < MaxEvents
  /\ srv' = Record(srv, "left", None, None, None, 1)
  /\ ui' = [Told(latest + 1) EXCEPT ![u] = None]
  /\ UNCHANGED <<run, pane, phase>>

----------------------------------------------------------------------------
(* Subscriptions                                                           *)

\* The records of those replayed events that the subscriber wants.
Replayed(filter, replay) ==
  LET queued[n \in 0..Len(replay)] ==
        IF n = 0 THEN <<>>
        ELSE IF replay[n].kind \in filter THEN Append(queued[n - 1], <<"event", replay[n].seq>>)
        ELSE queued[n - 1]
  IN queued[Len(replay)]

\* open_subscription, beginning after event `base` of server `from`.  A
\* connection that cannot take its first records is dropped, unregistered.
Open(r, filter, from, base, records) ==
  srv' = [srv EXCEPT !.conn[r] =
            IF Len(records) > MaxBacklog THEN Closed
            ELSE [Closed EXCEPT !.open = TRUE, !.sub = TRUE, !.filter = filter,
                                !.base = base, !.from = from, !.out = records]]

Subscribe(r, filter) ==
  /\ Working /\ ~ srv.conn[r].open
  /\ Open(r, filter, run, latest, <<>>)
  /\ UNCHANGED <<run, pane, ui, phase>>

SubscribeSnapshot(r, filter) ==
  /\ Working /\ ~ srv.conn[r].open
  /\ Open(r, filter, run, latest, <<<<"snapshot", latest>>>>)
  /\ UNCHANGED <<run, pane, ui, phase>>

\* A refused cursor leaves everything as it was.
Resume(r, filter, instance, seq) ==
  /\ Working /\ ~ srv.conn[r].open
  /\ After(instance, seq) # None
  /\ Open(r, filter, instance, seq, Replayed(filter, After(instance, seq)))
  /\ UNCHANGED <<run, pane, ui, phase>>

\* The reader takes a record off its socket.
Read(r) ==
  /\ srv.conn[r].open /\ srv.conn[r].out # <<>>
  /\ LET c == srv.conn[r]
     IN srv' = [srv EXCEPT !.conn[r] = [c EXCEPT !.out = Tail(c.out), !.got = Append(c.got, Head(c.out))]]
  /\ UNCHANGED <<run, pane, ui, phase>>

\* close_after_flush
Hangup(r) ==
  /\ srv.conn[r].open /\ srv.conn[r].closing /\ srv.conn[r].out = <<>>
  /\ srv' = [srv EXCEPT !.conn[r].open = FALSE]
  /\ UNCHANGED <<run, pane, ui, phase>>

\* The connection is lost, with what was queued on it.
Cut(r) ==
  /\ srv.conn[r].open
  /\ srv' = [srv EXCEPT !.conn[r] = Closed]
  /\ UNCHANGED <<run, pane, ui, phase>>

----------------------------------------------------------------------------
(* The server's life                                                       *)

\* end_session_subscribers, as a stopping server's last act.
Stop ==
  /\ Working
  /\ srv' = [srv EXCEPT !.conn = [r \in Readers |->
               IF srv.conn[r].sub THEN Ended(srv.conn[r], <<"ended", 0>>) ELSE srv.conn[r]]]
  /\ phase' = "stopping"
  /\ UNCHANGED <<run, pane, ui>>

\* A crash at any time, or the end of the farewell; another server starts under
\* the name with an instance of its own.
Restart ==
  /\ run < MaxRuns
  /\ run' = run + 1
  /\ srv' = [log |-> <<>>, ring |-> <<>>, undelivered |-> <<>>, conn |-> [r \in Readers |-> Closed]]
  /\ pane' = [p \in Panes |-> Absent]
  /\ ui' = [u \in UIs |-> None]
  /\ phase' = "work"

Init ==
  /\ run = 1
  /\ srv = [log |-> <<>>, ring |-> <<>>, undelivered |-> <<>>, conn |-> [r \in Readers |-> Closed]]
  /\ pane = [p \in Panes |-> Absent]
  /\ ui = [u \in UIs |-> None]
  /\ phase = "work"

Next ==
  \/ \E p \in Panes : \/ Spawn(p) \/ SettleTitle(p) \/ Exit(p) \/ Kill(p) \/ ClosePane(p)
                      \/ \E title \in Titles : ObserveTitle(p, title)
                      \/ \E size \in Sizes : RuntimeChange(p, size)
  \/ BeginFlush \/ FlushOne \/ EndFlush
  \/ \E u \in UIs : BeginAttach(u) \/ Attach(u) \/ Leave(u)
  \/ \E r \in Readers : \/ Read(r) \/ Hangup(r) \/ Cut(r)
                        \/ \E filter \in Filters : \/ Subscribe(r, filter)
                                                   \/ SubscribeSnapshot(r, filter)
                                                   \/ \E i \in 1..run, n \in 0..(MaxEvents + 1) :
                                                        Resume(r, filter, i, n)
  \/ Stop \/ Restart

Spec == Init /\ [][Next]_vars
----------------------------------------------------------------------------
Event == [seq : 1..MaxEvents, kind : {"spawned", "layout", "title", "status", "exited", "joined", "left"},
          pane : Panes \cup {None}, life : Nat, was : Titles \cup {None}, now : Titles \cup {None},
          size : Nat]

StreamRecord == {"event", "snapshot", "lagged", "ended"} \X (0..MaxEvents)

Connection == [open : BOOLEAN, sub : BOOLEAN, closing : BOOLEAN, filter : Filters \cup {{}},
               base : 0..MaxEvents, from : 0..MaxRuns, out : Seq(StreamRecord), got : Seq(StreamRecord)]

Server == [log : Seq(Event), ring : Seq(Event), undelivered : Seq(1..MaxEvents),
           conn : [Readers -> Connection]]

UiMessage == {"state", "event"} \X (0..MaxEvents)

PaneWatch == [here : BOOLEAN, life : Nat, reported : Titles \cup {None},
              pending : Titles \cup {None}, exit_recorded : BOOLEAN]

\* Every record, queue and watch is of its type, and no connection is owed more
\* than its backlog and one last record (MAX_BACKLOG, end_subscriber).
TypeOK ==
  /\ run \in 1..MaxRuns
  /\ srv \in Server
  /\ \A r \in Readers : Len(srv.conn[r].out) <= MaxBacklog + 1
  /\ pane \in [Panes -> PaneWatch]
  /\ \A u \in UIs : ui[u] # None => ui[u] \in Seq(UiMessage)
  /\ phase \in {"work", "flush", "stopping"} \cup UIs

\* The ring is the tail of everything recorded, within both limits: what it
\* holds has no hole, and what it lost is all older than what it holds.
RingIsTail ==
  /\ Len(srv.ring) <= latest
  /\ \A i \in DOMAIN srv.ring : srv.ring[i] = srv.log[latest - Len(srv.ring) + i]
  /\ Len(srv.ring) <= MaxRing /\ Bytes(srv.ring) <= MaxBytes

\* The events that a list of records tells of, and that it tells them in order
\* and once.
Numbers(records) == {records[i][2] : i \in {j \in DOMAIN records : records[j][1] = "event"}}

Increasing(records) ==
  \A i, j \in DOMAIN records :
    i < j /\ records[i][1] = "event" /\ records[j][1] = "event" => records[i][2] < records[j][2]

\* What a connection's reader has read or will read.
Stream(c) == c.got \o c.out

Wanted(c) == {n \in (c.base + 1)..latest : srv.log[n].kind \in c.filter}

\* A stream carries every event its reader named since the point it asked for,
\* in order and once, through replay, live delivery and the moment between
\* them; and if the server stops streaming it has been told everything up to
\* that point.  A cursor of another run opens no stream.
StreamGapless ==
  \A r \in Readers :
    LET c == srv.conn[r]
        told == Numbers(Stream(c))
    IN c.open \/ c.closing =>
         /\ c.from = run
         /\ Increasing(Stream(c)) /\ told \subseteq Wanted(c)
         /\ \A n \in told, missed \in Wanted(c) \ told : n < missed
         /\ c.sub => told = Wanted(c)

IsFinal(record) == record[1] \in {"lagged", "ended"}

\* A stream the server ends says why before it closes, and says nothing after;
\* and it is not closed before its reader has had that.
LastWord ==
  \A r \in Readers :
    LET c == srv.conn[r]
        s == Stream(c)
    IN /\ c.closing => s # <<>> /\ IsFinal(s[Len(s)])
       /\ \A i \in DOMAIN s : IsFinal(s[i]) => i = Len(s) /\ c.closing
       /\ ~ c.open => c.out = <<>>

\* What a subscriber reads is what happened, from the ring and live alike
\* (SessionEventBuffer::record and after, open_subscription, dispatch_session_subscribers).
StreamSound == TypeOK /\ RingIsTail /\ StreamGapless

\* Nothing is said about a pane before pane-spawned or after pane-exited
\* (finish_pane_runtime_change, record_pane_exited, flush_pane_titles).
PaneSpan ==
  \A i, j \in 1..latest :
    LET a == srv.log[i]
        b == srv.log[j]
    IN i < j /\ a.pane # None /\ a.pane = b.pane /\ a.life = b.life =>
         a.kind # "exited" /\ b.kind # "spawned"

\* `title` is what a pane was last reported to show before event n of a log.
Stands(log, n, p, life, title) ==
  LET before == {i \in 1..(n - 1) : log[i].kind = "title" /\ log[i].pane = p /\ log[i].life = life}
  IN /\ before = {} => title = InitialTitle
     /\ \A i \in before : (\A k \in before : k <= i) => title = log[i].now

\* The titles reported for a pane chain: each change starts from the title the
\* one before it ended on, and is a change.
TitleChain ==
  \A j \in 1..latest :
    LET b == srv.log[j]
    IN b.kind = "title" => b.was # b.now /\ Stands(srv.log, j, b.pane, b.life, b.was)

\* The events of a pane tell its story in order, although its titles, its
\* status and its exit are found by different paths.
PaneStory == PaneSpan /\ TitleChain

\* The events delivered to the UIs so far.
delivered == latest - Len(srv.undelivered)

\* A UI hears each event recorded since its attach reply, in order and once.
UiGapless ==
  /\ \A i \in DOMAIN srv.undelivered : srv.undelivered[i] = delivered + i
  /\ \A u \in UIs :
       ui[u] # None => Increasing(ui[u]) /\ Numbers(ui[u]) = (ui[u][1][2] + 1)..delivered

\* A UI hears of a change only after the message that shows it the change
\* (flush_session_events).
UiInformed ==
  \A u \in UIs :
    ui[u] # None => \A i \in DOMAIN ui[u] :
      ui[u][i][1] = "event" => \E j \in 1..(i - 1) : ui[u][j][1] = "state" /\ ui[u][j][2] >= ui[u][i][2]

\* A UI's events fit what it has been shown: none missing, repeated or early
\* (process_client_control_now, flush_session_events).
UiSound == UiGapless /\ UiInformed
=============================================================================
