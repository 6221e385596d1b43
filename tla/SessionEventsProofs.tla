------------------------ MODULE SessionEventsProofs ------------------------
(***************************************************************************)
(* Proofs about SessionEvents for any panes, UIs and subscribers, any      *)
(* limits of the ring and of the backlog, and any number of events.        *)
(*                                                                         *)
(* A handler may record several events, so the parts of the invariant are  *)
(* predicates of a server `s`, a log or a connection `c`, and recording    *)
(* one event is treated once.                                              *)
(***************************************************************************)
EXTENDS SessionEvents, SumsProofs

----------------------------------------------------------------------------
(* The inductive invariant                                                 *)

\* An event's number is its place.
Numbered(log) == \A i \in 1..Len(log) : log[i].seq = i

\* The ring is the end of the log.
Ringed(s) ==
  /\ Len(s.ring) <= Len(s.log)
  /\ \A i \in 1..Len(s.ring) : s.ring[i] = s.log[Len(s.log) - Len(s.ring) + i]
  /\ Len(s.ring) <= MaxRing /\ Bytes(s.ring) <= MaxBytes

\* What is undelivered is the end of the log's numbers.
Pending(s) ==
  /\ Len(s.undelivered) <= Len(s.log)
  /\ \A i \in 1..Len(s.undelivered) :
       s.undelivered[i] = Len(s.log) - Len(s.undelivered) + i

\* A list of records tells the first of the events W, in order and once.
Follows(records, W) ==
  /\ Increasing(records) /\ Numbers(records) \subseteq W
  /\ \A n \in Numbers(records), missed \in W \ Numbers(records) : n < missed

Due(c, log) == {n \in (c.base + 1)..Len(log) : log[n].kind \in c.filter}

\* What is true of one connection to server n.
Backlogged(c) ==
  /\ c.sub => c.open /\ ~ c.closing /\ Len(c.out) <= MaxBacklog
  /\ Len(c.out) <= MaxBacklog + 1
  /\ ~ c.open => c.out = <<>>

Worded(c) ==
  /\ c.closing => Stream(c) # <<>> /\ IsFinal(Stream(c)[Len(Stream(c))])
  /\ \A i \in DOMAIN Stream(c) : IsFinal(Stream(c)[i]) => i = Len(Stream(c)) /\ c.closing

Streamed(c, log, n) ==
  c.open \/ c.closing =>
    /\ c.from = n /\ c.base <= Len(log)
    /\ Follows(Stream(c), Due(c, log))
    /\ c.sub => Numbers(Stream(c)) = Due(c, log)

Served(c, log, n) == c \in Connection /\ Backlogged(c) /\ Worded(c) /\ Streamed(c, log, n)

\* A server, run n.
Running(s, n) ==
  /\ s \in Server /\ Len(s.log) <= MaxEvents
  /\ Numbered(s.log) /\ Ringed(s) /\ Pending(s)
  /\ \A r \in Readers : Served(s.conn[r], s.log, n)

\* The events of a pane's lives so far, against what its watch w holds.
Watched(log, p, w) ==
  /\ \A i \in 1..Len(log) : log[i].pane = p =>
       log[i].life <= w.life /\ (log[i].life = w.life /\ log[i].kind = "exited" => w.exit_recorded \/ ~ w.here)
  /\ w.here => w.reported \in Titles /\ Stands(log, Len(log) + 1, p, w.life, w.reported)
  /\ w.pending # None => w.here /\ ~ w.exit_recorded /\ w.pending # w.reported

Spanned(log) ==
  \A i, j \in 1..Len(log) :
    i < j /\ log[i].pane # None /\ log[i].pane = log[j].pane /\ log[i].life = log[j].life =>
      log[i].kind # "exited" /\ log[j].kind # "spawned"

Chained(log) ==
  \A j \in 1..Len(log) :
    log[j].kind = "title" =>
      log[j].pane # None /\ log[j].was # log[j].now /\ Stands(log, j, log[j].pane, log[j].life, log[j].was)

Story(log, watch) == Spanned(log) /\ Chained(log) /\ \A p \in Panes : Watched(log, p, watch[p])

\* A UI's messages m, when events up to d of n have been delivered.
Heard(m, d, n) ==
  /\ m \in Seq(UiMessage) /\ m # <<>> /\ m[1][1] = "state" /\ m[1][2] <= d
  /\ Increasing(m) /\ Numbers(m) = (m[1][2] + 1)..d
  /\ \A i \in DOMAIN m : m[i][1] = "event" => \E j \in 1..(i - 1) : m[j][1] = "state" /\ m[j][2] >= m[i][2]
  /\ \E j \in DOMAIN m : m[j] = <<"state", n>>

Audience(s, messages) ==
  \A u \in UIs : messages[u] # None => Heard(messages[u], Len(s.log) - Len(s.undelivered), Len(s.log))

Inv ==
  /\ run \in 1..MaxRuns /\ phase \in {"work", "flush", "stopping"} \cup UIs
  /\ pane \in [Panes -> PaneWatch]
  /\ Running(srv, run) /\ Story(srv.log, pane) /\ Audience(srv, ui)

\* The invariant says what the runs check.
LEMMA InvImplies ==
  ASSUME Inv
  PROVE  StreamSound /\ LastWord /\ PaneStory /\ UiSound
<1>1. srv \in Server /\ srv.log \in Seq(Event) /\ srv.ring \in Seq(Event) /\ srv.undelivered \in Seq(1..MaxEvents)
  BY DEF Inv, Running, Server
<1>2. TypeOK
  BY <1>1 DEF Inv, Running, TypeOK, Served, Backlogged, Audience, Heard
<1>3. RingIsTail
  <2>1. DOMAIN srv.ring = 1..Len(srv.ring)
    BY <1>1
  <2>2. Ringed(srv)
    BY DEF Inv, Running
  <2> QED
    BY <2>1, <2>2 DEF Ringed, RingIsTail, latest
<1>4. StreamGapless
  <2>1. \A r \in Readers : Due(srv.conn[r], srv.log) = Wanted(srv.conn[r])
    BY DEF Due, Wanted, latest
  <2>2. \A r \in Readers : Streamed(srv.conn[r], srv.log, run)
    BY DEF Inv, Running, Served
  <2> QED
    BY <2>1, <2>2 DEF Streamed, Follows, StreamGapless
<1>5. LastWord
  BY DEF Inv, Running, Served, Worded, Backlogged, LastWord
<1>6. PaneStory
  BY DEF Inv, Story, Spanned, Chained, PaneStory, PaneSpan, TitleChain, latest
<1>7. UiSound
  <2>1. UiGapless
    <3>1. DOMAIN srv.undelivered = 1..Len(srv.undelivered)
      BY <1>1
    <3>2. Pending(srv) /\ Audience(srv, ui)
      BY DEF Inv, Running
    <3> QED
      BY <3>1, <3>2 DEF Pending, Audience, Heard, UiGapless, delivered, latest
  <2>2. UiInformed
    BY DEF Inv, Audience, Heard, UiInformed
  <2> QED
    BY <2>1, <2>2 DEF UiSound
<1> QED
  BY <1>2, <1>3, <1>4, <1>5, <1>6, <1>7 DEF StreamSound

----------------------------------------------------------------------------
(* Lists of records                                                        *)

\* One more record.
LEMMA NumbersAppend ==
  ASSUME NEW R, NEW m \in Seq(R), NEW x
  PROVE  /\ x[1] = "event" => Numbers(Append(m, x)) = Numbers(m) \cup {x[2]}
         /\ x[1] # "event" => Numbers(Append(m, x)) = Numbers(m)
<1> DEFINE t == Append(m, x)
<1>1. /\ DOMAIN t = 1..(Len(m) + 1) /\ DOMAIN m = 1..Len(m) /\ Len(m) \in Nat
      /\ \A i \in 1..Len(m) : t[i] = m[i]
      /\ t[Len(m) + 1] = x
  OBVIOUS
<1> HIDE DEF t
<1>2. Numbers(m) \subseteq Numbers(t)
  BY <1>1 DEF Numbers
<1>3. \A n \in Numbers(t) : n \in Numbers(m) \/ (x[1] = "event" /\ n = x[2])
  <2> SUFFICES ASSUME NEW i \in DOMAIN t, t[i][1] = "event"
               PROVE  t[i][2] \in Numbers(m) \/ (x[1] = "event" /\ t[i][2] = x[2])
    BY DEF Numbers
  <2>1. CASE i \in 1..Len(m)
    BY <1>1, <2>1 DEF Numbers
  <2>2. CASE i = Len(m) + 1
    BY <1>1, <2>2
  <2> QED
    BY <1>1, <2>1, <2>2
<1>4. x[1] = "event" => x[2] \in Numbers(t)
  BY <1>1 DEF Numbers
<1> QED
  BY <1>2, <1>3, <1>4 DEF t

LEMMA IncreasingAppend ==
  ASSUME NEW R, NEW m \in Seq(R), NEW x, Increasing(m),
         x[1] = "event" => \A n \in Numbers(m) : n < x[2]
  PROVE  Increasing(Append(m, x))
<1> DEFINE t == Append(m, x)
<1>1. /\ DOMAIN t = 1..(Len(m) + 1) /\ DOMAIN m = 1..Len(m) /\ Len(m) \in Nat
      /\ \A i \in 1..Len(m) : t[i] = m[i]
      /\ t[Len(m) + 1] = x
  OBVIOUS
<1> HIDE DEF t
<1>2. SUFFICES ASSUME NEW i \in DOMAIN t, NEW j \in DOMAIN t, i < j, t[i][1] = "event", t[j][1] = "event"
               PROVE  t[i][2] < t[j][2]
  BY DEF Increasing, t
<1>3. i \in DOMAIN m /\ t[i] = m[i]
  BY <1>1, <1>2
<1>4. CASE j \in 1..Len(m)
  BY <1>1, <1>2, <1>3, <1>4 DEF Increasing
<1>5. CASE j = Len(m) + 1
  <2>1. m[i][2] \in Numbers(m)
    BY <1>2, <1>3 DEF Numbers
  <2> QED
    BY <1>1, <1>2, <1>3, <1>5, <2>1
<1> QED
  BY <1>1, <1>4, <1>5

\* Appending to what is queued is appending to the stream.
LEMMA StreamAppend ==
  ASSUME NEW R, NEW g \in Seq(R), NEW o \in Seq(R), NEW x \in R
  PROVE  g \o Append(o, x) = Append(g \o o, x)
OBVIOUS

\* Reading moves a record along the stream.
LEMMA StreamRead ==
  ASSUME NEW R, NEW g \in Seq(R), NEW o \in Seq(R), o # <<>>
  PROVE  /\ Append(g, Head(o)) \in Seq(R) /\ Tail(o) \in Seq(R)
         /\ Append(g, Head(o)) \o Tail(o) = g \o o
OBVIOUS

----------------------------------------------------------------------------
(* One connection                                                          *)

\* A connection's parts.
LEMMA ConnectionType ==
  ASSUME NEW c \in Connection
  PROVE  /\ c.out \in Seq(StreamRecord) /\ c.got \in Seq(StreamRecord) /\ Stream(c) \in Seq(StreamRecord)
         /\ c.open \in BOOLEAN /\ c.sub \in BOOLEAN /\ c.closing \in BOOLEAN
         /\ c.base \in Nat /\ c.filter \in Filters \cup {{}}
         /\ Len(c.out) \in Nat /\ Len(Stream(c)) \in Nat /\ DOMAIN Stream(c) = 1..Len(Stream(c))
<1>1. c.out \in Seq(StreamRecord) /\ c.got \in Seq(StreamRecord)
  BY DEF Connection
<1>2. Stream(c) \in Seq(StreamRecord)
  BY <1>1 DEF Stream
<1> QED
  BY <1>1, <1>2, SizesAssumption DEF Connection

\* No connection.
LEMMA ClosedServed ==
  ASSUME NEW log, NEW n
  PROVE  Served(Closed, log, n)
<1>1. Closed \in Connection
  <2>1. 0 \in 0..MaxEvents /\ 0 \in 0..MaxRuns
    BY SizesAssumption
  <2>2. <<>> \in Seq(StreamRecord)
    OBVIOUS
  <2> QED
    BY <2>1, <2>2 DEF Closed, Connection
<1>2. Stream(Closed) = <<>>
  BY DEF Stream, Closed
<1>3. Backlogged(Closed)
  BY SizesAssumption DEF Backlogged, Closed
<1>4. Worded(Closed)
  BY <1>2 DEF Worded, Closed
<1>5. Streamed(Closed, log, n)
  BY DEF Streamed, Closed
<1> QED
  BY <1>1, <1>3, <1>4, <1>5 DEF Served

\* What an event adds to what is due.
LEMMA DueAppend ==
  ASSUME NEW c \in Connection, NEW log \in Seq(Event), NEW e \in Event, c.base <= Len(log)
  PROVE  /\ e.kind \in c.filter => Due(c, Append(log, e)) = Due(c, log) \cup {Len(log) + 1}
         /\ e.kind \notin c.filter => Due(c, Append(log, e)) = Due(c, log)
         /\ \A n \in Due(c, log) : n \in Nat /\ n < Len(log) + 1
         /\ Due(c, log) \subseteq Due(c, Append(log, e))
         /\ \A n \in Due(c, Append(log, e)) \ Due(c, log) : n = Len(log) + 1
<1> DEFINE t == Append(log, e)
<1>1. /\ Len(log) \in Nat /\ Len(t) = Len(log) + 1
      /\ \A i \in 1..Len(log) : t[i] = log[i]
      /\ t[Len(log) + 1] = e
  OBVIOUS
<1>2. c.base \in Nat
  BY ConnectionType
<1> HIDE DEF t
<1>3. \A n \in (c.base + 1)..Len(log) : n \in 1..Len(log) /\ n \in Nat /\ n < Len(log) + 1
  BY <1>1, <1>2
<1>4. (c.base + 1)..Len(t) = ((c.base + 1)..Len(log)) \cup {Len(log) + 1}
  BY <1>1, <1>2
<1>5. \A n \in Due(c, log) : n \in Nat /\ n < Len(log) + 1
  BY <1>3 DEF Due
<1>6. Due(c, t) = Due(c, log) \cup (IF e.kind \in c.filter THEN {Len(log) + 1} ELSE {})
  BY <1>1, <1>3, <1>4 DEF Due
<1> QED
  BY <1>5, <1>6 DEF t

\* An event nobody is told of: the connection stays as it is.
LEMMA UntoldServed ==
  ASSUME NEW c, NEW log \in Seq(Event), NEW e \in Event, NEW n, Served(c, log, n),
         ~ (c.sub /\ e.kind \in c.filter)
  PROVE  Served(c, Append(log, e), n)
<1> DEFINE t == Append(log, e)
<1>1. c \in Connection
  BY DEF Served
<1>2. Len(t) = Len(log) + 1 /\ Len(log) \in Nat
  OBVIOUS
<1>3. ASSUME c.open \/ c.closing
      PROVE  /\ c.from = n /\ c.base <= Len(t)
             /\ Follows(Stream(c), Due(c, t))
             /\ c.sub => Numbers(Stream(c)) = Due(c, t)
  <2>1. /\ c.from = n /\ c.base <= Len(log) /\ c.base \in Nat
        /\ Follows(Stream(c), Due(c, log))
        /\ c.sub => Numbers(Stream(c)) = Due(c, log)
    BY <1>1, <1>3, ConnectionType DEF Served, Streamed
  <2>2. /\ e.kind \notin c.filter => Due(c, t) = Due(c, log)
        /\ \A k \in Due(c, log) : k \in Nat /\ k < Len(log) + 1
        /\ Due(c, log) \subseteq Due(c, t)
        /\ \A k \in Due(c, t) \ Due(c, log) : k = Len(log) + 1
    BY <1>1, <2>1, DueAppend
  <2> HIDE DEF t
  <2>3. Follows(Stream(c), Due(c, t))
    BY <2>1, <2>2 DEF Follows
  <2> QED
    BY <1>2, <2>1, <2>2, <2>3
<1>4. Streamed(c, t, n)
  BY <1>3 DEF Streamed
<1> QED
  BY <1>4 DEF Served

\* A record queued on a stream that goes on or ends here.
LEMMA RecordQueued ==
  ASSUME NEW c, NEW d, NEW log, NEW n, NEW x \in StreamRecord, Served(c, log, n), c.sub,
         \/ /\ d = [c EXCEPT !.sub = FALSE, !.closing = TRUE, !.out = Append(c.out, x)]
            /\ IsFinal(x)
         \/ /\ d = [c EXCEPT !.out = Append(c.out, x)]
            /\ ~ IsFinal(x) /\ Len(c.out) < MaxBacklog
  PROVE  /\ d \in Connection /\ Backlogged(d) /\ Worded(d)
         /\ Stream(d) = Append(Stream(c), x)
         /\ d.open /\ d.from = c.from /\ d.base = c.base /\ d.filter = c.filter
         /\ IsFinal(x) => ~ d.sub
<1>1. /\ c \in Connection /\ c.open /\ ~ c.closing /\ Len(c.out) <= MaxBacklog
      /\ c.out \in Seq(StreamRecord) /\ c.got \in Seq(StreamRecord) /\ Stream(c) \in Seq(StreamRecord)
  BY ConnectionType DEF Served, Backlogged
<1>2. PICK o : o = Append(c.out, x)
  OBVIOUS
<1>2a. o \in Seq(StreamRecord) /\ Len(o) = Len(c.out) + 1 /\ Len(c.out) \in Nat
  BY <1>1, <1>2
<1>3. d \in Connection
  BY <1>1, <1>2, <1>2a DEF Connection
<1>4. /\ d.open /\ d.from = c.from /\ d.base = c.base /\ d.filter = c.filter
      /\ d.out = o /\ d.got = c.got
      /\ (IsFinal(x) /\ ~ d.sub /\ d.closing)
           \/ (~ IsFinal(x) /\ d.sub /\ ~ d.closing /\ Len(c.out) < MaxBacklog)
  BY <1>1, <1>2 DEF Connection
<1>5. Stream(d) = Append(Stream(c), x)
  <2>1. \A g, w \in Seq(StreamRecord) : g \o Append(w, x) = Append(g \o w, x)
    BY StreamAppend
  <2>2. c.got \o Append(c.out, x) = Append(c.got \o c.out, x)
    BY <1>1, <2>1
  <2> QED
    BY <1>2, <1>4, <2>2 DEF Stream
<1>6. Backlogged(d)
  BY <1>1, <1>2a, <1>4, SizesAssumption DEF Backlogged
<1>7. \A i \in DOMAIN Stream(c) : ~ IsFinal(Stream(c)[i])
  BY <1>1 DEF Served, Worded
<1>8. Worded(d)
  <2> DEFINE s == Stream(c)
             t == Append(s, x)
  <2>1. /\ DOMAIN t = 1..(Len(s) + 1) /\ Len(t) = Len(s) + 1 /\ t # <<>>
        /\ Len(s) \in Nat /\ DOMAIN s = 1..Len(s)
        /\ \A i \in 1..Len(s) : t[i] = s[i]
        /\ t[Len(s) + 1] = x
    BY <1>1
  <2> HIDE DEF t, s
  <2>2. \A i \in DOMAIN t : IsFinal(t[i]) => i = Len(t) /\ IsFinal(x)
    <3>1. ASSUME NEW i \in DOMAIN t, IsFinal(t[i])
          PROVE  i = Len(t) /\ IsFinal(x)
      <4>1. CASE i \in 1..Len(s)
        BY <1>7, <2>1, <3>1, <4>1 DEF s
      <4>2. CASE i = Len(s) + 1
        BY <2>1, <3>1, <4>2
      <4> QED
        BY <2>1, <4>1, <4>2
    <3> QED
      BY <3>1
  <2>3. Stream(d) = t
    BY <1>5 DEF s, t
  <2> QED
    BY <1>4, <2>1, <2>2, <2>3 DEF Worded
<1> QED
  BY <1>3, <1>4, <1>5, <1>6, <1>8

\* dispatch_session_subscribers keeps every stream gapless.
LEMMA DispatchedServed ==
  ASSUME NEW c, NEW log \in Seq(Event), NEW e \in Event, NEW n, Served(c, log, n),
         e.seq = Len(log) + 1
  PROVE  Served(Dispatched(c, e), Append(log, e), n)
<1> DEFINE t == Append(log, e)
<1>1. CASE ~ (c.sub /\ e.kind \in c.filter)
  BY <1>1, UntoldServed DEF Dispatched
<1>2. ASSUME c.sub, e.kind \in c.filter
      PROVE  Served(Dispatched(c, e), t, n)
  <2>1. /\ c \in Connection /\ c.open /\ ~ c.closing /\ Stream(c) \in Seq(StreamRecord)
        /\ c.from = n /\ c.base <= Len(log) /\ c.base \in Nat
        /\ Increasing(Stream(c)) /\ Numbers(Stream(c)) = Due(c, log)
    BY <1>2, ConnectionType DEF Served, Backlogged, Streamed, Follows
  <2>2. /\ Due(c, t) = Due(c, log) \cup {Len(log) + 1}
        /\ \A k \in Due(c, log) : k \in Nat /\ k < Len(log) + 1
    BY <1>2, <2>1, DueAppend
  <2>3. Len(t) = Len(log) + 1 /\ Len(log) \in Nat
    OBVIOUS
  <2> HIDE DEF t
  <2>4. CASE Len(c.out) < MaxBacklog
    <3>1. PICK x : x = <<"event", e.seq>>
      OBVIOUS
    <3>2. x \in StreamRecord /\ x[1] = "event" /\ x[2] = Len(log) + 1 /\ ~ IsFinal(x)
      <4>1. e.seq \in 0..MaxEvents
        BY SizesAssumption DEF Event
      <4> QED
        BY <3>1, <4>1 DEF StreamRecord, IsFinal
    <3>3. PICK d : d = [c EXCEPT !.out = Append(c.out, x)]
      OBVIOUS
    <3>4. Dispatched(c, e) = d
      BY <1>2, <2>4, <3>1, <3>3 DEF Dispatched
    <3>5. /\ d \in Connection /\ Backlogged(d) /\ Worded(d)
          /\ Stream(d) = Append(Stream(c), x)
          /\ d.open /\ d.from = c.from /\ d.base = c.base /\ d.filter = c.filter
      BY <1>2, <2>4, <3>2, <3>3, RecordQueued
    <3>6. Due(d, t) = Due(c, t)
      BY <3>5 DEF Due
    <3>7. Numbers(Stream(d)) = Due(d, t)
      BY <2>1, <2>2, <3>2, <3>5, <3>6, NumbersAppend
    <3>8. Increasing(Stream(d))
      BY <2>1, <2>2, <3>2, <3>5, IncreasingAppend
    <3>9. Streamed(d, t, n)
      BY <2>1, <2>3, <3>5, <3>7, <3>8 DEF Streamed, Follows
    <3> QED
      BY <3>4, <3>5, <3>9 DEF Served
  <2>5. CASE ~ (Len(c.out) < MaxBacklog)
    <3>1. PICK x : x = <<"lagged", 0>>
      OBVIOUS
    <3>2. x \in StreamRecord /\ x[1] # "event" /\ IsFinal(x)
      BY <3>1, SizesAssumption DEF StreamRecord, IsFinal
    <3>3. PICK d : d = [c EXCEPT !.sub = FALSE, !.closing = TRUE, !.out = Append(c.out, x)]
      OBVIOUS
    <3>4. Dispatched(c, e) = d
      BY <1>2, <2>5, <3>1, <3>3 DEF Dispatched, Ended
    <3>5. /\ d \in Connection /\ Backlogged(d) /\ Worded(d)
          /\ Stream(d) = Append(Stream(c), x)
          /\ d.open /\ d.from = c.from /\ d.base = c.base /\ d.filter = c.filter
          /\ ~ d.sub
      BY <1>2, <3>2, <3>3, RecordQueued
    <3>6. Due(d, t) = Due(c, t)
      BY <3>5 DEF Due
    <3>7. Numbers(Stream(d)) = Due(c, log)
      BY <2>1, <3>2, <3>5, NumbersAppend
    <3>8. Increasing(Stream(d))
      BY <2>1, <3>2, <3>5, IncreasingAppend
    <3>9. Follows(Stream(d), Due(d, t))
      BY <2>2, <3>6, <3>7, <3>8 DEF Follows
    <3>10. Streamed(d, t, n)
      BY <2>1, <2>3, <3>5, <3>9 DEF Streamed
    <3> QED
      BY <3>4, <3>5, <3>10 DEF Served
  <2> QED
    BY <2>4, <2>5
<1> QED
  BY <1>1, <1>2

\* end_session_subscribers
LEMMA EndedServed ==
  ASSUME NEW c, NEW log, NEW n, Served(c, log, n), c.sub
  PROVE  Served(Ended(c, <<"ended", 0>>), log, n)
<1>1. /\ c \in Connection /\ c.open /\ Stream(c) \in Seq(StreamRecord)
      /\ c.from = n /\ c.base <= Len(log)
      /\ Follows(Stream(c), Due(c, log))
  BY ConnectionType DEF Served, Backlogged, Streamed
<1>2. PICK x : x = <<"ended", 0>>
  OBVIOUS
<1>3. x \in StreamRecord /\ x[1] # "event" /\ IsFinal(x)
  BY <1>2, SizesAssumption DEF StreamRecord, IsFinal
<1>4. PICK d : d = [c EXCEPT !.sub = FALSE, !.closing = TRUE, !.out = Append(c.out, x)]
  OBVIOUS
<1>5. Ended(c, <<"ended", 0>>) = d
  BY <1>2, <1>4 DEF Ended
<1>6. /\ d \in Connection /\ Backlogged(d) /\ Worded(d)
      /\ Stream(d) = Append(Stream(c), x)
      /\ d.open /\ d.from = c.from /\ d.base = c.base /\ d.filter = c.filter
      /\ ~ d.sub
  BY <1>3, <1>4, RecordQueued
<1>7. Due(d, log) = Due(c, log)
  BY <1>6 DEF Due
<1>8. Numbers(Stream(d)) = Numbers(Stream(c))
  BY <1>1, <1>3, <1>6, NumbersAppend
<1>9. Increasing(Stream(d))
  BY <1>1, <1>3, <1>6, IncreasingAppend DEF Follows
<1>10. Streamed(d, log, n)
  BY <1>1, <1>6, <1>7, <1>8, <1>9 DEF Streamed, Follows
<1> QED
  BY <1>5, <1>6, <1>10 DEF Served

\* A connection that keeps its stream keeps what is true of it.
LEMMA SameStream ==
  ASSUME NEW c, NEW d \in Connection, NEW log, NEW n, Served(c, log, n), Stream(d) = Stream(c),
         d.open => c.open, d.closing = c.closing, d.sub = c.sub, d.from = c.from, d.base = c.base,
         d.filter = c.filter
  PROVE  Worded(d) /\ Streamed(d, log, n)
<1>1. Due(d, log) = Due(c, log)
  BY DEF Due
<1>2. Worded(d)
  BY DEF Served, Worded
<1>3. Streamed(d, log, n)
  BY <1>1 DEF Served, Streamed
<1> QED
  BY <1>2, <1>3

LEMMA ReadServed ==
  ASSUME NEW c, NEW d, NEW log, NEW n, Served(c, log, n), c.open, c.out # <<>>,
         d = [c EXCEPT !.out = Tail(c.out), !.got = Append(c.got, Head(c.out))]
  PROVE  Served(d, log, n)
<1>1. /\ c \in Connection /\ c.out \in Seq(StreamRecord) /\ c.got \in Seq(StreamRecord)
  BY ConnectionType DEF Served
<1>2. PICK o : o = Tail(c.out)
  OBVIOUS
<1>3. PICK g : g = Append(c.got, Head(c.out))
  OBVIOUS
<1>4. /\ o \in Seq(StreamRecord) /\ Len(o) = Len(c.out) - 1 /\ Len(c.out) \in Nat
      /\ g \in Seq(StreamRecord) /\ g \o o = c.got \o c.out
  <2>1. \A x, y \in Seq(StreamRecord) : y # <<>> =>
          /\ Append(x, Head(y)) \in Seq(StreamRecord) /\ Tail(y) \in Seq(StreamRecord)
          /\ Append(x, Head(y)) \o Tail(y) = x \o y
    BY StreamRead
  <2>2. Len(o) = Len(c.out) - 1 /\ Len(c.out) \in Nat
    BY <1>1, <1>2
  <2> QED
    BY <1>1, <1>2, <1>3, <2>1, <2>2
<1>5. d = [c EXCEPT !.out = o, !.got = g]
  BY <1>2, <1>3
<1>6. /\ d \in Connection /\ d.out = o /\ d.got = g /\ d.open = c.open /\ d.closing = c.closing
      /\ d.sub = c.sub /\ d.from = c.from /\ d.base = c.base /\ d.filter = c.filter
  BY <1>1, <1>4, <1>5 DEF Connection
<1>7. Stream(d) = Stream(c)
  BY <1>4, <1>6 DEF Stream
<1>8. Backlogged(d)
  BY <1>4, <1>6, SizesAssumption DEF Served, Backlogged
<1> QED
  BY <1>6, <1>7, <1>8, SameStream DEF Served

LEMMA HangupServed ==
  ASSUME NEW c, NEW d, NEW log, NEW n, Served(c, log, n), c.closing, c.out = <<>>,
         d = [c EXCEPT !.open = FALSE]
  PROVE  Served(d, log, n)
<1>1. c \in Connection
  BY DEF Served
<1>2. /\ d \in Connection /\ d.out = c.out /\ d.got = c.got /\ ~ d.open /\ d.closing = c.closing
      /\ d.sub = c.sub /\ d.from = c.from /\ d.base = c.base /\ d.filter = c.filter
  BY <1>1 DEF Connection
<1>3. Stream(d) = Stream(c)
  BY <1>2 DEF Stream
<1>4. Backlogged(d)
  BY <1>2, SizesAssumption DEF Served, Backlogged
<1> QED
  BY <1>2, <1>3, <1>4, SameStream DEF Served

----------------------------------------------------------------------------
(* Opening a stream                                                        *)

\* q lists what is queued after each of the first n replayed events.
IsQueued(q, filter, replay, n) ==
  /\ q \in [0..n -> Seq(StreamRecord)] /\ q[0] = <<>>
  /\ \A k \in 1..n : q[k] = IF replay[k].kind \in filter THEN Append(q[k - 1], <<"event", replay[k].seq>>)
                            ELSE q[k - 1]

LEMMA QueuedExists ==
  ASSUME NEW filter, NEW replay \in Seq(Event)
  PROVE  \E q : IsQueued(q, filter, replay, Len(replay))
<1> DEFINE T == {n \in Nat : n <= Len(replay) => \E q : IsQueued(q, filter, replay, n)}
<1>1. 0 \in T
  <2>1. IsQueued([k \in 0..0 |-> <<>>], filter, replay, 0)
    BY DEF IsQueued
  <2> QED
    BY <2>1
<1>2. ASSUME NEW n \in T
      PROVE  n + 1 \in T
  <2>1. SUFFICES ASSUME n + 1 <= Len(replay)
                 PROVE  \E q : IsQueued(q, filter, replay, n + 1)
    OBVIOUS
  <2>2. PICK q : IsQueued(q, filter, replay, n)
    BY <2>1
  <2>3. PICK x : x = <<"event", replay[n + 1].seq>>
    OBVIOUS
  <2>4. x \in StreamRecord
    <3>1. replay[n + 1] \in Event
      BY <2>1
    <3>2. replay[n + 1].seq \in 0..MaxEvents
      BY <3>1, SizesAssumption DEF Event
    <3> QED
      BY <2>3, <3>2 DEF StreamRecord
  <2>5. PICK y : y = IF replay[n + 1].kind \in filter THEN Append(q[n], x) ELSE q[n]
    OBVIOUS
  <2>6. q[n] \in Seq(StreamRecord)
    BY <2>2 DEF IsQueued
  <2>7. y \in Seq(StreamRecord)
    BY <2>4, <2>5, <2>6
  <2>8. PICK h : h = [k \in 0..(n + 1) |-> IF k = n + 1 THEN y ELSE q[k]]
    OBVIOUS
  <2>9. h \in [0..(n + 1) -> Seq(StreamRecord)] /\ h[0] = <<>>
    BY <2>2, <2>7, <2>8 DEF IsQueued
  <2>10. ASSUME NEW k \in 1..(n + 1)
         PROVE  h[k] = IF replay[k].kind \in filter THEN Append(h[k - 1], <<"event", replay[k].seq>>)
                       ELSE h[k - 1]
    <3>1. CASE k = n + 1
      <4>1. h[k] = y /\ h[k - 1] = q[n]
        BY <2>8, <3>1
      <4> QED
        BY <4>1, <3>1, <2>3, <2>5
    <3>2. CASE k \in 1..n
      <4>1. h[k] = q[k] /\ h[k - 1] = q[k - 1]
        BY <2>8, <3>2
      <4> QED
        BY <4>1, <3>2, <2>2 DEF IsQueued
    <3> QED
      BY <3>1, <3>2
  <2>11. IsQueued(h, filter, replay, n + 1)
    BY <2>9, <2>10, Zenon DEF IsQueued
  <2> QED
    BY <2>11
<1>3. T = Nat
  <2> HIDE DEF T
  <2>1. T \in SUBSET Nat
    BY DEF T
  <2> QED
    BY <1>1, <1>2, <2>1, NatInduct
<1>4. Len(replay) \in T
  <2>1. Len(replay) \in Nat
    OBVIOUS
  <2> QED
    BY <1>3, <2>1
<1> QED
  BY <1>4

LEMMA ReplayedIs ==
  ASSUME NEW filter, NEW replay \in Seq(Event), NEW q, IsQueued(q, filter, replay, Len(replay))
  PROVE  Replayed(filter, replay) = q[Len(replay)]
<1> DEFINE N == Len(replay)
           Step(g, k) == IF k = 0 THEN <<>>
                         ELSE IF replay[k].kind \in filter THEN Append(g[k - 1], <<"event", replay[k].seq>>)
                         ELSE g[k - 1]
           Rec(g) == g = [k \in 0..N |-> Step(g, k)]
           f == CHOOSE g : Rec(g)
<1>0. Replayed(filter, replay) = f[N]
  BY Zenon DEF Replayed
<1>1. Rec(q)
  <2>1. N \in Nat /\ q = [k \in 0..N |-> q[k]]
    BY DEF IsQueued
  <2>2. ASSUME NEW k \in 0..N
        PROVE  q[k] = Step(q, k)
    <3>1. CASE k = 0
      BY <3>1 DEF IsQueued
    <3>2. CASE k # 0
      <4>1. k \in 1..N
        BY <2>1, <3>2
      <4>2. q[k] = IF replay[k].kind \in filter THEN Append(q[k - 1], <<"event", replay[k].seq>>)
                   ELSE q[k - 1]
        BY <4>1, Zenon DEF IsQueued
      <4> QED
        BY <3>2, <4>2
    <3> QED
      BY <3>1, <3>2
  <2> HIDE DEF Step, N
  <2> QED
    BY <2>1, <2>2
<1>2. Rec(f)
  <2> HIDE DEF Rec
  <2> QED
    BY <1>1
<1>3. \A k \in 0..N : f[k] = Step(f, k)
  <2> HIDE DEF f, Step, N
  <2> QED
    BY <1>2
<1> HIDE DEF f
<1> DEFINE T == {n \in Nat : n <= N => q[n] = f[n]}
<1>4. 0 \in T
  <2>1. 0 \in 0..N
    OBVIOUS
  <2>2. f[0] = Step(f, 0)
    BY <1>3, <2>1
  <2> QED
    BY <2>2 DEF IsQueued
<1>5. ASSUME NEW n \in T
      PROVE  n + 1 \in T
  <2>1. SUFFICES ASSUME n + 1 <= N
                 PROVE  q[n + 1] = f[n + 1]
    OBVIOUS
  <2>2. n + 1 \in 0..N /\ n + 1 \in 1..N /\ n + 1 # 0 /\ (n + 1) - 1 = n /\ q[n] = f[n]
    BY <2>1
  <2>3. f[n + 1] = Step(f, n + 1)
    BY <1>3, <2>2
  <2>4. q[n + 1] = Step(q, n + 1)
    BY <2>2 DEF IsQueued
  <2> QED
    BY <2>2, <2>3, <2>4
<1>6. T = Nat
  <2> HIDE DEF T
  <2>1. T \in SUBSET Nat
    BY DEF T
  <2> QED
    BY <1>4, <1>5, <2>1, NatInduct
<1> QED
  BY <1>0, <1>6

\* A replay tells its wanted events in order, and nothing else.
Told_of(m, filter, replay, base, n) ==
  /\ m \in Seq(StreamRecord) /\ Increasing(m)
  /\ Numbers(m) = {k \in (base + 1)..(base + n) : replay[k - base].kind \in filter}
  /\ \A i \in DOMAIN m : m[i][1] = "event"

LEMMA ReplayedTells ==
  ASSUME NEW filter, NEW replay \in Seq(Event), NEW base \in Nat,
         \A i \in 1..Len(replay) : replay[i].seq = base + i
  PROVE  Told_of(Replayed(filter, replay), filter, replay, base, Len(replay))
<1>1. PICK q : IsQueued(q, filter, replay, Len(replay))
  BY QueuedExists
<1> DEFINE T == {n \in Nat : n <= Len(replay) => Told_of(q[n], filter, replay, base, n)}
<1>2. 0 \in T
  <2>1. q[0] = <<>>
    BY <1>1 DEF IsQueued
  <2>2. (base + 1)..(base + 0) = {}
    OBVIOUS
  <2>3. DOMAIN q[0] = {} /\ q[0] \in Seq(StreamRecord)
    BY <2>1
  <2>4. Increasing(q[0]) /\ Numbers(q[0]) = {}
    BY <2>3 DEF Increasing, Numbers
  <2> QED
    BY <2>2, <2>3, <2>4 DEF Told_of
<1>3. ASSUME NEW n \in T
      PROVE  n + 1 \in T
  <2>1. SUFFICES ASSUME n + 1 <= Len(replay)
                 PROVE  Told_of(q[n + 1], filter, replay, base, n + 1)
    OBVIOUS
  <2>2. /\ n \in Nat /\ n + 1 \in 1..Len(replay) /\ (n + 1) - 1 = n /\ Told_of(q[n], filter, replay, base, n)
        /\ replay[n + 1].seq = base + (n + 1)
    BY <2>1
  <2>3. PICK m : m = q[n]
    OBVIOUS
  <2>4. /\ m \in Seq(StreamRecord) /\ Increasing(m)
        /\ Numbers(m) = {k \in (base + 1)..(base + n) : replay[k - base].kind \in filter}
        /\ \A i \in DOMAIN m : m[i][1] = "event"
    BY <2>2, <2>3 DEF Told_of
  <2>5. PICK x : x = <<"event", replay[n + 1].seq>>
    OBVIOUS
  <2>6. x[1] = "event" /\ x[2] = base + (n + 1)
    BY <2>2, <2>5
  <2>7. q[n + 1] = IF replay[n + 1].kind \in filter THEN Append(m, x) ELSE m
    BY <1>1, <2>2, <2>3, <2>5 DEF IsQueued
  <2>8. q[n + 1] \in Seq(StreamRecord)
    BY <1>1, <2>2 DEF IsQueued
  <2>9. (base + 1)..(base + (n + 1)) = ((base + 1)..(base + n)) \cup {base + (n + 1)}
    <3>1. \A a, b \in Nat : (a + 1)..(a + (b + 1)) = ((a + 1)..(a + b)) \cup {a + (b + 1)}
      OBVIOUS
    <3> QED
      BY <2>2, <3>1
  <2>10. (base + (n + 1)) - base = n + 1
    BY <2>2
  <2>11. CASE replay[n + 1].kind \in filter
    <3>1. q[n + 1] = Append(m, x)
      BY <2>7, <2>11
    <3>2. Increasing(q[n + 1])
      <4>1. \A k \in Numbers(m) : k < x[2]
        BY <2>2, <2>4, <2>6
      <4> QED
        BY <2>4, <2>6, <3>1, <4>1, IncreasingAppend
    <3>3. Numbers(q[n + 1]) = Numbers(m) \cup {base + (n + 1)}
      BY <2>4, <2>6, <3>1, NumbersAppend
    <3>4. Numbers(q[n + 1]) = {k \in (base + 1)..(base + (n + 1)) : replay[k - base].kind \in filter}
      BY <2>4, <2>9, <2>10, <2>11, <3>3
    <3>5. \A i \in DOMAIN Append(m, x) : Append(m, x)[i][1] = "event"
      BY <2>4, <2>6
    <3> QED
      BY <2>8, <3>1, <3>2, <3>4, <3>5 DEF Told_of
  <2>12. CASE replay[n + 1].kind \notin filter
    <3>1. q[n + 1] = m
      BY <2>7, <2>12
    <3>2. Numbers(m) = {k \in (base + 1)..(base + (n + 1)) : replay[k - base].kind \in filter}
      BY <2>4, <2>9, <2>10, <2>12
    <3> QED
      BY <2>4, <3>1, <3>2 DEF Told_of
  <2> QED
    BY <2>11, <2>12
<1>4. T = Nat
  <2> HIDE DEF T
  <2>1. T \in SUBSET Nat
    BY DEF T
  <2> QED
    BY <1>2, <1>3, <2>1, NatInduct
<1>5. Told_of(q[Len(replay)], filter, replay, base, Len(replay))
  BY <1>4
<1> QED
  BY <1>1, <1>5, ReplayedIs

\* A stream that begins with what is due to it.
LEMMA OpenServed ==
  ASSUME NEW filter \in Filters, NEW n \in 1..MaxRuns, NEW base \in 0..MaxEvents, NEW records \in Seq(StreamRecord),
         NEW log, base <= Len(log), Len(records) <= MaxBacklog,
         Increasing(records), \A i \in DOMAIN records : ~ IsFinal(records[i]),
         Numbers(records) = {k \in (base + 1)..Len(log) : log[k].kind \in filter}
  PROVE  Served([Closed EXCEPT !.open = TRUE, !.sub = TRUE, !.filter = filter,
                               !.base = base, !.from = n, !.out = records], log, n)
<1>1. PICK d : d = [Closed EXCEPT !.open = TRUE, !.sub = TRUE, !.filter = filter,
                               !.base = base, !.from = n, !.out = records]
  OBVIOUS
<1>2. /\ d.open = TRUE /\ d.sub = TRUE /\ d.closing = FALSE /\ d.filter = filter /\ d.base = base
      /\ d.from = n /\ d.out = records /\ d.got = <<>>
  BY <1>1 DEF Closed
<1>3. d \in Connection
  <2>1. d = [open |-> TRUE, sub |-> TRUE, closing |-> FALSE, filter |-> filter, base |-> base,
             from |-> n, out |-> records, got |-> <<>>]
    BY <1>1 DEF Closed
  <2>2. n \in 0..MaxRuns /\ <<>> \in Seq(StreamRecord)
    BY SizesAssumption
  <2> QED
    BY <2>1, <2>2 DEF Connection
<1>4. Stream(d) = records
  BY <1>2 DEF Stream
<1>5. Due(d, log) = Numbers(records)
  BY <1>2 DEF Due
<1>6. Backlogged(d)
  <2>1. Len(records) \in Nat
    OBVIOUS
  <2> QED
    BY <1>2, <2>1, SizesAssumption DEF Backlogged
<1>7. Worded(d)
  BY <1>2, <1>4 DEF Worded
<1>8. Streamed(d, log, n)
  BY <1>2, <1>4, <1>5 DEF Streamed, Follows
<1> QED
  BY <1>1, <1>3, <1>6, <1>7, <1>8 DEF Served

----------------------------------------------------------------------------
(* Recording an event                                                      *)

LEMMA BytesEmpty == Bytes(<<>>) = 0
<1> DEFINE w == [i \in DOMAIN <<>> |-> <<>>[i].size]
<1>1. Len(<<>>) = 0
  OBVIOUS
<1>2. Total(w, 0) = 0
  <2> HIDE DEF w
  <2>1. \A k \in 1..0 : w[k] \in Int
    OBVIOUS
  <2> QED
    BY <2>1, TotalType
<1> QED
  BY <1>1, <1>2 DEF Bytes

LEMMA BytesAppend ==
  ASSUME NEW m \in Seq(Event), NEW e \in Event
  PROVE  Bytes(m) \in Int /\ Bytes(Append(m, e)) = Bytes(m) + e.size
<1> DEFINE t == Append(m, e)
           w == [i \in DOMAIN m |-> m[i].size]
           v == [i \in DOMAIN t |-> t[i].size]
           N == Len(m)
<1>1. /\ N \in Nat /\ DOMAIN m = 1..N /\ DOMAIN t = 1..(N + 1) /\ Len(t) = N + 1
      /\ \A i \in 1..N : t[i] = m[i] /\ m[i] \in Event
      /\ t[N + 1] = e
  OBVIOUS
<1>2. \A x \in Event : x.size \in Int
  BY DEF Event
<1> HIDE DEF t, N
<1>3. /\ \A k \in 1..N : w[k] \in Int /\ v[k] = w[k]
      /\ v[N + 1] \in Int /\ v[N + 1] = e.size
  BY <1>1, <1>2
<1> HIDE DEF v, w
<1>4. Total(w, N) \in Int /\ Total(v, N + 1) = Total(w, N) + v[N + 1]
  BY <1>1, <1>3, TotalType, TotalAppend
<1> QED
  BY <1>1, <1>3, <1>4 DEF Bytes, t, v, w, N

\* The end of a list.
LEMMA SubSeqEnd ==
  ASSUME NEW m \in Seq(Event), NEW k \in 0..Len(m)
  PROVE  /\ SubSeq(m, Len(m) - k + 1, Len(m)) \in Seq(Event)
         /\ Len(SubSeq(m, Len(m) - k + 1, Len(m))) = k
         /\ \A i \in 1..k : SubSeq(m, Len(m) - k + 1, Len(m))[i] = m[Len(m) - k + i]
OBVIOUS

\* The ring after one more event: some end of it, and the event if it fits.
LEMMA RetainedIs ==
  ASSUME NEW ring \in Seq(Event), NEW e \in Event
  PROVE  /\ Retained(ring, e) \in Seq(Event)
         /\ Len(Retained(ring, e)) <= MaxRing /\ Bytes(Retained(ring, e)) <= MaxBytes
         /\ \/ Retained(ring, e) = <<>>
            \/ \E k \in 0..Len(ring) :
                 /\ Len(Retained(ring, e)) = k + 1
                 /\ Retained(ring, e)[k + 1] = e
                 /\ \A i \in 1..k : Retained(ring, e)[i] = ring[Len(ring) - k + i]
<1>0. MaxRing \in Nat /\ MaxBytes \in Nat /\ e.size \in Nat /\ Len(ring) \in Nat
  BY SizesAssumption DEF Event
<1>1. CASE MaxRing = 0 \/ e.size > MaxBytes
  BY <1>0, <1>1, BytesEmpty DEF Retained
<1>2. CASE ~ (MaxRing = 0 \/ e.size > MaxBytes)
  <2> DEFINE end(k) == SubSeq(ring, Len(ring) - k + 1, Len(ring))
             fits(k) == k < MaxRing /\ Bytes(end(k)) + e.size <= MaxBytes
             S == {0} \cup {k \in 1..Len(ring) : fits(k)}
             keep == Max(S)
  <2>1. Retained(ring, e) = Append(end(keep), e)
    BY <1>2 DEF Retained
  <2>2. S \in SUBSET Nat /\ S # {} /\ \A x \in S : x <= Len(ring)
    <3> HIDE DEF fits
    <3> QED
      BY <1>0
  <2>3. keep \in S
    <3> HIDE DEF S
    <3>1. \E x \in S : \A y \in S : y <= x
      BY <1>0, <2>2, GreatestNat
    <3>2. \E x \in S : \A y \in S : x >= y
      BY <2>2, <3>1
    <3> QED
      BY <3>2 DEF Max
  <2>4. keep \in 0..Len(ring)
    BY <1>0, <2>2, <2>3
  <2>5. end(keep) \in Seq(Event) /\ Len(end(keep)) = keep
        /\ \A i \in 1..keep : end(keep)[i] = ring[Len(ring) - keep + i]
    <3> HIDE DEF keep
    <3> QED
      BY <2>4, SubSeqEnd
  <2>6. keep < MaxRing /\ Bytes(end(keep)) + e.size <= MaxBytes
    <3>1. CASE keep = 0
      <4> HIDE DEF keep, end
      <4>1. end(keep) = <<>>
        BY <2>5, <3>1
      <4> QED
        BY <1>0, <1>2, <3>1, <4>1, BytesEmpty
    <3>2. CASE keep # 0
      <4>1. fits(keep)
        <5> HIDE DEF fits, keep
        <5> QED
          BY <2>3, <3>2
      <4> HIDE DEF keep, end
      <4> QED
        BY <4>1
    <3> QED
      BY <3>1, <3>2
  <2>7. PICK k : k = keep
    OBVIOUS
  <2>8. PICK m : m = end(keep)
    OBVIOUS
  <2> HIDE DEF keep, end
  <2>9. /\ k \in 0..Len(ring) /\ k < MaxRing
        /\ m \in Seq(Event) /\ Len(m) = k /\ Bytes(m) + e.size <= MaxBytes
        /\ \A i \in 1..k : m[i] = ring[Len(ring) - k + i]
        /\ Retained(ring, e) = Append(m, e)
    BY <2>1, <2>4, <2>5, <2>6, <2>7, <2>8
  <2>10. Bytes(Append(m, e)) <= MaxBytes
    BY <2>9, BytesAppend
  <2>11. /\ Append(m, e) \in Seq(Event) /\ Len(Append(m, e)) = k + 1 /\ Append(m, e)[k + 1] = e
         /\ \A i \in 1..k : Append(m, e)[i] = m[i]
    BY <2>9
  <2>12. k + 1 <= MaxRing
    BY <1>0, <2>9
  <2> QED
    BY <2>9, <2>10, <2>11, <2>12
<1> QED
  BY <1>1, <1>2

\* The event that Record appends.
EventOf(s, kind, p, was, now, size) ==
  [seq |-> Len(s.log) + 1, kind |-> kind, pane |-> p,
   life |-> IF p = None THEN 0 ELSE pane[p].life + (IF kind = "spawned" THEN 1 ELSE 0),
   was |-> was, now |-> now, size |-> size]

Kinds == {"spawned", "layout", "title", "status", "exited", "joined", "left"}

Recorded(s, t, n, e) ==
  /\ Running(t, n) /\ e \in Event /\ t.log = Append(s.log, e)
  /\ Len(t.log) = Len(s.log) + 1 /\ Len(t.undelivered) = Len(s.undelivered) + 1

\* record_session_event keeps the ring, the numbers and every stream.
LEMMA RecordRunning ==
  ASSUME pane \in [Panes -> PaneWatch], NEW s, NEW n, Running(s, n), Len(s.log) < MaxEvents,
         NEW kind \in Kinds, NEW p \in Panes \cup {None}, NEW was \in Titles \cup {None},
         NEW now \in Titles \cup {None}, NEW size \in Nat
  PROVE  Recorded(s, Record(s, kind, p, was, now, size), n, EventOf(s, kind, p, was, now, size))
<1>1. PICK e : e = EventOf(s, kind, p, was, now, size)
  OBVIOUS
<1>2. PICK t : t = Record(s, kind, p, was, now, size)
  OBVIOUS
<1>3. /\ t = [log |-> Append(s.log, e), ring |-> Retained(s.ring, e),
              undelivered |-> Append(s.undelivered, e.seq),
              conn |-> [r \in Readers |-> Dispatched(s.conn[r], e)]]
  BY <1>1, <1>2 DEF Record, EventOf
<1>4. /\ s.log \in Seq(Event) /\ s.ring \in Seq(Event) /\ s.undelivered \in Seq(1..MaxEvents)
      /\ Len(s.log) \in Nat /\ MaxEvents \in Nat
  BY SizesAssumption DEF Running, Server
<1>5. e \in Event /\ e.seq = Len(s.log) + 1
  <2>1. Len(s.log) + 1 \in 1..MaxEvents
    BY <1>4
  <2>2. (IF p = None THEN 0 ELSE pane[p].life + (IF kind = "spawned" THEN 1 ELSE 0)) \in Nat
    <3>1. CASE p = None
      BY <3>1
    <3>2. CASE p # None
      <4>1. pane[p].life \in Nat
        BY <3>2 DEF PaneWatch
      <4> QED
        BY <3>2, <4>1
    <3> QED
      BY <3>1, <3>2
  <2> QED
    BY <1>1, <2>1, <2>2 DEF EventOf, Event, Kinds
<1>6. PICK log : log = Append(s.log, e)
  OBVIOUS
<1>7. PICK und : und = Append(s.undelivered, e.seq)
  OBVIOUS
<1>8. PICK ring : ring = Retained(s.ring, e)
  OBVIOUS
<1>9. t.log = log /\ t.undelivered = und /\ t.ring = ring
      /\ t.conn = [r \in Readers |-> Dispatched(s.conn[r], e)]
  BY <1>3, <1>6, <1>7, <1>8
<1>10. /\ log \in Seq(Event) /\ Len(log) = Len(s.log) + 1 /\ log[Len(s.log) + 1] = e
       /\ \A i \in 1..Len(s.log) : log[i] = s.log[i]
  BY <1>4, <1>5, <1>6
<1>11. /\ und \in Seq(1..MaxEvents) /\ Len(und) = Len(s.undelivered) + 1 /\ Len(s.undelivered) \in Nat
       /\ und[Len(s.undelivered) + 1] = Len(s.log) + 1
       /\ \A i \in 1..Len(s.undelivered) : und[i] = s.undelivered[i]
  <2>1. e.seq \in 1..MaxEvents
    BY <1>4, <1>5
  <2> QED
    BY <1>4, <1>5, <1>7, <2>1
<1>12. ring \in Seq(Event)
  BY <1>4, <1>5, <1>8, RetainedIs
<1>13. \A r \in Readers : Served(Dispatched(s.conn[r], e), log, n)
  <2>1. \A r \in Readers : Served(s.conn[r], s.log, n)
    BY DEF Running
  <2> QED
    BY <1>4, <1>5, <1>6, <2>1, DispatchedServed
<1>14. t.conn \in [Readers -> Connection] /\ \A r \in Readers : t.conn[r] = Dispatched(s.conn[r], e)
  BY <1>9, <1>13 DEF Served
<1>15. t \in Server
  <2>1. t = [log |-> log, ring |-> ring, undelivered |-> und, conn |-> t.conn]
    BY <1>3, <1>6, <1>7, <1>8
  <2> QED
    BY <2>1, <1>10, <1>11, <1>12, <1>14 DEF Server
<1>16. Numbered(t.log)
  <2>1. \A i \in 1..Len(s.log) : s.log[i].seq = i
    BY DEF Running, Numbered
  <2>2. \A i \in 1..Len(log) : i \in 1..Len(s.log) \/ i = Len(s.log) + 1
    BY <1>4, <1>10
  <2> QED
    BY <1>5, <1>9, <1>10, <2>1, <2>2 DEF Numbered
<1>17. Ringed(t)
  <2>1. /\ Len(s.ring) <= Len(s.log) /\ Len(s.ring) \in Nat
        /\ \A i \in 1..Len(s.ring) : s.ring[i] = s.log[Len(s.log) - Len(s.ring) + i]
    <3>1. Ringed(s)
      BY DEF Running
    <3>2. Len(s.ring) \in Nat
      BY <1>4
    <3> QED
      BY <3>1, <3>2 DEF Ringed
  <2>2. Len(ring) <= MaxRing /\ Bytes(ring) <= MaxBytes
    BY <1>4, <1>5, <1>8, RetainedIs
  <2>3. Len(ring) <= Len(log) /\ \A i \in 1..Len(ring) : ring[i] = log[Len(log) - Len(ring) + i]
    <3>1. CASE ring = <<>>
      BY <1>4, <1>10, <3>1
    <3>2. CASE \E k \in 0..Len(s.ring) :
                 /\ Len(ring) = k + 1
                 /\ ring[k + 1] = e
                 /\ \A i \in 1..k : ring[i] = s.ring[Len(s.ring) - k + i]
      <4>1. PICK k \in 0..Len(s.ring) :
                 /\ Len(ring) = k + 1
                 /\ ring[k + 1] = e
                 /\ \A i \in 1..k : ring[i] = s.ring[Len(s.ring) - k + i]
        BY <3>2
      <4>2. Len(ring) <= Len(log)
        BY <1>4, <1>10, <2>1, <4>1
      <4>3. ASSUME NEW i \in 1..Len(ring)
            PROVE  ring[i] = log[Len(log) - Len(ring) + i]
        <5>1. CASE i = k + 1
          <6>1. Len(log) - Len(ring) + i = Len(s.log) + 1
            <7>1. \A a, b \in Nat : (a + 1) - (b + 1) + (b + 1) = a + 1
              OBVIOUS
            <7>2. Len(log) = Len(s.log) + 1 /\ Len(ring) = k + 1 /\ k \in Nat /\ Len(s.log) \in Nat
              BY <1>4, <1>10, <2>1, <4>1
            <7> QED
              BY ONLY <5>1, <7>1, <7>2
          <6> QED
            BY <1>10, <4>1, <5>1, <6>1
        <5>2. CASE i \in 1..k
          <6>1. /\ Len(log) - Len(ring) + i = Len(s.log) - k + i
                /\ Len(s.ring) - k + i \in 1..Len(s.ring)
                /\ Len(s.log) - Len(s.ring) + (Len(s.ring) - k + i) = Len(s.log) - k + i
                /\ Len(s.log) - k + i \in 1..Len(s.log)
            <7>1. \A a, b \in Nat : \A c \in 0..b : \A d \in 1..c :
                    b <= a => /\ (a + 1) - (c + 1) + d = a - c + d
                              /\ b - c + d \in 1..b
                              /\ a - b + (b - c + d) = a - c + d
                              /\ a - c + d \in 1..a
              OBVIOUS
            <7>2. /\ Len(log) = Len(s.log) + 1 /\ Len(ring) = k + 1 /\ Len(s.log) \in Nat
                  /\ Len(s.ring) \in Nat /\ Len(s.ring) <= Len(s.log) /\ k \in 0..Len(s.ring) /\ i \in 1..k
              BY <1>4, <1>10, <2>1, <4>1, <5>2
            <7>3. PICK a, b : a = Len(s.log) /\ b = Len(s.ring)
              OBVIOUS
            <7> QED
              BY ONLY <7>1, <7>2, <7>3
          <6>2. ring[i] = s.log[Len(s.log) - k + i]
            BY <2>1, <4>1, <5>2, <6>1
          <6> QED
            BY <1>10, <6>1, <6>2
        <5> QED
          BY <4>1, <5>1, <5>2
      <4> QED
        BY <4>2, <4>3
    <3> QED
      BY <1>4, <1>5, <1>8, <3>1, <3>2, RetainedIs
  <2> QED
    BY <1>9, <2>2, <2>3 DEF Ringed
<1>18. Pending(t)
  <2>1. /\ Len(s.undelivered) <= Len(s.log)
        /\ \A i \in 1..Len(s.undelivered) : s.undelivered[i] = Len(s.log) - Len(s.undelivered) + i
    BY DEF Running, Pending
  <2>2. Len(log) - Len(und) = Len(s.log) - Len(s.undelivered)
    BY <1>4, <1>10, <1>11
  <2>3. ASSUME NEW i \in 1..Len(und)
        PROVE  und[i] = Len(s.log) - Len(s.undelivered) + i
    <3>1. CASE i = Len(s.undelivered) + 1
      <4>1. \A a, b \in Nat : a + 1 = a - b + (b + 1)
        OBVIOUS
      <4> QED
        BY <1>4, <1>11, <3>1, <4>1
    <3>2. CASE i \in 1..Len(s.undelivered)
      BY <1>11, <2>1, <3>2
    <3>3. \A a \in Nat : \A j \in 1..(a + 1) : j = a + 1 \/ j \in 1..a
      OBVIOUS
    <3> QED
      BY <1>11, <3>1, <3>2, <3>3
  <2>4. Len(und) <= Len(log)
    BY <1>4, <1>10, <1>11, <2>1
  <2> QED
    BY <1>9, <2>2, <2>3, <2>4 DEF Pending
<1>19. \A r \in Readers : Served(t.conn[r], t.log, n)
  BY <1>9, <1>13, <1>14
<1>20. Len(t.log) <= MaxEvents
  BY <1>4, <1>9, <1>10
<1>21. Running(t, n)
  BY <1>15, <1>16, <1>17, <1>18, <1>19, <1>20 DEF Running
<1>22. t.log = Append(s.log, e) /\ Len(t.log) = Len(s.log) + 1 /\ Len(t.undelivered) = Len(s.undelivered) + 1
  BY <1>6, <1>9, <1>10, <1>11
<1> QED
  BY <1>1, <1>2, <1>5, <1>21, <1>22 DEF Recorded

----------------------------------------------------------------------------
(* A pane's story                                                          *)

\* What stood before an event still stands after more of them.
LEMMA StandsAppend ==
  ASSUME NEW log \in Seq(Event), NEW e \in Event, NEW n \in 1..(Len(log) + 1), NEW p, NEW life, NEW title
  PROVE  Stands(log, n, p, life, title) <=> Stands(Append(log, e), n, p, life, title)
<1> DEFINE t == Append(log, e)
<1>1. \A i \in 1..(n - 1) : t[i] = log[i]
  OBVIOUS
<1>2. n \in Int
  OBVIOUS
<1> HIDE DEF t
<1>3. {i \in 1..(n - 1) : log[i].kind = "title" /\ log[i].pane = p /\ log[i].life = life}
      = {i \in 1..(n - 1) : t[i].kind = "title" /\ t[i].pane = p /\ t[i].life = life}
  BY <1>1
<1>4. Stands(log, n, p, life, title) <=> Stands(t, n, p, life, title)
  BY <1>1, <1>2, <1>3 DEF Stands
<1> QED
  BY <1>4 DEF t

\* Another kind of event, or one of another pane, changes no title.
LEMMA StandsOther ==
  ASSUME NEW log \in Seq(Event), NEW e \in Event, NEW p, NEW life, NEW title,
         Stands(log, Len(log) + 1, p, life, title),
         ~ (e.kind = "title" /\ e.pane = p /\ e.life = life)
  PROVE  Stands(Append(log, e), Len(log) + 2, p, life, title)
<1> DEFINE t == Append(log, e)
           N == Len(log)
           old == {i \in 1..(N + 1 - 1) : log[i].kind = "title" /\ log[i].pane = p /\ log[i].life = life}
           new == {i \in 1..(N + 2 - 1) : t[i].kind = "title" /\ t[i].pane = p /\ t[i].life = life}
<1>1. N \in Nat /\ t[N + 1] = e /\ \A i \in 1..N : t[i] = log[i]
  OBVIOUS
<1> HIDE DEF t, N
<1>2. 1..(N + 1 - 1) = 1..N /\ 1..(N + 2 - 1) = (1..N) \cup {N + 1}
  BY <1>1
<1>3. old = new /\ \A i \in old : t[i] = log[i]
  BY <1>1, <1>2
<1>4. /\ old = {} => title = InitialTitle
      /\ \A i \in old : (\A k \in old : k <= i) => title = log[i].now
  BY DEF Stands, N
<1>5. /\ new = {} => title = InitialTitle
      /\ \A i \in new : (\A k \in new : k <= i) => title = t[i].now
  <2> HIDE DEF old, new
  <2> QED
    BY <1>3, <1>4
<1> QED
  BY <1>5 DEF Stands, t, N

\* A title's event is what stands after it.
LEMMA StandsTitle ==
  ASSUME NEW log \in Seq(Event), NEW e \in Event, e.kind = "title"
  PROVE  Stands(Append(log, e), Len(log) + 2, e.pane, e.life, e.now)
<1> DEFINE t == Append(log, e)
           N == Len(log)
           new == {i \in 1..(N + 2 - 1) : t[i].kind = "title" /\ t[i].pane = e.pane /\ t[i].life = e.life}
<1>1. N \in Nat /\ t[N + 1] = e
  OBVIOUS
<1> HIDE DEF t, N
<1>2. N + 1 \in new /\ \A i \in new : i \in 1..(N + 1)
  BY <1>1
<1>3. \A i \in new : (\A k \in new : k <= i) => i = N + 1
  <2> HIDE DEF new
  <2> QED
    BY <1>1, <1>2
<1>4. /\ new = {} => e.now = InitialTitle
      /\ \A i \in new : (\A k \in new : k <= i) => e.now = t[i].now
  <2> HIDE DEF new
  <2> QED
    BY <1>1, <1>2, <1>3
<1> QED
  BY <1>4 DEF Stands, t, N

\* Nothing was reported of a life that has not begun.
LEMMA StandsFirst ==
  ASSUME NEW log \in Seq(Event), NEW p, NEW life \in Nat,
         \A i \in 1..Len(log) : log[i].pane = p => log[i].life < life
  PROVE  Stands(log, Len(log) + 1, p, life, InitialTitle)
<1>1. 1..(Len(log) + 1 - 1) = 1..Len(log)
  OBVIOUS
<1>2. {i \in 1..(Len(log) + 1 - 1) : log[i].kind = "title" /\ log[i].pane = p /\ log[i].life = life} = {}
  BY <1>1
<1> QED
  BY <1>2 DEF Stands

\* The log after an event that fits what came before it.
LEMMA EventAppended ==
  ASSUME NEW log \in Seq(Event), NEW e \in Event, Spanned(log), Chained(log),
         \A i \in 1..Len(log) :
           e.pane # None /\ log[i].pane = e.pane /\ log[i].life = e.life =>
             log[i].kind # "exited" /\ e.kind # "spawned",
         e.kind = "title" =>
           e.pane # None /\ e.was # e.now /\ Stands(log, Len(log) + 1, e.pane, e.life, e.was)
  PROVE  Spanned(Append(log, e)) /\ Chained(Append(log, e))
<1> DEFINE t == Append(log, e)
           N == Len(log)
<1>1. N \in Nat /\ Len(t) = N + 1 /\ t[N + 1] = e /\ \A i \in 1..N : t[i] = log[i]
  OBVIOUS
<1>2. \A n \in 1..(N + 1) : \A p, life, title :
        Stands(log, n, p, life, title) => Stands(t, n, p, life, title)
  BY StandsAppend
<1> HIDE DEF t, N
<1>3. \A i \in 1..(N + 1) : i = N + 1 \/ i \in 1..N
  BY <1>1
<1>4. Spanned(t)
  <2> SUFFICES ASSUME NEW i \in 1..Len(t), NEW j \in 1..Len(t),
                      i < j, t[i].pane # None, t[i].pane = t[j].pane, t[i].life = t[j].life
               PROVE  t[i].kind # "exited" /\ t[j].kind # "spawned"
    BY DEF Spanned
  <2>1. i \in 1..N
    BY <1>1
  <2>2. CASE j = N + 1
    BY <1>1, <2>1, <2>2 DEF N
  <2>3. CASE j \in 1..N
    BY <1>1, <2>1, <2>3 DEF N, Spanned
  <2> QED
    BY <1>1, <1>3, <2>2, <2>3
<1>5. Chained(t)
  <2> SUFFICES ASSUME NEW j \in 1..Len(t), t[j].kind = "title"
               PROVE  t[j].pane # None /\ t[j].was # t[j].now
                      /\ Stands(t, j, t[j].pane, t[j].life, t[j].was)
    BY DEF Chained
  <2>0. j \in 1..(N + 1)
    BY <1>1
  <2>1. CASE j = N + 1
    BY <1>1, <1>2, <2>0, <2>1 DEF N
  <2>2. CASE j \in 1..N
    <3>1. log[j].pane # None /\ log[j].was # log[j].now /\ Stands(log, j, log[j].pane, log[j].life, log[j].was)
      BY <1>1, <2>2 DEF N, Chained
    <3> QED
      BY <1>1, <1>2, <2>0, <2>2, <3>1
  <2> QED
    BY <1>3, <2>0, <2>1, <2>2
<1> QED
  BY <1>4, <1>5 DEF t

\* An event of another pane, or one of this pane that is neither a title nor its
\* exit, leaves a watch right.
LEMMA WatchedAppend ==
  ASSUME NEW log \in Seq(Event), NEW e \in Event, NEW p, NEW w \in PaneWatch, Watched(log, p, w),
         e.pane = p => e.life = w.life /\ e.kind \notin {"title", "exited"}
  PROVE  Watched(Append(log, e), p, w)
<1> DEFINE t == Append(log, e)
           N == Len(log)
<1>1. N \in Nat /\ Len(t) = N + 1 /\ t[N + 1] = e /\ \A i \in 1..N : t[i] = log[i]
  OBVIOUS
<1>2. w.life \in Nat
  BY DEF PaneWatch
<1>3. ASSUME w.here
      PROVE  Stands(t, N + 1 + 1, p, w.life, w.reported)
  <2>1. Stands(t, N + 2, p, w.life, w.reported)
    BY <1>3, StandsOther DEF Watched
  <2>2. N + 2 = N + 1 + 1
    BY <1>1
  <2> QED
    BY <2>1, <2>2
<1> HIDE DEF t, N
<1>4. ASSUME NEW i \in 1..Len(t), t[i].pane = p
      PROVE  /\ t[i].life <= w.life
             /\ t[i].life = w.life /\ t[i].kind = "exited" => w.exit_recorded \/ ~ w.here
  <2>1. CASE i = N + 1
    BY <1>1, <1>2, <1>4, <2>1
  <2>2. CASE i \in 1..N
    BY <1>1, <1>4, <2>2 DEF N, Watched
  <2> QED
    BY <1>1, <2>1, <2>2
<1>5. Watched(t, p, w)
  BY <1>1, <1>3, <1>4 DEF Watched
<1> QED
  BY <1>5 DEF t

\* An event of no pane.
LEMMA StoryPlain ==
  ASSUME NEW log \in Seq(Event), NEW e \in Event, NEW watch \in [Panes -> PaneWatch], Story(log, watch),
         e.pane = None, e.kind # "title"
  PROVE  Story(Append(log, e), watch)
<1>1. Spanned(Append(log, e)) /\ Chained(Append(log, e))
  BY EventAppended DEF Story
<1>2. ASSUME NEW p \in Panes
      PROVE  Watched(Append(log, e), p, watch[p])
  <2>1. e.pane # p
    BY NamesAssumption
  <2> QED
    BY <2>1, WatchedAppend DEF Story
<1> QED
  BY <1>1, <1>2 DEF Story

\* An event of pane p that leaves its watch at w.
LEMMA StoryOf ==
  ASSUME NEW log \in Seq(Event), NEW e \in Event, NEW watch \in [Panes -> PaneWatch], Story(log, watch),
         NEW p \in Panes, e.pane = p, NEW w, NEW next, next[p] = w, \A r \in Panes \ {p} : next[r] = watch[r],
         Spanned(Append(log, e)), Chained(Append(log, e)), Watched(Append(log, e), p, w)
  PROVE  Story(Append(log, e), next)
<1>1. ASSUME NEW r \in Panes
      PROVE  Watched(Append(log, e), r, next[r])
  <2>1. CASE r = p
    BY <2>1
  <2>2. CASE r # p
    <3>1. watch[r] \in PaneWatch /\ Watched(log, r, watch[r]) /\ next[r] = watch[r] /\ e.pane # r
      BY <2>2 DEF Story
    <3> QED
      BY <3>1, WatchedAppend
  <2> QED
    BY <2>1, <2>2
<1> QED
  BY <1>1 DEF Story

LEMMA StoryStatus ==
  ASSUME NEW log \in Seq(Event), NEW e \in Event, NEW watch \in [Panes -> PaneWatch], Story(log, watch),
         NEW p \in Panes, e.pane = p, e.kind = "status", e.life = watch[p].life,
         watch[p].here, ~ watch[p].exit_recorded
  PROVE  Story(Append(log, e), watch)
<1>1. watch[p] \in PaneWatch /\ Watched(log, p, watch[p])
  BY DEF Story
<1>2. Spanned(Append(log, e)) /\ Chained(Append(log, e))
  <2>1. \A i \in 1..Len(log) :
           e.pane # None /\ log[i].pane = e.pane /\ log[i].life = e.life =>
             log[i].kind # "exited" /\ e.kind # "spawned"
    BY <1>1 DEF Watched
  <2> QED
    BY <2>1, EventAppended DEF Story
<1>3. Watched(Append(log, e), p, watch[p])
  BY <1>1, WatchedAppend
<1>4. watch = [watch EXCEPT ![p] = watch[p]]
  OBVIOUS
<1> QED
  BY <1>2, <1>3, <1>4, StoryOf

LEMMA StoryTitle ==
  ASSUME NEW log \in Seq(Event), NEW e \in Event, NEW watch \in [Panes -> PaneWatch], Story(log, watch),
         NEW p \in Panes, e.pane = p, e.kind = "title", e.life = watch[p].life,
         e.was = watch[p].reported, e.now = watch[p].pending, watch[p].pending # None,
         NEW next \in [Panes -> PaneWatch], \A r \in Panes \ {p} : next[r] = watch[r],
         next[p].here = watch[p].here, next[p].exit_recorded = watch[p].exit_recorded,
         next[p].life = watch[p].life, next[p].reported = watch[p].pending, next[p].pending = None
  PROVE  Story(Append(log, e), next)
<1> DEFINE t == Append(log, e)
<1>1. /\ watch[p] \in PaneWatch /\ Watched(log, p, watch[p])
      /\ watch[p].here /\ ~ watch[p].exit_recorded /\ watch[p].pending # watch[p].reported
      /\ watch[p].life \in Nat /\ watch[p].pending \in Titles
      /\ Stands(log, Len(log) + 1, p, watch[p].life, watch[p].reported)
  BY DEF Story, Watched, PaneWatch
<1>2. PICK w : w = next[p]
  OBVIOUS
<1>3. /\ w \in PaneWatch /\ w.here /\ ~ w.exit_recorded /\ w.pending = None
      /\ w.life = watch[p].life /\ w.reported = watch[p].pending
  BY <1>1, <1>2
<1>5. Spanned(t) /\ Chained(t)
  <2>1. \A i \in 1..Len(log) :
           e.pane # None /\ log[i].pane = e.pane /\ log[i].life = e.life =>
             log[i].kind # "exited" /\ e.kind # "spawned"
    BY <1>1 DEF Watched
  <2>2. e.pane # None /\ e.was # e.now /\ Stands(log, Len(log) + 1, e.pane, e.life, e.was)
    BY <1>1, NamesAssumption
  <2> QED
    BY <2>1, <2>2, EventAppended DEF Story
<1>6. Watched(t, p, w)
  <2> DEFINE N == Len(log)
  <2>1. N \in Nat /\ Len(t) = N + 1 /\ t[N + 1] = e /\ \A i \in 1..N : t[i] = log[i]
    OBVIOUS
  <2>2. Stands(t, N + 2, p, w.life, w.reported)
    BY <1>3, StandsTitle
  <2>3. N + 2 = N + 1 + 1
    BY <2>1
  <2> HIDE DEF t, N
  <2>4. ASSUME NEW i \in 1..Len(t), t[i].pane = p
        PROVE  /\ t[i].life <= w.life
               /\ t[i].life = w.life /\ t[i].kind = "exited" => w.exit_recorded \/ ~ w.here
    <3>1. CASE i = N + 1
      BY <1>1, <1>3, <2>1, <3>1
    <3>2. CASE i \in 1..N
      BY <1>1, <1>3, <2>1, <2>4, <3>2 DEF N, Watched
    <3> QED
      BY <2>1, <3>1, <3>2
  <2> QED
    BY <1>1, <1>3, <2>1, <2>2, <2>3, <2>4 DEF Watched
<1> QED
  BY <1>2, <1>5, <1>6, StoryOf

LEMMA StoryExited ==
  ASSUME NEW log \in Seq(Event), NEW e \in Event, NEW watch \in [Panes -> PaneWatch], Story(log, watch),
         NEW p \in Panes, e.pane = p, e.kind = "exited", e.life = watch[p].life,
         watch[p].here, ~ watch[p].exit_recorded, watch[p].pending = None,
         NEW next, next = [watch EXCEPT ![p].exit_recorded = TRUE]
  PROVE  Story(Append(log, e), next)
<1> DEFINE t == Append(log, e)
<1>1. /\ watch[p] \in PaneWatch /\ Watched(log, p, watch[p]) /\ watch[p].life \in Nat
      /\ watch[p].reported \in Titles
      /\ Stands(log, Len(log) + 1, p, watch[p].life, watch[p].reported)
  BY DEF Story, Watched, PaneWatch
<1>2. PICK w : w = [watch[p] EXCEPT !.exit_recorded = TRUE]
  OBVIOUS
<1>3. /\ w.here /\ w.exit_recorded /\ w.pending = None
      /\ w.life = watch[p].life /\ w.reported = watch[p].reported
  BY <1>1, <1>2 DEF PaneWatch
<1>4. next = [watch EXCEPT ![p] = w]
  BY <1>2
<1>5. Spanned(t) /\ Chained(t)
  <2>1. \A i \in 1..Len(log) :
           e.pane # None /\ log[i].pane = e.pane /\ log[i].life = e.life =>
             log[i].kind # "exited" /\ e.kind # "spawned"
    BY <1>1 DEF Watched
  <2> QED
    BY <2>1, EventAppended DEF Story
<1>6. Watched(t, p, w)
  <2> DEFINE N == Len(log)
  <2>1. N \in Nat /\ Len(t) = N + 1 /\ t[N + 1] = e /\ \A i \in 1..N : t[i] = log[i]
    OBVIOUS
  <2>2. Stands(t, N + 2, p, w.life, w.reported)
    BY <1>1, <1>3, StandsOther
  <2>3. N + 2 = N + 1 + 1
    BY <2>1
  <2> HIDE DEF t, N
  <2>4. ASSUME NEW i \in 1..Len(t), t[i].pane = p
        PROVE  t[i].life <= w.life
    <3>1. CASE i = N + 1
      BY <1>1, <1>3, <2>1, <3>1
    <3>2. CASE i \in 1..N
      BY <1>1, <1>3, <2>1, <2>4, <3>2 DEF N, Watched
    <3> QED
      BY <2>1, <3>1, <3>2
  <2> QED
    BY <1>1, <1>3, <2>1, <2>2, <2>3, <2>4 DEF Watched
<1> QED
  BY <1>4, <1>5, <1>6, StoryOf

LEMMA StorySpawned ==
  ASSUME NEW log \in Seq(Event), NEW e \in Event, NEW watch \in [Panes -> PaneWatch], Story(log, watch),
         NEW p \in Panes, e.pane = p, e.kind = "spawned", e.life = watch[p].life + 1,
         NEW next,
         next = [watch EXCEPT ![p] = [here |-> TRUE, life |-> watch[p].life + 1, reported |-> InitialTitle,
                                      pending |-> None, exit_recorded |-> FALSE]]
  PROVE  Story(Append(log, e), next)
<1> DEFINE t == Append(log, e)
<1>1. watch[p] \in PaneWatch /\ Watched(log, p, watch[p]) /\ watch[p].life \in Nat
  BY DEF Story, PaneWatch
<1>2. PICK w : w = [here |-> TRUE, life |-> watch[p].life + 1, reported |-> InitialTitle,
                    pending |-> None, exit_recorded |-> FALSE]
  OBVIOUS
<1>3. /\ w.here = TRUE /\ w.exit_recorded = FALSE /\ w.pending = None
      /\ w.life = watch[p].life + 1 /\ w.reported = InitialTitle
  BY <1>2
<1>4. next[p] = w /\ \A r \in Panes \ {p} : next[r] = watch[r]
  BY <1>2
<1>5. \A i \in 1..Len(log) : log[i].pane = p => log[i].life \in Nat /\ log[i].life <= watch[p].life
  <2>1. \A i \in 1..Len(log) : log[i] \in Event
    OBVIOUS
  <2> QED
    BY <1>1, <2>1 DEF Watched, Event
<1>6. \A i \in 1..Len(log) : log[i].pane = p => log[i].life < w.life
  BY <1>1, <1>3, <1>5
<1>7. Spanned(t) /\ Chained(t)
  <2>1. \A i \in 1..Len(log) :
           e.pane # None /\ log[i].pane = e.pane /\ log[i].life = e.life =>
             log[i].kind # "exited" /\ e.kind # "spawned"
    BY <1>1, <1>5
  <2> QED
    BY <2>1, EventAppended DEF Story
<1>8. Watched(t, p, w)
  <2> DEFINE N == Len(log)
  <2>1. N \in Nat /\ Len(t) = N + 1 /\ t[N + 1] = e /\ \A i \in 1..N : t[i] = log[i]
    OBVIOUS
  <2>2. Stands(t, N + 2, p, w.life, w.reported)
    <3>1. w.life \in Nat
      BY <1>1, <1>3
    <3>2. Stands(log, Len(log) + 1, p, w.life, w.reported)
      BY <1>3, <1>6, <3>1, StandsFirst
    <3> QED
      BY <3>2, StandsOther
  <2>3. N + 2 = N + 1 + 1
    BY <2>1
  <2> HIDE DEF t, N
  <2>4. ASSUME NEW i \in 1..Len(t), t[i].pane = p
        PROVE  t[i].life <= w.life /\ ~ (t[i].life = w.life /\ t[i].kind = "exited")
    <3>1. CASE i = N + 1
      BY <1>1, <1>3, <2>1, <3>1
    <3>2. CASE i \in 1..N
      BY <1>1, <1>3, <1>5, <2>1, <2>4, <3>2 DEF N
    <3> QED
      BY <2>1, <3>1, <3>2
  <2> QED
    BY <1>1, <1>3, <2>1, <2>2, <2>3, <2>4, NamesAssumption DEF Watched
<1>9. Spanned(Append(log, e)) /\ Chained(Append(log, e)) /\ Watched(Append(log, e), p, w)
  BY <1>7, <1>8
<1>10. \A r \in Panes \ {p} : next[r] = watch[r]
  BY <1>4
<1>11. next[p] = w
  BY <1>4
<1> HIDE DEF t
<1> QED
  BY ONLY log \in Seq(Event), e \in Event, watch \in [Panes -> PaneWatch], Story(log, watch),
          p \in Panes, e.pane = p, <1>9, <1>10, <1>11, StoryOf

\* A pane that is gone, or whose title is pending.
LEMMA StoryQuiet ==
  ASSUME NEW log, NEW watch \in [Panes -> PaneWatch], Story(log, watch), NEW p \in Panes,
         NEW next, \A r \in Panes \ {p} : next[r] = watch[r], NEW w, w = next[p], w.life = watch[p].life,
         w.here => /\ watch[p].here /\ (watch[p].exit_recorded <=> w.exit_recorded)
                   /\ w.reported = watch[p].reported,
         w.pending # None => w.here /\ ~ w.exit_recorded /\ w.pending # w.reported
  PROVE  Story(log, next)
<1>1. Watched(log, p, w)
  <2>1. Watched(log, p, watch[p])
    BY DEF Story
  <2> QED
    BY <2>1 DEF Watched
<1>2. ASSUME NEW r \in Panes
      PROVE  Watched(log, r, next[r])
  BY <1>1 DEF Story
<1> QED
  BY <1>2 DEF Story

----------------------------------------------------------------------------
(* The UIs' messages                                                       *)

\* A state message.
LEMMA HeardState ==
  ASSUME NEW d \in Nat, NEW n \in 0..MaxEvents, NEW k, NEW m, Heard(m, d, k)
  PROVE  Heard(Append(m, <<"state", n>>), d, n) /\ (Last(m) = <<"state", n>> => Heard(m, d, n))
<1>1. PICK x : x = <<"state", n>>
  OBVIOUS
<1>2. x \in UiMessage /\ x[1] # "event"
  BY <1>1 DEF UiMessage
<1>3. /\ m \in Seq(UiMessage) /\ m # <<>> /\ m[1][1] = "state" /\ m[1][2] <= d
      /\ Increasing(m) /\ Numbers(m) = (m[1][2] + 1)..d
      /\ \A i \in DOMAIN m : m[i][1] = "event" => \E j \in 1..(i - 1) : m[j][1] = "state" /\ m[j][2] >= m[i][2]
  BY DEF Heard
<1>4. PICK t : t = Append(m, x)
  OBVIOUS
<1>5. /\ t \in Seq(UiMessage) /\ t # <<>> /\ t[1] = m[1] /\ Len(m) \in Nat
      /\ DOMAIN m = 1..Len(m) /\ DOMAIN t = 1..(Len(m) + 1)
      /\ \A i \in 1..Len(m) : t[i] = m[i]
      /\ t[Len(m) + 1] = x
  BY <1>2, <1>3, <1>4
<1>6. Increasing(t) /\ Numbers(t) = Numbers(m)
  BY <1>2, <1>3, <1>4, IncreasingAppend, NumbersAppend
<1>7. ASSUME NEW i \in DOMAIN t, t[i][1] = "event"
      PROVE  \E j \in 1..(i - 1) : t[j][1] = "state" /\ t[j][2] >= t[i][2]
  <2>1. i \in 1..Len(m) /\ i \in DOMAIN m /\ t[i] = m[i]
    BY <1>2, <1>5, <1>7
  <2>2. PICK j \in 1..(i - 1) : m[j][1] = "state" /\ m[j][2] >= m[i][2]
    BY <1>3, <1>7, <2>1
  <2>3. j \in 1..Len(m)
    BY <1>5, <2>1
  <2> QED
    BY <1>5, <2>1, <2>2, <2>3
<1>8. \E j \in DOMAIN t : t[j] = <<"state", n>>
  BY <1>1, <1>5
<1>9. Heard(t, d, n)
  BY <1>3, <1>5, <1>6, <1>7, <1>8 DEF Heard
<1>10. ASSUME Last(m) = <<"state", n>>
       PROVE  Heard(m, d, n)
  <2>1. Len(m) \in DOMAIN m /\ m[Len(m)] = <<"state", n>>
    BY <1>3, <1>10 DEF Last
  <2> QED
    BY <1>3, <2>1 DEF Heard
<1> QED
  BY <1>1, <1>4, <1>9, <1>10

\* The next event.
LEMMA HeardEvent ==
  ASSUME NEW d \in Nat, NEW n \in 0..MaxEvents, d < n, NEW m, Heard(m, d, n)
  PROVE  Heard(Append(m, <<"event", d + 1>>), d + 1, n)
<1>1. PICK x : x = <<"event", d + 1>>
  OBVIOUS
<1>2. x \in UiMessage /\ x[1] = "event" /\ x[2] = d + 1
  <2>1. d + 1 \in 0..MaxEvents
    BY SizesAssumption
  <2> QED
    BY <1>1, <2>1 DEF UiMessage
<1>3. /\ m \in Seq(UiMessage) /\ m # <<>> /\ m[1][1] = "state" /\ m[1][2] <= d
      /\ Increasing(m) /\ Numbers(m) = (m[1][2] + 1)..d
      /\ \A i \in DOMAIN m : m[i][1] = "event" => \E j \in 1..(i - 1) : m[j][1] = "state" /\ m[j][2] >= m[i][2]
      /\ \E j \in DOMAIN m : m[j] = <<"state", n>>
  BY DEF Heard
<1>4. PICK t : t = Append(m, x)
  OBVIOUS
<1>5. /\ t \in Seq(UiMessage) /\ t # <<>> /\ t[1] = m[1] /\ Len(m) \in Nat
      /\ DOMAIN m = 1..Len(m) /\ DOMAIN t = 1..(Len(m) + 1)
      /\ \A i \in 1..Len(m) : t[i] = m[i]
      /\ t[Len(m) + 1] = x
  BY <1>2, <1>3, <1>4
<1>6. m[1][2] \in Nat
  <2>1. 1 \in DOMAIN m
    BY <1>3
  <2>2. m[1] \in UiMessage
    BY <1>3, <2>1
  <2> QED
    BY <2>2, SizesAssumption DEF UiMessage
<1>7. Increasing(t)
  <2>1. \A k \in Numbers(m) : k < d + 1
    BY <1>3, <1>6
  <2> QED
    BY <1>2, <1>3, <1>4, <2>1, IncreasingAppend
<1>8. Numbers(t) = (t[1][2] + 1)..(d + 1)
  <2>1. Numbers(t) = Numbers(m) \cup {d + 1}
    BY <1>2, <1>3, <1>4, NumbersAppend
  <2>2. \A a \in Nat : a <= d => (a + 1)..(d + 1) = ((a + 1)..d) \cup {d + 1}
    OBVIOUS
  <2> QED
    BY <1>3, <1>5, <1>6, <2>1, <2>2
<1>9. ASSUME NEW i \in DOMAIN t, t[i][1] = "event"
      PROVE  \E j \in 1..(i - 1) : t[j][1] = "state" /\ t[j][2] >= t[i][2]
  <2>1. CASE i \in 1..Len(m)
    <3>1. i \in DOMAIN m /\ t[i] = m[i]
      BY <1>5, <2>1
    <3>2. PICK j \in 1..(i - 1) : m[j][1] = "state" /\ m[j][2] >= m[i][2]
      BY <1>3, <1>9, <3>1
    <3>3. j \in 1..Len(m)
      BY <1>5, <2>1
    <3> QED
      BY <1>5, <3>1, <3>2, <3>3
  <2>2. CASE i = Len(m) + 1
    <3>1. PICK j \in DOMAIN m : m[j] = <<"state", n>>
      BY <1>3
    <3>2. j \in 1..(i - 1) /\ t[j] = m[j] /\ t[i] = x
      BY <1>5, <2>2
    <3>3. t[j][1] = "state" /\ t[j][2] = n
      BY <3>1, <3>2
    <3>4. n >= d + 1
      OBVIOUS
    <3> QED
      BY <1>2, <3>2, <3>3, <3>4
  <2> QED
    BY <1>5, <2>1, <2>2
<1>10. \E j \in DOMAIN t : t[j] = <<"state", n>>
  <2>1. PICK j \in DOMAIN m : m[j] = <<"state", n>>
    BY <1>3
  <2> QED
    BY <1>5, <2>1
<1>11. t[1][1] = "state" /\ t[1][2] <= d + 1
  BY <1>3, <1>5, <1>6
<1>12. Heard(t, d + 1, n)
  BY <1>5, <1>7, <1>8, <1>9, <1>10, <1>11 DEF Heard
<1> QED
  BY <1>1, <1>4, <1>12

\* An attach reply at event n, and the roster after client-joined.
LEMMA HeardAttach ==
  ASSUME NEW n \in 0..MaxEvents, n + 1 \in 0..MaxEvents
  PROVE  Heard(<<<<"state", n>>, <<"state", n + 1>>>>, n, n + 1)
<1>1. PICK a, b : a = <<"state", n>> /\ b = <<"state", n + 1>>
  OBVIOUS
<1>2. a \in UiMessage /\ b \in UiMessage /\ a[1] = "state" /\ b[1] = "state" /\ a[2] = n
  BY <1>1 DEF UiMessage
<1>3. PICK m : m = <<a, b>>
  OBVIOUS
<1>4. m \in Seq(UiMessage) /\ m # <<>> /\ DOMAIN m = 1..2 /\ m[1] = a /\ m[2] = b
  BY <1>2, <1>3
<1>5. \A i \in DOMAIN m : m[i][1] # "event"
  <2>1. \A i \in 1..2 : i = 1 \/ i = 2
    OBVIOUS
  <2> QED
    BY <1>2, <1>4, <2>1
<1>6. Increasing(m) /\ Numbers(m) = {}
  BY <1>5 DEF Increasing, Numbers
<1>7. (n + 1)..n = {} /\ n <= n
  OBVIOUS
<1>8. \E j \in DOMAIN m : m[j] = <<"state", n + 1>>
  BY <1>1, <1>4
<1>9. Heard(m, n, n + 1)
  BY <1>2, <1>4, <1>5, <1>6, <1>7, <1>8 DEF Heard
<1> QED
  BY <1>1, <1>3, <1>9

\* Every UI is told of the state as of the last event.
LEMMA ToldAudience ==
  ASSUME NEW d \in Nat, NEW k, NEW n \in 0..MaxEvents,
         \A u \in UIs : ui[u] # None => Heard(ui[u], d, k)
  PROVE  \A u \in UIs : Told(n)[u] # None => Heard(Told(n)[u], d, n)
<1> SUFFICES ASSUME NEW u \in UIs, Told(n)[u] # None
             PROVE  Heard(Told(n)[u], d, n)
  OBVIOUS
<1>1. Told(n)[u] = IF ui[u] = None \/ Last(ui[u]) = <<"state", n>> THEN ui[u]
                   ELSE Append(ui[u], <<"state", n>>)
  BY DEF Told
<1>2. ui[u] # None
  BY <1>1
<1>3. Heard(ui[u], d, k)
  BY <1>2
<1>4. Heard(Append(ui[u], <<"state", n>>), d, n) /\ (Last(ui[u]) = <<"state", n>> => Heard(ui[u], d, n))
  BY <1>3, HeardState
<1>5. CASE Last(ui[u]) = <<"state", n>>
  <2>1. Told(n)[u] = ui[u]
    BY <1>1, <1>5
  <2> QED
    BY <1>4, <1>5, <2>1
<1>6. CASE Last(ui[u]) # <<"state", n>>
  <2>1. Told(n)[u] = Append(ui[u], <<"state", n>>)
    BY <1>1, <1>2, <1>6
  <2> QED
    BY <1>4, <2>1
<1> QED
  BY <1>5, <1>6

----------------------------------------------------------------------------
(* The actions                                                             *)

IsLog(l) == \E X : l \in Seq(X)

LEMMA InvFacts ==
  ASSUME Inv
  PROVE  /\ srv \in Server /\ srv.log \in Seq(Event) /\ IsLog(srv.log) /\ srv.conn \in [Readers -> Connection]
         /\ Len(srv.log) \in Nat /\ Len(srv.log) \in 0..MaxEvents /\ MaxEvents \in Nat
         /\ Len(srv.undelivered) \in Nat
         /\ Len(srv.log) - Len(srv.undelivered) \in Nat
         /\ \A u \in UIs : ui[u] # None => Heard(ui[u], Len(srv.log) - Len(srv.undelivered), Len(srv.log))
<1>1. srv \in Server /\ Len(srv.log) <= MaxEvents /\ Pending(srv) /\ Audience(srv, ui)
  BY DEF Inv, Running
<1>2. /\ srv.log \in Seq(Event) /\ srv.undelivered \in Seq(1..MaxEvents)
      /\ srv.conn \in [Readers -> Connection]
  BY <1>1 DEF Server
<1>3. Len(srv.log) \in Nat /\ Len(srv.undelivered) \in Nat /\ MaxEvents \in Nat
  BY <1>2, SizesAssumption
<1>4. Len(srv.undelivered) <= Len(srv.log)
  BY <1>1 DEF Pending
<1>5. IsLog(srv.log)
  BY <1>2 DEF IsLog
<1>6. \A a, b, c \in Nat : b <= a /\ a <= c => a - b \in Nat /\ a \in 0..c
  OBVIOUS
<1> QED
  BY <1>1, <1>2, <1>3, <1>4, <1>5, <1>6 DEF Audience

\* Recording makes the log one longer, whatever is recorded.
LEMMA RecordLength ==
  ASSUME NEW s, IsLog(s.log), NEW kind, NEW p, NEW was, NEW now, NEW size
  PROVE  /\ IsLog(Record(s, kind, p, was, now, size).log)
         /\ Len(Record(s, kind, p, was, now, size).log) = Len(s.log) + 1 /\ Len(s.log) \in Nat
<1>1. PICK e : e = EventOf(s, kind, p, was, now, size)
  OBVIOUS
<1>2. Record(s, kind, p, was, now, size).log = Append(s.log, e)
  BY <1>1 DEF Record, EventOf
<1>3. PICK X : s.log \in Seq(X)
  BY DEF IsLog
<1>4. s.log \in Seq(X \cup {e})
  BY <1>3
<1>5. Append(s.log, e) \in Seq(X \cup {e}) /\ Len(Append(s.log, e)) = Len(s.log) + 1 /\ Len(s.log) \in Nat
  BY <1>4
<1> QED
  BY <1>2, <1>5 DEF IsLog

\* A handler that leaves a sound server.
LEMMA PublishSound ==
  ASSUME Inv, NEW s, Running(s, run), Publish(s),
         Len(s.log) - Len(s.undelivered) = Len(srv.log) - Len(srv.undelivered)
  PROVE  srv' = s /\ Running(srv', run) /\ Audience(srv', ui')
<1>1. srv' = s /\ ui' = Told(Len(s.log))
  BY DEF Publish
<1>2. Len(s.log) \in 0..MaxEvents
  <2>1. s.log \in Seq(Event) /\ Len(s.log) <= MaxEvents
    BY DEF Running, Server
  <2> QED
    BY <2>1, SizesAssumption
<1>3. PICK d : d = Len(srv.log) - Len(srv.undelivered)
  OBVIOUS
<1>4. d \in Nat /\ \A u \in UIs : ui[u] # None => Heard(ui[u], d, Len(srv.log))
  BY <1>3, InvFacts
<1>5. \A u \in UIs : Told(Len(s.log))[u] # None => Heard(Told(Len(s.log))[u], d, Len(s.log))
  BY <1>2, <1>4, ToldAudience
<1> QED
  BY <1>1, <1>3, <1>5 DEF Audience

\* One event.
Noted(s, t, n, kind, p, was, now) ==
  /\ Running(t, n) /\ Len(t.log) - Len(t.undelivered) = Len(s.log) - Len(s.undelivered)
  /\ s.log \in Seq(Event) /\ Len(s.log) \in Nat /\ Len(t.log) = Len(s.log) + 1
  /\ \E e \in Event :
       /\ t.log = Append(s.log, e)
       /\ e.kind = kind /\ e.pane = p /\ e.was = was /\ e.now = now
       /\ e.life = IF p = None THEN 0 ELSE pane[p].life + (IF kind = "spawned" THEN 1 ELSE 0)

LEMMA RecordSound ==
  ASSUME pane \in [Panes -> PaneWatch], NEW s, NEW n, Running(s, n),
         NEW kind \in Kinds, NEW p \in Panes \cup {None}, NEW was \in Titles \cup {None},
         NEW now \in Titles \cup {None}, NEW size \in Nat, NEW t, t = Record(s, kind, p, was, now, size),
         Len(t.log) <= MaxEvents
  PROVE  Noted(s, t, n, kind, p, was, now)
<1>1. s.log \in Seq(Event) /\ s.undelivered \in Seq(1..MaxEvents)
  BY DEF Running, Server
<1>2. Len(t.log) = Len(s.log) + 1 /\ Len(s.log) \in Nat /\ Len(s.undelivered) \in Nat
  <2>1. IsLog(s.log) /\ Len(s.undelivered) \in Nat
    BY <1>1 DEF IsLog
  <2> QED
    BY <2>1, RecordLength
<1>3. Len(s.log) < MaxEvents
  BY <1>2, SizesAssumption
<1>4. PICK e : e = EventOf(s, kind, p, was, now, size)
  OBVIOUS
<1>5. Running(t, n) /\ e \in Event /\ t.log = Append(s.log, e)
      /\ Len(t.undelivered) = Len(s.undelivered) + 1
  <2>1. Recorded(s, t, n, e)
    BY <1>3, <1>4, RecordRunning
  <2> QED
    BY <2>1 DEF Recorded
<1>6. /\ e.kind = kind /\ e.pane = p /\ e.was = was /\ e.now = now
      /\ e.life = IF p = None THEN 0 ELSE pane[p].life + (IF kind = "spawned" THEN 1 ELSE 0)
  BY <1>4 DEF EventOf
<1>7. \A a, b \in Nat : (a + 1) - (b + 1) = a - b
  OBVIOUS
<1>8. Len(t.log) - Len(t.undelivered) = Len(s.log) - Len(s.undelivered)
  BY <1>2, <1>5, <1>7
<1> QED
  BY <1>1, <1>2, <1>5, <1>6, <1>8 DEF Noted

\* One event of a pane that goes on living.
Mentioned(s, t, n, kind, p, was, now) ==
  /\ Running(t, n) /\ Len(t.log) - Len(t.undelivered) = Len(s.log) - Len(s.undelivered)
  /\ s.log \in Seq(Event)
  /\ \E e \in Event : /\ t.log = Append(s.log, e) /\ e.kind = kind /\ e.pane = p
                       /\ e.life = pane[p].life /\ e.was = was /\ e.now = now

LEMMA MentionSound ==
  ASSUME pane \in [Panes -> PaneWatch], NEW s, NEW n, Running(s, n),
         NEW kind \in Kinds, NEW p \in Panes, NEW was \in Titles \cup {None},
         NEW now \in Titles \cup {None}, NEW size \in Nat, NEW t, t = Record(s, kind, p, was, now, size),
         Len(t.log) <= MaxEvents, kind # "spawned"
  PROVE  Mentioned(s, t, n, kind, p, was, now)
<1>1. p # None /\ p \in Panes \cup {None}
  BY NamesAssumption
<1>2. Noted(s, t, n, kind, p, was, now)
  BY <1>1, RecordSound
<1>3. PICK e \in Event :
       /\ t.log = Append(s.log, e)
       /\ e.kind = kind /\ e.pane = p /\ e.was = was /\ e.now = now
       /\ e.life = IF p = None THEN 0 ELSE pane[p].life + (IF kind = "spawned" THEN 1 ELSE 0)
  BY <1>2 DEF Noted
<1>4. pane[p].life \in Nat
  BY DEF PaneWatch
<1>5. e.life = pane[p].life
  BY <1>1, <1>3, <1>4
<1> QED
  BY <1>2, <1>3, <1>5 DEF Noted, Mentioned

LEMMA SpawnSound ==
  ASSUME Inv, NEW p \in Panes, Spawn(p)
  PROVE  Inv'
<1>1. PICK s : s = Record(srv, "spawned", p, None, None, 1)
  OBVIOUS
<1>2. PICK t : t = Record(s, "layout", None, None, None, 1)
  OBVIOUS
<1>3. Publish(t) /\ Len(t.log) <= MaxEvents
  BY <1>1, <1>2 DEF Spawn, Publish
<1>4. PICK w : w = [here |-> TRUE, life |-> pane[p].life + 1, reported |-> InitialTitle,
                    pending |-> None, exit_recorded |-> FALSE]
  OBVIOUS
<1>5. pane \in [Panes -> PaneWatch] /\ pane' = [pane EXCEPT ![p] = w] /\ UNCHANGED <<run, phase>>
  BY <1>4 DEF Inv, Spawn
<1>6. w \in PaneWatch
  <2>1. pane[p].life + 1 \in Nat
    BY <1>5 DEF PaneWatch
  <2> QED
    BY <1>4, <2>1, NamesAssumption DEF PaneWatch
<1>7. Running(srv, run) /\ Story(srv.log, pane)
  BY DEF Inv
<1>8. Len(s.log) <= MaxEvents
  <2>1. Len(s.log) = Len(srv.log) + 1 /\ Len(srv.log) \in Nat /\ IsLog(s.log)
    BY <1>1, InvFacts, RecordLength
  <2>2. Len(t.log) = Len(s.log) + 1
    BY <1>2, <2>1, RecordLength
  <2> QED
    BY <1>3, <2>1, <2>2, SizesAssumption
<1>9. /\ Running(s, run) /\ Len(s.log) - Len(s.undelivered) = Len(srv.log) - Len(srv.undelivered)
      /\ srv.log \in Seq(Event)
      /\ \E e \in Event : s.log = Append(srv.log, e) /\ e.kind = "spawned" /\ e.pane = p
                           /\ e.life = pane[p].life + 1
  <2>1. p # None /\ "spawned" \in Kinds /\ 1 \in Nat /\ None \in Titles \cup {None} /\ p \in Panes \cup {None}
    BY NamesAssumption DEF Kinds
  <2>2. Noted(srv, s, run, "spawned", p, None, None)
    BY <1>1, <1>5, <1>7, <1>8, <2>1, RecordSound
  <2> QED
    BY <2>1, <2>2 DEF Noted
<1>10. /\ Running(t, run) /\ Len(t.log) - Len(t.undelivered) = Len(s.log) - Len(s.undelivered)
       /\ s.log \in Seq(Event)
       /\ \E e \in Event : t.log = Append(s.log, e) /\ e.kind = "layout" /\ e.pane = None
  <2>1. "layout" \in Kinds /\ 1 \in Nat /\ None \in Titles \cup {None} /\ None \in Panes \cup {None}
    BY DEF Kinds
  <2>2. Noted(s, t, run, "layout", None, None, None)
    BY <1>2, <1>3, <1>5, <1>9, <2>1, RecordSound
  <2> QED
    BY <2>2 DEF Noted
<1>11. srv' = t /\ Running(srv', run) /\ Audience(srv', ui')
  BY <1>3, <1>9, <1>10, PublishSound
<1>12. Story(s.log, pane')
  BY <1>4, <1>5, <1>7, <1>9, StorySpawned
<1>13. pane' \in [Panes -> PaneWatch]
  BY <1>5, <1>6
<1>14. Story(t.log, pane')
  <2>1. PICK next : next = pane'
    OBVIOUS
  <2>2. PICK e \in Event : t.log = Append(s.log, e) /\ e.kind = "layout" /\ e.pane = None
    BY <1>10
  <2> QED
    BY <1>10, <1>12, <1>13, <2>1, <2>2, StoryPlain
<1> QED
  BY <1>5, <1>11, <1>13, <1>14 DEF Inv

\* An event of no pane.
LEMMA PlainSound ==
  ASSUME Inv, NEW kind \in Kinds, kind # "title", NEW t, t = Record(srv, kind, None, None, None, 1),
         Len(t.log) <= MaxEvents
  PROVE  /\ Running(t, run) /\ Len(t.log) - Len(t.undelivered) = Len(srv.log) - Len(srv.undelivered)
         /\ Story(t.log, pane) /\ Len(t.log) = Len(srv.log) + 1
<1>1. pane \in [Panes -> PaneWatch] /\ Running(srv, run) /\ Story(srv.log, pane)
  BY DEF Inv
<1>2. /\ Running(t, run) /\ Len(t.log) - Len(t.undelivered) = Len(srv.log) - Len(srv.undelivered)
      /\ srv.log \in Seq(Event) /\ Len(t.log) = Len(srv.log) + 1
      /\ \E e \in Event : t.log = Append(srv.log, e) /\ e.kind = kind /\ e.pane = None
  <2>1. 1 \in Nat /\ None \in Titles \cup {None} /\ None \in Panes \cup {None}
    OBVIOUS
  <2>2. Noted(srv, t, run, kind, None, None, None)
    BY <1>1, <2>1, RecordSound
  <2> QED
    BY <2>2 DEF Noted
<1>3. Story(t.log, pane)
  <2>1. PICK e \in Event : t.log = Append(srv.log, e) /\ e.kind = kind /\ e.pane = None
    BY <1>2
  <2> QED
    BY <1>1, <1>2, <2>1, StoryPlain
<1> QED
  BY <1>2, <1>3

LEMMA ObserveTitleSound ==
  ASSUME Inv, NEW p \in Panes, NEW title \in Titles, ObserveTitle(p, title)
  PROVE  Inv'
<1>1. /\ pane \in [Panes -> PaneWatch] /\ pane[p] \in PaneWatch /\ pane[p].here /\ ~ pane[p].exit_recorded
      /\ UNCHANGED <<run, srv, ui, phase>>
  BY DEF Inv, ObserveTitle
<1>2. PICK w : w = [pane[p] EXCEPT !.pending = IF title = pane[p].reported THEN None ELSE title]
  OBVIOUS
<1>3. pane' = [pane EXCEPT ![p] = w]
  BY <1>1, <1>2 DEF ObserveTitle
<1>4. /\ w \in PaneWatch /\ w.life = pane[p].life /\ w.here = pane[p].here
      /\ w.exit_recorded = pane[p].exit_recorded /\ w.reported = pane[p].reported
      /\ w.pending = IF title = pane[p].reported THEN None ELSE title
  BY <1>1, <1>2 DEF PaneWatch
<1>5. pane' \in [Panes -> PaneWatch]
  BY <1>1, <1>3, <1>4
<1>6. Story(srv.log, pane')
  <2>1. Story(srv.log, pane)
    BY DEF Inv
  <2>2. w.pending # None => w.here /\ ~ w.exit_recorded /\ w.pending # w.reported
    BY <1>1, <1>4
  <2>3. PICK next : next = pane'
    OBVIOUS
  <2>4. next[p] = w /\ \A r \in Panes \ {p} : next[r] = pane[r]
    BY <1>1, <1>3, <2>3
  <2>5. w.here => /\ pane[p].here /\ (pane[p].exit_recorded <=> w.exit_recorded)
                  /\ w.reported = pane[p].reported
    BY <1>1, <1>4
  <2>6. w = next[p] /\ w.life = pane[p].life /\ \A r \in Panes \ {p} : next[r] = pane[r]
    BY <1>4, <2>4
  <2> HIDE <1>1
  <2>7. pane \in [Panes -> PaneWatch]
    BY <1>1
  <2>8. Story(srv.log, next)
    BY ONLY p \in Panes, <2>1, <2>2, <2>5, <2>6, <2>7, StoryQuiet
  <2> QED
    BY <2>3, <2>8
<1> QED
  BY <1>1, <1>5, <1>6 DEF Inv

LEMMA SettleTitleSound ==
  ASSUME Inv, NEW p \in Panes, SettleTitle(p)
  PROVE  Inv'
<1>1. /\ pane \in [Panes -> PaneWatch] /\ pane[p] \in PaneWatch /\ pane[p].here /\ pane[p].pending # None
      /\ pane' = [pane EXCEPT ![p].reported = pane[p].pending, ![p].pending = None]
      /\ UNCHANGED <<run, phase>>
      /\ Running(srv, run) /\ Story(srv.log, pane)
  BY DEF Inv, SettleTitle
<1>2. PICK t : t = Record(srv, "title", p, pane[p].reported, pane[p].pending, 1)
  OBVIOUS
<1>3. Publish(t) /\ Len(t.log) <= MaxEvents
  BY <1>2 DEF SettleTitle, Publish
<1>4. /\ Running(t, run) /\ Len(t.log) - Len(t.undelivered) = Len(srv.log) - Len(srv.undelivered)
      /\ srv.log \in Seq(Event)
      /\ \E e \in Event : /\ t.log = Append(srv.log, e) /\ e.kind = "title" /\ e.pane = p
                           /\ e.life = pane[p].life /\ e.was = pane[p].reported /\ e.now = pane[p].pending
  <2>1. /\ "title" \in Kinds /\ "title" # "spawned" /\ 1 \in Nat
        /\ pane[p].reported \in Titles \cup {None} /\ pane[p].pending \in Titles \cup {None}
    BY <1>1 DEF Kinds, PaneWatch
  <2>2. Mentioned(srv, t, run, "title", p, pane[p].reported, pane[p].pending)
    BY <1>1, <1>2, <1>3, <2>1, MentionSound
  <2> QED
    BY <2>2 DEF Mentioned
<1>5. srv' = t /\ Running(srv', run) /\ Audience(srv', ui')
  BY <1>3, <1>4, PublishSound
<1>6. Story(t.log, pane') /\ pane' \in [Panes -> PaneWatch]
  <2>1. PICK next : next = pane'
    OBVIOUS
  <2>2. PICK e \in Event : /\ t.log = Append(srv.log, e) /\ e.kind = "title" /\ e.pane = p
                           /\ e.life = pane[p].life /\ e.was = pane[p].reported /\ e.now = pane[p].pending
    BY <1>4
  <2>3. /\ next \in [Panes -> PaneWatch] /\ \A r \in Panes \ {p} : next[r] = pane[r]
        /\ next[p].here = pane[p].here /\ next[p].exit_recorded = pane[p].exit_recorded
        /\ next[p].life = pane[p].life /\ next[p].reported = pane[p].pending /\ next[p].pending = None
    BY <1>1, <2>1 DEF PaneWatch
  <2>4. Story(Append(srv.log, e), next)
    BY <1>1, <1>4, <2>2, <2>3, StoryTitle
  <2> QED
    BY <2>1, <2>2, <2>3, <2>4
<1> QED
  BY <1>1, <1>5, <1>6 DEF Inv

LEMMA RuntimeChangeSound ==
  ASSUME Inv, NEW p \in Panes, NEW size \in Sizes, RuntimeChange(p, size)
  PROVE  Inv'
<1>1. /\ pane \in [Panes -> PaneWatch] /\ pane[p] \in PaneWatch /\ pane[p].here
      /\ UNCHANGED <<run, pane, phase>>
      /\ Running(srv, run) /\ Story(srv.log, pane)
  BY DEF Inv, RuntimeChange
<1>2. CASE pane[p].exit_recorded
  <2>1. Publish(srv)
    BY <1>2 DEF RuntimeChange
  <2>2. srv' = srv /\ Running(srv', run) /\ Audience(srv', ui')
    BY <1>1, <2>1, PublishSound
  <2> QED
    BY <1>1, <2>2 DEF Inv
<1>3. CASE ~ pane[p].exit_recorded
  <2>1. PICK t : t = Record(srv, "status", p, None, None, size)
    OBVIOUS
  <2>2. Publish(t) /\ Len(t.log) <= MaxEvents
    BY <1>3, <2>1 DEF RuntimeChange, Publish
  <2>3. /\ Running(t, run) /\ Len(t.log) - Len(t.undelivered) = Len(srv.log) - Len(srv.undelivered)
        /\ srv.log \in Seq(Event)
        /\ \E e \in Event : /\ t.log = Append(srv.log, e) /\ e.kind = "status" /\ e.pane = p
                             /\ e.life = pane[p].life
    <3>1. "status" \in Kinds /\ "status" # "spawned" /\ size \in Nat /\ None \in Titles \cup {None}
      BY SizesAssumption DEF Kinds
    <3>2. Mentioned(srv, t, run, "status", p, None, None)
      BY <1>1, <2>1, <2>2, <3>1, MentionSound
    <3> QED
      BY <3>2 DEF Mentioned
  <2>4. srv' = t /\ Running(srv', run) /\ Audience(srv', ui')
    BY <2>2, <2>3, PublishSound
  <2>5. Story(t.log, pane)
    BY <1>1, <1>3, <2>3, StoryStatus
  <2> QED
    BY <1>1, <2>4, <2>5 DEF Inv
<1> QED
  BY <1>2, <1>3

\* A title that was still waiting goes first, and leaves a watch as settling would.
LEMMA ExitSound ==
  ASSUME Inv, NEW p \in Panes, Exit(p)
  PROVE  Inv'
<1>1. /\ pane \in [Panes -> PaneWatch] /\ pane[p] \in PaneWatch /\ pane[p].here /\ ~ pane[p].exit_recorded
      /\ UNCHANGED <<run, phase>>
      /\ Running(srv, run) /\ Story(srv.log, pane)
  BY DEF Inv, Exit
<1>2. PICK s : s = IF pane[p].pending = None THEN srv
                   ELSE Record(srv, "title", p, pane[p].reported, pane[p].pending, 1)
  OBVIOUS
<1>3. PICK t : t = Record(s, "exited", p, None, None, 1)
  OBVIOUS
<1>4. Publish(t) /\ Len(t.log) <= MaxEvents
  BY <1>2, <1>3 DEF Exit, Publish
<1>5. /\ "title" \in Kinds /\ "title" # "spawned" /\ "exited" \in Kinds /\ "exited" # "spawned"
      /\ None \in Titles \cup {None} /\ 1 \in Nat
      /\ pane[p].reported \in Titles \cup {None} /\ pane[p].pending \in Titles \cup {None}
  BY <1>1 DEF Kinds, PaneWatch
<1>6. Len(s.log) <= MaxEvents
  <2>1. CASE pane[p].pending = None
    BY <1>2, <2>1, InvFacts
  <2>2. CASE pane[p].pending # None
    <3>1. Len(s.log) = Len(srv.log) + 1 /\ Len(srv.log) \in Nat /\ IsLog(s.log)
      BY <1>2, <2>2, InvFacts, RecordLength
    <3>2. Len(t.log) = Len(s.log) + 1
      BY <1>3, <3>1, RecordLength
    <3> QED
      BY <1>4, <3>1, <3>2, SizesAssumption
  <2> QED
    BY <2>1, <2>2
<1>7. PICK watch : watch = IF pane[p].pending = None THEN pane
                           ELSE [pane EXCEPT ![p].reported = pane[p].pending, ![p].pending = None]
  OBVIOUS
<1>8. /\ Running(s, run) /\ Len(s.log) - Len(s.undelivered) = Len(srv.log) - Len(srv.undelivered)
      /\ Story(s.log, watch) /\ watch \in [Panes -> PaneWatch]
      /\ watch[p].here /\ ~ watch[p].exit_recorded /\ watch[p].pending = None /\ watch[p].life = pane[p].life
  <2>1. CASE pane[p].pending = None
    BY <1>1, <1>2, <1>7, <2>1
  <2>2. CASE pane[p].pending # None
    <3>1. s = Record(srv, "title", p, pane[p].reported, pane[p].pending, 1)
      BY <1>2, <2>2
    <3>2. /\ Running(s, run) /\ Len(s.log) - Len(s.undelivered) = Len(srv.log) - Len(srv.undelivered)
          /\ srv.log \in Seq(Event)
          /\ \E e \in Event : /\ s.log = Append(srv.log, e) /\ e.kind = "title" /\ e.pane = p
                               /\ e.life = pane[p].life /\ e.was = pane[p].reported /\ e.now = pane[p].pending
      <4>1. Mentioned(srv, s, run, "title", p, pane[p].reported, pane[p].pending)
        BY <1>1, <1>5, <1>6, <3>1, MentionSound
      <4> QED
        BY <4>1 DEF Mentioned
    <3>3. watch = [pane EXCEPT ![p].reported = pane[p].pending, ![p].pending = None]
      BY <1>7, <2>2
    <3>4. PICK e \in Event : /\ s.log = Append(srv.log, e) /\ e.kind = "title" /\ e.pane = p
                             /\ e.life = pane[p].life /\ e.was = pane[p].reported /\ e.now = pane[p].pending
      BY <3>2
    <3>5. /\ watch \in [Panes -> PaneWatch] /\ \A r \in Panes \ {p} : watch[r] = pane[r]
          /\ watch[p].here = pane[p].here /\ watch[p].exit_recorded = pane[p].exit_recorded
          /\ watch[p].life = pane[p].life /\ watch[p].reported = pane[p].pending /\ watch[p].pending = None
      BY <1>1, <3>3 DEF PaneWatch
    <3>6. Story(Append(srv.log, e), watch)
      BY <1>1, <2>2, <3>2, <3>4, <3>5, StoryTitle
    <3> QED
      BY <1>1, <3>2, <3>4, <3>5, <3>6
  <2> QED
    BY <2>1, <2>2
<1>9. pane' = [watch EXCEPT ![p].exit_recorded = TRUE]
  <2>1. CASE pane[p].pending = None
    <3>1. pane' = [pane EXCEPT ![p] = [pane[p] EXCEPT !.exit_recorded = TRUE, !.pending = None,
                                                      !.reported = pane[p].reported]]
      BY <2>1 DEF Exit
    <3> QED
      BY <1>1, <1>7, <2>1, <3>1 DEF PaneWatch
  <2>2. CASE pane[p].pending # None
    <3>1. pane' = [pane EXCEPT ![p] = [pane[p] EXCEPT !.exit_recorded = TRUE, !.pending = None,
                                                      !.reported = pane[p].pending]]
      BY <2>2 DEF Exit
    <3>2. watch = [pane EXCEPT ![p] = [pane[p] EXCEPT !.reported = pane[p].pending, !.pending = None]]
      BY <1>7, <2>2
    <3> QED
      BY <1>1, <3>1, <3>2 DEF PaneWatch
  <2> QED
    BY <2>1, <2>2
<1>10. /\ Running(t, run) /\ Len(t.log) - Len(t.undelivered) = Len(s.log) - Len(s.undelivered)
       /\ s.log \in Seq(Event)
       /\ \E e \in Event : /\ t.log = Append(s.log, e) /\ e.kind = "exited" /\ e.pane = p
                            /\ e.life = pane[p].life
  <2>1. Mentioned(s, t, run, "exited", p, None, None)
    BY <1>1, <1>3, <1>4, <1>5, <1>8, MentionSound
  <2> QED
    BY <2>1 DEF Mentioned
<1>11. srv' = t /\ Running(srv', run) /\ Audience(srv', ui')
  BY <1>4, <1>8, <1>10, PublishSound
<1>12. Story(t.log, pane')
  BY <1>8, <1>9, <1>10, StoryExited
<1>13. pane' \in [Panes -> PaneWatch]
  <2>1. [watch[p] EXCEPT !.exit_recorded = TRUE] \in PaneWatch
    BY <1>8 DEF PaneWatch
  <2>2. pane' = [watch EXCEPT ![p] = [watch[p] EXCEPT !.exit_recorded = TRUE]]
    BY <1>9
  <2> QED
    BY <1>8, <2>1, <2>2
<1> QED
  BY <1>1, <1>11, <1>12, <1>13 DEF Inv

\* A pane that is killed, with or without leaving the layout.
LEMMA GoneStory ==
  ASSUME NEW log, NEW p \in Panes, pane \in [Panes -> PaneWatch], Story(log, pane),
         pane' = [pane EXCEPT ![p] = [Absent EXCEPT !.life = pane[p].life]]
  PROVE  Story(log, pane') /\ pane' \in [Panes -> PaneWatch]
<1>1. PICK next : next = pane'
  OBVIOUS
<1>2. PICK w : w = [Absent EXCEPT !.life = pane[p].life]
  OBVIOUS
<1>3. w.here = FALSE /\ w.pending = None /\ w.life = pane[p].life /\ w \in PaneWatch
  <2>1. pane[p].life \in Nat
    BY DEF PaneWatch
  <2> QED
    BY <1>2, <2>1 DEF Absent, PaneWatch
<1>4. w = next[p] /\ \A r \in Panes \ {p} : next[r] = pane[r]
  BY <1>1, <1>2
<1>5. Story(log, next)
  BY <1>3, <1>4, StoryQuiet
<1>6. next \in [Panes -> PaneWatch]
  BY <1>1, <1>2, <1>3
<1> QED
  BY <1>1, <1>5, <1>6

LEMMA KillSound ==
  ASSUME Inv, NEW p \in Panes, Kill(p)
  PROVE  Inv'
<1>1. /\ pane \in [Panes -> PaneWatch] /\ Story(srv.log, pane)
      /\ pane' = [pane EXCEPT ![p] = [Absent EXCEPT !.life = pane[p].life]]
      /\ UNCHANGED <<run, srv, ui, phase>>
  BY DEF Inv, Kill
<1>2. Story(srv.log, pane') /\ pane' \in [Panes -> PaneWatch]
  BY <1>1, GoneStory
<1> QED
  BY <1>1, <1>2 DEF Inv

LEMMA ClosePaneSound ==
  ASSUME Inv, NEW p \in Panes, ClosePane(p)
  PROVE  Inv'
<1>1. /\ pane \in [Panes -> PaneWatch]
      /\ pane' = [pane EXCEPT ![p] = [Absent EXCEPT !.life = pane[p].life]]
      /\ UNCHANGED <<run, phase>>
  BY DEF Inv, ClosePane
<1>2. PICK t : t = Record(srv, "layout", None, None, None, 1)
  OBVIOUS
<1>3. Publish(t) /\ Len(t.log) <= MaxEvents
  BY <1>2 DEF ClosePane, Publish
<1>4. /\ Running(t, run) /\ Len(t.log) - Len(t.undelivered) = Len(srv.log) - Len(srv.undelivered)
      /\ Story(t.log, pane)
  <2>1. "layout" \in Kinds /\ "layout" # "title"
    BY DEF Kinds
  <2> QED
    BY <1>2, <1>3, <2>1, PlainSound
<1>5. srv' = t /\ Running(srv', run) /\ Audience(srv', ui')
  BY <1>3, <1>4, PublishSound
<1>6. Story(t.log, pane') /\ pane' \in [Panes -> PaneWatch]
  BY <1>1, <1>4, GoneStory
<1> QED
  BY <1>1, <1>5, <1>6 DEF Inv

\* A UI that joins or leaves is an event, of which the others are told.
LEMMA AttachSound ==
  ASSUME Inv, NEW u \in UIs, Attach(u)
  PROVE  Inv'
<1>1. /\ srv.undelivered = <<>> /\ Len(srv.log) < MaxEvents
      /\ ui' = [Told(Len(srv.log) + 1) EXCEPT ![u] = <<<<"state", Len(srv.log)>>, <<"state", Len(srv.log) + 1>>>>]
      /\ phase' = "work" /\ UNCHANGED <<run, pane>>
  BY DEF Attach, latest
<1>2. PICK t : t = Record(srv, "joined", None, None, None, 1)
  OBVIOUS
<1>3. srv' = t
  BY <1>2 DEF Attach
<1>4. Len(t.log) = Len(srv.log) + 1 /\ Len(srv.log) \in Nat /\ Len(t.log) <= MaxEvents
  <2>1. Len(t.log) = Len(srv.log) + 1 /\ Len(srv.log) \in Nat
    BY <1>2, InvFacts, RecordLength
  <2> QED
    BY <1>1, <2>1, SizesAssumption
<1>5. /\ Running(t, run) /\ Len(t.log) - Len(t.undelivered) = Len(srv.log) - Len(srv.undelivered)
      /\ Story(t.log, pane)
  <2>1. "joined" \in Kinds /\ "joined" # "title"
    BY DEF Kinds
  <2> QED
    BY <1>2, <1>4, <2>1, PlainSound
<1>6. Len(srv.undelivered) = 0 /\ Len(srv.log) - Len(srv.undelivered) = Len(srv.log)
  BY <1>1, <1>4
<1>7. PICK n : n = Len(srv.log)
  OBVIOUS
<1>8. n \in Nat /\ n \in 0..MaxEvents /\ n + 1 \in 0..MaxEvents
  BY <1>1, <1>4, <1>7, SizesAssumption
<1>9. \A x \in UIs : ui[x] # None => Heard(ui[x], n, n)
  BY <1>6, <1>7, InvFacts
<1>10. \A x \in UIs : Told(n + 1)[x] # None => Heard(Told(n + 1)[x], n, n + 1)
  BY <1>8, <1>9, ToldAudience
<1>11. Heard(<<<<"state", n>>, <<"state", n + 1>>>>, n, n + 1)
  BY <1>8, HeardAttach
<1>12. PICK m : m = <<<<"state", n>>, <<"state", n + 1>>>>
  OBVIOUS
<1>13. ui' = [Told(n + 1) EXCEPT ![u] = m] /\ DOMAIN Told(n + 1) = UIs
  BY <1>1, <1>7, <1>12 DEF Told
<1>14. \A x \in UIs : ui'[x] = IF x = u THEN m ELSE Told(n + 1)[x]
  BY <1>13
<1>15. \A x \in UIs : ui'[x] # None => Heard(ui'[x], n, n + 1)
  BY <1>10, <1>11, <1>12, <1>14
<1>16. Audience(srv', ui')
  BY <1>3, <1>4, <1>5, <1>6, <1>7, <1>15 DEF Audience
<1> QED
  BY <1>1, <1>3, <1>5, <1>16 DEF Inv

LEMMA LeaveSound ==
  ASSUME Inv, NEW u \in UIs, Leave(u)
  PROVE  Inv'
<1>1. /\ Len(srv.log) < MaxEvents
      /\ ui' = [Told(Len(srv.log) + 1) EXCEPT ![u] = None]
      /\ UNCHANGED <<run, pane, phase>>
  BY DEF Leave, latest
<1>2. PICK t : t = Record(srv, "left", None, None, None, 1)
  OBVIOUS
<1>3. srv' = t
  BY <1>2 DEF Leave
<1>4. Len(t.log) = Len(srv.log) + 1 /\ Len(srv.log) \in Nat /\ Len(t.log) <= MaxEvents
  <2>1. Len(t.log) = Len(srv.log) + 1 /\ Len(srv.log) \in Nat
    BY <1>2, InvFacts, RecordLength
  <2> QED
    BY <1>1, <2>1, SizesAssumption
<1>5. /\ Running(t, run) /\ Len(t.log) - Len(t.undelivered) = Len(srv.log) - Len(srv.undelivered)
      /\ Story(t.log, pane)
  <2>1. "left" \in Kinds /\ "left" # "title"
    BY DEF Kinds
  <2> QED
    BY <1>2, <1>4, <2>1, PlainSound
<1>6. PICK n : n = Len(srv.log)
  OBVIOUS
<1>7. PICK d : d = Len(srv.log) - Len(srv.undelivered)
  OBVIOUS
<1>8. n + 1 \in 0..MaxEvents /\ d \in Nat
  <2>1. d \in Nat
    BY <1>7, InvFacts
  <2> QED
    BY <1>1, <1>4, <1>6, <2>1, SizesAssumption
<1>9. \A x \in UIs : ui[x] # None => Heard(ui[x], d, n)
  BY <1>6, <1>7, InvFacts
<1>10. \A x \in UIs : Told(n + 1)[x] # None => Heard(Told(n + 1)[x], d, n + 1)
  BY <1>8, <1>9, ToldAudience
<1>11. ui' = [Told(n + 1) EXCEPT ![u] = None] /\ DOMAIN Told(n + 1) = UIs
  BY <1>1, <1>6 DEF Told
<1>12. \A x \in UIs : ui'[x] = IF x = u THEN None ELSE Told(n + 1)[x]
  BY <1>11
<1>13. \A x \in UIs : ui'[x] # None => Heard(ui'[x], d, n + 1)
  BY <1>10, <1>12
<1>14. Audience(srv', ui')
  BY <1>3, <1>4, <1>5, <1>6, <1>7, <1>13 DEF Audience
<1> QED
  BY <1>1, <1>3, <1>5, <1>14 DEF Inv

LEMMA FlushOneSound ==
  ASSUME Inv, FlushOne
  PROVE  Inv'
<1>1. /\ srv.undelivered # <<>> /\ UNCHANGED <<run, pane, phase>>
      /\ ui' = [u \in UIs |-> IF ui[u] = None THEN None
                              ELSE Append(ui[u], <<"event", Head(srv.undelivered)>>)]
      /\ srv' = [srv EXCEPT !.undelivered = Tail(srv.undelivered)]
  BY DEF FlushOne
<1>2. PICK und : und = Tail(srv.undelivered)
  OBVIOUS
<1>3. PICK n : n = Len(srv.log)
  OBVIOUS
<1>4. PICK d : d = n - Len(srv.undelivered)
  OBVIOUS
<1>5. Running(srv, run) /\ srv \in Server /\ Pending(srv) /\ srv.undelivered \in Seq(1..MaxEvents)
  BY DEF Inv, Running, Server
<1>6. /\ n \in Nat /\ n \in 0..MaxEvents /\ d \in Nat
      /\ \A u \in UIs : ui[u] # None => Heard(ui[u], d, n)
  BY <1>3, <1>4, InvFacts
<1>7. /\ und \in Seq(1..MaxEvents) /\ Len(srv.undelivered) \in Nat /\ Len(srv.undelivered) >= 1
      /\ Len(und) = Len(srv.undelivered) - 1 /\ Head(srv.undelivered) = srv.undelivered[1]
      /\ \A i \in 1..Len(und) : und[i] = srv.undelivered[i + 1] /\ i + 1 \in 1..Len(srv.undelivered)
  <2>1. PICK m \in Seq(1..MaxEvents) : m = srv.undelivered
    BY <1>5
  <2>2. m # <<>> /\ und = Tail(m)
    BY <1>1, <1>2, <2>1
  <2>3. und \in Seq(1..MaxEvents) /\ Len(m) \in Nat /\ Len(m) >= 1 /\ Head(m) = m[1]
    BY ONLY m \in Seq(1..MaxEvents), <2>2
  <2>4. Len(und) = Len(m) - 1 /\ \A i \in 1..Len(und) : und[i] = m[i + 1]
    BY ONLY m \in Seq(1..MaxEvents), <2>2
  <2>5. \A i \in 1..Len(und) : i + 1 \in 1..Len(m)
    BY ONLY <2>3, <2>4
  <2> QED
    BY <2>1, <2>3, <2>4, <2>5
<1>8. /\ \A i \in 1..Len(srv.undelivered) : srv.undelivered[i] = d + i
      /\ Len(srv.undelivered) <= n
  BY <1>3, <1>4, <1>5 DEF Pending
<1>9. d < n /\ Head(srv.undelivered) = d + 1 /\ n - Len(und) = d + 1
  <2>1. \A l, x \in Nat : l >= 1 /\ x = n - l => x < n /\ n - (l - 1) = x + 1 /\ 1 \in 1..l
    BY ONLY <1>6
  <2>2. Len(srv.undelivered) \in Nat /\ Len(srv.undelivered) >= 1 /\ Len(und) = Len(srv.undelivered) - 1
        /\ Head(srv.undelivered) = srv.undelivered[1]
    BY <1>7
  <2>3. d < n /\ n - Len(und) = d + 1 /\ 1 \in 1..Len(srv.undelivered)
    <3>1. PICK l \in Nat : l = Len(srv.undelivered)
      BY <2>2
    <3>2. l >= 1 /\ d = n - l /\ Len(und) = l - 1 /\ d \in Nat
      BY <1>4, <1>6, <2>2, <3>1
    <3> QED
      BY ONLY l \in Nat, <2>1, <3>1, <3>2
  <2>4. srv.undelivered[1] = d + 1
    BY ONLY <1>8, <2>3
  <2> QED
    BY ONLY <2>2, <2>3, <2>4
<1>10. /\ srv' = [srv EXCEPT !.undelivered = und] /\ srv' \in Server
       /\ srv'.log = srv.log /\ srv'.ring = srv.ring /\ srv'.conn = srv.conn /\ srv'.undelivered = und
  BY <1>1, <1>2, <1>5, <1>7 DEF Server
<1>11. Pending(srv')
  <2>1. Len(und) <= n
    BY <1>6, <1>7, <1>8
  <2>2. ASSUME NEW i \in 1..Len(und)
        PROVE  und[i] = n - Len(und) + i
    <3>1. und[i] = srv.undelivered[i + 1] /\ srv.undelivered[i + 1] = d + (i + 1)
      BY <1>7, <1>8
    <3>2. d \in Nat /\ n - Len(und) = d + 1
      BY <1>6, <1>9
    <3> QED
      BY <3>1, <3>2
  <2> QED
    BY <1>3, <1>10, <2>1, <2>2 DEF Pending
<1>12. Running(srv', run)
  BY <1>5, <1>10, <1>11 DEF Running, Ringed
<1>13. ASSUME NEW u \in UIs, ui'[u] # None
       PROVE  Heard(ui'[u], d + 1, n)
  <2>1. ui[u] # None /\ ui'[u] = Append(ui[u], <<"event", Head(srv.undelivered)>>)
    BY <1>1, <1>13
  <2>2. ui'[u] = Append(ui[u], <<"event", d + 1>>)
    BY <1>9, <2>1
  <2>3. Heard(Append(ui[u], <<"event", d + 1>>), d + 1, n)
    BY <1>6, <1>9, <2>1, HeardEvent
  <2> QED
    BY <2>2, <2>3
<1>14. Audience(srv', ui')
  BY <1>3, <1>9, <1>10, <1>13 DEF Audience
<1> QED
  BY <1>1, <1>10, <1>12, <1>14 DEF Inv

----------------------------------------------------------------------------
(* Connections                                                             *)

\* A step that changes only connection r, to c.
LEMMA ConnectionSound ==
  ASSUME Inv, NEW r \in Readers, NEW c, Served(c, srv.log, run),
         srv' = [srv EXCEPT !.conn[r] = c], UNCHANGED <<run, pane, ui, phase>>
  PROVE  Inv'
<1>1. Running(srv, run) /\ srv \in Server /\ srv.conn \in [Readers -> Connection] /\ c \in Connection
  BY DEF Inv, Running, Server, Served
<1>2. PICK conn : conn = [srv.conn EXCEPT ![r] = c]
  OBVIOUS
<1>3. conn \in [Readers -> Connection] /\ \A x \in Readers : conn[x] = IF x = r THEN c ELSE srv.conn[x]
  BY <1>1, <1>2
<1>4. srv' = [srv EXCEPT !.conn = conn]
  BY <1>2
<1>5. /\ srv' \in Server /\ srv'.log = srv.log /\ srv'.ring = srv.ring
      /\ srv'.undelivered = srv.undelivered /\ srv'.conn = conn
  BY <1>1, <1>3, <1>4 DEF Server
<1>6. \A x \in Readers : Served(conn[x], srv.log, run)
  <2>1. \A x \in Readers : Served(srv.conn[x], srv.log, run)
    BY <1>1 DEF Running
  <2> QED
    BY <1>3, <2>1
<1>7. Running(srv', run)
  BY <1>1, <1>5, <1>6 DEF Running, Ringed, Pending
<1>8. Audience(srv', ui)
  BY <1>5 DEF Inv, Audience
<1> QED
  BY <1>5, <1>7, <1>8 DEF Inv

LEMMA StreamSteps ==
  ASSUME Inv, NEW r \in Readers, Read(r) \/ Hangup(r) \/ Cut(r)
  PROVE  Inv'
<1>1. Served(srv.conn[r], srv.log, run)
  BY DEF Inv, Running
<1>2. CASE Read(r)
  <2>1. PICK c : c = srv.conn[r]
    OBVIOUS
  <2>2. PICK d : d = [c EXCEPT !.out = Tail(c.out), !.got = Append(c.got, Head(c.out))]
    OBVIOUS
  <2>3. /\ srv' = [srv EXCEPT !.conn[r] = d] /\ UNCHANGED <<run, pane, ui, phase>>
        /\ c.open /\ c.out # <<>>
    BY <1>2, <2>1, <2>2 DEF Read
  <2>4. Served(d, srv.log, run)
    BY <1>1, <2>1, <2>2, <2>3, ReadServed
  <2> QED
    BY <2>3, <2>4, ConnectionSound
<1>3. CASE Hangup(r)
  <2>1. PICK c : c = srv.conn[r]
    OBVIOUS
  <2>2. PICK d : d = [c EXCEPT !.open = FALSE]
    OBVIOUS
  <2>3. /\ srv' = [srv EXCEPT !.conn[r] = d] /\ UNCHANGED <<run, pane, ui, phase>>
        /\ c.closing /\ c.out = <<>>
    BY <1>3, <2>1, <2>2 DEF Hangup
  <2>4. Served(d, srv.log, run)
    BY <1>1, <2>1, <2>2, <2>3, HangupServed
  <2> QED
    BY <2>3, <2>4, ConnectionSound
<1>4. CASE Cut(r)
  <2>1. srv' = [srv EXCEPT !.conn[r] = Closed] /\ UNCHANGED <<run, pane, ui, phase>>
    BY <1>4 DEF Cut
  <2>2. Served(Closed, srv.log, run)
    BY ClosedServed
  <2> QED
    BY <2>1, <2>2, ConnectionSound
<1> QED
  BY <1>2, <1>3, <1>4

\* Opening a stream with the records due to it.
LEMMA OpenSound ==
  ASSUME Inv, NEW r \in Readers, NEW filter \in Filters, NEW base \in 0..MaxEvents, base <= Len(srv.log),
         NEW records \in Seq(StreamRecord), Open(r, filter, run, base, records),
         UNCHANGED <<run, pane, ui, phase>>,
         Increasing(records), \A i \in DOMAIN records : ~ IsFinal(records[i]),
         Numbers(records) = {k \in (base + 1)..Len(srv.log) : srv.log[k].kind \in filter}
  PROVE  Inv'
<1>1. CASE Len(records) > MaxBacklog
  <2>1. srv' = [srv EXCEPT !.conn[r] = Closed]
    BY <1>1 DEF Open
  <2>2. Served(Closed, srv.log, run)
    BY ClosedServed
  <2> QED
    BY <2>1, <2>2, ConnectionSound
<1>2. CASE ~ (Len(records) > MaxBacklog)
  <2>1. PICK c : c = [Closed EXCEPT !.open = TRUE, !.sub = TRUE, !.filter = filter,
                                    !.base = base, !.from = run, !.out = records]
    OBVIOUS
  <2>2. srv' = [srv EXCEPT !.conn[r] = c]
    BY <1>2, <2>1 DEF Open
  <2>3. Len(records) <= MaxBacklog
    <3>1. Len(records) \in Nat
      OBVIOUS
    <3> QED
      BY <1>2, <3>1, SizesAssumption
  <2>4. run \in 1..MaxRuns
    BY DEF Inv
  <2>5. Served(c, srv.log, run)
    BY <2>1, <2>3, <2>4, OpenServed
  <2> QED
    BY <2>2, <2>5, ConnectionSound
<1> QED
  BY <1>1, <1>2

\* What `after` returns is the end of the log beyond the cursor.
LEMMA AfterIs ==
  ASSUME Inv, NEW instance, NEW seq \in Nat, After(instance, seq) # None
  PROVE  /\ instance = run /\ seq <= Len(srv.log)
         /\ After(instance, seq) \in Seq(Event) /\ Len(After(instance, seq)) = Len(srv.log) - seq
         /\ \A i \in 1..Len(After(instance, seq)) : After(instance, seq)[i] = srv.log[seq + i]
<1>1. instance = run /\ ~ (seq > Len(srv.log))
  BY DEF After, latest
<1>2. /\ srv.log \in Seq(Event) /\ srv.ring \in Seq(Event) /\ Numbered(srv.log) /\ Ringed(srv)
      /\ Len(srv.log) \in Nat /\ Len(srv.ring) \in Nat
  BY DEF Inv, Running, Server
<1>3. seq <= Len(srv.log)
  BY <1>1, <1>2
<1>4. CASE seq = Len(srv.log)
  <2>1. After(instance, seq) = <<>>
    BY <1>1, <1>4 DEF After, latest
  <2> QED
    BY <1>1, <1>2, <1>3, <1>4, <2>1
<1>5. CASE seq # Len(srv.log)
  <2>1. /\ srv.ring # <<>> /\ ~ (seq + 1 < srv.ring[1].seq)
        /\ After(instance, seq) = SubSeq(srv.ring, seq + 1 - srv.ring[1].seq + 1, Len(srv.ring))
    BY <1>1, <1>5 DEF After, latest
  <2>2. PICK a, b : a = Len(srv.log) /\ b = Len(srv.ring)
    OBVIOUS
  <2>3. /\ a \in Nat /\ b \in Nat /\ b >= 1 /\ b <= a
        /\ \A i \in 1..b : srv.ring[i] = srv.log[a - b + i]
    <3>1. b <= a /\ \A i \in 1..b : srv.ring[i] = srv.log[a - b + i]
      BY <1>2, <2>2 DEF Ringed
    <3>2. PICK m \in Seq(Event) : m = srv.ring
      BY <1>2
    <3>3. m # <<>> /\ b = Len(m)
      BY <2>1, <2>2, <3>2
    <3>4. b \in Nat /\ b >= 1
      BY ONLY m \in Seq(Event), <3>3
    <3> QED
      BY <1>2, <2>2, <3>1, <3>4
  <2>4. srv.ring[1].seq = a - b + 1
    <3>1. 1 \in 1..b /\ a - b + 1 \in 1..a
      BY <2>3
    <3> QED
      BY <1>2, <2>2, <2>3, <3>1 DEF Numbered
  <2>5. PICK k : k = a - seq
    OBVIOUS
  <2>6. /\ k \in 0..b /\ seq + 1 - (a - b + 1) + 1 = b - k + 1
        /\ seq = a - k
    <3>1. ~ (seq + 1 < a - b + 1) /\ seq <= a /\ a \in Nat /\ b \in Nat /\ seq \in Nat
      BY <1>3, <2>1, <2>2, <2>3, <2>4
    <3> QED
      BY ONLY <2>5, <3>1
  <2>7. After(instance, seq) = SubSeq(srv.ring, Len(srv.ring) - k + 1, Len(srv.ring))
    BY <2>1, <2>2, <2>4, <2>6
  <2>8. /\ After(instance, seq) \in Seq(Event) /\ Len(After(instance, seq)) = k
        /\ \A i \in 1..k : After(instance, seq)[i] = srv.ring[b - k + i]
    <3>1. k \in 0..Len(srv.ring)
      BY <2>2, <2>6
    <3> QED
      BY <1>2, <2>2, <2>7, <3>1, SubSeqEnd
  <2>9. ASSUME NEW i \in 1..k
        PROVE  After(instance, seq)[i] = srv.log[seq + i]
    <3>1. b - k + i \in 1..b /\ a - b + (b - k + i) = seq + i
      BY <2>3, <2>6
    <3> QED
      BY <2>3, <2>8, <3>1
  <2> QED
    BY <1>1, <1>3, <2>2, <2>5, <2>8, <2>9
<1> QED
  BY <1>4, <1>5

LEMMA SubscribeSound ==
  ASSUME Inv, NEW r \in Readers, NEW filter \in Filters,
         Subscribe(r, filter) \/ SubscribeSnapshot(r, filter)
  PROVE  Inv'
<1>1. PICK n : n = Len(srv.log)
  OBVIOUS
<1>2. n \in Nat /\ n \in 0..MaxEvents /\ n <= Len(srv.log)
  BY <1>1, InvFacts
<1>3. {k \in (n + 1)..Len(srv.log) : srv.log[k].kind \in filter} = {}
  BY <1>1, <1>2
<1>4. CASE Subscribe(r, filter)
  <2>1. Open(r, filter, run, n, <<>>) /\ UNCHANGED <<run, pane, ui, phase>>
    BY <1>1, <1>4 DEF Subscribe, latest
  <2>2. PICK records : records = <<>>
    OBVIOUS
  <2>3. DOMAIN records = {} /\ records \in Seq(StreamRecord)
    BY <2>2
  <2>4. Increasing(records) /\ Numbers(records) = {}
    BY <2>3 DEF Increasing, Numbers
  <2> QED
    BY <1>2, <1>3, <2>1, <2>2, <2>3, <2>4, OpenSound
<1>5. CASE SubscribeSnapshot(r, filter)
  <2>1. PICK x : x = <<"snapshot", n>>
    OBVIOUS
  <2>2. x \in StreamRecord /\ x[1] = "snapshot"
    BY <1>2, <2>1 DEF StreamRecord
  <2>3. PICK records : records = <<x>>
    OBVIOUS
  <2>4. Open(r, filter, run, n, records) /\ UNCHANGED <<run, pane, ui, phase>>
    BY <1>1, <1>5, <2>1, <2>3 DEF SubscribeSnapshot, latest
  <2>5. records \in Seq(StreamRecord) /\ DOMAIN records = {1} /\ records[1] = x
    BY <2>2, <2>3
  <2>6. Increasing(records) /\ Numbers(records) = {} /\ \A i \in DOMAIN records : ~ IsFinal(records[i])
    BY <2>2, <2>5 DEF Increasing, Numbers, IsFinal
  <2> QED
    BY <1>2, <1>3, <2>4, <2>5, <2>6, OpenSound
<1> QED
  BY <1>4, <1>5

LEMMA ResumeSound ==
  ASSUME Inv, NEW r \in Readers, NEW filter \in Filters, NEW instance, NEW seq \in Nat,
         Resume(r, filter, instance, seq)
  PROVE  Inv'
<1>1. /\ After(instance, seq) # None /\ UNCHANGED <<run, pane, ui, phase>>
      /\ Open(r, filter, instance, seq, Replayed(filter, After(instance, seq)))
  BY DEF Resume
<1>2. PICK replay : replay = After(instance, seq)
  OBVIOUS
<1>3. PICK n : n = Len(srv.log)
  OBVIOUS
<1>4. /\ instance = run /\ seq <= n /\ replay \in Seq(Event) /\ Len(replay) = n - seq
      /\ \A i \in 1..Len(replay) : replay[i] = srv.log[seq + i]
  BY <1>1, <1>2, <1>3, AfterIs
<1>5. n \in Nat /\ n \in 0..MaxEvents /\ Numbered(srv.log)
  BY <1>3, InvFacts DEF Inv, Running
<1>6. ASSUME NEW i \in 1..Len(replay)
      PROVE  replay[i].seq = seq + i
  <2>1. seq + i \in 1..n
    BY <1>4, <1>5
  <2> QED
    BY <1>3, <1>4, <1>5, <2>1 DEF Numbered
<1>7. PICK records : records = Replayed(filter, replay)
  OBVIOUS
<1>8. Told_of(records, filter, replay, seq, Len(replay))
  BY <1>4, <1>6, <1>7, ReplayedTells
<1>9. /\ records \in Seq(StreamRecord) /\ Increasing(records)
      /\ Numbers(records) = {k \in (seq + 1)..(seq + Len(replay)) : replay[k - seq].kind \in filter}
      /\ \A i \in DOMAIN records : records[i][1] = "event"
  BY <1>8 DEF Told_of
<1>10. seq + Len(replay) = n
  BY <1>4, <1>5
<1>11. ASSUME NEW k \in (seq + 1)..n
       PROVE  replay[k - seq] = srv.log[k]
  <2>1. k - seq \in 1..Len(replay) /\ seq + (k - seq) = k
    BY <1>4, <1>5
  <2> QED
    BY <1>4, <2>1
<1>12. Numbers(records) = {k \in (seq + 1)..Len(srv.log) : srv.log[k].kind \in filter}
  BY <1>3, <1>9, <1>10, <1>11
<1>13. \A i \in DOMAIN records : ~ IsFinal(records[i])
  BY <1>9 DEF IsFinal
<1>14. Open(r, filter, run, seq, records)
  BY <1>1, <1>2, <1>4, <1>7
<1>15. seq \in 0..MaxEvents /\ seq <= Len(srv.log)
  <2>1. MaxEvents \in Nat
    BY SizesAssumption
  <2>2. seq \in Nat /\ n \in 0..MaxEvents /\ seq <= n
    BY <1>4, <1>5
  <2> QED
    BY ONLY <1>3, <2>1, <2>2
<1> QED
  BY <1>1, <1>9, <1>12, <1>13, <1>14, <1>15, OpenSound

LEMMA StopSound ==
  ASSUME Inv, Stop
  PROVE  Inv'
<1>1. PICK conn : conn = [r \in Readers |-> IF srv.conn[r].sub THEN Ended(srv.conn[r], <<"ended", 0>>)
                                            ELSE srv.conn[r]]
  OBVIOUS
<1>2. srv' = [srv EXCEPT !.conn = conn] /\ phase' = "stopping" /\ UNCHANGED <<run, pane, ui>>
  BY <1>1 DEF Stop
<1>3. Running(srv, run) /\ srv \in Server
  BY DEF Inv, Running
<1>4. ASSUME NEW r \in Readers
      PROVE  Served(conn[r], srv.log, run)
  <2>1. Served(srv.conn[r], srv.log, run)
    BY <1>3 DEF Running
  <2>2. CASE srv.conn[r].sub
    BY <1>1, <2>1, <2>2, EndedServed
  <2>3. CASE ~ srv.conn[r].sub
    BY <1>1, <2>1, <2>3
  <2> QED
    BY <2>2, <2>3
<1>5. conn \in [Readers -> Connection]
  BY <1>1, <1>4 DEF Served
<1>6. /\ srv' \in Server /\ srv'.log = srv.log /\ srv'.ring = srv.ring
      /\ srv'.undelivered = srv.undelivered /\ srv'.conn = conn
  BY <1>2, <1>3, <1>5 DEF Server
<1>7. Running(srv', run)
  BY <1>3, <1>4, <1>6 DEF Running, Ringed, Pending
<1>8. Audience(srv', ui)
  BY <1>6 DEF Inv, Audience
<1> QED
  BY <1>2, <1>6, <1>7, <1>8 DEF Inv

\* A server that has just started.
LEMMA FreshSound ==
  ASSUME NEW s, s = [log |-> <<>>, ring |-> <<>>, undelivered |-> <<>>, conn |-> [r \in Readers |-> Closed]],
         NEW n, NEW watch, watch = [p \in Panes |-> Absent], NEW messages, messages = [u \in UIs |-> None]
  PROVE  /\ Running(s, n) /\ Story(s.log, watch) /\ Audience(s, messages)
         /\ watch \in [Panes -> PaneWatch]
<1>1. s.log = <<>> /\ s.ring = <<>> /\ s.undelivered = <<>> /\ \A r \in Readers : s.conn[r] = Closed
  OBVIOUS
<1>2. \A r \in Readers : Served(Closed, <<>>, n)
  BY ClosedServed
<1>3. s \in Server
  <2>1. [r \in Readers |-> Closed] \in [Readers -> Connection]
    BY <1>2 DEF Served
  <2>2. <<>> \in Seq(Event) /\ <<>> \in Seq(1..MaxEvents)
    OBVIOUS
  <2> QED
    BY <2>1, <2>2 DEF Server
<1>4. Running(s, n)
  BY <1>1, <1>2, <1>3, BytesEmpty, SizesAssumption DEF Running, Numbered, Ringed, Pending
<1>5. watch \in [Panes -> PaneWatch] /\ \A p \in Panes : watch[p].here = FALSE /\ watch[p].pending = None
  BY DEF Absent, PaneWatch
<1>6. Story(s.log, watch)
  BY <1>1, <1>5 DEF Story, Spanned, Chained, Watched
<1>7. Audience(s, messages)
  BY DEF Audience
<1> QED
  BY <1>4, <1>5, <1>6, <1>7

LEMMA RestartSound ==
  ASSUME Inv, Restart
  PROVE  Inv'
<1>1. PICK s, watch, messages : s = srv' /\ watch = pane' /\ messages = ui'
  OBVIOUS
<1>2. Running(s, run') /\ Story(s.log, watch) /\ Audience(s, messages) /\ watch \in [Panes -> PaneWatch]
  BY <1>1, FreshSound DEF Restart
<1>3. run' \in 1..MaxRuns /\ phase' = "work"
  BY SizesAssumption DEF Restart, Inv
<1> QED
  BY <1>1, <1>2, <1>3 DEF Inv

LEMMA InvInit == Init => Inv
<1> SUFFICES ASSUME Init
             PROVE  Inv
  OBVIOUS
<1>1. Running(srv, run) /\ Story(srv.log, pane) /\ Audience(srv, ui) /\ pane \in [Panes -> PaneWatch]
  BY FreshSound DEF Init
<1>2. run \in 1..MaxRuns /\ phase = "work"
  BY SizesAssumption DEF Init
<1> QED
  BY <1>1, <1>2 DEF Inv

LEMMA InvStep == Inv /\ [Next]_vars => Inv'
<1> SUFFICES ASSUME Inv, [Next]_vars
             PROVE  Inv'
  OBVIOUS
<1>1. CASE UNCHANGED vars
  BY <1>1 DEF vars, Inv, Audience
<1>2. CASE Next
  <2>1. ASSUME NEW p \in Panes,
               \/ Spawn(p) \/ SettleTitle(p) \/ Exit(p) \/ Kill(p) \/ ClosePane(p)
               \/ \E title \in Titles : ObserveTitle(p, title)
               \/ \E size \in Sizes : RuntimeChange(p, size)
        PROVE  Inv'
    BY <2>1, SpawnSound, SettleTitleSound, ExitSound, KillSound, ClosePaneSound, ObserveTitleSound,
       RuntimeChangeSound
  <2>2. CASE BeginFlush \/ EndFlush
    BY <2>2 DEF BeginFlush, EndFlush, Inv
  <2>3. CASE FlushOne
    BY <2>3, FlushOneSound
  <2>4. ASSUME NEW u \in UIs, BeginAttach(u)
        PROVE  Inv'
    BY <2>4 DEF BeginAttach, Inv
  <2>5. ASSUME NEW u \in UIs, Attach(u) \/ Leave(u)
        PROVE  Inv'
    BY <2>5, AttachSound, LeaveSound
  <2>6. ASSUME NEW r \in Readers, Read(r) \/ Hangup(r) \/ Cut(r)
        PROVE  Inv'
    BY <2>6, StreamSteps
  <2>7. ASSUME NEW r \in Readers, NEW filter \in Filters, Subscribe(r, filter) \/ SubscribeSnapshot(r, filter)
        PROVE  Inv'
    BY <2>7, SubscribeSound
  <2>8. ASSUME NEW r \in Readers, NEW filter \in Filters, NEW i \in 1..run, NEW n \in 0..(MaxEvents + 1),
               Resume(r, filter, i, n)
        PROVE  Inv'
    <3>1. n \in Nat
      BY SizesAssumption
    <3> QED
      BY <2>8, <3>1, ResumeSound
  <2>9. CASE Stop
    BY <2>9, StopSound
  <2>10. CASE Restart
    BY <2>10, RestartSound
  <2> QED
    BY <1>2, <2>1, <2>2, <2>3, <2>4, <2>5, <2>6, <2>7, <2>8, <2>9, <2>10 DEF Next
<1> QED
  BY <1>1, <1>2

----------------------------------------------------------------------------
(* The results                                                             *)

LEMMA InvHolds == Spec => []Inv
<1> QED
  BY InvInit, InvStep, PTL DEF Spec

\* What a subscriber reads is what happened: the ring is the end of the log within
\* both limits, and every stream carries each event its reader named since its
\* cursor, in order and once, up to the point where it is ended
\* (SessionEventBuffer::record and after, open_subscription, dispatch_session_subscribers).
THEOREM StreamsSound == Spec => []StreamSound
<1>1. Inv => StreamSound
  BY InvImplies
<1> QED
  BY <1>1, InvHolds, PTL

\* A stream the server ends says why as its last record, and is closed only when
\* that has been read (end_subscriber, close_after_flush).
THEOREM LastWordSpoken == Spec => []LastWord
<1>1. Inv => LastWord
  BY InvImplies
<1> QED
  BY <1>1, InvHolds, PTL

\* Nothing is said of a pane before its spawn or after its exit, and its titles
\* chain (record_pane_exited, flush_pane_titles, finish_pane_runtime_change).
THEOREM StoriesTold == Spec => []PaneStory
<1>1. Inv => PaneStory
  BY InvImplies
<1> QED
  BY <1>1, InvHolds, PTL

\* A UI hears each event since its attach once, in order, and after the message
\* that shows it the change (flush_session_events).
THEOREM UisInformed == Spec => []UiSound
<1>1. Inv => UiSound
  BY InvImplies
<1> QED
  BY <1>1, InvHolds, PTL
=============================================================================
