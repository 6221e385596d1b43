------------------------- MODULE SharedLayoutProofs -------------------------
(***************************************************************************)
(* Proofs about SharedLayout for every number of clients, panes and        *)
(* arrangements, and every sequence of inputs.                             *)
(***************************************************************************)
EXTENDS SharedLayout, SumsProofs, SequenceTheorems

\* Every live pane is placed; the pane table is a function on the ids, which is
\* what an update of one of its entries needs.
PlacedInv == LivePanesPlaced /\ panes \in [PaneId -> {"none", "live", "exited"}]

\* No frame, whoever sent it and whenever it was composed, leaves out a live pane.
LEMMA ServePlaced ==
  ASSUME PlacedInv, NEW c \in Clients, Serve(c)
  PROVE  PlacedInv'
<1> DEFINE m == Head(up[c])
<1>1. CASE handle_commit_layout(c, m)
  BY <1>1 DEF handle_commit_layout, validate_shared_layout, publish_shared_layout,
     PlacedInv, LivePanesPlaced
<1>2. CASE spawn_shared_pane(c, m)
  BY <1>2 DEF spawn_shared_pane, validate_spawn_placement, publish_shared_layout,
     PlacedInv, LivePanesPlaced
<1>3. CASE kill_pane(c, m)
  BY <1>3 DEF kill_pane, PlacedInv, LivePanesPlaced
<1>4. CASE assign_controller(c)
  BY <1>4 DEF assign_controller, PlacedInv, LivePanesPlaced
<1> QED
  BY <1>1, <1>2, <1>3, <1>4 DEF Serve

\* Every step keeps the live panes placed.
LEMMA PlacedStep ==
  ASSUME PlacedInv, [Next]_vars
  PROVE  PlacedInv'
<1>1. CASE UNCHANGED <<panes, layout>>
  BY <1>1 DEF PlacedInv, LivePanesPlaced
<1>2. ASSUME NEW c \in Clients, Serve(c)
      PROVE  PlacedInv'
  BY <1>2, ServePlaced
<1>3. ASSUME NEW p \in PaneId, Exit(p)
      PROVE  PlacedInv'
  BY <1>3 DEF Exit, PlacedInv, LivePanesPlaced
<1>4. ASSUME NEW c \in Clients,
             \/ Receive(c) \/ flush_layout_commit(c)
             \/ OpenPane(c) \/ TakeControl(c) \/ Leave(c)
             \/ \E arr \in Arrangements : Edit(c, arr)
             \/ \E p \in PaneId : ClosePane(c, p)
      PROVE  UNCHANGED <<panes, layout>>
  BY <1>4 DEF Receive, flush_layout_commit, OpenPane, TakeControl, Leave, Edit,
     ClosePane, server
<1>5. CASE UNCHANGED vars
  BY <1>1, <1>5 DEF vars, server
<1> QED
  BY <1>1, <1>2, <1>3, <1>4, <1>5 DEF Next

\* Commits, spawns, kills, exits and hand-overs of the lease in any order, with
\* any number of stale frames in flight, never leave a running process without a
\* place on the shared layout.
THEOREM PlacedSafe == Spec => []LivePanesPlaced
<1>1. Init => PlacedInv
  BY PanesAssumption DEF Init, InitialDoc, PlacedInv, LivePanesPlaced, PaneId
<1>2. PlacedInv /\ [Next]_vars => PlacedInv'
  BY PlacedStep
<1>3. PlacedInv => LivePanesPlaced
  BY DEF PlacedInv
<1> QED
  BY <1>1, <1>2, <1>3, PTL DEF Spec
-----------------------------------------------------------------------------
(* Types. *)

(***************************************************************************)
(* TypeOK says nothing of the frames in flight, which carry documents,     *)
(* panes and revisions from one side to the other; the inductive invariant *)
(* types them too.  A revision in a frame to a client is one the server    *)
(* has reached, which keeps every client at or behind the server.          *)
(***************************************************************************)

Upward ==
  [type : {"CommitLayout"}, base : Nat, doc : Doc, seen : Nat]
    \cup [type : {"SpawnPane"}, base : Nat, doc : Doc, pane : PaneId, seen : Nat]
    \cup [type : {"Kill"}, pane : PaneId, asked : BOOLEAN]
    \cup [type : {"RequestControl"}]

Downward(rev) ==
  [type : {"LayoutCommitted"}, rev : 1 .. rev, author : Clients, doc : Doc]
    \cup [type : {"LayoutRejected"}, rev : 1 .. rev, doc : Doc]
    \cup [type : {"SpawnResult"}, pane : PaneId, ok : BOOLEAN]
    \cup [type : {"PaneMetadata", "Exited"}, pane : PaneId]
    \cup [type : {"ControllerChanged"}, controller : Clients \cup {None}]

Flights == [pane : PaneId, base : Nat, failed : BOOLEAN] \cup {NoFlight}

ClientRecord(rev) ==
  [controller : Clients \cup {None}, layout_rev : 1 .. rev, assumed_rev : Nat,
   last : Doc \cup {NoDoc}, flight : Flights, pending : Seq(PaneId),
   doc : Doc, next : 2 .. MaxPanes + 1, meta : SUBSET PaneId]

\* A client at or behind revision `rev` that has placed no id it could still mint.
ClientState(rev) == {s \in ClientRecord(rev) : s.doc.panes \subseteq 1 .. s.next - 1}

ServerTypes ==
  /\ panes \in [PaneId -> {"none", "live", "exited"}]
  /\ layout \in Doc /\ layout_rev \in Nat \ {0}
  /\ attached \subseteq Clients
  /\ controller \in attached \cup {None}
  /\ last_rev \in [Clients -> 0 .. layout_rev]
  /\ inputs \in 0 .. MaxInputs

LinkTypes ==
  /\ up \in [Clients -> Seq(Upward)]
  /\ down \in [Clients -> Seq(Downward(layout_rev))]
  /\ cl \in [Clients -> ClientState(layout_rev)]

TypeInv == ServerTypes /\ LinkTypes

USE PanesAssumption, ClientsAssumption DEF PaneId, None

-----------------------------------------------------------------------------
(* The client's handlers. *)

\* A newer server leaves the frames and the clients well typed.
LEMMA TypesGrow ==
  ASSUME NEW r \in Nat, NEW q \in Nat, r <= q
  PROVE  /\ Downward(r) \subseteq Downward(q)
         /\ ClientState(r) \subseteq ClientState(q)
<1>1. 1 .. r \subseteq 1 .. q
  OBVIOUS
<1>2. Downward(r) \subseteq Downward(q)
  BY <1>1 DEF Downward
<1>3. ClientRecord(r) \subseteq ClientRecord(q)
  BY <1>1 DEF ClientRecord
<1> QED
  BY <1>2, <1>3 DEF ClientState

\* A non-empty set of numbers has a least member.
LEMMA LeastNumber ==
  ASSUME NEW S, S \subseteq Nat, S # {}
  PROVE  \E n \in S : \A m \in S : n <= m
<1> DEFINE Less == OpToRel(<, Nat)
<1>1. IsWellFoundedOn(Less, Nat)
  BY NatLessThanWellFounded
<1> HIDE DEF Less
<1>2. PICK n \in S : \A m \in S : ~ (<<m, n>> \in Less)
  BY <1>1, WFMin
<1>3. \A m \in S : ~ (m < n)
  BY <1>2 DEF Less, OpToRel
<1> QED
  BY <1>3

\* The counter skips the ids of a document: it has somewhere to go.
LEMMA CounterSkips ==
  ASSUME NEW s, s.next \in 2 .. MaxPanes + 1, NEW d \in Doc
  PROVE  /\ Counter(s, d) \in 2 .. MaxPanes + 1
         /\ Counter(s, d) >= s.next
         /\ \A p \in d.panes : Counter(s, d) > p
<1> DEFINE ahead == {n \in Nat : n >= s.next /\ \A p \in d.panes : n > p}
<1>1. d.panes \subseteq PaneId
  BY DEF Doc
<1>2. MaxPanes + 1 \in ahead
  BY <1>1
<1>3. PICK n \in ahead : \A m \in ahead : n <= m
  BY <1>2, LeastNumber
<1>4. n \in {s.next} \cup {p + 1 : p \in d.panes}
  <2> SUFFICES ASSUME n # s.next
               PROVE  \E p \in d.panes : n = p + 1
    OBVIOUS
  <2>1. n - 1 \in Nat /\ n - 1 >= s.next
    OBVIOUS
  <2>2. n - 1 \notin ahead
    BY <1>3, <2>1
  <2>3. PICK p \in d.panes : ~ (n - 1 > p)
    BY <2>1, <2>2
  <2>4. p \in Nat /\ n > p /\ n \in Nat
    BY <1>1
  <2> QED
    BY <2>3, <2>4
<1>5. \E k \in {s.next} \cup {p + 1 : p \in d.panes} : k >= s.next /\ \A p \in d.panes : k > p
  BY <1>3, <1>4
<1>6. /\ Counter(s, d) \in {s.next} \cup {p + 1 : p \in d.panes}
      /\ Counter(s, d) >= s.next /\ \A p \in d.panes : Counter(s, d) > p
  BY <1>5 DEF Counter
<1> QED
  BY <1>1, <1>6

\* Sending the next queued spawn.
LEMMA PumpTypes ==
  ASSUME NEW r \in Nat, NEW c \in Clients, NEW s \in ClientState(r)
  PROVE  /\ pump_shared_spawns(c, s).s \in ClientState(r)
         /\ pump_shared_spawns(c, s).out \in Seq(Upward)
<1> DEFINE pane == Head(s.pending)
           known == s.last.panes \cup s.meta \cup {pane}
           doc == [s.doc EXCEPT !.panes = @ \cap known]
           flight == [pane |-> pane, base |-> s.assumed_rev, failed |-> FALSE]
           t == [s EXCEPT !.pending = Tail(@), !.last = doc, !.flight = flight]
           frame == [type |-> "SpawnPane", base |-> s.assumed_rev, doc |-> doc,
                     pane |-> pane, seen |-> s.layout_rev]
<1>1. s \in ClientRecord(r) /\ s.doc.panes \subseteq 1 .. s.next - 1
  BY DEF ClientState
<1>2. CASE s.controller # c \/ s.flight # NoFlight \/ s.pending = <<>>
  BY <1>2 DEF pump_shared_spawns, Result
<1>3. CASE ~ (s.controller # c \/ s.flight # NoFlight \/ s.pending = <<>>)
  <2>1. pane \in PaneId /\ Tail(s.pending) \in Seq(PaneId)
    BY <1>1, <1>3 DEF ClientRecord
  <2>2. doc \in Doc /\ doc.panes \subseteq s.doc.panes
    BY <1>1 DEF ClientRecord, Doc
  <2>3. flight \in Flights
    BY <1>1, <2>1 DEF Flights, ClientRecord
  <2>4. pump_shared_spawns(c, s) = Result(t, <<frame>>)
    BY <1>3 DEF pump_shared_spawns
  <2> HIDE DEF pane, doc, flight
  <2>5. t \in ClientRecord(r) /\ t.doc = s.doc /\ t.next = s.next
    BY <1>1, <2>1, <2>2, <2>3 DEF ClientRecord
  <2>6. frame \in Upward
    BY <1>1, <2>1, <2>2 DEF Upward, ClientRecord
  <2> HIDE DEF t, frame
  <2> QED
    BY <1>1, <2>4, <2>5, <2>6 DEF Result, ClientState
<1> QED
  BY <1>2, <1>3

\* A handler's result has its two parts, and may send nothing.
LEMMA ResultParts ==
  /\ \A s, out : Result(s, out).s = s /\ Result(s, out).out = out
  /\ <<>> \in Seq(Upward)
<1>1. \A s, out : Result(s, out).s = s /\ Result(s, out).out = out
  BY DEF Result
<1>2. <<>> \in Seq(Upward)
  OBVIOUS
<1> QED
  BY <1>1, <1>2

\* Closing a pane locally.
LEMMA CloseTypes ==
  ASSUME NEW r \in Nat, NEW s \in ClientState(r), NEW p \in PaneId, NEW asked \in BOOLEAN
  PROVE  /\ close_pane(s, p, asked).s \in ClientState(r)
         /\ close_pane(s, p, asked).out \in Seq(Upward)
<1> DEFINE t == [s EXCEPT !.doc.panes = @ \ {p}]
<1>1. s \in ClientRecord(r) /\ s.doc.panes \subseteq 1 .. s.next - 1
  BY DEF ClientState
<1>2. [s.doc EXCEPT !.panes = @ \ {p}] \in Doc /\ [s.doc EXCEPT !.panes = @ \ {p}].panes \subseteq s.doc.panes
  BY <1>1 DEF ClientRecord, Doc
<1>3. t \in ClientRecord(r) /\ t.doc.panes \subseteq s.doc.panes /\ t.next = s.next
  BY <1>1, <1>2 DEF ClientRecord
<1>4. t \in ClientState(r)
  BY <1>1, <1>3 DEF ClientState
<1>5. KillFrame(p, asked) \in Upward
  BY DEF KillFrame, Upward
<1> HIDE DEF t
<1>6. \/ close_pane(s, p, asked) = Result(t, <<KillFrame(p, asked)>>)
      \/ close_pane(s, p, asked) = Result(s, <<>>)
  BY DEF close_pane, t
<1>7. <<KillFrame(p, asked)>> \in Seq(Upward) /\ <<>> \in Seq(Upward)
  BY <1>5
<1>8. CASE close_pane(s, p, asked) = Result(t, <<KillFrame(p, asked)>>)
  <2>1. close_pane(s, p, asked).s = t /\ close_pane(s, p, asked).out = <<KillFrame(p, asked)>>
    BY <1>8 DEF Result
  <2> QED
    BY <1>4, <1>7, <2>1
<1>9. CASE close_pane(s, p, asked) = Result(s, <<>>)
  <2>1. close_pane(s, p, asked).s = s /\ close_pane(s, p, asked).out = <<>>
    BY <1>9 DEF Result
  <2> QED
    BY <1>7, <2>1
<1> QED
  BY <1>6, <1>8, <1>9

\* Taking over a document.
LEMMA ReconcileTypes ==
  ASSUME NEW r \in Nat, NEW s \in ClientState(r), NEW d \in Doc, NEW rev \in 1 .. r
  PROVE  reconcile(s, d, rev) \in ClientState(r)
<1> DEFINE doc == [d EXCEPT !.panes = @ \cup (Waiting(s) \cap s.doc.panes)]
           n == Counter(s, d)
           t == [s EXCEPT !.doc = doc, !.layout_rev = rev, !.last = d, !.next = n]
<1>1. s \in ClientRecord(r) /\ s.doc.panes \subseteq 1 .. s.next - 1
  BY DEF ClientState
<1>2. s.next \in 2 .. MaxPanes + 1 /\ s.doc.panes \subseteq PaneId /\ d.panes \subseteq PaneId
  BY <1>1 DEF ClientRecord, Doc
<1>3. n \in 2 .. MaxPanes + 1 /\ n >= s.next /\ \A p \in d.panes : n > p
  BY <1>2, CounterSkips
<1>4. doc \in Doc /\ doc.panes \subseteq d.panes \cup s.doc.panes
  BY <1>2 DEF Doc
<1>5. reconcile(s, d, rev) = t
  BY DEF reconcile
<1> HIDE DEF doc, n
<1>6. t \in ClientRecord(r) /\ t.doc = doc /\ t.next = n
  BY <1>1, <1>3, <1>4 DEF ClientRecord
<1>7. doc.panes \subseteq 1 .. n - 1
  BY <1>1, <1>2, <1>3, <1>4
<1> QED
  BY <1>5, <1>6, <1>7 DEF ClientState

\* A commit applied by a client, its own or another's.
LEMMA CommittedTypes ==
  ASSUME NEW r \in Nat, NEW c \in Clients, NEW s \in ClientState(r),
         NEW m \in Downward(r), m.type = "LayoutCommitted"
  PROVE  layout_committed(c, s, m) \in ClientState(r)
<1> DEFINE t == confirm_shared_spawn(c, s, m)
<1>1. m.rev \in 1 .. r /\ m.doc \in Doc /\ m.rev \in Nat
  BY DEF Downward
<1>2. s \in ClientRecord(r) /\ s.doc.panes \subseteq 1 .. s.next - 1
  BY DEF ClientState
<1>3. NoFlight \in Flights
  BY DEF Flights
<1>4. t \in ClientRecord(r) /\ t.doc = s.doc /\ t.next = s.next
  <2> DEFINE u == [s EXCEPT !.flight = NoFlight, !.assumed_rev = m.rev, !.last = m.doc]
  <2>1. u \in ClientRecord(r) /\ u.doc = s.doc /\ u.next = s.next
    BY <1>1, <1>2, <1>3 DEF ClientRecord
  <2>2. t = u \/ t = s
    BY DEF confirm_shared_spawn
  <2> HIDE DEF t, u
  <2> QED
    BY <1>2, <2>1, <2>2
<1>5. t \in ClientState(r)
  BY <1>2, <1>4 DEF ClientState
<1> HIDE DEF t
<1>6. CASE m.author = c
  <2> DEFINE u == [t EXCEPT !.layout_rev = m.rev]
  <2>1. u \in ClientRecord(r) /\ u.doc = t.doc /\ u.next = t.next
    BY <1>1, <1>4 DEF ClientRecord
  <2>2. layout_committed(c, s, m) = u
    BY <1>6 DEF layout_committed, t
  <2> HIDE DEF u
  <2> QED
    BY <1>5, <2>1, <2>2 DEF ClientState
<1>7. CASE m.author # c
  <2>1. layout_committed(c, s, m) = reconcile(t, m.doc, m.rev)
    BY <1>7 DEF layout_committed, t
  <2> QED
    BY <1>1, <1>5, <2>1, ReconcileTypes
<1> QED
  BY <1>6, <1>7

\* A rejection applied by a client.
LEMMA RejectedTypes ==
  ASSUME NEW r \in Nat, NEW s \in ClientState(r), NEW m \in Downward(r), m.type = "LayoutRejected"
  PROVE  layout_rejected(s, m) \in ClientState(r)
<1> DEFINE t == reject_shared_spawn(s, m)
<1>1. m.rev \in 1 .. r /\ m.doc \in Doc /\ m.rev \in Nat
  BY DEF Downward
<1>2. s \in ClientRecord(r) /\ s.doc.panes \subseteq 1 .. s.next - 1
  BY DEF ClientState
<1>3. NoFlight \in Flights
  BY DEF Flights
<1>4. t \in ClientRecord(r) /\ t.doc = s.doc /\ t.next = s.next
  BY <1>1, <1>2, <1>3 DEF reject_shared_spawn, ClientRecord
<1>5. t \in ClientState(r)
  BY <1>2, <1>4 DEF ClientState
<1> HIDE DEF t
<1> DEFINE u == reconcile(t, m.doc, m.rev)
           v == [u EXCEPT !.assumed_rev = m.rev, !.last = NoDoc]
<1>6. u \in ClientState(r)
  BY <1>1, <1>5, ReconcileTypes
<1>7. layout_rejected(s, m) = t \/ layout_rejected(s, m) = v
  BY DEF layout_rejected, t
<1> HIDE DEF u
<1>8. v \in ClientRecord(r) /\ v.doc = u.doc /\ v.next = u.next
  BY <1>1, <1>6 DEF ClientState, ClientRecord
<1> HIDE DEF v
<1>9. v \in ClientState(r)
  BY <1>6, <1>8 DEF ClientState
<1> QED
  BY <1>5, <1>7, <1>9

\* The answer to a spawn applied by its author.
LEMMA SpawnResultTypes ==
  ASSUME NEW r \in Nat, NEW c \in Clients, NEW s \in ClientState(r),
         NEW m \in Downward(r), m.type = "SpawnResult"
  PROVE  /\ spawn_result(c, s, m).s \in ClientState(r)
         /\ spawn_result(c, s, m).out \in Seq(Upward)
<1> DEFINE t == mark_failed_shared_spawn(s, m)
<1>1. m.pane \in PaneId
  BY DEF Downward
<1>2. s \in ClientRecord(r) /\ s.doc.panes \subseteq 1 .. s.next - 1
  BY DEF ClientState
<1>3. s.flight # NoFlight => [s.flight EXCEPT !.failed = TRUE] \in Flights
  BY <1>2 DEF ClientRecord, Flights
<1>4. t \in ClientRecord(r) /\ t.doc = s.doc /\ t.next = s.next
  BY <1>2, <1>3 DEF mark_failed_shared_spawn, ClientRecord
<1>5. t \in ClientState(r)
  BY <1>2, <1>4 DEF ClientState
<1> HIDE DEF t
<1>6. \/ spawn_result(c, s, m) = close_pane(t, m.pane, FALSE)
      \/ spawn_result(c, s, m) = Result(t, <<>>)
  BY DEF spawn_result, t
<1>7. CASE spawn_result(c, s, m) = close_pane(t, m.pane, FALSE)
  BY <1>1, <1>5, <1>7, CloseTypes
<1>8. CASE spawn_result(c, s, m) = Result(t, <<>>)
  <2>1. spawn_result(c, s, m).s = t /\ spawn_result(c, s, m).out = <<>>
    BY <1>8 DEF Result
  <2> QED
    BY <1>5, <2>1, ResultParts
<1> QED
  BY <1>6, <1>7, <1>8

\* A change of controller applied by a client.
LEMMA ControllerTypes ==
  ASSUME NEW r \in Nat, NEW c \in Clients, NEW s \in ClientState(r),
         NEW m \in Downward(r), m.type = "ControllerChanged"
  PROVE  controller_changed(c, s, m) \in ClientState(r)
<1> DEFINE t == controller_changed(c, s, m)
<1>1. m.controller \in Clients \cup {None}
  BY DEF Downward
<1>2. s \in ClientRecord(r) /\ s.doc.panes \subseteq 1 .. s.next - 1
  BY DEF ClientState
<1>3. s.layout_rev \in Nat
  BY <1>2 DEF ClientRecord
<1>4. t \in ClientRecord(r) /\ t.doc = s.doc /\ t.next = s.next
  BY <1>1, <1>2, <1>3 DEF controller_changed, ClientRecord
<1> HIDE DEF t
<1>5. t \in ClientState(r)
  BY <1>2, <1>4 DEF ClientState
<1> QED
  BY <1>5 DEF t

\* The end of a handler: the pump, the client's new state and its frames.
LEMMA HandledTypes ==
  ASSUME LinkTypes, layout_rev \in Nat, NEW c \in Clients, NEW h, Handled(c, h),
         h.s \in ClientState(layout_rev), h.out \in Seq(Upward)
  PROVE  /\ cl' \in [Clients -> ClientState(layout_rev)]
         /\ up' \in [Clients -> Seq(Upward)]
<1> DEFINE p == pump_shared_spawns(c, h.s)
<1>1. p.s \in ClientState(layout_rev) /\ p.out \in Seq(Upward)
  BY PumpTypes
<1>2. /\ cl' = [cl EXCEPT ![c] = p.s]
      /\ up' = [up EXCEPT ![c] = @ \o h.out \o p.out]
  BY DEF Handled
<1> HIDE DEF p
<1>3. up[c] \in Seq(Upward)
  BY DEF LinkTypes
<1>4. (up[c] \o h.out) \o p.out \in Seq(Upward)
  <2> DEFINE a == up[c]
             b == h.out
             d == p.out
  <2>1. a \in Seq(Upward) /\ b \in Seq(Upward) /\ d \in Seq(Upward)
    BY <1>1, <1>3
  <2> HIDE DEF a, b, d
  <2>2. (a \o b) \o d \in Seq(Upward)
    BY <2>1
  <2> QED
    BY <2>2 DEF a, b, d
<1> QED
  BY <1>1, <1>2, <1>4 DEF LinkTypes

\* A handler of a client that leaves the server alone keeps the types.
LEMMA ClientSide ==
  ASSUME TypeInv, UNCHANGED <<server, last_rev>>, inputs' \in 0 .. MaxInputs,
         cl' \in [Clients -> ClientState(layout_rev)], up' \in [Clients -> Seq(Upward)],
         down' \in [Clients -> Seq(Downward(layout_rev))]
  PROVE  TypeInv'
BY DEF TypeInv, ServerTypes, LinkTypes, server

-----------------------------------------------------------------------------
(* Steps. *)

\* A client applies the first message it was sent.
LEMMA ReceiveTypes ==
  ASSUME TypeInv, NEW c \in Clients, Receive(c)
  PROVE  TypeInv'
<1> DEFINE m == Head(down[c])
           s == cl[c]
<1>1. layout_rev \in Nat
  BY DEF TypeInv, ServerTypes
<1>2. down[c] \in Seq(Downward(layout_rev)) /\ s \in ClientState(layout_rev)
  BY DEF TypeInv, LinkTypes
<1>3. /\ down[c] # <<>> /\ down' = [down EXCEPT ![c] = Tail(@)]
      /\ UNCHANGED <<server, last_rev, inputs>>
  BY DEF Receive
<1>4. m \in Downward(layout_rev) /\ Tail(down[c]) \in Seq(Downward(layout_rev))
  BY <1>2, <1>3
<1>5. down' \in [Clients -> Seq(Downward(layout_rev))]
  BY <1>3, <1>4 DEF TypeInv, LinkTypes
<1>6. inputs' \in 0 .. MaxInputs
  BY <1>3 DEF TypeInv, ServerTypes
<1>7. ASSUME NEW h, Handled(c, h), h.s \in ClientState(layout_rev), h.out \in Seq(Upward)
      PROVE  TypeInv'
  BY <1>1, <1>3, <1>5, <1>6, <1>7, HandledTypes, ClientSide DEF TypeInv
<1>8. ASSUME NEW t \in ClientState(layout_rev), Handled(c, Result(t, <<>>))
      PROVE  TypeInv'
  BY <1>7, <1>8, ResultParts
<1> HIDE DEF m, s
<1>9. CASE m.type = "LayoutCommitted" /\ Handled(c, Result(layout_committed(c, s, m), <<>>))
  BY <1>1, <1>2, <1>4, <1>8, <1>9, CommittedTypes
<1>10. CASE m.type = "LayoutRejected" /\ Handled(c, Result(layout_rejected(s, m), <<>>))
  BY <1>1, <1>2, <1>4, <1>8, <1>10, RejectedTypes
<1>11. CASE m.type = "SpawnResult" /\ Handled(c, spawn_result(c, s, m))
  BY <1>1, <1>2, <1>4, <1>7, <1>11, SpawnResultTypes
<1>12. CASE m.type = "PaneMetadata" /\ Handled(c, Result([s EXCEPT !.meta = @ \cup {m.pane}], <<>>))
  <2> DEFINE t == [s EXCEPT !.meta = @ \cup {m.pane}]
  <2>1. m.pane \in PaneId
    BY <1>4, <1>12 DEF Downward
  <2>2. s \in ClientRecord(layout_rev) /\ s.doc.panes \subseteq 1 .. s.next - 1
    BY <1>2 DEF ClientState
  <2>3. t \in ClientRecord(layout_rev) /\ t.doc = s.doc /\ t.next = s.next
    BY <2>1, <2>2 DEF ClientRecord
  <2>4. Handled(c, Result(t, <<>>))
    BY <1>12
  <2> HIDE DEF t
  <2>5. t \in ClientState(layout_rev)
    BY <2>2, <2>3 DEF ClientState
  <2> QED
    BY <1>8, <2>4, <2>5
<1>13. CASE m.type = "ControllerChanged" /\ Handled(c, Result(controller_changed(c, s, m), <<>>))
  BY <1>1, <1>2, <1>4, <1>8, <1>13, ControllerTypes
<1>14. CASE m.type = "Exited" /\ Handled(c, exited(c, s, m))
  <2>1. m.pane \in PaneId
    BY <1>4, <1>14 DEF Downward
  <2>2. \/ exited(c, s, m) = close_pane(s, m.pane, FALSE)
        \/ exited(c, s, m) = Result(s, <<>>)
    BY DEF exited
  <2>3. exited(c, s, m).s \in ClientState(layout_rev) /\ exited(c, s, m).out \in Seq(Upward)
    <3>1. CASE exited(c, s, m) = close_pane(s, m.pane, FALSE)
      BY <1>1, <1>2, <2>1, <3>1, CloseTypes
    <3>2. CASE exited(c, s, m) = Result(s, <<>>)
      BY <1>2, <3>2, ResultParts, Zenon
    <3> QED
      BY <2>2, <3>1, <3>2
  <2> QED
    BY <1>7, <1>14, <2>3
<1> QED
  BY <1>9, <1>10, <1>11, <1>12, <1>13, <1>14 DEF Receive, m, s

\* The user's inputs to a client, and its debounce timer.
LEMMA UserTypes ==
  ASSUME TypeInv, NEW c \in Clients,
         \/ flush_layout_commit(c) \/ OpenPane(c) \/ TakeControl(c)
         \/ \E arr \in Arrangements : Edit(c, arr)
         \/ \E p \in PaneId : ClosePane(c, p)
  PROVE  TypeInv'
<1> DEFINE s == cl[c]
<1>1. layout_rev \in Nat /\ inputs \in 0 .. MaxInputs
  BY DEF TypeInv, ServerTypes
<1>2. s \in ClientState(layout_rev) /\ down \in [Clients -> Seq(Downward(layout_rev))]
  BY DEF TypeInv, LinkTypes
<1>3. s \in ClientRecord(layout_rev) /\ s.doc.panes \subseteq 1 .. s.next - 1
  BY <1>2 DEF ClientState
<1>4. UNCHANGED <<server, down, last_rev>>
  BY DEF flush_layout_commit, OpenPane, TakeControl, Edit, ClosePane
<1>5. inputs' \in 0 .. MaxInputs
  <2>1. inputs' = inputs \/ (inputs < MaxInputs /\ inputs' = inputs + 1)
    BY DEF flush_layout_commit, OpenPane, TakeControl, Edit, ClosePane, Input
  <2> QED
    BY <1>1, <2>1, ArrangementsAssumption
<1>6. ASSUME NEW h, Handled(c, h), h.s \in ClientState(layout_rev), h.out \in Seq(Upward)
      PROVE  TypeInv'
  BY <1>1, <1>2, <1>4, <1>5, <1>6, HandledTypes, ClientSide DEF TypeInv
<1>7. ASSUME NEW t \in ClientState(layout_rev), NEW out \in Seq(Upward), Handled(c, Result(t, out))
      PROVE  TypeInv'
  BY <1>6, <1>7, ResultParts
<1>8. CASE flush_layout_commit(c)
  <2> DEFINE t == [s EXCEPT !.assumed_rev = @ + 1, !.last = s.doc]
  <2>1. t \in ClientRecord(layout_rev) /\ t.doc = s.doc /\ t.next = s.next
    <3>1. s.assumed_rev + 1 \in Nat /\ s.doc \in Doc
      BY <1>3 DEF ClientRecord
    <3> HIDE DEF s
    <3> QED
      BY <1>3, <3>1 DEF ClientRecord
  <2>2. CommitFrame(s) \in Upward
    BY <1>3 DEF CommitFrame, Upward, ClientRecord
  <2>3. Handled(c, Result(t, <<CommitFrame(s)>>))
    BY <1>8 DEF flush_layout_commit
  <2> HIDE DEF t, s
  <2>4. t \in ClientState(layout_rev) /\ <<CommitFrame(s)>> \in Seq(Upward)
    BY <1>3, <2>1, <2>2 DEF ClientState
  <2> QED
    BY <1>7, <2>3, <2>4
<1>9. CASE OpenPane(c)
  <2> DEFINE id == s.next
             t == [s EXCEPT !.next = @ + 1, !.doc.panes = @ \cup {id}, !.pending = Append(@, id)]
  <2>1. id \in PaneId /\ Handled(c, Result(t, <<>>))
    BY <1>9 DEF OpenPane
  <2>2. /\ [s.doc EXCEPT !.panes = @ \cup {id}] \in Doc
        /\ [s.doc EXCEPT !.panes = @ \cup {id}].panes = s.doc.panes \cup {id}
        /\ Append(s.pending, id) \in Seq(PaneId)
        /\ s.next + 1 \in 2 .. MaxPanes + 1
    <3>1. s.doc \in Doc /\ s.pending \in Seq(PaneId) /\ s.next \in 2 .. MaxPanes + 1
      BY <1>3 DEF ClientRecord
    <3> HIDE DEF s
    <3>2. [s.doc EXCEPT !.panes = @ \cup {id}] \in Doc
      BY <2>1, <3>1 DEF Doc
    <3>3. [s.doc EXCEPT !.panes = @ \cup {id}].panes = s.doc.panes \cup {id}
      BY <3>1 DEF Doc
    <3> QED
      BY <2>1, <3>1, <3>2, <3>3
  <2>3. /\ t \in ClientRecord(layout_rev)
        /\ t.doc.panes = s.doc.panes \cup {id} /\ t.next = s.next + 1
    BY <1>3, <2>2 DEF ClientRecord
  <2>4. s.doc.panes \cup {id} \subseteq 1 .. s.next
    BY <1>3, <2>1
  <2> HIDE DEF t
  <2>5. t \in ClientState(layout_rev)
    BY <2>1, <2>3, <2>4 DEF ClientState
  <2> QED
    BY <1>7, <2>1, <2>5, ResultParts
<1>10. CASE TakeControl(c)
  <2>1. [type |-> "RequestControl"] \in Upward
    BY DEF Upward
  <2>2. <<[type |-> "RequestControl"]>> \in Seq(Upward)
    BY <2>1
  <2> QED
    BY <1>2, <1>7, <1>10, <2>2 DEF TakeControl
<1>11. ASSUME NEW arr \in Arrangements, Edit(c, arr)
       PROVE  TypeInv'
  <2> DEFINE t == [s EXCEPT !.doc.arr = arr]
  <2>1. [s.doc EXCEPT !.arr = arr] \in Doc /\ [s.doc EXCEPT !.arr = arr].panes = s.doc.panes
    BY <1>3 DEF ClientRecord, Doc
  <2>2. t \in ClientRecord(layout_rev) /\ t.doc.panes = s.doc.panes /\ t.next = s.next
    BY <1>3, <2>1 DEF ClientRecord
  <2>3. Handled(c, Result(t, <<>>))
    BY <1>11 DEF Edit
  <2> HIDE DEF t
  <2>4. t \in ClientState(layout_rev)
    BY <1>3, <2>2 DEF ClientState
  <2> QED
    BY <1>7, <2>3, <2>4, ResultParts
<1>12. ASSUME NEW p \in PaneId, ClosePane(c, p)
       PROVE  TypeInv'
  <2>1. Handled(c, close_pane(s, p, TRUE))
    BY <1>12 DEF ClosePane
  <2> QED
    BY <1>1, <1>2, <1>6, <2>1, CloseTypes
<1> QED
  BY <1>8, <1>9, <1>10, <1>11, <1>12

\* Queueing a handler's responses keeps the frames to the clients well typed.
LEMMA RespondTypes ==
  ASSUME TypeInv, NEW r \in Nat, layout_rev <= r, NEW c,
         NEW answers \in Seq(Downward(r)), NEW broadcasts \in Seq(Downward(r)),
         Respond(c, answers, broadcasts)
  PROVE  down' \in [Clients -> Seq(Downward(r))]
<1>1. layout_rev \in Nat
  BY DEF TypeInv, ServerTypes
<1>2. Downward(layout_rev) \subseteq Downward(r)
  BY <1>1, TypesGrow
<1> DEFINE D == Downward(r)
<1> HIDE DEF D
<1>3. \A d \in Clients : down[d] \in Seq(D)
  <2> SUFFICES ASSUME NEW d \in Clients
               PROVE  down[d] \in Seq(D)
    OBVIOUS
  <2>1. down[d] \in Seq(Downward(layout_rev))
    BY DEF TypeInv, LinkTypes
  <2> QED
    BY <1>2, <2>1 DEF D
<1>4. \A d \in Clients :
        (down[d] \o (IF d = c THEN answers ELSE <<>>))
                 \o (IF d \in attached THEN broadcasts ELSE <<>>) \in Seq(D)
  <2> SUFFICES ASSUME NEW d \in Clients, NEW a \in Seq(D), NEW b \in Seq(D)
               PROVE  (down[d] \o a) \o b \in Seq(D)
    <3>1. answers \in Seq(D) /\ broadcasts \in Seq(D) /\ <<>> \in Seq(D)
      BY DEF D
    <3> QED
      BY <3>1
  <2>1. down[d] \in Seq(D)
    BY <1>3
  <2> DEFINE q == down[d]
  <2> HIDE DEF q
  <2>2. q \in Seq(D)
    BY <2>1 DEF q
  <2>3. (q \o a) \o b \in Seq(D)
    BY <2>2
  <2> QED
    BY <2>3 DEF q
<1>5. down' \in [Clients -> Seq(D)]
  BY <1>4 DEF Respond
<1> QED
  BY <1>5 DEF D

\* A handler of the server that leaves the clients alone keeps the types.
LEMMA ServerSide ==
  ASSUME TypeInv, ServerTypes', UNCHANGED cl, layout_rev <= layout_rev',
         up' \in [Clients -> Seq(Upward)],
         down' \in [Clients -> Seq(Downward(layout_rev'))]
  PROVE  TypeInv'
<1>1. layout_rev \in Nat /\ layout_rev' \in Nat
  BY DEF TypeInv, ServerTypes
<1>2. ClientState(layout_rev) \subseteq ClientState(layout_rev')
  BY <1>1, TypesGrow
<1>3. cl' \in [Clients -> ClientState(layout_rev')]
  BY <1>2 DEF TypeInv, LinkTypes
<1> QED
  BY <1>3 DEF TypeInv, LinkTypes

\* What the server answers is well typed, at its present or its next revision.
LEMMA AnswerTypes ==
  ASSUME TypeInv, NEW c \in Clients
  PROVE  /\ Rejected \in Downward(layout_rev)
         /\ \A d \in Doc : Committed(c, d) \in Downward(layout_rev + 1)
         /\ \A r \in Nat, p \in PaneId :
                           /\ \A ok \in BOOLEAN : [type |-> "SpawnResult", pane |-> p, ok |-> ok] \in Downward(r)
                           /\ [type |-> "PaneMetadata", pane |-> p] \in Downward(r)
                           /\ [type |-> "Exited", pane |-> p] \in Downward(r)
                           /\ \A k \in Clients \cup {None} :
                                [type |-> "ControllerChanged", controller |-> k] \in Downward(r)
<1>1. layout_rev \in Nat \ {0} /\ layout \in Doc
  BY DEF TypeInv, ServerTypes
<1>2. Rejected \in Downward(layout_rev)
  BY <1>1 DEF Rejected, Downward
<1>3. \A d \in Doc : Committed(c, d) \in Downward(layout_rev + 1)
  BY <1>1 DEF Committed, Downward
<1> QED
  BY <1>2, <1>3 DEF Downward

\* A published document moves the server to its next revision.
LEMMA PublishTypes ==
  ASSUME TypeInv, NEW c \in Clients, NEW d \in Doc, publish_shared_layout(c, d)
  PROVE  /\ layout' \in Doc /\ layout_rev' \in Nat \ {0} /\ layout_rev' = layout_rev + 1
         /\ last_rev' \in [Clients -> 0 .. layout_rev']
<1>1. layout_rev \in Nat \ {0} /\ last_rev \in [Clients -> 0 .. layout_rev]
  BY DEF TypeInv, ServerTypes
<1>2. /\ layout_rev' = layout_rev + 1 /\ layout' = d
      /\ last_rev' = [last_rev EXCEPT ![c] = layout_rev + 1]
  BY DEF publish_shared_layout
<1>3. 0 .. layout_rev \subseteq 0 .. layout_rev + 1 /\ layout_rev + 1 \in 0 .. layout_rev + 1
  BY <1>1
<1>4. last_rev' \in [Clients -> 0 .. layout_rev + 1]
  BY <1>1, <1>2, <1>3
<1> QED
  BY <1>1, <1>2, <1>4

\* The server handles the first frame of a client.
LEMMA ServeTypes ==
  ASSUME TypeInv, NEW c \in Clients, Serve(c)
  PROVE  TypeInv'
<1> DEFINE m == Head(up[c])
<1>1. /\ c \in attached /\ up[c] # <<>> /\ up' = [up EXCEPT ![c] = Tail(@)]
      /\ UNCHANGED <<cl, inputs>>
  BY DEF Serve
<1>2. m \in Upward /\ Tail(up[c]) \in Seq(Upward)
  <2>1. up[c] \in Seq(Upward)
    BY DEF TypeInv, LinkTypes
  <2> QED
    BY <1>1, <2>1
<1>3. up' \in [Clients -> Seq(Upward)]
  BY <1>1, <1>2 DEF TypeInv, LinkTypes
<1>4. /\ ServerTypes /\ layout_rev \in Nat \ {0} /\ layout_rev + 1 \in Nat
      /\ layout_rev <= layout_rev /\ layout_rev <= layout_rev + 1
  BY DEF TypeInv, ServerTypes
<1> HIDE DEF m
<1>5. <<>> \in Seq(Downward(layout_rev)) /\ <<>> \in Seq(Downward(layout_rev + 1))
  OBVIOUS
<1>6. ASSUME NEW a \in Seq(Downward(layout_rev)), NEW b \in Seq(Downward(layout_rev)),
             Respond(c, a, b)
      PROVE  down' \in [Clients -> Seq(Downward(layout_rev))]
  BY <1>4, <1>6, RespondTypes
<1>6a. ASSUME NEW a \in Seq(Downward(layout_rev + 1)), NEW b \in Seq(Downward(layout_rev + 1)),
             Respond(c, a, b)
      PROVE  down' \in [Clients -> Seq(Downward(layout_rev + 1))]
  BY <1>4, <1>6a, RespondTypes
<1>7. CASE m.type = "CommitLayout" /\ handle_commit_layout(c, m)
  <2>1. m.doc \in Doc
    BY <1>2, <1>7 DEF Upward
  <2>2. UNCHANGED <<panes, controller, attached>>
    BY <1>7 DEF handle_commit_layout
  <2>3. CASE UNCHANGED <<layout, layout_rev, last_rev>>
    <3>1. ServerTypes'
      BY <1>1, <1>4, <2>2, <2>3 DEF ServerTypes
    <3>2. Respond(c, <<>>, <<>>) \/ Respond(c, <<Rejected>>, <<>>)
      BY <1>4, <1>7, <2>3 DEF handle_commit_layout, publish_shared_layout
    <3>3. Rejected \in Downward(layout_rev)
      BY <2>1, AnswerTypes
    <3>4. <<Rejected>> \in Seq(Downward(layout_rev))
      BY <3>3
    <3>5. down' \in [Clients -> Seq(Downward(layout_rev))]
      BY <1>5, <1>6, <3>2, <3>4
    <3> QED
      BY <1>1, <1>3, <1>4, <2>3, <3>1, <3>5, ServerSide
  <2>4. CASE publish_shared_layout(c, m.doc) /\ Respond(c, <<>>, <<Committed(c, m.doc)>>)
    <3>1. ServerTypes'
      BY <1>1, <1>4, <2>1, <2>2, <2>4, PublishTypes DEF ServerTypes
    <3>2. Committed(c, m.doc) \in Downward(layout_rev + 1)
      BY <2>1, AnswerTypes
    <3>3. <<Committed(c, m.doc)>> \in Seq(Downward(layout_rev + 1))
      BY <3>2
    <3>4. down' \in [Clients -> Seq(Downward(layout_rev + 1))]
      BY <1>5, <1>6a, <2>4, <3>3
    <3>5. layout_rev' = layout_rev + 1
      BY <2>4 DEF publish_shared_layout
    <3> QED
      BY <1>1, <1>3, <1>4, <3>1, <3>4, <3>5, ServerSide
  <2> QED
    BY <1>7, <2>3, <2>4 DEF handle_commit_layout
<1>8. CASE m.type = "SpawnPane" /\ spawn_shared_pane(c, m)
  <2>1. m.doc \in Doc /\ m.pane \in PaneId
    BY <1>2, <1>8 DEF Upward
  <2>2. UNCHANGED <<controller, attached>>
    BY <1>8 DEF spawn_shared_pane
  <2> DEFINE result(ok) == [type |-> "SpawnResult", pane |-> m.pane, ok |-> ok]
             meta == [type |-> "PaneMetadata", pane |-> m.pane]
  <2>3. /\ result(FALSE) \in Downward(layout_rev) /\ Rejected \in Downward(layout_rev)
        /\ result(TRUE) \in Downward(layout_rev + 1) /\ meta \in Downward(layout_rev + 1)
        /\ Committed(c, m.doc) \in Downward(layout_rev + 1)
    BY <1>4, <2>1, AnswerTypes
  <2>4. CASE Respond(c, SpawnRefused(m), <<>>) /\ UNCHANGED <<panes, layout, layout_rev, last_rev>>
    <3>1. ServerTypes'
      BY <1>1, <1>4, <2>2, <2>4 DEF ServerTypes
    <3>2. SpawnRefused(m) = <<result(FALSE), Rejected>>
      BY DEF SpawnRefused
    <3> DEFINE no == result(FALSE)
    <3>2a. no \in Downward(layout_rev) /\ SpawnRefused(m) = <<no, Rejected>>
      BY <2>3, <3>2
    <3> HIDE DEF no
    <3>3. SpawnRefused(m) \in Seq(Downward(layout_rev))
      BY <2>3, <3>2a
    <3>4. down' \in [Clients -> Seq(Downward(layout_rev))]
      BY <1>5, <1>6, <2>4, <3>3
    <3> QED
      BY <1>1, <1>3, <1>4, <2>4, <3>1, <3>4, ServerSide
  <2>5. CASE /\ panes' = [panes EXCEPT ![m.pane] = "live"]
             /\ publish_shared_layout(c, m.doc)
             /\ Respond(c, <<result(TRUE)>>, <<meta, Committed(c, m.doc)>>)
    <3>1. panes' \in [PaneId -> {"none", "live", "exited"}]
      BY <1>4, <2>5 DEF ServerTypes
    <3>2. ServerTypes'
      BY <1>1, <1>4, <2>1, <2>2, <2>5, <3>1, PublishTypes DEF ServerTypes
    <3> DEFINE yes == result(TRUE)
               done == Committed(c, m.doc)
    <3>2a. /\ yes \in Downward(layout_rev + 1) /\ meta \in Downward(layout_rev + 1)
           /\ done \in Downward(layout_rev + 1)
           /\ Respond(c, <<yes>>, <<meta, done>>)
      BY <2>3, <2>5
    <3> HIDE DEF yes, done, meta
    <3>3. /\ <<yes>> \in Seq(Downward(layout_rev + 1))
          /\ <<meta, done>> \in Seq(Downward(layout_rev + 1))
      BY <3>2a
    <3>4. down' \in [Clients -> Seq(Downward(layout_rev + 1))]
      BY <1>6a, <3>2a, <3>3
    <3>5. layout_rev' = layout_rev + 1
      BY <2>5 DEF publish_shared_layout
    <3> QED
      BY <1>1, <1>3, <1>4, <3>2, <3>4, <3>5, ServerSide
  <2> QED
    BY <1>8, <2>4, <2>5 DEF spawn_shared_pane
<1>9. CASE m.type = "Kill" /\ kill_pane(c, m)
  <2>1. UNCHANGED <<layout, layout_rev, controller, attached, last_rev>> /\ Respond(c, <<>>, <<>>)
    BY <1>9 DEF kill_pane
  <2>2. panes' \in [PaneId -> {"none", "live", "exited"}]
    BY <1>4, <1>9 DEF kill_pane, ServerTypes
  <2>3. ServerTypes'
    BY <1>1, <1>4, <2>1, <2>2 DEF ServerTypes
  <2> QED
    BY <1>1, <1>3, <1>4, <1>5, <1>6, <2>1, <2>3, ServerSide
<1>10. CASE m.type = "RequestControl" /\ assign_controller(c)
  <2> DEFINE told == [type |-> "ControllerChanged", controller |-> c]
             all == IF controller = c THEN <<>> ELSE <<told>>
  <2>1. /\ UNCHANGED <<panes, layout, layout_rev, attached, last_rev>> /\ controller' = c
        /\ Respond(c, <<>>, all)
    BY <1>10 DEF assign_controller
  <2>2. ServerTypes'
    BY <1>1, <1>4, <2>1 DEF ServerTypes
  <2>3. told \in Downward(layout_rev)
    BY DEF Downward
  <2> HIDE DEF told
  <2>4. all \in Seq(Downward(layout_rev))
    BY <2>3
  <2> HIDE DEF all
  <2>5. down' \in [Clients -> Seq(Downward(layout_rev))]
    BY <1>5, <1>6, <2>1, <2>4
  <2> QED
    BY <1>1, <1>3, <1>4, <2>1, <2>2, <2>5, ServerSide
<1> QED
  BY <1>7, <1>8, <1>9, <1>10 DEF Serve, m

\* Departures and exits keep the types.
LEMMA HostTypes ==
  ASSUME TypeInv, (\E c \in Clients : Leave(c)) \/ (\E p \in PaneId : Exit(p))
  PROVE  TypeInv'
<1>1. /\ ServerTypes /\ layout_rev \in Nat /\ inputs \in 0 .. MaxInputs
      /\ up \in [Clients -> Seq(Upward)] /\ down \in [Clients -> Seq(Downward(layout_rev))]
  BY DEF TypeInv, ServerTypes, LinkTypes
<1>2. inputs' \in 0 .. MaxInputs
  <2>1. inputs < MaxInputs /\ inputs' = inputs + 1
    BY DEF Leave, Exit, Input
  <2> QED
    BY <1>1, <2>1, ArrangementsAssumption
<1>3. ASSUME NEW c \in Clients, Leave(c)
      PROVE  TypeInv'
  <2> DEFINE rest == attached \ {c}
             promoted == IF rest = {} THEN None ELSE Least(rest)
             told == [type |-> "ControllerChanged", controller |-> promoted]
  <2>1. /\ attached' = rest /\ c \in attached
        /\ controller' = IF controller = c THEN promoted ELSE controller
        /\ up' = [up EXCEPT ![c] = <<>>]
        /\ down' = [d \in Clients |-> IF d = c THEN <<>>
                      ELSE IF controller = c /\ d \in rest THEN Append(down[d], told) ELSE down[d]]
        /\ UNCHANGED <<panes, layout, layout_rev, cl, last_rev>>
    BY <1>3 DEF Leave
  <2>2. promoted \in rest \cup {None}
    <3>1. rest \subseteq Nat
      BY <1>1 DEF ServerTypes
    <3> QED
      BY <3>1, LeastNumber DEF Least
  <2>3. rest \subseteq Clients
    BY <1>1 DEF ServerTypes
  <2> HIDE DEF promoted
  <2>4. told \in Downward(layout_rev)
    BY <2>2, <2>3 DEF Downward
  <2> HIDE DEF told
  <2>5. controller' \in attached' \cup {None}
    BY <1>1, <2>1, <2>2 DEF ServerTypes
  <2>6. ServerTypes'
    BY <1>1, <1>2, <2>1, <2>3, <2>5 DEF ServerTypes
  <2>7. up' \in [Clients -> Seq(Upward)]
    BY <1>1, <2>1
  <2>8. down' \in [Clients -> Seq(Downward(layout_rev))]
    BY <1>1, <2>1, <2>4
  <2> QED
    BY <1>1, <2>1, <2>6, <2>7, <2>8, ServerSide
<1>4. ASSUME NEW p \in PaneId, Exit(p)
      PROVE  TypeInv'
  <2> DEFINE told == [type |-> "Exited", pane |-> p]
  <2>1. /\ panes' = [panes EXCEPT ![p] = "exited"] /\ Respond(None, <<>>, <<told>>)
        /\ UNCHANGED <<layout, layout_rev, controller, attached, up, cl, last_rev>>
    BY <1>4 DEF Exit
  <2>2. panes' \in [PaneId -> {"none", "live", "exited"}]
    BY <1>1, <2>1 DEF ServerTypes
  <2>3. ServerTypes'
    BY <1>1, <1>2, <2>1, <2>2 DEF ServerTypes
  <2>4. told \in Downward(layout_rev)
    BY DEF Downward
  <2> HIDE DEF told
  <2>5. <<told>> \in Seq(Downward(layout_rev)) /\ <<>> \in Seq(Downward(layout_rev))
    BY <2>4
  <2>6. down' \in [Clients -> Seq(Downward(layout_rev))]
    <3>1. layout_rev <= layout_rev
      BY <1>1
    <3> QED
      BY <1>1, <2>1, <2>5, <3>1, RespondTypes
  <2> QED
    BY <1>1, <2>1, <2>3, <2>6, ServerSide
<1> QED
  BY <1>3, <1>4

\* Every step keeps the types.
LEMMA TypeStep ==
  ASSUME TypeInv, [Next]_vars
  PROVE  TypeInv'
<1>1. CASE UNCHANGED vars
  BY <1>1 DEF vars, server, TypeInv, ServerTypes, LinkTypes
<1>2. CASE Next
  BY <1>2, ServeTypes, ReceiveTypes, UserTypes, HostTypes DEF Next
<1> QED
  BY <1>1, <1>2

\* The first state has the types.
LEMMA InitTypes ==
  ASSUME Init
  PROVE  TypeInv
<1>1. InitialDoc \in Doc /\ InitialDoc.panes = {1}
  BY ArrangementsAssumption DEF InitialDoc, Doc
<1>2. Least(Clients) \in Clients
  BY LeastNumber DEF Least
<1> DEFINE s == [controller |-> Least(Clients), layout_rev |-> 1, assumed_rev |-> 1,
                 last |-> InitialDoc, flight |-> NoFlight, pending |-> <<>>,
                 doc |-> InitialDoc, next |-> 2, meta |-> {1}]
<1>3. s \in ClientState(1)
  <2>1. NoFlight \in Flights /\ <<>> \in Seq(PaneId)
    BY DEF Flights
  <2>2. s \in ClientRecord(1)
    BY <1>1, <1>2, <2>1 DEF ClientRecord
  <2>3. s.doc.panes \subseteq 1 .. s.next - 1
    BY <1>1
  <2> HIDE DEF s
  <2> QED
    BY <2>2, <2>3 DEF ClientState
<1>4. cl = [c \in Clients |-> s] /\ layout_rev = 1
  BY DEF Init
<1> HIDE DEF s
<1>5. LinkTypes
  <2>1. <<>> \in Seq(Upward) /\ <<>> \in Seq(Downward(1))
    OBVIOUS
  <2>2. up \in [Clients -> Seq(Upward)] /\ down \in [Clients -> Seq(Downward(1))]
    BY <2>1 DEF Init
  <2>3. cl \in [Clients -> ClientState(1)]
    BY <1>3, <1>4
  <2> QED
    BY <1>4, <2>2, <2>3 DEF LinkTypes
<1>6. ServerTypes
  BY <1>1, <1>2, ArrangementsAssumption DEF Init, ServerTypes
<1> QED
  BY <1>5, <1>6 DEF TypeInv

\* No client is ahead of the server or mints an id it has seen, and what clients
\* and server hold keeps its type, for every number of clients and panes and
\* every sequence of commits, spawns, hand-overs and departures.
THEOREM TypesSafe == Spec => []TypeOK
<1>1. Init => TypeInv
  BY InitTypes
<1>2. TypeInv /\ [Next]_vars => TypeInv'
  BY TypeStep
<1>3. TypeInv => TypeOK
  <2> SUFFICES ASSUME TypeInv
               PROVE  TypeOK
    OBVIOUS
  <2>1. \A c \in Clients : cl[c] \in ClientRecord(layout_rev) /\ cl[c].doc.panes \subseteq 1 .. cl[c].next - 1
    BY DEF TypeInv, LinkTypes, ClientState
  <2> QED
    BY <2>1 DEF TypeInv, ServerTypes, TypeOK, ClientRecord, Flights
<1> QED
  BY <1>1, <1>2, <1>3, PTL DEF Spec
-----------------------------------------------------------------------------
(* The documents agree. *)

(***************************************************************************)
(* Without spawns the frames that matter to a client's copy are commits,   *)
(* refusals and changes of the lease.  Of each kind only the last one in a *)
(* socket counts: what it says is what the client will know once it has    *)
(* read everything.  `Ends` says of a socket that the last member of T in  *)
(* it is in G, or that it has none and b holds already.                    *)
(***************************************************************************)

Ends(q, T, G, b) == LastIn(q, T, G) \/ (NoneIn(q, T) /\ b)

Commits == [type : {"CommitLayout"}, base : Nat, doc : Doc, seen : Nat]
Accepted == [type : {"LayoutCommitted"}, rev : Nat, author : Clients, doc : Doc]
Refusals == [type : {"LayoutRejected"}, rev : Nat, doc : Doc]
Changes == [type : {"ControllerChanged"}, controller : Clients \cup {None}]
Layouts == Accepted \cup Refusals

\* No spawn is queued, in flight or on its way.
Idle ==
  \A c \in Clients : /\ cl[c].pending = <<>> /\ cl[c].flight = NoFlight
                     /\ \A i \in DOMAIN up[c] : up[c][i].type # "SpawnPane"

AtRevision(r) == {m \in Layouts : m.rev = r}
Naming(k) == {m \in Changes : m.controller = k}
Foreign(k) == {m \in Accepted : m.author # k}
Carrying(S, doc) == {m \in S : m.doc = doc}

\* What a client will know of the revision and of the lease.
RevisionKnown(d) ==
  Ends(down[d], Layouts, AtRevision(layout_rev), cl[d].layout_rev = layout_rev)
ControllerKnown(d) ==
  Ends(down[d], Changes, Naming(controller), cl[d].controller = controller)

\* The controller hears of its lease after it has heard of every commit of others.
ChangeFollows(k) == Ends(down[k], Changes \cup Foreign(k), Changes, TRUE)

\* The controller is going to publish whatever it has.
Owes(k) == cl[k].last = NoDoc \/ ~NoneIn(down[k], Changes \cup Refusals)

\* The committed layout is what the controller last published, and everybody else
\* has it or will have it after the last frame that matters.
Told(d) ==
  Ends(down[d], Layouts \cup Changes, Carrying(Foreign(d), layout), cl[d].doc = layout)
Published(k) == layout = cl[k].last /\ \A d \in attached \ {k} : Told(d)
CommitDue(k) == Ends(up[k], Commits, Carrying(Commits, cl[k].last), Published(k))

Agreement ==
  /\ Idle /\ (attached # {} => controller \in attached)
  /\ \A d \in attached : RevisionKnown(d) /\ ControllerKnown(d)
  /\ \A k \in attached : k = controller => ChangeFollows(k) /\ (Owes(k) \/ CommitDue(k))

\* A socket that loses its first frame or gains one, in neither case one of X.
Beside(q, r, X) ==
  \/ r = q
  \/ q # <<>> /\ r = Tail(q) /\ Head(q) \notin X
  \/ \E x : x \notin X /\ r = Append(q, x)

LEMMA BesideSame ==
  ASSUME NEW Q, NEW q \in Seq(Q), NEW r, NEW X, Beside(q, r, X),
         NEW T, NEW G, T \subseteq X, G \subseteq T
  PROVE  /\ LastIn(q, T, G) => LastIn(r, T, G)
         /\ NoneIn(q, T) <=> NoneIn(r, T)
<1>1. CASE r = q
  BY <1>1
<1>2. CASE q # <<>> /\ r = Tail(q) /\ Head(q) \notin X
  <2>1. Head(q) \notin T /\ Head(q) \notin G
    BY <1>2
  <2> QED
    BY <1>2, <2>1, LastTaken
<1>3. ASSUME NEW x, x \notin X, r = Append(q, x)
      PROVE  /\ LastIn(q, T, G) => LastIn(r, T, G)
             /\ NoneIn(q, T) <=> NoneIn(r, T)
  <2>1. x \notin T /\ x \in Q \cup {x} /\ q \in Seq(Q \cup {x})
    BY <1>3
  <2> QED
    BY <1>3, <2>1, LastAppended
<1> QED
  BY <1>1, <1>2, <1>3 DEF Beside

\* The kinds of frames, by their types.
LEMMA Kinds ==
  ASSUME NEW r \in Nat
  PROVE  /\ \A m \in Downward(r) : /\ m \in Accepted <=> m.type = "LayoutCommitted"
                                   /\ m \in Refusals <=> m.type = "LayoutRejected"
                                   /\ m \in Changes <=> m.type = "ControllerChanged"
         /\ \A m \in Upward : m \in Commits <=> m.type = "CommitLayout"
<1>1. \A m \in Downward(r) : /\ m \in Accepted <=> m.type = "LayoutCommitted"
                             /\ m \in Refusals <=> m.type = "LayoutRejected"
                             /\ m \in Changes <=> m.type = "ControllerChanged"
  BY DEF Downward, Accepted, Refusals, Changes
<1>2. \A m \in Upward : m \in Commits <=> m.type = "CommitLayout"
  BY DEF Upward, Commits
<1> QED
  BY <1>1, <1>2

\* The sockets and the clients, one by one.
LEMMA Sockets ==
  ASSUME TypeInv
  PROVE  /\ layout_rev \in Nat /\ attached \subseteq Clients
         /\ \A c \in Clients : /\ up[c] \in Seq(Upward)
                               /\ down[c] \in Seq(Downward(layout_rev))
                               /\ cl[c] \in ClientRecord(layout_rev)
BY DEF TypeInv, ServerTypes, LinkTypes, ClientState

\* The kinds of frames are told apart, and the parts are parts.
LEMMA KindsApart ==
  ASSUME NEW k, NEW r, NEW d
  PROVE  /\ Layouts \cap Changes = {} /\ Accepted \cap Refusals = {}
         /\ AtRevision(r) \subseteq Layouts /\ Naming(k) \subseteq Changes
         /\ Foreign(k) \subseteq Accepted
         /\ \A S : Carrying(S, d) \subseteq S
BY DEF Layouts, Accepted, Refusals, Changes, AtRevision, Naming, Foreign, Carrying

\* A step of one side that touches none of the frames that matter: edits and
\* closes of a client, exits, frames of clients that are not the controller, and
\* the departure of one.
AsideStep ==
  /\ UNCHANGED <<layout, layout_rev, controller>>
  /\ attached' \subseteq attached /\ (attached' # {} => controller \in attached')
  /\ \A d \in attached' :
       /\ Beside(down[d], down'[d], Layouts \cup Changes)
       /\ d = controller => Beside(up[d], up'[d], Commits)
       /\ cl'[d].controller = cl[d].controller
       /\ cl'[d].layout_rev = cl[d].layout_rev /\ cl'[d].last = cl[d].last
       /\ cl'[d].doc = cl[d].doc \/ cl[d].controller = d

LEMMA AsideKeeps ==
  ASSUME TypeInv, Agreement, Idle', AsideStep
  PROVE  Agreement'
<1>1. /\ UNCHANGED <<layout, layout_rev, controller>>
      /\ attached' \subseteq attached /\ (attached' # {} => controller \in attached')
      /\ attached \subseteq Clients
  BY Sockets DEF AsideStep
<1>2. ASSUME NEW d \in attached', NEW T, NEW G, T \subseteq Layouts \cup Changes, G \subseteq T
      PROVE  /\ LastIn(down[d], T, G) => LastIn(down'[d], T, G)
             /\ NoneIn(down[d], T) <=> NoneIn(down'[d], T)
  <2>1. down[d] \in Seq(Downward(layout_rev)) /\ Beside(down[d], down'[d], Layouts \cup Changes)
    BY <1>1, Sockets DEF AsideStep
  <2> QED
    BY <1>2, <2>1, BesideSame
<1>3. ASSUME NEW d \in attached'
      PROVE  RevisionKnown(d)' /\ ControllerKnown(d)'
  <2>1. RevisionKnown(d) /\ ControllerKnown(d)
    BY <1>1, <1>3 DEF Agreement
  <2>2. AtRevision(layout_rev) \subseteq Layouts /\ Naming(controller) \subseteq Changes
    BY KindsApart
  <2>3. /\ LastIn(down[d], Layouts, AtRevision(layout_rev)) => LastIn(down'[d], Layouts, AtRevision(layout_rev))
        /\ NoneIn(down[d], Layouts) <=> NoneIn(down'[d], Layouts)
        /\ LastIn(down[d], Changes, Naming(controller)) => LastIn(down'[d], Changes, Naming(controller))
        /\ NoneIn(down[d], Changes) <=> NoneIn(down'[d], Changes)
    BY <1>2, <1>3, <2>2
  <2>4. cl'[d].controller = cl[d].controller /\ cl'[d].layout_rev = cl[d].layout_rev
    BY <1>3 DEF AsideStep
  <2> QED
    BY <1>1, <2>1, <2>3, <2>4 DEF RevisionKnown, ControllerKnown, Ends
<1>4. ASSUME NEW k \in attached', k = controller
      PROVE  ChangeFollows(k)' /\ (Owes(k)' \/ CommitDue(k)')
  <2>1. ChangeFollows(k) /\ (Owes(k) \/ CommitDue(k)) /\ k \in Clients
    BY <1>1, <1>4 DEF Agreement
  <2>2. /\ Changes \cup Foreign(k) \subseteq Layouts \cup Changes
        /\ Changes \cup Refusals \subseteq Layouts \cup Changes
    BY KindsApart DEF Layouts
  <2>3. /\ LastIn(down[k], Changes \cup Foreign(k), Changes) => LastIn(down'[k], Changes \cup Foreign(k), Changes)
        /\ NoneIn(down[k], Changes \cup Foreign(k)) <=> NoneIn(down'[k], Changes \cup Foreign(k))
        /\ NoneIn(down[k], Changes \cup Refusals) <=> NoneIn(down'[k], Changes \cup Refusals)
    BY <1>2, <1>4, <2>2
  <2>4. ChangeFollows(k)'
    BY <2>1, <2>3 DEF ChangeFollows, Ends
  <2>5. cl'[k].last = cl[k].last
    BY <1>4 DEF AsideStep
  <2>6. CASE Owes(k)
    BY <2>3, <2>4, <2>5, <2>6 DEF Owes
  <2>7. CASE CommitDue(k)
    <3>1. up[k] \in Seq(Upward) /\ Beside(up[k], up'[k], Commits) /\ Carrying(Commits, cl[k].last) \subseteq Commits
      BY <1>4, <2>1, Sockets, KindsApart DEF AsideStep
    <3>2. /\ LastIn(up[k], Commits, Carrying(Commits, cl[k].last)) => LastIn(up'[k], Commits, Carrying(Commits, cl[k].last))
          /\ NoneIn(up[k], Commits) <=> NoneIn(up'[k], Commits)
      <4> PICK G : G = Carrying(Commits, cl[k].last)
        OBVIOUS
      <4> PICK q, r : q = up[k] /\ r = up'[k]
        OBVIOUS
      <4>1. q \in Seq(Upward) /\ Beside(q, r, Commits) /\ G \subseteq Commits
            /\ Commits \subseteq Commits
        BY <3>1
      <4>2. /\ LastIn(q, Commits, G) => LastIn(r, Commits, G)
            /\ NoneIn(q, Commits) <=> NoneIn(r, Commits)
        BY ONLY <4>1, BesideSame
      <4> QED
        BY <4>2
    <3>3. ASSUME Published(k)
          PROVE  Published(k)'
      <4>1. layout' = cl'[k].last
        BY <1>1, <2>5, <3>3 DEF Published
      <4>2. ASSUME NEW d \in attached' \ {k}
            PROVE  Told(d)'
        <5>1. Told(d) /\ ControllerKnown(d)
          BY <1>1, <3>3 DEF Published, Agreement
        <5>2. Carrying(Foreign(d), layout) \subseteq Layouts \cup Changes
          BY KindsApart DEF Layouts
        <5>3. /\ LastIn(down[d], Layouts \cup Changes, Carrying(Foreign(d), layout))
                   => LastIn(down'[d], Layouts \cup Changes, Carrying(Foreign(d), layout))
              /\ NoneIn(down[d], Layouts \cup Changes) <=> NoneIn(down'[d], Layouts \cup Changes)
          BY <1>2, <5>2
        <5>4. ASSUME NoneIn(down[d], Layouts \cup Changes), cl[d].doc = layout
              PROVE  cl'[d].doc = layout
          <6>1. ~LastIn(down[d], Changes, Naming(controller))
            BY <5>4 DEF NoneIn, LastIn, Naming
          <6>2. cl[d].controller # d
            BY <1>4, <5>1, <6>1 DEF ControllerKnown, Ends
          <6> QED
            BY <5>4, <6>2 DEF AsideStep
        <5> QED
          BY <1>1, <5>1, <5>3, <5>4 DEF Told, Ends
      <4> QED
        BY <4>1, <4>2 DEF Published
    <3> QED
      BY <2>4, <2>5, <2>7, <3>2, <3>3 DEF CommitDue, Ends
  <2> QED
    BY <2>1, <2>4, <2>6, <2>7
<1> QED
  BY <1>1, <1>3, <1>4 DEF Agreement

\* The lease moves: everybody left is told, after all they were told before.
LEMMA HandoverKeeps ==
  ASSUME TypeInv, Agreement, Idle', UNCHANGED <<layout, layout_rev, cl>>,
         attached' \subseteq attached, controller' \in attached',
         \A d \in attached' : down'[d] = Append(down[d], [type |-> "ControllerChanged",
                                                          controller |-> controller'])
  PROVE  Agreement'
<1>1. attached \subseteq Clients /\ controller' \in Clients /\ layout_rev \in Nat
  BY Sockets
<1> PICK x : x = [type |-> "ControllerChanged", controller |-> controller']
  OBVIOUS
<1>2. x \in Changes /\ x \in Naming(controller') /\ x \notin Layouts
  BY <1>1 DEF Changes, Naming, Layouts, Accepted, Refusals
<1>3. ASSUME NEW d \in attached', NEW T, NEW G
      PROVE  /\ x \in G => LastIn(down'[d], T, G)
             /\ x \notin T => (LastIn(down[d], T, G) => LastIn(down'[d], T, G))
             /\ x \notin T => (NoneIn(down[d], T) => NoneIn(down'[d], T))
             /\ x \in T => ~NoneIn(down'[d], T)
  <2>1. down[d] \in Seq(Downward(layout_rev) \cup {x}) /\ x \in Downward(layout_rev) \cup {x}
    <3>1. down[d] \in Seq(Downward(layout_rev))
      BY <1>1, Sockets
    <3> QED
      BY <3>1
  <2> PICK q, D : q = down[d] /\ D = Downward(layout_rev) \cup {x}
    OBVIOUS
  <2>2. down'[d] = Append(q, x) /\ q \in Seq(D) /\ x \in D
    BY <2>1
  <2>3. /\ x \in G => LastIn(Append(q, x), T, G)
        /\ x \notin T => (LastIn(q, T, G) => LastIn(Append(q, x), T, G))
        /\ x \notin T => (NoneIn(q, T) => NoneIn(Append(q, x), T))
        /\ x \in T => ~NoneIn(Append(q, x), T)
    BY ONLY <2>2, LastAppended
  <2> QED
    BY <2>2, <2>3
<1>4. ASSUME NEW d \in attached'
      PROVE  RevisionKnown(d)' /\ ControllerKnown(d)'
  <2>1. RevisionKnown(d)
    BY DEF Agreement
  <2>2. /\ LastIn(down[d], Layouts, AtRevision(layout_rev)) => LastIn(down'[d], Layouts, AtRevision(layout_rev))
        /\ NoneIn(down[d], Layouts) => NoneIn(down'[d], Layouts)
        /\ LastIn(down'[d], Changes, Naming(controller'))
    BY <1>2, <1>3
  <2> QED
    BY <2>1, <2>2 DEF RevisionKnown, ControllerKnown, Ends
<1>5. ASSUME NEW k \in attached'
      PROVE  ChangeFollows(k)' /\ Owes(k)'
  <2>1. x \in Changes \cup Refusals
    BY <1>2
  <2>2. LastIn(down'[k], Changes \cup Foreign(k), Changes) /\ ~NoneIn(down'[k], Changes \cup Refusals)
    BY <1>2, <1>3, <2>1
  <2> QED
    BY <2>2 DEF ChangeFollows, Owes, Ends
<1> QED
  BY <1>4, <1>5 DEF Agreement

\* A commit of the controller is refused: it will reconcile and publish again.
LEMMA RefusalKeeps ==
  ASSUME TypeInv, Agreement, Idle', controller \in attached,
         UNCHANGED <<layout, layout_rev, controller, attached, cl>>,
         \A d \in attached : down'[d] = IF d = controller THEN Append(down[d], Rejected) ELSE down[d]
  PROVE  Agreement'
<1> PICK c : c = controller
  OBVIOUS
<1>1. /\ attached \subseteq Clients /\ c \in attached /\ c \in Clients /\ layout_rev \in Nat
      /\ layout \in Doc
  BY Sockets DEF TypeInv, ServerTypes
<1> PICK x : x = Rejected
  OBVIOUS
<1>2. x \in Refusals /\ x \in AtRevision(layout_rev) /\ x \notin Changes /\ x \notin Foreign(c)
  BY <1>1 DEF Rejected, Refusals, AtRevision, Layouts, Changes, Foreign, Accepted
<1>3. down[c] \in Seq(Downward(layout_rev) \cup {x}) /\ x \in Downward(layout_rev) \cup {x}
  <2>1. down[c] \in Seq(Downward(layout_rev))
    BY <1>1, Sockets
  <2> QED
    BY <2>1
<1>4. ASSUME NEW T, NEW G
      PROVE  /\ x \in G => LastIn(down'[c], T, G)
             /\ x \notin T => (LastIn(down[c], T, G) => LastIn(down'[c], T, G))
             /\ x \notin T => (NoneIn(down[c], T) => NoneIn(down'[c], T))
             /\ x \in T => ~NoneIn(down'[c], T)
  <2> PICK q, D : q = down[c] /\ D = Downward(layout_rev) \cup {x}
    OBVIOUS
  <2>1. down'[c] = Append(q, x) /\ q \in Seq(D) /\ x \in D
    BY <1>1, <1>3
  <2>2. /\ x \in G => LastIn(Append(q, x), T, G)
        /\ x \notin T => (LastIn(q, T, G) => LastIn(Append(q, x), T, G))
        /\ x \notin T => (NoneIn(q, T) => NoneIn(Append(q, x), T))
        /\ x \in T => ~NoneIn(Append(q, x), T)
    BY ONLY <2>1, LastAppended
  <2> QED
    BY <2>1, <2>2
<1>5. ASSUME NEW d \in attached, d # c
      PROVE  RevisionKnown(d)' /\ ControllerKnown(d)'
  BY <1>5 DEF Agreement, RevisionKnown, ControllerKnown
<1>6. RevisionKnown(c)' /\ ControllerKnown(c)'
  <2>1. ControllerKnown(c)
    BY <1>1 DEF Agreement
  <2>2. /\ LastIn(down'[c], Layouts, AtRevision(layout_rev))
        /\ LastIn(down[c], Changes, Naming(controller)) => LastIn(down'[c], Changes, Naming(controller))
        /\ NoneIn(down[c], Changes) => NoneIn(down'[c], Changes)
    BY <1>2, <1>4
  <2> QED
    BY <2>1, <2>2 DEF RevisionKnown, ControllerKnown, Ends
<1>7. ChangeFollows(c)' /\ Owes(c)'
  <2>1. ChangeFollows(c) /\ x \notin Changes \cup Foreign(c) /\ x \in Changes \cup Refusals
    BY <1>1, <1>2 DEF Agreement
  <2>2. /\ LastIn(down[c], Changes \cup Foreign(c), Changes) => LastIn(down'[c], Changes \cup Foreign(c), Changes)
        /\ NoneIn(down[c], Changes \cup Foreign(c)) => NoneIn(down'[c], Changes \cup Foreign(c))
        /\ ~NoneIn(down'[c], Changes \cup Refusals)
    BY <1>4, <2>1
  <2> QED
    BY <2>1, <2>2 DEF ChangeFollows, Owes, Ends
<1> QED
  BY <1>1, <1>5, <1>6, <1>7 DEF Agreement

\* A commit of the controller is accepted: everybody is sent the new layout, and if
\* it was the last one on its way, the layout is what the controller has.
LEMMA PublishKeeps ==
  ASSUME TypeInv, Agreement, Idle', controller \in attached, NEW m, m \in Commits,
         up[controller] # <<>>, m = Head(up[controller]), up'[controller] = Tail(up[controller]),
         UNCHANGED <<controller, attached, cl>>,
         layout' = m.doc, layout_rev' = layout_rev + 1,
         \A d \in attached : down'[d] = Append(down[d], Committed(controller, m.doc))
  PROVE  Agreement'
<1> PICK c : c = controller
  OBVIOUS
<1>1. /\ attached \subseteq Clients /\ c \in attached /\ c \in Clients /\ layout_rev \in Nat
      /\ m.doc \in Doc
  BY Sockets DEF Commits
<1> PICK x : x = Committed(c, m.doc)
  OBVIOUS
<1>2. /\ x \in Accepted /\ x \in AtRevision(layout_rev + 1) /\ x \notin Changes /\ x \notin Foreign(c)
      /\ \A d : d # c => x \in Carrying(Foreign(d), m.doc)
  BY <1>1 DEF Committed, Accepted, AtRevision, Layouts, Changes, Foreign, Carrying
<1>3. ASSUME NEW d \in attached, NEW T, NEW G
      PROVE  /\ x \in G => LastIn(down'[d], T, G)
             /\ x \notin T => (LastIn(down[d], T, G) => LastIn(down'[d], T, G))
             /\ x \notin T => (NoneIn(down[d], T) => NoneIn(down'[d], T))
             /\ ~NoneIn(down[d], T) => ~NoneIn(down'[d], T)
  <2>1. down[d] \in Seq(Downward(layout_rev) \cup {x}) /\ x \in Downward(layout_rev) \cup {x}
    <3>1. down[d] \in Seq(Downward(layout_rev))
      BY <1>1, Sockets
    <3> QED
      BY <3>1
  <2>2. down'[d] = Append(down[d], x)
    OBVIOUS
  <2> QED
    BY <2>1, <2>2, LastAppended
<1>4. ASSUME NEW d \in attached
      PROVE  RevisionKnown(d)' /\ ControllerKnown(d)'
  <2>1. ControllerKnown(d)
    BY DEF Agreement
  <2>2. /\ LastIn(down'[d], Layouts, AtRevision(layout_rev + 1))
        /\ LastIn(down[d], Changes, Naming(controller)) => LastIn(down'[d], Changes, Naming(controller))
        /\ NoneIn(down[d], Changes) => NoneIn(down'[d], Changes)
    BY <1>2, <1>3
  <2> QED
    BY <2>1, <2>2 DEF RevisionKnown, ControllerKnown, Ends
<1>5. ChangeFollows(c)'
  <2>1. ChangeFollows(c) /\ x \notin Changes \cup Foreign(c)
    BY <1>1, <1>2 DEF Agreement
  <2>2. /\ LastIn(down[c], Changes \cup Foreign(c), Changes) => LastIn(down'[c], Changes \cup Foreign(c), Changes)
        /\ NoneIn(down[c], Changes \cup Foreign(c)) => NoneIn(down'[c], Changes \cup Foreign(c))
    BY <1>1, <1>3, <2>1
  <2> QED
    BY <2>1, <2>2 DEF ChangeFollows, Ends
<1>6. CASE Owes(c)
  <2>1. ~NoneIn(down[c], Changes \cup Refusals) => ~NoneIn(down'[c], Changes \cup Refusals)
    BY <1>1, <1>3
  <2>2. Owes(c)'
    BY <1>6, <2>1 DEF Owes
  <2> QED
    BY <1>1, <1>4, <1>5, <2>2 DEF Agreement
<1>7. CASE CommitDue(c)
  <2> PICK last, q, G : last = cl[c].last /\ q = up[c] /\ G = Carrying(Commits, last)
    OBVIOUS
  <2>1. q \in Seq(Upward) /\ q # <<>> /\ Head(q) \in Commits /\ up'[c] = Tail(q)
    BY <1>1, Sockets
  <2>2. ~NoneIn(q, Commits)
    BY <2>1 DEF NoneIn
  <2>3. LastIn(q, Commits, G)
    BY <1>7, <2>2 DEF CommitDue, Ends
  <2>4. LastIn(Tail(q), Commits, G) \/ (NoneIn(Tail(q), Commits) /\ m \in G)
    BY <2>1, <2>3, LastTaken
  <2>5. ASSUME m \in G
        PROVE  Published(c)'
    <3>1. m.doc = last
      BY <2>5 DEF Carrying
    <3>2. \A d \in attached \ {c} : LastIn(down'[d], Layouts \cup Changes, Carrying(Foreign(d), m.doc))
      BY <1>2, <1>3
    <3>3. \A d \in attached \ {c} : Told(d)'
      BY <3>2 DEF Told, Ends
    <3> QED
      BY <3>1, <3>3 DEF Published
  <2>6. CommitDue(c)'
    BY <2>1, <2>4, <2>5 DEF CommitDue, Ends
  <2> QED
    BY <1>1, <1>4, <1>5, <2>6 DEF Agreement
<1> QED
  BY <1>1, <1>6, <1>7 DEF Agreement

\* What a step of client c does to the others: nothing.
ClientAlone(c) ==
  /\ UNCHANGED <<layout, layout_rev, controller, attached>>
  /\ \A d \in attached \ {c} : cl'[d] = cl[d] /\ up'[d] = up[d] /\ down'[d] = down[d]

\* It is enough to look at the client that takes the step.
LEMMA AloneKeeps ==
  ASSUME TypeInv, Agreement, Idle', NEW c \in attached, ClientAlone(c),
         RevisionKnown(c)' /\ ControllerKnown(c)',
         c = controller => ChangeFollows(c)' /\ (Owes(c)' \/ CommitDue(c)'),
         c # controller => (Told(c) => Told(c)')
  PROVE  Agreement'
<1>1. ASSUME NEW d \in attached, d # c
      PROVE  RevisionKnown(d)' /\ ControllerKnown(d)'
  BY <1>1 DEF Agreement, ClientAlone, RevisionKnown, ControllerKnown
<1>2. ASSUME NEW d \in attached, d # c, Told(d)
      PROVE  Told(d)'
  BY <1>2 DEF ClientAlone, Told
<1>3. ASSUME NEW k \in attached, k = controller, k # c
      PROVE  ChangeFollows(k)' /\ (Owes(k)' \/ CommitDue(k)')
  <2>1. /\ cl'[k] = cl[k] /\ up'[k] = up[k] /\ down'[k] = down[k]
        /\ UNCHANGED <<layout, attached>>
    BY <1>3 DEF ClientAlone
  <2>2. ChangeFollows(k) /\ (Owes(k) \/ CommitDue(k))
    BY <1>3 DEF Agreement
  <2>3. ChangeFollows(k)'
    BY <2>1, <2>2 DEF ChangeFollows
  <2>4. Owes(k) => Owes(k)'
    BY <2>1 DEF Owes
  <2>5. Published(k) => Published(k)'
    BY <1>2, <1>3, <2>1 DEF Published
  <2>6. CommitDue(k) => CommitDue(k)'
    BY <2>1, <2>5 DEF CommitDue, Ends
  <2> QED
    BY <2>2, <2>3, <2>4, <2>6
<1>4. UNCHANGED <<controller, attached>> /\ (attached # {} => controller \in attached)
  BY DEF ClientAlone, Agreement
<1> QED
  BY <1>1, <1>3, <1>4 DEF Agreement

\* The controller publishes its copy.
LEMMA FlushKeeps ==
  ASSUME TypeInv, Agreement, Idle', NEW c \in attached, ClientAlone(c),
         NEW x, x \in Commits, up'[c] = Append(up[c], x), down'[c] = down[c],
         cl'[c].controller = cl[c].controller, cl'[c].layout_rev = cl[c].layout_rev,
         cl'[c].doc = cl[c].doc, cl'[c].last = x.doc
  PROVE  Agreement'
<1>1. /\ RevisionKnown(c) /\ ControllerKnown(c) /\ UNCHANGED <<layout, layout_rev, controller>>
      /\ c = controller => ChangeFollows(c)
  BY DEF Agreement, ClientAlone
<1>2. RevisionKnown(c)' /\ ControllerKnown(c)' /\ (Told(c) => Told(c)')
  BY <1>1 DEF RevisionKnown, ControllerKnown, Told
<1>3. c = controller => ChangeFollows(c)'
  BY <1>1 DEF ChangeFollows
<1>4. CommitDue(c)'
  <2> PICK last, q : last = x.doc /\ q = up[c]
    OBVIOUS
  <2>1. x \in Carrying(Commits, last)
    BY DEF Carrying
  <2>2. q \in Seq(Upward \cup {x}) /\ x \in Upward \cup {x}
    <3>1. q \in Seq(Upward)
      BY Sockets
    <3> QED
      BY <3>1
  <2>3. LastIn(Append(q, x), Commits, Carrying(Commits, last))
    BY ONLY <2>1, <2>2, LastAppended
  <2> QED
    BY <2>3 DEF CommitDue, Ends
<1> QED
  BY <1>2, <1>3, <1>4, AloneKeeps

\* A client applies a commit.  One of its own only confirms the revision; one of
\* another is taken over, and if the client holds the lease by now, it has yet to
\* hear so.
LEMMA AcceptedTaken ==
  ASSUME TypeInv, Agreement, Idle', NEW c \in attached, ClientAlone(c), down[c] # <<>>,
         NEW m, m = Head(down[c]), m \in Accepted, down'[c] = Tail(down[c]), up'[c] = up[c],
         cl'[c].controller = cl[c].controller, cl'[c].layout_rev = m.rev,
         m.author = c => cl'[c].last = cl[c].last /\ cl'[c].doc = cl[c].doc,
         m.author # c => cl'[c].doc = m.doc
  PROVE  Agreement'
<1>1. /\ RevisionKnown(c) /\ ControllerKnown(c) /\ UNCHANGED <<layout, layout_rev, controller, attached>>
      /\ c = controller => ChangeFollows(c) /\ (Owes(c) \/ CommitDue(c))
      /\ c \in Clients
  BY Sockets DEF Agreement, ClientAlone
<1> PICK q, r : q = down[c] /\ r = Tail(q)
  OBVIOUS
<1>2. q \in Seq(Downward(layout_rev)) /\ q # <<>> /\ m = Head(q) /\ down'[c] = r
  BY <1>1, Sockets
<1>3. /\ m \in Layouts /\ m \notin Changes /\ m \notin Refusals
      /\ m \in Foreign(c) <=> m.author # c
  BY DEF Layouts, Accepted, Changes, Refusals, Foreign
<1>4. ASSUME NEW T, NEW G, G \subseteq T
      PROVE  /\ m \notin T => /\ LastIn(q, T, G) => LastIn(r, T, G)
                              /\ NoneIn(q, T) => NoneIn(r, T)
             /\ m \in T => /\ ~NoneIn(q, T)
                           /\ LastIn(q, T, G) => LastIn(r, T, G) \/ (NoneIn(r, T) /\ m \in G)
             /\ ~NoneIn(q, T) => ~NoneIn(r, T) \/ m \in T
  <2>1. r = Tail(q)
    OBVIOUS
  <2>2. q \in Seq(Downward(layout_rev)) /\ q # <<>> /\ m = Head(q)
    BY <1>2
  <2> QED
    BY ONLY <1>4, <2>1, <2>2, EndsTaken
<1>5. RevisionKnown(c)'
  <2> PICK G : G = AtRevision(layout_rev)
    OBVIOUS
  <2>1. G \subseteq Layouts /\ (m \in G => m.rev = layout_rev)
    BY DEF AtRevision
  <2>2. LastIn(q, Layouts, G)
    BY <1>1, <1>3, <1>4, <2>1 DEF RevisionKnown, Ends
  <2>3. LastIn(r, Layouts, G) \/ (NoneIn(r, Layouts) /\ m \in G)
    BY <1>3, <1>4, <2>1, <2>2
  <2> QED
    BY <1>1, <1>2, <2>1, <2>3 DEF RevisionKnown, Ends
<1>6. ControllerKnown(c)'
  <2>1. Naming(controller) \subseteq Changes
    BY KindsApart
  <2>2. /\ LastIn(q, Changes, Naming(controller)) => LastIn(r, Changes, Naming(controller))
        /\ NoneIn(q, Changes) => NoneIn(r, Changes)
    BY <1>3, <1>4, <2>1
  <2> QED
    BY <1>1, <1>2, <2>2 DEF ControllerKnown, Ends
<1>7. ASSUME c = controller
      PROVE  ChangeFollows(c)' /\ (Owes(c)' \/ CommitDue(c)')
  <2>1. Changes \subseteq Changes \cup Foreign(c)
    OBVIOUS
  <2>2. CASE m.author = c
    <3>1. /\ LastIn(q, Changes \cup Foreign(c), Changes) => LastIn(r, Changes \cup Foreign(c), Changes)
          /\ NoneIn(q, Changes \cup Foreign(c)) => NoneIn(r, Changes \cup Foreign(c))
          /\ ~NoneIn(q, Changes \cup Refusals) => ~NoneIn(r, Changes \cup Refusals)
      BY <1>3, <1>4, <2>1, <2>2
    <3>2. ChangeFollows(c)'
      BY <1>1, <1>2, <1>7, <3>1 DEF ChangeFollows, Ends
    <3>3. Owes(c) => Owes(c)'
      BY <1>2, <2>2, <3>1 DEF Owes
    <3>4. Published(c) => Published(c)'
      <4>1. \A d \in attached \ {c} : Told(d) => Told(d)'
        BY <1>1 DEF ClientAlone, Told
      <4> QED
        BY <1>1, <2>2, <4>1 DEF Published
    <3>5. CommitDue(c) => CommitDue(c)'
      BY <2>2, <3>4 DEF CommitDue, Ends
    <3> QED
      BY <1>1, <1>7, <3>2, <3>3, <3>5
  <2>3. CASE m.author # c
    <3>1. LastIn(q, Changes \cup Foreign(c), Changes)
      BY <1>1, <1>3, <1>4, <1>7, <2>1, <2>3 DEF ChangeFollows, Ends
    <3>2. LastIn(r, Changes \cup Foreign(c), Changes)
      BY <1>3, <1>4, <2>1, <2>3, <3>1
    <3>3. ~NoneIn(r, Changes \cup Refusals)
      BY <3>2 DEF LastIn, NoneIn
    <3> QED
      BY <1>2, <3>2, <3>3 DEF ChangeFollows, Owes, Ends
  <2> QED
    BY <2>2, <2>3
<1>8. Told(c) => Told(c)'
  <2> PICK G : G = Carrying(Foreign(c), layout)
    OBVIOUS
  <2>1. /\ G \subseteq Layouts \cup Changes /\ m \in Layouts \cup Changes
        /\ m \in G => m.author # c /\ m.doc = layout
    BY <1>3 DEF Carrying, Foreign, Layouts
  <2>2. LastIn(q, Layouts \cup Changes, G) =>
             LastIn(r, Layouts \cup Changes, G) \/ (NoneIn(r, Layouts \cup Changes) /\ m \in G)
    BY <1>4, <2>1
  <2>3. ~NoneIn(q, Layouts \cup Changes)
    BY <1>4, <2>1
  <2> QED
    BY <1>1, <1>2, <2>1, <2>2, <2>3 DEF Told, Ends
<1> QED
  BY <1>5, <1>6, <1>7, <1>8, AloneKeeps

\* A client applies a refusal: it takes over the server's document, and will
\* publish again if it holds the lease.
LEMMA RefusalTaken ==
  ASSUME TypeInv, Agreement, Idle', NEW c \in attached, ClientAlone(c), down[c] # <<>>,
         NEW m, m = Head(down[c]), m \in Refusals, down'[c] = Tail(down[c]),
         cl'[c].controller = cl[c].controller, cl'[c].layout_rev = m.rev, cl'[c].last = NoDoc
  PROVE  Agreement'
<1>1. /\ RevisionKnown(c) /\ ControllerKnown(c) /\ UNCHANGED <<layout, layout_rev, controller, attached>>
      /\ c = controller => ChangeFollows(c)
      /\ c \in Clients
  BY Sockets DEF Agreement, ClientAlone
<1> PICK q, r : q = down[c] /\ r = Tail(q)
  OBVIOUS
<1>2. q \in Seq(Downward(layout_rev)) /\ q # <<>> /\ m = Head(q) /\ down'[c] = r
  BY <1>1, Sockets
<1>3. /\ m \in Layouts /\ m \notin Changes /\ m \notin Accepted
  BY DEF Layouts, Accepted, Changes, Refusals
<1>4. ASSUME NEW T, NEW G, G \subseteq T
      PROVE  /\ m \notin T => /\ LastIn(q, T, G) => LastIn(r, T, G)
                              /\ NoneIn(q, T) => NoneIn(r, T)
             /\ m \in T => /\ ~NoneIn(q, T)
                           /\ LastIn(q, T, G) => LastIn(r, T, G) \/ (NoneIn(r, T) /\ m \in G)
  <2>1. r = Tail(q)
    OBVIOUS
  <2>2. q \in Seq(Downward(layout_rev)) /\ q # <<>> /\ m = Head(q)
    BY <1>2
  <2> QED
    BY ONLY <1>4, <2>1, <2>2, EndsTaken
<1>5. RevisionKnown(c)'
  <2> PICK G : G = AtRevision(layout_rev)
    OBVIOUS
  <2>1. G \subseteq Layouts /\ (m \in G => m.rev = layout_rev)
    BY DEF AtRevision
  <2>2. LastIn(q, Layouts, G)
    BY <1>1, <1>3, <1>4, <2>1 DEF RevisionKnown, Ends
  <2>3. LastIn(r, Layouts, G) \/ (NoneIn(r, Layouts) /\ m \in G)
    BY <1>3, <1>4, <2>1, <2>2
  <2> QED
    BY <1>1, <1>2, <2>1, <2>3 DEF RevisionKnown, Ends
<1>6. ControllerKnown(c)'
  <2>1. Naming(controller) \subseteq Changes
    BY KindsApart
  <2>2. /\ LastIn(q, Changes, Naming(controller)) => LastIn(r, Changes, Naming(controller))
        /\ NoneIn(q, Changes) => NoneIn(r, Changes)
    BY <1>3, <1>4, <2>1
  <2> QED
    BY <1>1, <1>2, <2>2 DEF ControllerKnown, Ends
<1>7. c = controller => ChangeFollows(c)' /\ Owes(c)'
  <2>1. Changes \subseteq Changes \cup Foreign(c) /\ m \notin Changes \cup Foreign(c)
    BY <1>3 DEF Foreign
  <2>2. /\ LastIn(q, Changes \cup Foreign(c), Changes) => LastIn(r, Changes \cup Foreign(c), Changes)
        /\ NoneIn(q, Changes \cup Foreign(c)) => NoneIn(r, Changes \cup Foreign(c))
    BY <1>4, <2>1
  <2> QED
    BY <1>1, <1>2, <2>2 DEF ChangeFollows, Ends, Owes
<1>8. Told(c) => Told(c)'
  <2> PICK G : G = Carrying(Foreign(c), layout)
    OBVIOUS
  <2>1. G \subseteq Layouts \cup Changes /\ m \in Layouts \cup Changes /\ m \notin G
    BY <1>3 DEF Carrying, Foreign, Layouts
  <2>2. /\ LastIn(q, Layouts \cup Changes, G) => LastIn(r, Layouts \cup Changes, G)
        /\ ~NoneIn(q, Layouts \cup Changes)
    BY <1>4, <2>1
  <2> QED
    BY <1>1, <1>2, <2>2 DEF Told, Ends
<1> QED
  BY <1>5, <1>6, <1>7, <1>8, AloneKeeps

\* A client hears who holds the lease: the new controller forgets what it last
\* published.
LEMMA ChangeTaken ==
  ASSUME TypeInv, Agreement, Idle', NEW c \in attached, ClientAlone(c), down[c] # <<>>,
         NEW m, m = Head(down[c]), m \in Changes, down'[c] = Tail(down[c]),
         cl'[c].controller = m.controller, cl'[c].layout_rev = cl[c].layout_rev,
         m.controller = c => cl'[c].last = NoDoc
  PROVE  Agreement'
<1>1. /\ RevisionKnown(c) /\ ControllerKnown(c) /\ UNCHANGED <<layout, layout_rev, controller, attached>>
      /\ c = controller => ChangeFollows(c)
      /\ c \in Clients
  BY Sockets DEF Agreement, ClientAlone
<1> PICK q, r : q = down[c] /\ r = Tail(q)
  OBVIOUS
<1>2. q \in Seq(Downward(layout_rev)) /\ q # <<>> /\ m = Head(q) /\ down'[c] = r
  BY <1>1, Sockets
<1>3. m \notin Layouts
  BY DEF Layouts, Accepted, Changes, Refusals
<1>4. ASSUME NEW T, NEW G, G \subseteq T
      PROVE  /\ m \notin T => /\ LastIn(q, T, G) => LastIn(r, T, G)
                              /\ NoneIn(q, T) => NoneIn(r, T)
             /\ m \in T => /\ ~NoneIn(q, T)
                           /\ LastIn(q, T, G) => LastIn(r, T, G) \/ (NoneIn(r, T) /\ m \in G)
  <2>1. r = Tail(q)
    OBVIOUS
  <2>2. q \in Seq(Downward(layout_rev)) /\ q # <<>> /\ m = Head(q)
    BY <1>2
  <2> QED
    BY ONLY <1>4, <2>1, <2>2, EndsTaken
<1>5. RevisionKnown(c)'
  <2>1. AtRevision(layout_rev) \subseteq Layouts
    BY KindsApart
  <2>2. /\ LastIn(q, Layouts, AtRevision(layout_rev)) => LastIn(r, Layouts, AtRevision(layout_rev))
        /\ NoneIn(q, Layouts) => NoneIn(r, Layouts)
    BY <1>3, <1>4, <2>1
  <2> QED
    BY <1>1, <1>2, <2>2 DEF RevisionKnown, Ends
<1>6. LastIn(r, Changes, Naming(controller)) \/ (NoneIn(r, Changes) /\ m.controller = controller)
  <2> PICK G : G = Naming(controller)
    OBVIOUS
  <2>1. G \subseteq Changes /\ (m \in G => m.controller = controller)
    BY DEF Naming
  <2>2. LastIn(q, Changes, G)
    BY <1>1, <1>4, <2>1 DEF ControllerKnown, Ends
  <2>3. LastIn(r, Changes, G) \/ (NoneIn(r, Changes) /\ m \in G)
    BY <1>4, <2>1, <2>2
  <2> QED
    BY <2>1, <2>3
<1>7. ControllerKnown(c)'
  BY <1>1, <1>2, <1>6 DEF ControllerKnown, Ends
<1>8. c = controller => ChangeFollows(c)'
  <2>1. Changes \subseteq Changes \cup Foreign(c) /\ m \in Changes \cup Foreign(c)
    OBVIOUS
  <2>2. /\ LastIn(q, Changes \cup Foreign(c), Changes) => LastIn(r, Changes \cup Foreign(c), Changes)
                                                      \/ NoneIn(r, Changes \cup Foreign(c))
        /\ ~NoneIn(q, Changes \cup Foreign(c))
    BY <1>4, <2>1
  <2> QED
    BY <1>1, <1>2, <2>2 DEF ChangeFollows, Ends
<1>9. c = controller => Owes(c)'
  <2>1. CASE LastIn(r, Changes, Naming(controller))
    <3>1. ~NoneIn(r, Changes \cup Refusals)
      BY <2>1 DEF LastIn, NoneIn, Naming
    <3> QED
      BY <1>2, <3>1 DEF Owes
  <2>2. CASE m.controller = controller
    BY <2>2 DEF Owes
  <2> QED
    BY <1>6, <2>1, <2>2
<1>10. Told(c) => Told(c)'
  <2> PICK G : G = Carrying(Foreign(c), layout)
    OBVIOUS
  <2>1. G \subseteq Layouts \cup Changes /\ m \in Layouts \cup Changes /\ m \notin G
    BY <1>3 DEF Carrying, Foreign, Layouts
  <2>2. /\ LastIn(q, Layouts \cup Changes, G) => LastIn(r, Layouts \cup Changes, G)
        /\ ~NoneIn(q, Layouts \cup Changes)
    BY <1>4, <2>1
  <2> QED
    BY <1>1, <1>2, <2>2 DEF Told, Ends
<1> QED
  BY <1>5, <1>7, <1>8, <1>9, <1>10, AloneKeeps

\* A handler of a client without spawns: its new state, and at most one frame.
LEMMA ClientStep ==
  ASSUME TypeInv, Idle, NEW c \in attached, NEW s, s.pending = <<>>, s.flight = NoFlight,
         NEW out, out = <<>> \/ \E f \in Upward : f.type # "SpawnPane" /\ out = <<f>>,
         Handled(c, Result(s, out)), UNCHANGED server,
         \A d \in attached \ {c} : down'[d] = down[d]
  PROVE  /\ Idle' /\ ClientAlone(c) /\ cl'[c] = s
         /\ out = <<>> => up'[c] = up[c]
         /\ \A f \in Upward : out = <<f>> => up'[c] = Append(up[c], f)
<1>1. c \in Clients /\ attached \subseteq Clients /\ up[c] \in Seq(Upward)
  BY Sockets
<1>2. /\ cl \in [Clients -> ClientState(layout_rev)] /\ up \in [Clients -> Seq(Upward)]
  BY DEF TypeInv, LinkTypes
<1>3. pump_shared_spawns(c, s) = Result(s, <<>>)
  BY DEF pump_shared_spawns
<1>4. Result(s, out).s = s /\ Result(s, out).out = out /\ Result(s, <<>>).s = s /\ Result(s, <<>>).out = <<>>
  BY DEF Result
<1>5. cl' = [cl EXCEPT ![c] = s] /\ up' = [up EXCEPT ![c] = (@ \o out) \o <<>>]
  BY <1>3, <1>4 DEF Handled
<1> PICK q : q = up[c]
  OBVIOUS
<1>6. \A d \in Clients \ {c} : cl'[d] = cl[d] /\ up'[d] = up[d]
  BY <1>2, <1>5
<1>7. cl'[c] = s /\ up'[c] = (q \o out) \o <<>>
  BY <1>1, <1>2, <1>5
<1>8. /\ out = <<>> => (q \o out) \o <<>> = q
      /\ \A f \in Upward : out = <<f>> => (q \o out) \o <<>> = Append(q, f)
  <2>1. q \in Seq(Upward)
    BY <1>1
  <2>2. (q \o <<>>) \o <<>> = q
    BY <2>1
  <2>3. \A f \in Upward : (q \o <<f>>) \o <<>> = Append(q, f)
    BY <2>1
  <2> QED
    BY <2>2, <2>3
<1>9. ASSUME NEW i \in DOMAIN up'[c]
      PROVE  up'[c][i].type # "SpawnPane"
  <2>0. \A j \in DOMAIN q : q[j].type # "SpawnPane"
    BY <1>1 DEF Idle
  <2>1. CASE out = <<>>
    BY <1>7, <1>8, <1>9, <2>0, <2>1
  <2>2. ASSUME NEW f \in Upward, f.type # "SpawnPane", out = <<f>>
        PROVE  up'[c][i].type # "SpawnPane"
    <3>1. up'[c] = Append(q, f)
      BY <1>7, <1>8, <2>2
    <3>2. i \in DOMAIN Append(q, f) /\ q \in Seq(Upward)
      BY <1>1, <1>9, <3>1
    <3>3. (i \in DOMAIN q /\ Append(q, f)[i] = q[i]) \/ Append(q, f)[i] = f
      BY <3>2
    <3> QED
      BY <2>0, <2>2, <3>1, <3>3
  <2> QED
    BY <2>1, <2>2
<1>10. Idle'
  BY <1>6, <1>7, <1>9 DEF Idle
<1>11. ClientAlone(c)
  BY <1>1, <1>6 DEF ClientAlone, server
<1> QED
  BY <1>7, <1>8, <1>10, <1>11

\* A client closes a pane: a frame that does not matter, and a change of its copy
\* that only the controller may make.
LEMMA CloseAside ==
  ASSUME TypeInv, Agreement, NEW c \in attached, NEW p \in PaneId, NEW asked \in BOOLEAN,
         cl[c].controller = c, Handled(c, close_pane(cl[c], p, asked)), UNCHANGED server,
         \A d \in attached \ {c} : down'[d] = down[d],
         Beside(down[c], down'[c], Layouts \cup Changes)
  PROVE  Agreement'
<1> PICK s : s = cl[c]
  OBVIOUS
<1>1. /\ Idle /\ s.pending = <<>> /\ s.flight = NoFlight /\ s \in ClientRecord(layout_rev)
      /\ attached \subseteq Clients /\ (attached # {} => controller \in attached)
  BY Sockets DEF Agreement, Idle
<1>2. \E t, out : /\ close_pane(s, p, asked) = Result(t, out)
                  /\ t.pending = <<>> /\ t.flight = NoFlight /\ t.controller = s.controller
                  /\ t.layout_rev = s.layout_rev /\ t.last = s.last
                  /\ out = <<>> \/ \E f \in Upward : f.type = "Kill" /\ out = <<f>>
  <2> DEFINE t == [s EXCEPT !.doc.panes = @ \ {p}]
             f == KillFrame(p, asked)
  <2>1. f \in Upward /\ f.type = "Kill"
    BY DEF KillFrame, Upward
  <2>2. /\ t.pending = <<>> /\ t.flight = NoFlight /\ t.controller = s.controller
        /\ t.layout_rev = s.layout_rev /\ t.last = s.last
    BY <1>1 DEF ClientRecord
  <2>3. close_pane(s, p, asked) = Result(t, <<f>>) \/ close_pane(s, p, asked) = Result(s, <<>>)
    BY DEF close_pane
  <2> HIDE DEF t, f
  <2> QED
    BY <1>1, <2>1, <2>2, <2>3
<1> PICK t, out : /\ close_pane(s, p, asked) = Result(t, out)
                  /\ t.pending = <<>> /\ t.flight = NoFlight /\ t.controller = s.controller
                  /\ t.layout_rev = s.layout_rev /\ t.last = s.last
                  /\ out = <<>> \/ \E f \in Upward : f.type = "Kill" /\ out = <<f>>
  BY <1>2
<1>3. /\ Idle' /\ ClientAlone(c) /\ cl'[c] = t
      /\ out = <<>> => up'[c] = up[c]
      /\ \A f \in Upward : out = <<f>> => up'[c] = Append(up[c], f)
  <2>1. out = <<>> \/ \E f \in Upward : f.type # "SpawnPane" /\ out = <<f>>
    OBVIOUS
  <2> QED
    BY <1>1, <2>1, ClientStep
<1>4. Beside(up[c], up'[c], Commits)
  BY <1>3 DEF Beside, Commits
<1>5. \A d \in attached : Beside(down[d], down'[d], Layouts \cup Changes) /\ Beside(up[d], up'[d], Commits)
  BY <1>3, <1>4 DEF ClientAlone, Beside
<1>6. AsideStep
  BY <1>1, <1>3, <1>5 DEF AsideStep, ClientAlone
<1> QED
  BY <1>3, <1>6, AsideKeeps

\* The same for a handler that sends nothing and leaves the revision, the lease
\* and what was published as they are.
LEMMA SilentAside ==
  ASSUME TypeInv, Agreement, NEW c \in attached, NEW t,
         t.pending = cl[c].pending, t.flight = cl[c].flight, t.controller = cl[c].controller,
         t.layout_rev = cl[c].layout_rev, t.last = cl[c].last,
         t.doc = cl[c].doc \/ cl[c].controller = c,
         NEW out, out = <<>> \/ \E f \in Upward : f.type = "RequestControl" /\ out = <<f>>,
         Handled(c, Result(t, out)), UNCHANGED server,
         \A d \in attached \ {c} : down'[d] = down[d],
         Beside(down[c], down'[c], Layouts \cup Changes)
  PROVE  Agreement'
<1> PICK s : s = cl[c]
  OBVIOUS
<1>1. /\ Idle /\ s.pending = <<>> /\ s.flight = NoFlight
      /\ attached \subseteq Clients /\ (attached # {} => controller \in attached)
  BY Sockets DEF Agreement, Idle
<1>3. /\ Idle' /\ ClientAlone(c) /\ cl'[c] = t
      /\ out = <<>> => up'[c] = up[c]
      /\ \A f \in Upward : out = <<f>> => up'[c] = Append(up[c], f)
  <2>1. /\ out = <<>> \/ \E f \in Upward : f.type # "SpawnPane" /\ out = <<f>>
        /\ t.pending = <<>> /\ t.flight = NoFlight
    BY <1>1
  <2> QED
    BY <1>1, <2>1, ClientStep
<1>4. Beside(up[c], up'[c], Commits)
  BY <1>3 DEF Beside, Commits
<1>5. \A d \in attached : Beside(down[d], down'[d], Layouts \cup Changes) /\ Beside(up[d], up'[d], Commits)
  BY <1>3, <1>4 DEF ClientAlone, Beside
<1>6. AsideStep
  BY <1>1, <1>3, <1>5 DEF AsideStep, ClientAlone
<1> QED
  BY <1>3, <1>6, AsideKeeps

\* Without placeholders a document is taken over as it is.
LEMMA ReconcileIdle ==
  ASSUME NEW r \in Nat, NEW s \in ClientRecord(r), s.pending = <<>>, s.flight = NoFlight,
         NEW doc \in Doc, NEW rev
  PROVE  /\ reconcile(s, doc, rev).doc = doc
         /\ reconcile(s, doc, rev).layout_rev = rev
         /\ reconcile(s, doc, rev).controller = s.controller
         /\ reconcile(s, doc, rev).pending = <<>>
         /\ reconcile(s, doc, rev).flight = NoFlight
<1>1. Waiting(s) = {}
  BY DEF Waiting
<1> DEFINE d == [doc EXCEPT !.panes = @ \cup (Waiting(s) \cap s.doc.panes)]
           n == Counter(s, doc)
<1>2. d = doc
  BY <1>1 DEF Doc
<1>3. reconcile(s, doc, rev) = [s EXCEPT !.doc = d, !.layout_rev = rev, !.last = doc, !.next = n]
  BY DEF reconcile
<1> HIDE DEF d, n
<1> QED
  BY <1>2, <1>3 DEF ClientRecord

\* A client takes the next frame from the server.
LEMMA ReceiveKeeps ==
  ASSUME TypeInv, Agreement, NEW c \in attached, Receive(c)
  PROVE  Agreement'
<1> PICK s, m : s = cl[c] /\ m = Head(down[c])
  OBVIOUS
<1>1. /\ c \in Clients /\ attached \subseteq Clients /\ layout_rev \in Nat
      /\ s \in ClientRecord(layout_rev) /\ Idle /\ s.pending = <<>> /\ s.flight = NoFlight
      /\ down[c] \in Seq(Downward(layout_rev)) /\ down[c] # <<>> /\ UNCHANGED server
      /\ down \in [Clients -> Seq(Downward(layout_rev))] /\ down' = [down EXCEPT ![c] = Tail(@)]
  BY Sockets DEF Agreement, Idle, Receive, TypeInv, LinkTypes
<1>2. /\ m \in Downward(layout_rev) /\ down'[c] = Tail(down[c])
      /\ \A d \in attached \ {c} : down'[d] = down[d]
      /\ m \in Accepted <=> m.type = "LayoutCommitted"
      /\ m \in Refusals <=> m.type = "LayoutRejected"
      /\ m \in Changes <=> m.type = "ControllerChanged"
  BY <1>1, Kinds
<1>3. m \notin Layouts \cup Changes => Beside(down[c], down'[c], Layouts \cup Changes)
  BY <1>1, <1>2 DEF Beside
<1>4. ASSUME m.type = "LayoutCommitted", Handled(c, Result(layout_committed(c, s, m), <<>>))
      PROVE  Agreement'
  <2>1. confirm_shared_spawn(c, s, m) = s
    BY <1>1 DEF confirm_shared_spawn
  <2>2. m \in Accepted /\ m.doc \in Doc
    BY <1>2, <1>4 DEF Accepted
  <2> PICK t : t = layout_committed(c, s, m)
    OBVIOUS
  <2>3. /\ t.pending = <<>> /\ t.flight = NoFlight /\ t.controller = s.controller
        /\ t.layout_rev = m.rev
        /\ m.author = c => t.last = s.last /\ t.doc = s.doc
        /\ m.author # c => t.doc = m.doc
    <3>1. CASE m.author = c
      <4>1. t = [s EXCEPT !.layout_rev = m.rev]
        BY <2>1, <3>1 DEF layout_committed
      <4> QED
        BY <1>1, <3>1, <4>1 DEF ClientRecord
    <3>2. CASE m.author # c
      <4>1. t = reconcile(s, m.doc, m.rev)
        BY <2>1, <3>2 DEF layout_committed
      <4> QED
        BY <1>1, <2>2, <3>2, <4>1, ReconcileIdle
    <3> QED
      BY <3>1, <3>2
  <2> PICK out : out = <<>>
    OBVIOUS
  <2>4. Idle' /\ ClientAlone(c) /\ cl'[c] = t /\ up'[c] = up[c]
    BY <1>1, <1>2, <1>4, <2>3, ClientStep
  <2> QED
    <3>1. /\ TypeInv /\ Agreement /\ Idle' /\ c \in attached /\ ClientAlone(c) /\ down[c] # <<>>
          /\ m = Head(down[c]) /\ m \in Accepted /\ down'[c] = Tail(down[c]) /\ up'[c] = up[c]
          /\ cl'[c].controller = cl[c].controller /\ cl'[c].layout_rev = m.rev
          /\ m.author = c => cl'[c].last = cl[c].last /\ cl'[c].doc = cl[c].doc
          /\ m.author # c => cl'[c].doc = m.doc
      BY <1>1, <1>2, <2>2, <2>3, <2>4
    <3> QED
      BY ONLY <3>1, AcceptedTaken
<1>5. ASSUME m.type = "LayoutRejected", Handled(c, Result(layout_rejected(s, m), <<>>))
      PROVE  Agreement'
  <2>1. m \in Refusals /\ m.doc \in Doc /\ ~s.flight.failed
    BY <1>1, <1>2, <1>5 DEF Refusals, NoFlight
  <2>2. reject_shared_spawn(s, m) = s
    BY <2>1 DEF reject_shared_spawn
  <2> PICK w, t : /\ w = reconcile(s, m.doc, m.rev) /\ t = layout_rejected(s, m)
    OBVIOUS
  <2>3. t = [w EXCEPT !.assumed_rev = m.rev, !.last = NoDoc]
    BY <2>1, <2>2 DEF layout_rejected
  <2>4. /\ t.pending = <<>> /\ t.flight = NoFlight /\ t.controller = s.controller
        /\ t.layout_rev = m.rev /\ t.last = NoDoc
    <3>1. /\ w.doc = m.doc /\ w.layout_rev = m.rev /\ w.controller = s.controller
          /\ w.pending = <<>> /\ w.flight = NoFlight
      BY <1>1, <2>1, ReconcileIdle
    <3>2. w \in ClientState(layout_rev)
      <4>1. s \in ClientState(layout_rev) /\ m.rev \in 1 .. layout_rev
        BY <1>1, <1>2, <1>5 DEF TypeInv, LinkTypes, Downward
      <4> QED
        BY <1>1, <2>1, <4>1, ReconcileTypes
    <3>3. w \in ClientRecord(layout_rev)
      BY <3>2 DEF ClientState
    <3> QED
      BY <2>3, <3>1, <3>3 DEF ClientRecord
  <2> PICK out : out = <<>>
    OBVIOUS
  <2>5. Idle' /\ ClientAlone(c) /\ cl'[c] = t /\ up'[c] = up[c]
    BY <1>1, <1>2, <1>5, <2>4, ClientStep
  <2> QED
    <3>1. /\ TypeInv /\ Agreement /\ Idle' /\ c \in attached /\ ClientAlone(c) /\ down[c] # <<>>
          /\ m = Head(down[c]) /\ m \in Refusals /\ down'[c] = Tail(down[c])
          /\ cl'[c].controller = cl[c].controller /\ cl'[c].layout_rev = m.rev
          /\ cl'[c].last = NoDoc
      BY <1>1, <1>2, <2>1, <2>4, <2>5
    <3> QED
      BY ONLY <3>1, RefusalTaken
<1>6. ASSUME m.type = "ControllerChanged", Handled(c, Result(controller_changed(c, s, m), <<>>))
      PROVE  Agreement'
  <2> PICK t, out : t = controller_changed(c, s, m) /\ out = <<>>
    OBVIOUS
  <2>1. /\ t.pending = <<>> /\ t.flight = NoFlight /\ t.controller = m.controller
        /\ t.layout_rev = s.layout_rev /\ (m.controller = c => t.last = NoDoc)
        /\ t.doc = s.doc /\ (m.controller # c => t.last = s.last)
    BY <1>1 DEF controller_changed, ClientRecord
  <2>2. Idle' /\ ClientAlone(c) /\ cl'[c] = t /\ up'[c] = up[c]
    BY <1>1, <1>2, <1>6, <2>1, ClientStep
  <2> QED
    <3>1. /\ TypeInv /\ Agreement /\ Idle' /\ c \in attached /\ ClientAlone(c) /\ down[c] # <<>>
          /\ m = Head(down[c]) /\ m \in Changes /\ down'[c] = Tail(down[c])
          /\ cl'[c].controller = m.controller /\ cl'[c].layout_rev = cl[c].layout_rev
          /\ m.controller = c => cl'[c].last = NoDoc
      BY <1>1, <1>2, <1>6, <2>1, <2>2
    <3> QED
      BY ONLY <3>1, ChangeTaken
<1>7. ASSUME m.type = "SpawnResult", Handled(c, spawn_result(c, s, m))
      PROVE  Agreement'
  <2>1. m \notin Layouts \cup Changes /\ m.pane \in PaneId /\ ~s.flight.failed
    BY <1>1, <1>2, <1>7 DEF Layouts, Downward, NoFlight
  <2>2. mark_failed_shared_spawn(s, m) = s
    BY <1>1 DEF mark_failed_shared_spawn
  <2>3. \/ s.controller = c /\ spawn_result(c, s, m) = close_pane(s, m.pane, FALSE)
        \/ spawn_result(c, s, m) = Result(s, <<>>)
    BY <2>1, <2>2 DEF spawn_result
  <2>4. Beside(down[c], down'[c], Layouts \cup Changes)
    BY <1>3, <2>1
  <2>5. CASE s.controller = c /\ spawn_result(c, s, m) = close_pane(s, m.pane, FALSE)
    <3>1. /\ TypeInv /\ Agreement /\ c \in attached /\ m.pane \in PaneId /\ FALSE \in BOOLEAN
          /\ cl[c].controller = c /\ Handled(c, close_pane(cl[c], m.pane, FALSE)) /\ UNCHANGED server
          /\ \A d \in attached \ {c} : down'[d] = down[d]
          /\ Beside(down[c], down'[c], Layouts \cup Changes)
      BY <1>1, <1>2, <1>7, <2>1, <2>4, <2>5
    <3> QED
      BY ONLY <3>1, CloseAside
  <2>6. CASE spawn_result(c, s, m) = Result(s, <<>>)
    <3> PICK t, out : t = s /\ out = <<>>
      OBVIOUS
    <3>1. /\ TypeInv /\ Agreement /\ c \in attached
          /\ t.pending = cl[c].pending /\ t.flight = cl[c].flight /\ t.controller = cl[c].controller
          /\ t.layout_rev = cl[c].layout_rev /\ t.last = cl[c].last /\ t.doc = cl[c].doc
          /\ out = <<>> /\ Handled(c, Result(t, out)) /\ UNCHANGED server
          /\ \A d \in attached \ {c} : down'[d] = down[d]
          /\ Beside(down[c], down'[c], Layouts \cup Changes)
      BY <1>1, <1>2, <1>7, <2>4, <2>6
    <3> QED
      BY ONLY <3>1, SilentAside
  <2> QED
    BY <2>3, <2>5, <2>6
<1>8. ASSUME m.type = "PaneMetadata", Handled(c, Result([s EXCEPT !.meta = @ \cup {m.pane}], <<>>))
      PROVE  Agreement'
  <2> PICK t, out : t = [s EXCEPT !.meta = @ \cup {m.pane}] /\ out = <<>>
    OBVIOUS
  <2>1. /\ t.pending = s.pending /\ t.flight = s.flight /\ t.controller = s.controller
        /\ t.layout_rev = s.layout_rev /\ t.last = s.last /\ t.doc = s.doc
    BY <1>1 DEF ClientRecord
  <2>2. Beside(down[c], down'[c], Layouts \cup Changes)
    BY <1>2, <1>3, <1>8 DEF Layouts
  <2> QED
    BY <1>1, <1>2, <1>8, <2>1, <2>2, SilentAside
<1>9. ASSUME m.type = "Exited", Handled(c, exited(c, s, m))
      PROVE  Agreement'
  <2>1. m \notin Layouts \cup Changes /\ m.pane \in PaneId
    BY <1>2, <1>9 DEF Layouts, Downward
  <2>2. \/ s.controller = c /\ exited(c, s, m) = close_pane(s, m.pane, FALSE)
        \/ exited(c, s, m) = Result(s, <<>>)
    BY DEF exited
  <2>3. Beside(down[c], down'[c], Layouts \cup Changes)
    BY <1>3, <2>1
  <2>4. CASE s.controller = c /\ exited(c, s, m) = close_pane(s, m.pane, FALSE)
    <3>1. /\ TypeInv /\ Agreement /\ c \in attached /\ m.pane \in PaneId /\ FALSE \in BOOLEAN
          /\ cl[c].controller = c /\ Handled(c, close_pane(cl[c], m.pane, FALSE)) /\ UNCHANGED server
          /\ \A d \in attached \ {c} : down'[d] = down[d]
          /\ Beside(down[c], down'[c], Layouts \cup Changes)
      BY <1>1, <1>2, <1>9, <2>1, <2>3, <2>4
    <3> QED
      BY ONLY <3>1, CloseAside
  <2>5. CASE exited(c, s, m) = Result(s, <<>>)
    <3> PICK t, out : t = s /\ out = <<>>
      OBVIOUS
    <3>1. /\ TypeInv /\ Agreement /\ c \in attached
          /\ t.pending = cl[c].pending /\ t.flight = cl[c].flight /\ t.controller = cl[c].controller
          /\ t.layout_rev = cl[c].layout_rev /\ t.last = cl[c].last /\ t.doc = cl[c].doc
          /\ out = <<>> /\ Handled(c, Result(t, out)) /\ UNCHANGED server
          /\ \A d \in attached \ {c} : down'[d] = down[d]
          /\ Beside(down[c], down'[c], Layouts \cup Changes)
      BY <1>1, <1>2, <1>9, <2>3, <2>5
    <3> QED
      BY ONLY <3>1, SilentAside
  <2> QED
    BY <2>2, <2>4, <2>5
<1> QED
  BY <1>4, <1>5, <1>6, <1>7, <1>8, <1>9 DEF Receive

\* Users and the debounce timer.
LEMMA UserKeeps ==
  ASSUME "open" \notin Inputs, TypeInv, Agreement, NEW c \in Clients,
         \/ flush_layout_commit(c) \/ OpenPane(c) \/ TakeControl(c)
         \/ \E arr \in Arrangements : Edit(c, arr)
         \/ \E p \in PaneId : ClosePane(c, p)
  PROVE  Agreement'
<1> PICK s : s = cl[c]
  OBVIOUS
<1>1. /\ attached \subseteq Clients /\ layout_rev \in Nat
      /\ s \in ClientRecord(layout_rev) /\ Idle /\ s.pending = <<>> /\ s.flight = NoFlight
  BY Sockets DEF Agreement, Idle
<1>2. /\ c \in attached /\ UNCHANGED server /\ down' = down
      /\ \A d \in attached \ {c} : down'[d] = down[d]
  BY DEF flush_layout_commit, OpenPane, TakeControl, Edit, ClosePane
<1>3. Beside(down[c], down'[c], Layouts \cup Changes)
  BY <1>2 DEF Beside
<1>4. CASE flush_layout_commit(c)
  <2> PICK t, x : /\ t = [s EXCEPT !.assumed_rev = @ + 1, !.last = s.doc]
                  /\ x = CommitFrame(s)
    OBVIOUS
  <2>1. Handled(c, Result(t, <<x>>))
    BY <1>4 DEF flush_layout_commit
  <2>2. /\ t.pending = <<>> /\ t.flight = NoFlight /\ t.controller = s.controller
        /\ t.layout_rev = s.layout_rev /\ t.doc = s.doc /\ t.last = s.doc
    BY <1>1 DEF ClientRecord
  <2>3. x \in Commits /\ x \in Upward /\ x.type # "SpawnPane" /\ x.doc = s.doc
    BY <1>1 DEF CommitFrame, Commits, Upward, ClientRecord
  <2> PICK out : out = <<x>>
    OBVIOUS
  <2>4. Idle' /\ ClientAlone(c) /\ cl'[c] = t /\ up'[c] = Append(up[c], x)
    <3>1. /\ TypeInv /\ Idle /\ c \in attached /\ t.pending = <<>> /\ t.flight = NoFlight
          /\ out = <<>> \/ \E f \in Upward : f.type # "SpawnPane" /\ out = <<f>>
          /\ Handled(c, Result(t, out)) /\ UNCHANGED server
          /\ \A d \in attached \ {c} : down'[d] = down[d]
          /\ x \in Upward /\ out = <<x>>
      BY <1>1, <1>2, <2>1, <2>2, <2>3
    <3> QED
      BY ONLY <3>1, ClientStep
  <2>5. /\ TypeInv /\ Agreement /\ Idle' /\ c \in attached /\ ClientAlone(c) /\ x \in Commits
        /\ up'[c] = Append(up[c], x) /\ down'[c] = down[c]
        /\ cl'[c].controller = cl[c].controller /\ cl'[c].layout_rev = cl[c].layout_rev
        /\ cl'[c].doc = cl[c].doc /\ cl'[c].last = x.doc
    BY <1>2, <2>2, <2>3, <2>4
  <2> QED
    BY ONLY <2>5, FlushKeeps
<1>5. ~OpenPane(c)
  BY DEF OpenPane, Input
<1>6. ASSUME NEW t, NEW out, Handled(c, Result(t, out)),
             t.pending = s.pending, t.flight = s.flight, t.controller = s.controller,
             t.layout_rev = s.layout_rev, t.last = s.last, t.doc = s.doc \/ s.controller = c,
             out = <<>> \/ \E f \in Upward : f.type = "RequestControl" /\ out = <<f>>
      PROVE  Agreement'
  <2>1. /\ TypeInv /\ Agreement /\ c \in attached
        /\ t.pending = cl[c].pending /\ t.flight = cl[c].flight /\ t.controller = cl[c].controller
        /\ t.layout_rev = cl[c].layout_rev /\ t.last = cl[c].last
        /\ t.doc = cl[c].doc \/ cl[c].controller = c
        /\ out = <<>> \/ \E f \in Upward : f.type = "RequestControl" /\ out = <<f>>
        /\ Handled(c, Result(t, out)) /\ UNCHANGED server
        /\ \A d \in attached \ {c} : down'[d] = down[d]
        /\ Beside(down[c], down'[c], Layouts \cup Changes)
    BY <1>2, <1>3, <1>6
  <2> QED
    BY ONLY <2>1, SilentAside
<1>7. CASE TakeControl(c)
  <2> PICK out, f : out = <<f>> /\ f = [type |-> "RequestControl"]
    OBVIOUS
  <2>1. f \in Upward /\ f.type = "RequestControl"
    BY DEF Upward
  <2>2. Handled(c, Result(s, out))
    BY <1>7 DEF TakeControl
  <2> QED
    BY <1>6, <2>1, <2>2
<1>8. ASSUME NEW arr \in Arrangements, Edit(c, arr)
      PROVE  Agreement'
  <2> PICK t, out : t = [s EXCEPT !.doc.arr = arr] /\ out = <<>>
    OBVIOUS
  <2>1. /\ t.pending = s.pending /\ t.flight = s.flight /\ t.controller = s.controller
        /\ t.layout_rev = s.layout_rev /\ t.last = s.last
    BY <1>1 DEF ClientRecord
  <2>2. Handled(c, Result(t, out)) /\ s.controller = c
    BY <1>8 DEF Edit
  <2> QED
    BY <1>6, <2>1, <2>2
<1>9. ASSUME NEW p \in PaneId, ClosePane(c, p)
      PROVE  Agreement'
  <2>1. /\ TypeInv /\ Agreement /\ c \in attached /\ p \in PaneId /\ TRUE \in BOOLEAN
        /\ cl[c].controller = c /\ Handled(c, close_pane(cl[c], p, TRUE)) /\ UNCHANGED server
        /\ \A d \in attached \ {c} : down'[d] = down[d]
        /\ Beside(down[c], down'[c], Layouts \cup Changes)
    BY <1>2, <1>3, <1>9 DEF ClosePane
  <2> QED
    BY ONLY <2>1, CloseAside
<1> QED
  BY <1>4, <1>5, <1>7, <1>8, <1>9

\* What a handler of the server puts in the sockets, when it is at most one frame.
LEMMA RespondOne ==
  ASSUME TypeInv, NEW c, NEW answers, NEW broadcasts, Respond(c, answers, broadcasts)
  PROVE  /\ answers = <<>> /\ broadcasts = <<>> => \A d \in Clients : down'[d] = down[d]
         /\ \A x : answers = <<x>> /\ broadcasts = <<>> =>
               \A d \in Clients : down'[d] = IF d = c THEN Append(down[d], x) ELSE down[d]
         /\ \A x : answers = <<>> /\ broadcasts = <<x>> =>
               \A d \in Clients : down'[d] = IF d \in attached THEN Append(down[d], x) ELSE down[d]
<1>1. \A d \in Clients : down'[d] = (down[d] \o (IF d = c THEN answers ELSE <<>>))
                                        \o (IF d \in attached THEN broadcasts ELSE <<>>)
  BY DEF Respond
<1>2. ASSUME NEW q \in Seq(Downward(layout_rev))
      PROVE  /\ (q \o <<>>) \o <<>> = q
             /\ \A x : (q \o <<x>>) \o <<>> = Append(q, x) /\ (q \o <<>>) \o <<x>> = Append(q, x)
  <2>1. (q \o <<>>) \o <<>> = q
    OBVIOUS
  <2>2. ASSUME NEW x
        PROVE  (q \o <<x>>) \o <<>> = Append(q, x) /\ (q \o <<>>) \o <<x>> = Append(q, x)
    <3>1. q \in Seq(Downward(layout_rev) \cup {x}) /\ x \in Downward(layout_rev) \cup {x}
      OBVIOUS
    <3> PICK D : D = Downward(layout_rev) \cup {x}
      OBVIOUS
    <3>2. q \in Seq(D) /\ x \in D
      BY <3>1
    <3> QED
      BY ONLY <3>2
  <2> QED
    BY <2>1, <2>2
<1>3. \A d \in Clients : down[d] \in Seq(Downward(layout_rev))
  BY Sockets
<1> QED
  <2> SUFFICES ASSUME NEW d \in Clients, NEW x
               PROVE  /\ answers = <<>> /\ broadcasts = <<>> => down'[d] = down[d]
                      /\ answers = <<x>> /\ broadcasts = <<>> =>
                            down'[d] = IF d = c THEN Append(down[d], x) ELSE down[d]
                      /\ answers = <<>> /\ broadcasts = <<x>> =>
                            down'[d] = IF d \in attached THEN Append(down[d], x) ELSE down[d]
    OBVIOUS
  <2> PICK q : q = down[d]
    OBVIOUS
  <2>1. /\ (q \o <<>>) \o <<>> = q /\ (q \o <<x>>) \o <<>> = Append(q, x)
        /\ (q \o <<>>) \o <<x>> = Append(q, x)
    BY <1>2, <1>3
  <2> QED
    BY <1>1, <2>1

\* The frames that remain of a socket are still no spawns.
LEMMA IdleServed ==
  ASSUME TypeInv, Idle, NEW c \in attached, up[c] # <<>>, up' = [up EXCEPT ![c] = Tail(@)],
         UNCHANGED cl
  PROVE  Idle'
<1>1. c \in Clients /\ up[c] \in Seq(Upward) /\ up \in [Clients -> Seq(Upward)]
  BY Sockets DEF TypeInv, LinkTypes
<1> PICK q : q = up[c]
  OBVIOUS
<1>2. q \in Seq(Upward) /\ q # <<>> /\ \A i \in DOMAIN q : q[i].type # "SpawnPane"
  BY <1>1 DEF Idle
<1>3. \A i \in DOMAIN Tail(q) : Tail(q)[i].type # "SpawnPane"
  <2> SUFFICES ASSUME NEW i \in DOMAIN Tail(q)
               PROVE  Tail(q)[i].type # "SpawnPane"
    OBVIOUS
  <2>1. i + 1 \in DOMAIN q /\ Tail(q)[i] = q[i + 1]
    BY <1>2
  <2> QED
    BY <1>2, <2>1
<1>4. up'[c] = Tail(q) /\ \A d \in Clients \ {c} : up'[d] = up[d]
  BY <1>1
<1> QED
  BY <1>3, <1>4 DEF Idle

\* The server takes the next frame of a client.
LEMMA ServeKeeps ==
  ASSUME TypeInv, Agreement, NEW c \in Clients, Serve(c)
  PROVE  Agreement'
<1> PICK m : m = Head(up[c])
  OBVIOUS
<1>1. /\ c \in attached /\ attached \subseteq Clients /\ layout_rev \in Nat /\ Idle
      /\ up[c] \in Seq(Upward) /\ up[c] # <<>> /\ up' = [up EXCEPT ![c] = Tail(@)]
      /\ up \in [Clients -> Seq(Upward)] /\ UNCHANGED cl
      /\ (attached # {} => controller \in attached)
  BY Sockets DEF Agreement, Serve, TypeInv, LinkTypes
<1>2. /\ Idle' /\ up'[c] = Tail(up[c]) /\ \A d \in attached \ {c} : up'[d] = up[d]
  BY <1>1, IdleServed
<1>3. /\ m \in Upward /\ (m \in Commits <=> m.type = "CommitLayout") /\ m.type # "SpawnPane"
  <2>1. m \in Upward /\ m = up[c][1] /\ 1 \in DOMAIN up[c]
    BY <1>1
  <2> QED
    BY <1>1, <2>1, Kinds DEF Idle
<1>4. ASSUME UNCHANGED <<layout, layout_rev, controller, attached>>,
             \A d \in attached : down'[d] = down[d],
             m \in Commits => c # controller
      PROVE  Agreement'
  <2>1. /\ \A d \in attached : Beside(down[d], down'[d], Layouts \cup Changes)
        /\ c = controller => Beside(up[c], up'[c], Commits)
        /\ \A d \in attached \ {c} : Beside(up[d], up'[d], Commits)
    BY <1>1, <1>2, <1>4 DEF Beside
  <2>2. AsideStep
    BY <1>1, <1>4, <2>1 DEF AsideStep
  <2> QED
    BY <1>2, <2>2, AsideKeeps
<1>5. CASE m.type = "CommitLayout" /\ handle_commit_layout(c, m)
  <2>1. UNCHANGED <<controller, attached>> /\ m \in Commits
    BY <1>3, <1>5 DEF handle_commit_layout
  <2>2. CASE controller # c /\ Respond(c, <<>>, <<>>) /\ UNCHANGED <<layout, layout_rev>>
    <3>1. \A d \in Clients : down'[d] = down[d]
      BY <2>2, RespondOne
    <3> QED
      BY <1>1, <1>4, <2>1, <2>2, <3>1
  <2>3. CASE controller = c /\ Respond(c, <<Rejected>>, <<>>) /\ UNCHANGED <<layout, layout_rev>>
    <3>1. \A d \in Clients : down'[d] = IF d = c THEN Append(down[d], Rejected) ELSE down[d]
      <4> PICK x : x = Rejected
        OBVIOUS
      <4>1. Respond(c, <<x>>, <<>>)
        BY <2>3
      <4>2. \A d \in Clients : down'[d] = IF d = c THEN Append(down[d], x) ELSE down[d]
        BY <4>1, RespondOne
      <4> QED
        BY <4>2
    <3> QED
      BY <1>1, <1>2, <2>1, <2>3, <3>1, RefusalKeeps
  <2>4. CASE /\ controller = c /\ publish_shared_layout(c, m.doc)
             /\ Respond(c, <<>>, <<Committed(c, m.doc)>>)
    <3> PICK x : x = Committed(c, m.doc)
      OBVIOUS
    <3>1. Respond(c, <<>>, <<x>>) /\ layout' = m.doc /\ layout_rev' = layout_rev + 1
      BY <2>4 DEF publish_shared_layout
    <3>2. \A d \in Clients : down'[d] = IF d \in attached THEN Append(down[d], x) ELSE down[d]
      BY <3>1, RespondOne
    <3>3. \A d \in attached : down'[d] = Append(down[d], Committed(controller, m.doc))
      BY <1>1, <2>4, <3>2
    <3>4. /\ TypeInv /\ Agreement /\ Idle' /\ controller \in attached /\ m \in Commits
          /\ up[controller] # <<>> /\ m = Head(up[controller])
          /\ up'[controller] = Tail(up[controller])
          /\ UNCHANGED <<controller, attached, cl>>
          /\ layout' = m.doc /\ layout_rev' = layout_rev + 1
          /\ \A d \in attached : down'[d] = Append(down[d], Committed(controller, m.doc))
      BY <1>1, <1>2, <2>1, <2>4, <3>1, <3>3
    <3> QED
      BY ONLY <3>4, PublishKeeps
  <2> QED
    BY <1>5, <2>2, <2>3, <2>4 DEF handle_commit_layout
<1>6. CASE m.type = "Kill" /\ kill_pane(c, m)
  <2>1. /\ Respond(c, <<>>, <<>>) /\ UNCHANGED <<layout, layout_rev, controller, attached>>
        /\ m \notin Commits
    BY <1>3, <1>6 DEF kill_pane
  <2>2. \A d \in Clients : down'[d] = down[d]
    BY <2>1, RespondOne
  <2> QED
    BY <1>1, <1>4, <2>1, <2>2
<1>7. CASE m.type = "RequestControl" /\ assign_controller(c)
  <2>1. /\ UNCHANGED <<layout, layout_rev, attached>> /\ controller' = c /\ m \notin Commits
    BY <1>3, <1>7 DEF assign_controller
  <2>2. CASE controller = c
    <3>1. Respond(c, <<>>, <<>>)
      BY <1>7, <2>2 DEF assign_controller
    <3>2. \A d \in Clients : down'[d] = down[d]
      BY <3>1, RespondOne
    <3> QED
      BY <1>1, <1>4, <2>1, <2>2, <3>2
  <2>3. CASE controller # c
    <3> PICK x : x = [type |-> "ControllerChanged", controller |-> c]
      OBVIOUS
    <3>1. Respond(c, <<>>, <<x>>)
      BY <1>7, <2>3 DEF assign_controller
    <3>2. \A d \in Clients : down'[d] = IF d \in attached THEN Append(down[d], x) ELSE down[d]
      BY <3>1, RespondOne
    <3>3. /\ TypeInv /\ Agreement /\ Idle' /\ UNCHANGED <<layout, layout_rev, cl>>
          /\ attached' \subseteq attached /\ controller' \in attached'
          /\ \A d \in attached' : down'[d] = Append(down[d], [type |-> "ControllerChanged",
                                                             controller |-> controller'])
      BY <1>1, <1>2, <2>1, <3>2
    <3> QED
      BY ONLY <3>3, HandoverKeeps
  <2> QED
    BY <2>2, <2>3
<1> QED
  BY <1>3, <1>5, <1>6, <1>7 DEF Serve

\* Departures and exits.
LEMMA HostKeeps ==
  ASSUME TypeInv, Agreement, (\E c \in Clients : Leave(c)) \/ (\E p \in PaneId : Exit(p))
  PROVE  Agreement'
<1>1. /\ attached \subseteq Clients /\ layout_rev \in Nat /\ Idle
      /\ up \in [Clients -> Seq(Upward)] /\ (attached # {} => controller \in attached)
  BY Sockets DEF Agreement, TypeInv, LinkTypes
<1>2. ASSUME NEW c \in Clients, Leave(c)
      PROVE  Agreement'
  <2> DEFINE rest == attached \ {c}
  <2> PICK k : k = IF rest = {} THEN None ELSE Least(rest)
    OBVIOUS
  <2>1. /\ attached' = rest /\ c \in attached
        /\ controller' = IF controller = c THEN k ELSE controller
        /\ up' = [up EXCEPT ![c] = <<>>]
        /\ \A d \in rest : down'[d] = IF controller = c
                                      THEN Append(down[d], [type |-> "ControllerChanged", controller |-> k])
                                      ELSE down[d]
        /\ UNCHANGED <<layout, layout_rev, cl>>
    BY <1>1, <1>2 DEF Leave
  <2>2. rest # {} => k \in rest
    BY <1>1, LeastNumber DEF Least
  <2>3. Idle' /\ \A d \in rest : up'[d] = up[d]
    <3>1. up'[c] = <<>> /\ \A d \in Clients \ {c} : up'[d] = up[d]
      BY <1>1, <2>1
    <3>2. \A d \in Clients : \A i \in DOMAIN up'[d] : up'[d][i].type # "SpawnPane"
      <4>1. \A i \in DOMAIN up'[c] : up'[c][i].type # "SpawnPane"
        BY <3>1
      <4> QED
        BY <1>1, <3>1, <4>1 DEF Idle
    <3> QED
      BY <1>1, <2>1, <3>1, <3>2 DEF Idle
  <2>4. CASE controller = c /\ rest # {}
    <3>1. /\ TypeInv /\ Agreement /\ Idle' /\ UNCHANGED <<layout, layout_rev, cl>>
          /\ attached' \subseteq attached /\ controller' \in attached'
          /\ \A d \in attached' : down'[d] = Append(down[d], [type |-> "ControllerChanged",
                                                             controller |-> controller'])
      BY <2>1, <2>2, <2>3, <2>4
    <3> QED
      BY ONLY <3>1, HandoverKeeps
  <2>5. CASE controller # c
    <3>1. \A d \in rest : Beside(down[d], down'[d], Layouts \cup Changes) /\ Beside(up[d], up'[d], Commits)
      BY <2>1, <2>3, <2>5 DEF Beside
    <3>2. AsideStep
      BY <1>1, <2>1, <2>5, <3>1 DEF AsideStep
    <3> QED
      BY <2>3, <3>2, AsideKeeps
  <2>6. CASE rest = {}
    BY <2>1, <2>3, <2>6 DEF Agreement
  <2> QED
    BY <2>4, <2>5, <2>6
<1>3. ASSUME NEW p \in PaneId, Exit(p)
      PROVE  Agreement'
  <2> PICK x, none : x = [type |-> "Exited", pane |-> p] /\ none = 0
    OBVIOUS
  <2>1. /\ Respond(none, <<>>, <<x>>)
        /\ UNCHANGED <<layout, layout_rev, controller, attached, up, cl>>
    BY <1>3 DEF Exit
  <2>2. x \notin Layouts \cup Changes
    BY DEF Layouts, Accepted, Refusals, Changes
  <2>3. \A d \in attached : down'[d] = Append(down[d], x)
    <3>1. \A d \in Clients : down'[d] = IF d \in attached THEN Append(down[d], x) ELSE down[d]
      BY <2>1, RespondOne
    <3> QED
      BY <1>1, <3>1
  <2>4. \A d \in attached : Beside(down[d], down'[d], Layouts \cup Changes) /\ Beside(up[d], up'[d], Commits)
    BY <2>1, <2>2, <2>3 DEF Beside
  <2>5. Idle' /\ AsideStep
    BY <1>1, <2>1, <2>4 DEF AsideStep, Idle
  <2> QED
    BY <2>5, AsideKeeps
<1> QED
  BY <1>2, <1>3

\* Every step keeps the agreement.
LEMMA AgreementStep ==
  ASSUME "open" \notin Inputs, TypeInv, Agreement, [Next]_vars
  PROVE  Agreement'
<1>1. ASSUME NEW c \in Clients, Receive(c)
      PROVE  Agreement'
  <2>1. c \in attached
    BY <1>1 DEF Receive
  <2> QED
    BY <1>1, <2>1, ReceiveKeeps
<1>2. CASE UNCHANGED vars
  BY <1>2 DEF vars, server, Agreement, Idle, RevisionKnown, ControllerKnown, ChangeFollows, Owes,
     CommitDue, Published, Told
<1>3. CASE Next
  BY <1>1, <1>3, ServeKeeps, UserKeeps, HostKeeps DEF Next
<1> QED
  BY <1>2, <1>3

\* The first state: everybody has the first layout.
LEMMA InitAgreement ==
  ASSUME Init
  PROVE  Agreement
<1>1. attached = Clients /\ controller \in Clients
  BY LeastNumber DEF Init, Least
<1>2. \A c \in Clients : /\ up[c] = <<>> /\ down[c] = <<>>
                         /\ cl[c].pending = <<>> /\ cl[c].flight = NoFlight
                         /\ cl[c].controller = controller /\ cl[c].layout_rev = layout_rev
                         /\ cl[c].doc = layout /\ cl[c].last = layout
  BY DEF Init
<1>3. \A T : NoneIn(<<>>, T)
  BY DEF NoneIn
<1>4. Idle
  BY <1>2 DEF Idle
<1>5. \A d \in Clients : RevisionKnown(d) /\ ControllerKnown(d) /\ ChangeFollows(d) /\ Told(d)
  BY <1>2, <1>3 DEF RevisionKnown, ControllerKnown, ChangeFollows, Told, Ends
<1>6. \A k \in Clients : CommitDue(k)
  BY <1>1, <1>2, <1>3, <1>5 DEF CommitDue, Published, Ends
<1> QED
  BY <1>1, <1>4, <1>5, <1>6 DEF Agreement

\* With nothing in flight, what everybody will know is what everybody has.
LEMMA QuietAgrees ==
  ASSUME TypeInv, Agreement, Quiet, NEW c \in attached
  PROVE  /\ cl[c].layout_rev = layout_rev
         /\ cl[c].doc = [layout EXCEPT !.panes = @ \cup (Waiting(cl[c]) \cap cl[c].doc.panes)]
<1> PICK k : k = controller
  OBVIOUS
<1>1. /\ attached \subseteq Clients /\ k \in attached /\ Idle /\ layout \in Doc
      /\ cl[k] \in ClientRecord(layout_rev)
  BY Sockets DEF Agreement, TypeInv, ServerTypes
<1>2. \A d \in attached : up[d] = <<>> /\ down[d] = <<>>
  BY DEF Quiet, InFlight
<1>3. \A T, G : ~LastIn(<<>>, T, G) /\ NoneIn(<<>>, T)
  BY DEF LastIn, NoneIn
<1>4. \A d \in attached : cl[d].layout_rev = layout_rev /\ cl[d].controller = k
  BY <1>2, <1>3 DEF Agreement, RevisionKnown, ControllerKnown, Ends
<1>5. cl[k].doc = cl[k].last
  BY <1>1, <1>4 DEF Quiet, CanFlush, Idle
<1>6. cl[k].last # NoDoc
  BY <1>1, <1>5, ArrangementsAssumption DEF ClientRecord, Doc, NoDoc
<1>7. Published(k)
  BY <1>1, <1>2, <1>3, <1>6 DEF Agreement, Owes, CommitDue, Ends
<1>8. cl[c].doc = layout
  <2>1. CASE c = k
    BY <1>5, <1>7, <2>1 DEF Published
  <2>2. CASE c # k
    BY <1>2, <1>3, <1>7, <2>2 DEF Published, Told, Ends
  <2> QED
    BY <2>1, <2>2
<1>9. Waiting(cl[c]) = {}
  <2>1. cl[c].pending = <<>> /\ cl[c].flight = NoFlight
    BY <1>1 DEF Idle
  <2> QED
    BY <2>1 DEF Waiting
<1>10. [layout EXCEPT !.panes = @ \cup (Waiting(cl[c]) \cap cl[c].doc.panes)] = layout
  BY <1>1, <1>9 DEF Doc
<1> QED
  BY <1>4, <1>8, <1>10

\* However the lease moves, whatever was edited and published by whom and however
\* many clients come to leave: once nothing is in flight and nothing is due, every
\* client shows the committed layout.  Opening panes is excepted, and has to be:
\* the answer to a refused spawn (reject_shared_spawn) cancels the republication
\* that a hand-over owes.
THEOREM DocsSafe ==
  ASSUME "open" \notin Inputs
  PROVE  Spec => []DocsAgreeWhenQuiet
<1>1. Init => TypeInv /\ Agreement
  BY InitTypes, InitAgreement
<1>2. TypeInv /\ Agreement /\ [Next]_vars => (TypeInv /\ Agreement)'
  BY TypeStep, AgreementStep
<1>3. TypeInv /\ Agreement => DocsAgreeWhenQuiet
  BY QuietAgrees DEF DocsAgreeWhenQuiet
<1> QED
  BY <1>1, <1>2, <1>3, PTL DEF Spec
=============================================================================
