---------------------------- MODULE SharedLayout ----------------------------
(***************************************************************************)
(* The shared layout of a session: optimistic commits of the layout        *)
(* document, the one-at-a-time spawn transactions that create panes, and   *)
(* what a hand-over of the control lease does to the frames in flight.     *)
(*                                                                         *)
(* Server and clients talk over reliable FIFO sockets.  A client that      *)
(* believes it is the controller edits its own copy of the document at     *)
(* once; a timer (the 16 ms debounce) publishes the copy at an assumed     *)
(* base revision.  A new pane is placed locally as a placeholder, queued,  *)
(* and sent with its placement when no earlier spawn is unresolved.  The   *)
(* queue is pumped at the tail of every handler of the UI.                 *)
(*                                                                         *)
(* A pane stands for its (id, generation) pair: a client mints both from   *)
(* counters of its own that advance together.  All clients have the same   *)
(* viewport, so the canonical canvas in a document is left out; what a     *)
(* document says besides its panes is its arrangement.                     *)
(*                                                                         *)
(* Source: src/src/session/server/lease.rs and connection.rs; on the       *)
(* client's side src/src/update/session/control_replies.rs,                *)
(* src/src/ops/session/control_lease.rs and src/src/pane/lifecycle/.       *)
(***************************************************************************)
EXTENDS Naturals, Sequences, FiniteSets

CONSTANTS Clients,       \* client ids; the smallest one starts as controller
          MaxPanes,      \* bound: pane ids a client may mint
          Arrangements,  \* what a document says besides its panes
          Inputs,        \* which kinds of input the users and the host give
          MaxInputs      \* bound: inputs in one behaviour

ASSUME ClientsAssumption == Clients \subseteq Nat \ {0} /\ Clients # {}
ASSUME PanesAssumption == MaxPanes \in Nat \ {0}
ASSUME ArrangementsAssumption ==             \* "none" is Option::None, see NoDoc
  Arrangements # {} /\ "none" \notin Arrangements /\ MaxInputs \in Nat
ASSUME InputsAssumption ==
  Inputs \subseteq {"edit", "open", "close", "take", "leave", "exit", "fail"}

PaneId == 1 .. MaxPanes
Least(S) == CHOOSE c \in S : \A d \in S : c <= d

Doc == [panes : SUBSET PaneId, arr : Arrangements]
NoDoc == [panes |-> {}, arr |-> "none"]       \* Option::None for a document
NoFlight == [pane |-> 0, base |-> 0, failed |-> FALSE]
None == 0                                     \* no controller

VARIABLES panes,        \* SessionServer.panes: "none", "live" or "exited"
          layout, layout_rev, controller, attached,
          up, down,     \* the two directions of each client's socket
          cl,           \* each client's Attachment and SharedSessionState
          last_rev,     \* history: the last revision each client authored
          inputs        \* inputs so far

server == <<panes, layout, layout_rev, controller, attached>>
vars == <<server, up, down, cl, last_rev, inputs>>

-----------------------------------------------------------------------------
(* The server's handlers. *)

\* Queue a handler's responses: its answers to the sender, then its broadcasts.
Respond(c, answers, broadcasts) ==
  down' = [d \in Clients |->
             down[d] \o (IF d = c THEN answers ELSE <<>>)
                     \o (IF d \in attached THEN broadcasts ELSE <<>>)]

Rejected == [type |-> "LayoutRejected", rev |-> layout_rev, doc |-> layout]

\* Mutant of validate_shared_layout: live panes may be left out.
PanesExistOnly(doc) == \A p \in doc.panes : panes[p] # "none"

\* Every placed pane exists, and every live pane is placed.
validate_shared_layout(doc) ==
  /\ \A p \in doc.panes : panes[p] # "none"
  /\ \A p \in PaneId : panes[p] = "live" => p \in doc.panes

\* The same, with the requested pane placed whether or not it exists.
validate_spawn_placement(doc, pane) ==
  /\ pane \in doc.panes
  /\ \A p \in doc.panes \ {pane} : panes[p] # "none"
  /\ \A p \in PaneId \ {pane} : panes[p] = "live" => p \in doc.panes

publish_shared_layout(c, doc) ==
  /\ layout_rev' = layout_rev + 1
  /\ layout' = doc
  /\ last_rev' = [last_rev EXCEPT ![c] = layout_rev + 1]

Committed(c, doc) ==
  [type |-> "LayoutCommitted", rev |-> layout_rev + 1, author |-> c, doc |-> doc]

\* A commit of a client that is not the controller is dropped without a reply.
handle_commit_layout(c, m) ==
  /\ UNCHANGED <<panes, controller, attached>>
  /\ \/ /\ controller # c
        /\ Respond(c, <<>>, <<>>)
        /\ UNCHANGED <<layout, layout_rev, last_rev>>
     \/ /\ controller = c
        /\ m.base # layout_rev \/ ~validate_shared_layout(m.doc)
        /\ Respond(c, <<Rejected>>, <<>>)
        /\ UNCHANGED <<layout, layout_rev, last_rev>>
     \/ /\ controller = c
        /\ m.base = layout_rev /\ validate_shared_layout(m.doc)
        /\ publish_shared_layout(c, m.doc)
        /\ Respond(c, <<>>, <<Committed(c, m.doc)>>)

\* Mutant of SpawnRefused: a failed start is not followed by a rejection.
ResultOnly(m) == <<[type |-> "SpawnResult", pane |-> m.pane, ok |-> FALSE]>>

\* A refusal of any kind is followed by LayoutRejected.
SpawnRefused(m) == <<[type |-> "SpawnResult", pane |-> m.pane, ok |-> FALSE], Rejected>>

\* The checks come before the process is started; a live pane of that id is
\* never replaced, an exited one is.
spawn_shared_pane(c, m) ==
  LET authorised == controller = c
      placed == m.base = layout_rev /\ validate_spawn_placement(m.doc, m.pane)
  IN  /\ UNCHANGED <<controller, attached>>
      /\ \/ /\ ~authorised \/ ~placed \/ panes[m.pane] = "live" \/ "fail" \in Inputs
            /\ Respond(c, SpawnRefused(m), <<>>)
            /\ UNCHANGED <<panes, layout, layout_rev, last_rev>>
         \/ /\ authorised /\ placed /\ panes[m.pane] # "live"
            /\ panes' = [panes EXCEPT ![m.pane] = "live"]
            /\ publish_shared_layout(c, m.doc)
            /\ Respond(c, <<[type |-> "SpawnResult", pane |-> m.pane, ok |-> TRUE]>>,
                          <<[type |-> "PaneMetadata", pane |-> m.pane], Committed(c, m.doc)>>)

\* The layout keeps naming the pane, and nobody is told, until the next commit.
kill_pane(c, m) ==
  /\ panes' = IF controller = c THEN [panes EXCEPT ![m.pane] = "none"] ELSE panes
  /\ Respond(c, <<>>, <<>>)
  /\ UNCHANGED <<layout, layout_rev, controller, attached, last_rev>>

\* Immediate takeover is enabled, or the controller grants the request.
assign_controller(c) ==
  /\ controller' = c
  /\ Respond(c, <<>>, IF controller = c THEN <<>>
                      ELSE <<[type |-> "ControllerChanged", controller |-> c]>>)
  /\ UNCHANGED <<panes, layout, layout_rev, attached, last_rev>>

\* The server takes the next frame of one client.
Serve(c) ==
  /\ c \in attached /\ up[c] # <<>>
  /\ up' = [up EXCEPT ![c] = Tail(@)]
  /\ LET m == Head(up[c]) IN
       \/ m.type = "CommitLayout" /\ handle_commit_layout(c, m)
       \/ m.type = "SpawnPane" /\ spawn_shared_pane(c, m)
       \/ m.type = "Kill" /\ kill_pane(c, m)
       \/ m.type = "RequestControl" /\ assign_controller(c)
  /\ UNCHANGED <<cl, inputs>>

-----------------------------------------------------------------------------
(* The client's handlers, as functions of its state `s` to a new state and   *)
(* the frames it sends.                                                      *)

Result(s, out) == [s |-> s, out |-> out]

CommitFrame(s) ==
  [type |-> "CommitLayout", base |-> s.assumed_rev, doc |-> s.doc,
   seen |-> s.layout_rev]

KillFrame(p, asked) == [type |-> "Kill", pane |-> p, asked |-> asked]

\* Send the next queued spawn with its placement: the panes the server is known
\* to have, and the new one.
pump_shared_spawns(c, s) ==
  IF s.controller # c \/ s.flight # NoFlight \/ s.pending = <<>>
  THEN Result(s, <<>>)
  ELSE LET pane  == Head(s.pending)
           known == s.last.panes \cup s.meta \cup {pane}
           doc   == [s.doc EXCEPT !.panes = @ \cap known]
       IN  Result([s EXCEPT !.pending = Tail(@), !.last = doc,
                            !.flight = [pane |-> pane, base |-> s.assumed_rev,
                                        failed |-> FALSE]],
                  <<[type |-> "SpawnPane", base |-> s.assumed_rev, doc |-> doc,
                     pane |-> pane, seen |-> s.layout_rev]>>)

\* The end of every handler: its new state and frames, then the pump.
Handled(c, r) ==
  LET p == pump_shared_spawns(c, r.s)
  IN  /\ cl' = [cl EXCEPT ![c] = p.s]
      /\ up' = [up EXCEPT ![c] = @ \o r.out \o p.out]

\* Close a pane locally and release it on the server.
close_pane(s, p, asked) ==
  IF p \in s.doc.panes
  THEN Result([s EXCEPT !.doc.panes = @ \ {p}], <<KillFrame(p, asked)>>)
  ELSE Result(s, <<>>)

Waiting(s) ==
  {s.pending[i] : i \in DOMAIN s.pending}
    \cup (IF s.flight = NoFlight THEN {} ELSE {s.flight.pane})

\* Mutant of Counter: pane ids seen in a document are not skipped.
CounterKept(s, doc) == s.next

Counter(s, doc) ==
  CHOOSE n \in {s.next} \cup {p + 1 : p \in doc.panes} :
     n >= s.next /\ \A p \in doc.panes : n > p

\* Take over a document, keeping the placeholders that wait for their spawn.
reconcile(s, doc, rev) ==
  [s EXCEPT !.doc = [doc EXCEPT !.panes = @ \cup (Waiting(s) \cap s.doc.panes)],
            !.layout_rev = rev, !.last = doc, !.next = Counter(s, doc)]

confirm_shared_spawn(c, s, m) ==
  IF /\ s.flight # NoFlight /\ m.author = c
     /\ m.rev = s.flight.base + 1 /\ s.flight.pane \in m.doc.panes
  THEN [s EXCEPT !.flight = NoFlight, !.assumed_rev = m.rev, !.last = m.doc]
  ELSE s

\* The echo of a client's own commit confirms the revision and nothing else.
layout_committed(c, s, m) ==
  LET t == confirm_shared_spawn(c, s, m)
  IN  IF m.author = c THEN [t EXCEPT !.layout_rev = m.rev]
                      ELSE reconcile(t, m.doc, m.rev)

\* A failed spawn is over once the server has answered for it; it used no revision.
reject_shared_spawn(s, m) ==
  IF s.flight.failed
  THEN [s EXCEPT !.flight = NoFlight, !.layout_rev = m.rev,
                 !.assumed_rev = m.rev, !.last = m.doc]
  ELSE s

\* Mutant of layout_rejected: rebased past the reported revision.
RebasedTooFar(s, m) ==
  [reconcile(reject_shared_spawn(s, m), m.doc, m.rev)
     EXCEPT !.assumed_rev = m.rev + 1, !.last = NoDoc]

\* A failed spawn that kept its base needs no correction; anything else is
\* reconciled and republished from the reported revision.
layout_rejected(s, m) ==
  LET t == reject_shared_spawn(s, m)
  IN  IF s.flight.failed /\ m.rev = s.flight.base THEN t
      ELSE [reconcile(t, m.doc, m.rev) EXCEPT !.assumed_rev = m.rev, !.last = NoDoc]

mark_failed_shared_spawn(s, m) ==
  IF ~m.ok /\ s.flight # NoFlight /\ s.flight.pane = m.pane
  THEN [s EXCEPT !.flight.failed = TRUE] ELSE s

\* A failed spawn's placeholder is closed by the controller, or by its author.
spawn_result(c, s, m) ==
  LET t == mark_failed_shared_spawn(s, m)
      failed == t.flight.failed /\ t.flight.pane = m.pane
  IN  IF ~m.ok /\ (failed \/ s.controller = c)
      THEN close_pane(t, m.pane, FALSE) ELSE Result(t, <<>>)

\* Mutant of controller_changed: the new controller does not republish.
RebaseOnly(c, s, m) ==
  IF m.controller = c
  THEN [s EXCEPT !.controller = c, !.assumed_rev = s.layout_rev]
  ELSE [s EXCEPT !.controller = m.controller]

\* Gaining control rebases and forgets the last commit, which republishes.
controller_changed(c, s, m) ==
  IF m.controller = c
  THEN [s EXCEPT !.controller = c, !.assumed_rev = s.layout_rev, !.last = NoDoc]
  ELSE [s EXCEPT !.controller = m.controller]

\* Only the controller closes a pane whose process has ended.
exited(c, s, m) ==
  IF s.controller = c THEN close_pane(s, m.pane, FALSE) ELSE Result(s, <<>>)

Receive(c) ==
  /\ c \in attached /\ down[c] # <<>>
  /\ down' = [down EXCEPT ![c] = Tail(@)]
  /\ LET m == Head(down[c])
         s == cl[c]
     IN  \/ /\ m.type = "LayoutCommitted"
            /\ Handled(c, Result(layout_committed(c, s, m), <<>>))
         \/ /\ m.type = "LayoutRejected"
            /\ Handled(c, Result(layout_rejected(s, m), <<>>))
         \/ /\ m.type = "SpawnResult"
            /\ Handled(c, spawn_result(c, s, m))
         \/ /\ m.type = "PaneMetadata"
            /\ Handled(c, Result([s EXCEPT !.meta = @ \cup {m.pane}], <<>>))
         \/ /\ m.type = "ControllerChanged"
            /\ Handled(c, Result(controller_changed(c, s, m), <<>>))
         \/ /\ m.type = "Exited"
            /\ Handled(c, exited(c, s, m))
  /\ UNCHANGED <<server, last_rev, inputs>>

\* The debounce timer fires: publish the document if it differs from the last
\* one published and no spawn is queued or in flight.
flush_layout_commit(c) ==
  LET s == cl[c] IN
  /\ c \in attached
  /\ s.controller = c
  /\ s.pending = <<>> /\ s.flight = NoFlight
  /\ s.doc # s.last
  /\ Handled(c, Result([s EXCEPT !.assumed_rev = @ + 1, !.last = s.doc],
                       <<CommitFrame(s)>>))
  /\ UNCHANGED <<server, down, last_rev, inputs>>

-----------------------------------------------------------------------------
(* Inputs: users, processes and connections. *)

Input(kind) ==
  /\ kind \in Inputs /\ inputs < MaxInputs
  /\ inputs' = inputs + 1

\* The UI lets only the controller edit the layout, open and close panes.
Edit(c, arr) ==
  /\ Input("edit")
  /\ c \in attached /\ cl[c].controller = c /\ arr # cl[c].doc.arr
  /\ Handled(c, Result([cl[c] EXCEPT !.doc.arr = arr], <<>>))
  /\ UNCHANGED <<server, down, last_rev>>

OpenPane(c) ==
  LET id == cl[c].next IN
  /\ Input("open")
  /\ c \in attached /\ cl[c].controller = c /\ id \in PaneId
  /\ Handled(c, Result([cl[c] EXCEPT !.next = @ + 1, !.doc.panes = @ \cup {id},
                                     !.pending = Append(@, id)], <<>>))
  /\ UNCHANGED <<server, down, last_rev>>

ClosePane(c, p) ==
  /\ Input("close")
  /\ c \in attached /\ cl[c].controller = c /\ p \in cl[c].doc.panes
  /\ Handled(c, close_pane(cl[c], p, TRUE))
  /\ UNCHANGED <<server, down, last_rev>>

TakeControl(c) ==
  /\ Input("take")
  /\ c \in attached /\ cl[c].controller # c
  /\ Handled(c, Result(cl[c], <<[type |-> "RequestControl"]>>))
  /\ UNCHANGED <<server, down, last_rev>>

\* A client disconnects; the lease goes to the smallest id left.
Leave(c) ==
  LET rest == attached \ {c}
      promoted == IF rest = {} THEN None ELSE Least(rest)
  IN  /\ Input("leave")
      /\ c \in attached
      /\ attached' = rest
      /\ controller' = IF controller = c THEN promoted ELSE controller
      /\ up' = [up EXCEPT ![c] = <<>>]
      /\ down' = [d \in Clients |->
                    IF d = c THEN <<>>
                    ELSE IF controller = c /\ d \in rest
                    THEN Append(down[d], [type |-> "ControllerChanged",
                                          controller |-> promoted])
                    ELSE down[d]]
      /\ UNCHANGED <<panes, layout, layout_rev, cl, last_rev>>

\* A pane's process ends; the pane stays, exited, until it is killed.
Exit(p) ==
  /\ Input("exit")
  /\ panes[p] = "live"
  /\ panes' = [panes EXCEPT ![p] = "exited"]
  /\ Respond(None, <<>>, <<[type |-> "Exited", pane |-> p]>>)
  /\ UNCHANGED <<layout, layout_rev, controller, attached, up, cl, last_rev>>

-----------------------------------------------------------------------------
\* One pane, placed at revision 1, and every client attached and up to date.
InitialDoc == [panes |-> {1}, arr |-> CHOOSE a \in Arrangements : TRUE]

Init ==
  /\ panes = [p \in PaneId |-> IF p = 1 THEN "live" ELSE "none"]
  /\ layout = InitialDoc /\ layout_rev = 1
  /\ controller = Least(Clients) /\ attached = Clients
  /\ up = [c \in Clients |-> <<>>] /\ down = [c \in Clients |-> <<>>]
  /\ cl = [c \in Clients |->
             [controller |-> Least(Clients), layout_rev |-> 1, assumed_rev |-> 1,
              last |-> InitialDoc, flight |-> NoFlight, pending |-> <<>>,
              doc |-> InitialDoc, next |-> 2, meta |-> {1}]]
  /\ last_rev = [c \in Clients |-> IF c = Least(Clients) THEN 1 ELSE 0]
  /\ inputs = 0

Next ==
  \/ \E c \in Clients :
       \/ Serve(c) \/ Receive(c) \/ flush_layout_commit(c)
       \/ OpenPane(c) \/ TakeControl(c) \/ Leave(c)
       \/ \E arr \in Arrangements : Edit(c, arr)
       \/ \E p \in PaneId : ClosePane(c, p)
  \/ \E p \in PaneId : Exit(p)

Spec == Init /\ [][Next]_vars

\* The server's loop, each client's event loop and the debounce timer run on.
Fairness ==
  \A c \in Clients : WF_vars(Serve(c)) /\ WF_vars(Receive(c))
                       /\ WF_vars(flush_layout_commit(c))

FairSpec == Spec /\ Fairness

-----------------------------------------------------------------------------
(* Properties. *)

\* Types; no client is ahead of the server; a client mints no id it has seen.
TypeOK ==
  /\ panes \in [PaneId -> {"none", "live", "exited"}]
  /\ layout \in Doc /\ layout_rev \in Nat
  /\ attached \subseteq Clients
  /\ controller \in attached \cup {None}
  /\ last_rev \in [Clients -> 0 .. layout_rev]
  /\ inputs \in 0 .. MaxInputs
  /\ \A c \in Clients :
       LET s == cl[c] IN
       /\ s.controller \in Clients \cup {None}
       /\ s.layout_rev \in 1 .. layout_rev /\ s.assumed_rev \in Nat
       /\ s.doc \in Doc /\ s.last \in Doc \cup {NoDoc}
       /\ s.next \in 2 .. MaxPanes + 1 /\ s.doc.panes \subseteq 1 .. s.next - 1
       /\ s.pending \in Seq(PaneId) /\ s.meta \subseteq PaneId
       /\ s.flight \in [pane : PaneId, base : Nat, failed : BOOLEAN] \cup {NoFlight}

\* A process that is running is always on the shared layout, where somebody can
\* see and close it: no commit composed before a spawn may leave it out.
LivePanesPlaced == \A p \in PaneId : panes[p] = "live" => p \in layout.panes

Ghost == \E p \in layout.panes : panes[p] = "none"

InFlight == \E c \in attached : up[c] # <<>> \/ down[c] # <<>>

CanFlush(c) ==
  /\ cl[c].controller = c /\ cl[c].pending = <<>> /\ cl[c].flight = NoFlight
  /\ cl[c].doc # cl[c].last

Quiet == ~InFlight /\ \A c \in attached : ~CanFlush(c)

\* Once nothing is in flight and nothing is due to be published, every client
\* shows the committed layout, plus its own placeholders still waiting: edits
\* lost with the lease are taken back, edits of the winner are everywhere.  (A
\* layout with a ghost, a pane the server no longer has, cannot be republished.)
DocsAgreeWhenQuiet ==
  Quiet /\ ~Ghost => \A c \in attached :
    /\ cl[c].layout_rev = layout_rev
    /\ cl[c].doc = [layout EXCEPT !.panes = @ \cup (Waiting(cl[c]) \cap cl[c].doc.panes)]

\* A spawn sent to the server is always confirmed or rejected in the end, however
\* the lease moves: the queue behind it, and every commit, waits for that.
FlightResolves ==
  \A c \in Clients : cl[c].flight # NoFlight ~> cl[c].flight = NoFlight \/ c \notin attached

\* Rejections self-heal: with no further input the exchange of commits and
\* corrections comes to rest.
CommitsSettle == <>[]Quiet

\* The same, except while the layout names a pane the server no longer has.
SettlesUnlessGhost == []<>Ghost \/ <>[]Quiet

\* A running process is killed only because some user closed its pane.
KilledOnlyWhenAsked ==
  [][ \A p \in PaneId : panes[p] = "live" /\ panes'[p] = "none" =>
        \E c \in Clients : up[c] # <<>> /\ up'[c] = Tail(up[c])
                             /\ Head(up[c]) = KillFrame(p, TRUE) ]_vars

\* An accepted document was composed by a client that had seen every revision of
\* the other clients: no commit silently undoes an edit its author never saw.
NoLostUpdate ==
  [][ \A c \in Clients :
        last_rev'[c] # last_rev[c] =>
          \A d \in Clients \ {c} : last_rev[d] <= Head(up[c]).seen ]_vars
=============================================================================
