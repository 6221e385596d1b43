---------------------------- MODULE SessionLease ----------------------------
(***************************************************************************)
(* The layout-control lease of a session server: who is attached, which    *)
(* client holds the lease, and what every client has been told about it.   *)
(*                                                                         *)
(* The server is single threaded: one handler at a time computes a list of *)
(* responses, then queues them one by one on the clients' bounded          *)
(* outboxes.  A client whose outbox cannot take a control frame is removed *)
(* on the spot, in the middle of that loop, and its removal promotes a new *)
(* controller and broadcasts messages of its own before the interrupted    *)
(* loop goes on with the messages it had already composed.  The call stack *)
(* is therefore explicit: `stack` holds one frame per active response      *)
(* loop, and Send, RemoveSlow and Return are the steps of those loops.     *)
(*                                                                         *)
(* Source: src/src/session/server/lease.rs and connection.rs, and on the   *)
(* client's side src/src/update/session/lease.rs.                          *)
(***************************************************************************)
EXTENDS Naturals, Sequences, FiniteSets

CONSTANTS MaxClients,   \* bound: connections accepted in one behaviour
          MaxBacklog,   \* max_backlog, in control frames
          Slow,         \* the clients whose socket may stop taking output
          Rejoiners,    \* the clients that may attach again when attached
          Publishers    \* the clients that publish rows into shared panes

ASSUME MaxClientsAssumption == MaxClients \in Nat
ASSUME BacklogAssumption == MaxBacklog \in Nat

None == 0                      \* Option::None for a client id; ids start at 1
ClientId == 1 .. MaxClients
Everyone == 0                  \* Target::Broadcast

VARIABLES next_client_id,      \* SessionServer.next_client_id
          clients,             \* ids in SessionServer.clients
          attached, read_only, parked, requesting_control, close_after_flush,
                               \* ClientConn's flags, as the set of ids with it
          rows,                \* ids with rows published in a shared pane
          controller, input_locked, allow_takeover,
          rejoined,            \* history: the holder of the lease, if it attached
                               \* again since it got it, or got it by that
          outbox,              \* ClientConn.outbox
          stack,               \* the response loops in progress, innermost first
          attaching,           \* the handle_attach whose first enqueue removed
                               \* its client, and whose responses are to come
          view,                \* SharedSessionState of each client's UI
          remote_drag          \* Attachment.remote_drag: author of the lifted pane

conns == <<next_client_id, clients, attached, read_only, close_after_flush>>
policy == <<input_locked, allow_takeover>>
ui == <<view, remote_drag>>
vars == <<conns, parked, requesting_control, rows, controller, rejoined, policy,
          outbox, stack, attaching, ui>>

-----------------------------------------------------------------------------
(* Messages. *)

ClientInfo == [id : ClientId, read_only : BOOLEAN,
               requesting_control : BOOLEAN, parked : BOOLEAN]

SharedState == [controller : ClientId \cup {None}, clients : SUBSET ClientInfo,
                input_locked : BOOLEAN, allow_takeover : BOOLEAN]

Message ==
  [type : {"Attached"}, state : SharedState]
    \cup [type : {"ClientsChanged"}, clients : SUBSET ClientInfo,
          input_locked : BOOLEAN, allow_takeover : BOOLEAN]
    \cup [type : {"ControllerChanged"}, controller : ClientId \cup {None}]
    \cup [type : {"DragChanged"}, author : ClientId, lifted : BOOLEAN]
    \cup [type : {"ControlRequested", "ControlDeclined", "Error", "PaneRuntime"}]

Envelope == [to : ClientId \cup {Everyone}, msg : Message]
ToAll(m) == [to |-> Everyone, msg |-> m]
To(c, m) == [to |-> c, msg |-> m]

Note(type) == [type |-> type]

client_roster ==
  {[id |-> c, read_only |-> c \in read_only,
    requesting_control |-> c \in requesting_control,
    parked |-> c \in parked] : c \in attached}

clients_changed ==
  [type |-> "ClientsChanged", clients |-> client_roster,
   input_locked |-> input_locked, allow_takeover |-> allow_takeover]

controller_changed(c) == [type |-> "ControllerChanged", controller |-> c]

\* What a client that has caught up with the server should know.
TrueState ==
  [controller |-> controller, clients |-> client_roster,
   input_locked |-> input_locked, allow_takeover |-> allow_takeover]

-----------------------------------------------------------------------------
(* Response loops. *)

Frame == [msgs : Seq(Envelope), slow : SUBSET ClientId]

\* A handler returned these responses; the loop over them is about to start.
Reply(msgs) == stack' = <<[msgs |-> msgs, slow |-> {}]>> /\ attaching' = "none"

\* A call of remove_client from outside any response loop.
Drop(c) == stack' = <<[msgs |-> <<>>, slow |-> {c}]>> /\ attaching' = "none"

Idle == stack = <<>> /\ attaching = "none"

\* The server turns to the next request between response loops, once the flush
\* pass has written out every client whose socket takes output.
Serving == Idle /\ \A c \in clients \ Slow : outbox[c] = <<>>

-----------------------------------------------------------------------------
(* The lease. *)

is_controller(c) == controller = c

\* A client the lease may belong to: attached, writable and not parked.
Users == (attached \ read_only) \ parked

\* Smallest id = earliest connect.
promotion_candidate(users) ==
  IF users = {} THEN None
                ELSE CHOOSE c \in users : \A d \in users : c <= d

\* Move the lease to `to`, clearing its pending request.
assign_controller(to) ==
  /\ controller' = to
  /\ rejoined' = None
  /\ requesting_control' = requesting_control \ {to}
  /\ Reply(<<ToAll(controller_changed(to)), ToAll(clients_changed')>>)

\* Mutant of release_controller: the roster is not refreshed.
ReleaseWithoutRoster(users) ==
  LET promoted == promotion_candidate(users) IN
  /\ controller' = promoted
  /\ rejoined' = None
  /\ requesting_control' = requesting_control \ {promoted}
  /\ Reply(<<ToAll(controller_changed(promoted))>>)

\* Mutant of release_controller: whoever attached first is promoted.
ReleaseToAnyone(users) ==
  LET promoted == promotion_candidate(attached) IN
  /\ controller' = promoted
  /\ rejoined' = None
  /\ requesting_control' = requesting_control \ {promoted}
  /\ Reply(<<ToAll(controller_changed(promoted)), ToAll(clients_changed')>>)

\* Hand the lease to the next client entitled to it, if there is one.
release_controller(users) ==
  LET promoted == promotion_candidate(users) IN
  /\ controller' = promoted
  /\ rejoined' = None
  /\ requesting_control' = requesting_control \ {promoted}
  /\ Reply(<<ToAll(controller_changed(promoted)), ToAll(clients_changed')>>)

-----------------------------------------------------------------------------
(* Connections. *)

Accept ==
  /\ Serving
  /\ next_client_id <= MaxClients
  /\ next_client_id' = next_client_id + 1
  /\ clients' = clients \cup {next_client_id}
  /\ UNCHANGED <<attached, read_only, close_after_flush, parked,
                 requesting_control, rows, controller, rejoined, policy, outbox, stack,
                 attaching, ui>>

\* A connection sends its Attach once, but the server takes another from a client
\* that is attached.  A refused client is taken not to try again.
MayAttach ==
  ((clients \ attached) \ close_after_flush) \cup (attached \cap Rejoiners)

\* The first writable attacher gets the lease.  Attaching again only replaces
\* read_only: the lease, a request for it and the parking stay.  The notification
\* list and the palette actions that follow Attached are left out.
Attach(c, ro) ==
  LET granted == controller = None /\ ~ro IN
  /\ Serving
  /\ c \in MayAttach
  /\ Len(outbox[c]) < MaxBacklog
  /\ attached' = attached \cup {c}
  /\ read_only' = (read_only \ {c}) \cup (IF ro THEN {c} ELSE {})
  /\ controller' = IF granted THEN c ELSE controller
  /\ rejoined' = IF controller' # c THEN rejoined ELSE IF c \in attached THEN c ELSE None
  /\ UNCHANGED <<next_client_id, clients, close_after_flush, parked,
                 requesting_control, rows, policy, outbox, ui>>
  /\ Reply(<<To(c, [type |-> "Attached", state |-> TrueState']),
             ToAll(clients_changed')>>
           \o IF granted THEN <<ToAll(controller_changed(c))>> ELSE <<>>)

\* A protocol, session or server-identity mismatch: say so, and hang up on a client
\* that has not attached before.
AttachRefused(c) ==
  /\ Serving
  /\ c \in MayAttach
  /\ close_after_flush' = close_after_flush \cup ({c} \ attached)
  /\ Reply(<<To(c, Note("Error"))>>)
  /\ UNCHANGED <<next_client_id, clients, attached, read_only, parked,
                 requesting_control, rows, controller, rejoined, policy, outbox, ui>>

\* The peer hung up or broke the protocol.
Disconnect(c) ==
  /\ Idle
  /\ c \in clients
  /\ Drop(c)
  /\ UNCHANGED <<conns, parked, requesting_control, rows, controller, rejoined,
                 policy, outbox, ui>>

Detach(c) ==
  /\ Serving
  /\ c \in attached
  /\ Drop(c)
  /\ UNCHANGED <<conns, parked, requesting_control, rows, controller, rejoined,
                 policy, outbox, ui>>

\* An attached client has not answered a ping for heartbeat_timeout.
HeartbeatExpire(c) ==
  /\ Idle
  /\ c \in attached
  /\ Drop(c)
  /\ UNCHANGED <<conns, parked, requesting_control, rows, controller, rejoined,
                 policy, outbox, ui>>

-----------------------------------------------------------------------------
(* Requests of an attached client. *)

\* Nobody to ask, or nobody needs asking.
TakesAtOnce == controller = None \/ allow_takeover

\* Otherwise the request is flagged in the roster and the controller is notified;
\* a repeat within REQUEST_NOTIFY_COOLDOWN changes nothing.
RequestControl(c) ==
  /\ Serving
  /\ c \in Users
  /\ controller # c
  /\ UNCHANGED <<conns, parked, rows, policy, outbox, ui>>
  /\ \/ /\ TakesAtOnce
        /\ assign_controller(c)
     \/ /\ ~TakesAtOnce
        /\ requesting_control' = requesting_control \cup {c}
        /\ UNCHANGED <<controller, rejoined>>
        /\ Reply((IF c \in requesting_control
                  THEN <<>> ELSE <<ToAll(clients_changed')>>)
                 \o <<To(controller, Note("ControlRequested"))>>)

\* Switching the session to the background, which releases the lease.
Park(c) ==
  /\ Serving
  /\ c \in attached \ parked
  /\ parked' = parked \cup {c}
  /\ UNCHANGED <<conns, rows, policy, outbox, ui>>
  /\ \/ /\ is_controller(c)
        /\ release_controller(Users \ {c})
     \/ /\ ~is_controller(c)
        /\ UNCHANGED <<controller, rejoined, requesting_control>>
        /\ Reply(<<ToAll(clients_changed')>>)

\* Coming back, which takes the lease when nobody holds it.
Unpark(c) ==
  /\ Serving
  /\ c \in attached \cap parked
  /\ parked' = parked \ {c}
  /\ UNCHANGED <<conns, rows, policy, outbox, ui>>
  /\ \/ /\ controller = None /\ c \notin read_only
        /\ assign_controller(c)
     \/ /\ controller # None \/ c \in read_only
        /\ UNCHANGED <<controller, rejoined, requesting_control>>
        /\ Reply(<<ToAll(clients_changed')>>)

GrantControl(c, to) ==
  /\ Serving
  /\ is_controller(c)
  /\ to \in Users
  /\ UNCHANGED <<conns, parked, rows, policy, outbox, ui>>
  /\ assign_controller(to)

DeclineControl(c, to) ==
  /\ Serving
  /\ is_controller(c)
  /\ to \in requesting_control
  /\ requesting_control' = requesting_control \ {to}
  /\ UNCHANGED <<conns, parked, rows, controller, rejoined, policy, outbox, ui>>
  /\ Reply(<<ToAll(clients_changed'), To(to, Note("ControlDeclined"))>>)

SetControlTakeover(c, allowed) ==
  /\ Serving
  /\ is_controller(c) /\ c \notin read_only
  /\ allow_takeover' = allowed
  /\ UNCHANGED <<conns, parked, requesting_control, rows, controller,
                 rejoined, input_locked, outbox, ui>>
  /\ Reply(<<ToAll(clients_changed')>>)

SetInputLock(c, locked) ==
  /\ Serving
  /\ is_controller(c) /\ c \notin read_only
  /\ input_locked' = locked
  /\ UNCHANGED <<conns, parked, requesting_control, rows, controller,
                 rejoined, allow_takeover, outbox, ui>>
  /\ Reply(<<ToAll(clients_changed')>>)

\* The target is told, and closed once that has reached the wire.
EvictClient(c, target) ==
  /\ Serving
  /\ is_controller(c) /\ c \notin read_only
  /\ target \in attached \ {c}
  /\ close_after_flush' = close_after_flush \cup {target}
  /\ Reply(<<To(target, Note("Error"))>>)
  /\ UNCHANGED <<next_client_id, clients, attached, read_only, parked,
                 requesting_control, rows, controller, rejoined, policy, outbox, ui>>

\* A drag is relayed, never kept: lifting, moving and dropping a pane.
Drag(c, lifted) ==
  /\ Serving
  /\ is_controller(c) /\ c \notin read_only
  /\ Reply(<<ToAll([type |-> "DragChanged", author |-> c, lifted |-> lifted])>>)
  /\ UNCHANGED <<conns, parked, requesting_control, rows, controller, rejoined,
                 policy, outbox, ui>>

\* A writable client publishes, or changes, its rows in a shared pane.
ReportPaneRows(c) ==
  /\ Serving
  /\ c \in (attached \cap Publishers) \ read_only
  /\ rows' = rows \cup {c}
  /\ Reply(<<ToAll(Note("PaneRuntime"))>>)
  /\ UNCHANGED <<conns, parked, requesting_control, controller, rejoined, policy,
                 outbox, ui>>

\* Any other control broadcast: a status, a title, a notification.
PaneRuntimeChange ==
  /\ Serving
  /\ attached # {}
  /\ Reply(<<ToAll(Note("PaneRuntime"))>>)
  /\ UNCHANGED <<conns, parked, requesting_control, rows, controller, rejoined,
                 policy, outbox, ui>>

-----------------------------------------------------------------------------
(* The steps of a response loop. *)

top == stack[1]

Recipients(env) == IF env.to = Everyone THEN attached ELSE {env.to} \cap clients

\* enqueue, broadcast_control: queue one message on every recipient's outbox,
\* noting the recipients that cannot take it.
Send ==
  /\ stack # <<>> /\ top.slow = {} /\ top.msgs # <<>>
  /\ LET env  == Head(top.msgs)
         full == {c \in Recipients(env) : Len(outbox[c]) >= MaxBacklog}
     IN  /\ outbox' = [c \in ClientId |->
                         IF c \in Recipients(env) \ full
                         THEN Append(outbox[c], env.msg) ELSE outbox[c]]
         /\ stack' = <<[msgs |-> Tail(top.msgs), slow |-> full]>> \o Tail(stack)
  /\ UNCHANGED <<conns, parked, requesting_control, rows, controller, rejoined, policy,
                 attaching, ui>>

\* Mutant of withdraw_client_rows: the departed client's rows stay.
RowsKept(c) == rows

withdraw_client_rows(c) == rows \ {c}

\* Mutant of remove_client: the messages go out while the client is still there.
RemovedLate(c, promoted) ==
  UNCHANGED <<clients, attached, read_only, close_after_flush, parked,
              requesting_control, rows, controller, rejoined, outbox>>

\* The removal of `c`, before any message about it is sent.
remove_client(c, promoted) ==
  /\ clients' = clients \ {c}
  /\ attached' = attached \ {c}
  /\ read_only' = read_only \ {c}
  /\ parked' = parked \ {c}
  /\ close_after_flush' = close_after_flush \ {c}
  /\ rows' = withdraw_client_rows(c)
  /\ outbox' = [outbox EXCEPT ![c] = <<>>]
  /\ controller' = IF is_controller(c) THEN promoted ELSE controller
  /\ rejoined' = IF is_controller(c) THEN None ELSE rejoined
  /\ requesting_control' =
       requesting_control \ (IF is_controller(c) THEN {c, promoted} ELSE {c})

\* Mutant of RemovalMessages: the promotion is not announced.
RosterOnly(c, promoted) == <<ToAll(clients_changed')>>

Departure(c, held, promoted) ==
  (IF c \in rows THEN <<ToAll(Note("PaneRuntime"))>> ELSE <<>>)
    \o (IF held THEN <<ToAll(controller_changed(promoted))>> ELSE <<>>)
    \o <<ToAll(clients_changed')>>

RemovalMessages(c, promoted) == Departure(c, is_controller(c), promoted)

\* remove_client for the first slow client; nothing if it is already gone.
RemoveSlow ==
  /\ stack # <<>> /\ top.slow # {}
  /\ UNCHANGED <<next_client_id, policy, attaching, ui>>
  /\ LET c        == CHOOSE s \in top.slow : \A d \in top.slow : s <= d
         promoted == promotion_candidate(Users \ {c})
         caller   == <<[top EXCEPT !.slow = @ \ {c}]>> \o Tail(stack)
     IN  \/ /\ c \in clients
            /\ remove_client(c, promoted)
            /\ stack' = IF c \in attached
                        THEN <<[msgs |-> RemovalMessages(c, promoted),
                                slow |-> {}]>> \o caller
                        ELSE caller
         \/ /\ c \notin clients
            /\ stack' = caller
            /\ UNCHANGED <<clients, attached, read_only, close_after_flush,
                           parked, requesting_control, rows, controller,
                           rejoined, outbox>>

\* handle_attach queues Attached itself, before it composes its responses: a client
\* that cannot take it is removed first, with a lease it has only just been granted,
\* which nobody else could hold (LeaseNotIdle).
AttachOverflow(c, ro) ==
  LET granted  == controller = None /\ ~ro
      promoted == promotion_candidate(Users \ {c})
  IN
  /\ Serving
  /\ c \in MayAttach
  /\ Len(outbox[c]) >= MaxBacklog
  /\ UNCHANGED <<next_client_id, policy, ui>>
  /\ remove_client(c, promoted)
  /\ stack' = <<[msgs |-> Departure(c, is_controller(c) \/ granted, promoted),
                 slow |-> {}]>>
  /\ attaching' = IF granted THEN "granted" ELSE "attached"

\* The responses of that handle_attach, composed once the removal has been told.
AttachReplies ==
  /\ stack = <<>> /\ attaching # "none"
  /\ Reply(<<ToAll(clients_changed)>>
           \o IF attaching = "granted"
              THEN <<ToAll(controller_changed(controller))>> ELSE <<>>)
  /\ UNCHANGED <<conns, parked, requesting_control, rows, controller, rejoined,
                 policy, outbox, ui>>

\* The loop is over; the interrupted caller, if any, goes on.
Return ==
  /\ stack # <<>> /\ top.slow = {} /\ top.msgs = <<>>
  /\ stack' = Tail(stack)
  /\ UNCHANGED <<conns, parked, requesting_control, rows, controller, rejoined,
                 policy, outbox, attaching, ui>>

-----------------------------------------------------------------------------
(* The socket and the client's UI. *)

\* controller_changed, clients_changed and drag_changed of the client.
ViewAfter(c, m) ==
  CASE m.type = "Attached" -> m.state
    [] m.type = "ControllerChanged" -> [view[c] EXCEPT !.controller = m.controller]
    [] m.type = "ClientsChanged" ->
         [view[c] EXCEPT !.clients = m.clients,
                         !.input_locked = m.input_locked,
                         !.allow_takeover = m.allow_takeover]
    [] OTHER -> view[c]

\* Mutant of DragAfter: a change of controller leaves the pane lifted.
DragKept(c, m) ==
  IF m.type = "DragChanged" /\ m.author # c
  THEN IF m.lifted THEN m.author ELSE None
  ELSE remote_drag[c]

DragAfter(c, m) ==
  CASE m.type \in {"Attached", "ControllerChanged"} -> None
    [] m.type = "DragChanged" /\ m.author # c ->
         IF m.lifted THEN m.author ELSE None
    [] OTHER -> remote_drag[c]

\* flush_clients writes the next frame to one client's socket, and the client's
\* UI takes it in.  The pass goes through the clients in order; a slow one may
\* take any number of frames.  A client to be closed goes with its last frame.
Flush(c) ==
  /\ Idle
  /\ c \in clients
  /\ \A d \in clients \ Slow : d < c => outbox[d] = <<>>
  /\ outbox[c] # <<>>
  /\ outbox' = [outbox EXCEPT ![c] = Tail(@)]
  /\ view' = [view EXCEPT ![c] = ViewAfter(c, Head(outbox[c]))]
  /\ remote_drag' = [remote_drag EXCEPT ![c] = DragAfter(c, Head(outbox[c]))]
  /\ IF c \in close_after_flush /\ Tail(outbox[c]) = <<>>
     THEN Drop(c) ELSE UNCHANGED <<stack, attaching>>
  /\ UNCHANGED <<conns, parked, requesting_control, rows, controller, rejoined, policy>>

-----------------------------------------------------------------------------
NoView == [controller |-> None, clients |-> {}, input_locked |-> FALSE,
           allow_takeover |-> FALSE]

Init ==
  /\ next_client_id = 1
  /\ clients = {} /\ attached = {} /\ read_only = {} /\ parked = {}
  /\ requesting_control = {} /\ close_after_flush = {} /\ rows = {}
  /\ controller = None /\ rejoined = None
  /\ input_locked = FALSE
  /\ allow_takeover \in BOOLEAN
  /\ outbox = [c \in ClientId |-> <<>>]
  /\ stack = <<>> /\ attaching = "none"
  /\ view = [c \in ClientId |-> NoView]
  /\ remote_drag = [c \in ClientId |-> None]

Request(c) ==
  \/ RequestControl(c) \/ Park(c) \/ Unpark(c) \/ Detach(c) \/ ReportPaneRows(c)
  \/ \E to \in ClientId :
        GrantControl(c, to) \/ DeclineControl(c, to) \/ EvictClient(c, to)
  \/ \E on \in BOOLEAN :
        SetControlTakeover(c, on) \/ SetInputLock(c, on) \/ Drag(c, on)

Next ==
  \/ Accept \/ PaneRuntimeChange
  \/ Send \/ RemoveSlow \/ Return \/ AttachReplies
  \/ \E c \in ClientId :
        \/ Request(c) \/ AttachRefused(c)
        \/ \E ro \in BOOLEAN : Attach(c, ro) \/ AttachOverflow(c, ro)
        \/ Disconnect(c) \/ HeartbeatExpire(c) \/ Flush(c)

Spec == Init /\ [][Next]_vars

-----------------------------------------------------------------------------
(* Properties. *)

\* Every flag belongs to a client that is still there: a removal takes all of them
\* with it (ClientConn is dropped whole, the rows are withdrawn).
FlagsOK ==
  /\ next_client_id \in 1 .. MaxClients + 1
  /\ clients \subseteq 1 .. next_client_id - 1
  /\ attached \subseteq clients
  /\ close_after_flush \subseteq clients
  /\ read_only \subseteq attached
  /\ parked \subseteq attached
  /\ requesting_control \subseteq attached
  /\ rows \subseteq attached
  /\ controller \in ClientId \cup {None}
  /\ rejoined \in ClientId \cup {None}

\* Types, with the containments of FlagsOK.
TypeOK ==
  /\ FlagsOK
  /\ input_locked \in BOOLEAN
  /\ allow_takeover \in BOOLEAN
  /\ outbox \in [ClientId -> Seq(Message)]
  /\ stack \in Seq(Frame)
  /\ attaching \in {"none", "attached", "granted"}
  /\ view \in [ClientId -> SharedState]
  /\ remote_drag \in [ClientId -> ClientId \cup {None}]

\* The lease is held by an attached client, and unless that client has attached
\* again while holding it, or got it by that, by one that is writable and is using
\* the session: never by one that has left, is read-only or has parked it in the
\* background, whatever the order in which clients leave, park and are removed.
LeaseHeldByUser ==
  controller # None => controller \in attached /\ controller \in Users \cup {rejoined}

\* The lease is never left unheld while a client could hold it: every path that
\* gives it up (park, detach, disconnect, expiry, overflow) promotes someone, and
\* every path that makes a client eligible hands an unheld lease to it.
LeaseNotIdle == controller = None => Users = {}

\* The controller has no request for control pending against itself: every path
\* that moves the lease clears the new holder's badge, but for a second Attach.
NoSelfRequest == controller \in requesting_control => controller = rejoined

\* One entitled client holds the lease whenever there is one, and holding it
\* settles its own request: whatever the order of parks, departures, promotions
\* and removals nested in one another (release_controller, assign_controller).
LeaseSound == LeaseHeldByUser /\ LeaseNotIdle /\ NoSelfRequest

\* A client whose outbox has drained agrees with the server on who controls the
\* layout, so that exactly one UI believes it may edit it.  It may be left with the
\* name of a slow client that attached again: handle_attach announces the lease it
\* granted last, after a roster that may have had that client removed.
ControllerAgreed ==
  Idle => \A c \in attached :
            outbox[c] = <<>> =>
              view[c].controller \in {controller} \cup (Rejoiners \cap Slow)

\* A client whose outbox has drained agrees with the server on the roster, the
\* badges in it, the input lock and the takeover policy as well.
RosterAgreed ==
  Idle => \A c \in attached : outbox[c] = <<>> => view[c] = TrueState

\* A client that has drained its outbox lifts a pane only for a drag of the
\* present controller: one that lost the lease or vanished in the middle of a
\* drag leaves no pane hanging over the layout.
DragFollowsLease ==
  Idle => \A c \in attached :
            outbox[c] = <<>> => remote_drag[c] \in {None, controller}

\* The removals of slow clients nest inside the response loops they interrupt,
\* but never more deeply than clients have been removed: a client is taken out
\* before its removal is broadcast, so the recursion cannot come back to it.
RecursionBounded == Len(stack) + Cardinality(clients) <= next_client_id
=============================================================================
