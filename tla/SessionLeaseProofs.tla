------------------------- MODULE SessionLeaseProofs -------------------------
(***************************************************************************)
(* Proofs about SessionLease for every number of clients, every backlog    *)
(* limit and every choice of slow and publishing clients.                  *)
(***************************************************************************)
EXTENDS SessionLease, SumsProofs, FiniteSetTheorems, SequenceTheorems

(***************************************************************************)
(* The three lease properties only hold together: that an unheld lease has *)
(* no candidate is what makes granting it to a new attacher safe, and that *)
(* the holder is attached and not parked is what makes its removal or its  *)
(* parking the only steps that must promote somebody.                      *)
(***************************************************************************)
LeaseInv == FlagsOK /\ LeaseHeldByUser /\ LeaseNotIdle /\ NoSelfRequest

USE MaxClientsAssumption DEF None, ClientId

-----------------------------------------------------------------------------
(* Promotion. *)

\* A non-empty set of ids has a smallest member.
LEMMA SmallestId ==
  ASSUME NEW S, S \subseteq ClientId, S # {}
  PROVE  \E c \in S : \A d \in S : c <= d
<1> DEFINE Less == OpToRel(<, Nat)
<1>1. S \subseteq Nat
  OBVIOUS
<1>2. IsWellFoundedOn(Less, Nat)
  BY NatLessThanWellFounded
<1> HIDE DEF Less
<1>3. \E c \in S : \A d \in S : ~ (<<d, c>> \in Less)
  BY <1>1, <1>2, WFMin
<1>4. PICK c \in S : \A d \in S : ~ (<<d, c>> \in Less)
  BY <1>3
<1>5. \A d \in S : ~ (d < c)
  BY <1>1, <1>4 DEF Less, OpToRel
<1> QED
  BY <1>1, <1>5

\* promotion_candidate promotes one of the clients entitled to the lease, and
\* nobody only when there is none.
LEMMA CandidateIsEntitled ==
  ASSUME NEW users, users \subseteq ClientId
  PROVE  /\ users = {} => promotion_candidate(users) = None
         /\ users # {} => promotion_candidate(users) \in users
BY SmallestId DEF promotion_candidate

-----------------------------------------------------------------------------
(* Steps. *)

\* The steps of a handler that moves the lease to `to`.
LEMMA AssignPreserves ==
  ASSUME LeaseInv, NEW to \in Users, assign_controller(to),
         UNCHANGED <<conns, parked, rows>>
  PROVE  LeaseInv'
BY DEF LeaseInv, FlagsOK, LeaseHeldByUser, LeaseNotIdle, NoSelfRequest, Users,
       assign_controller, conns

\* The steps that leave connections, flags and lease alone.
LEMMA UntouchedPreserves ==
  ASSUME LeaseInv,
         UNCHANGED <<conns, parked, requesting_control, rows, controller, rejoined>>
  PROVE  LeaseInv'
BY DEF LeaseInv, FlagsOK, LeaseHeldByUser, LeaseNotIdle, NoSelfRequest, Users, conns

\* Every request of an attached client keeps the lease invariant.
LEMMA RequestPreserves ==
  ASSUME LeaseInv, NEW c \in ClientId, Request(c)
  PROVE  LeaseInv'
<1>1. CASE RequestControl(c)
  <2>1. CASE TakesAtOnce
    BY <1>1, <2>1, AssignPreserves DEF RequestControl
  <2>2. CASE ~TakesAtOnce
    BY <1>1, <2>2 DEF RequestControl, LeaseInv, FlagsOK, LeaseHeldByUser, LeaseNotIdle,
       NoSelfRequest, Users, conns
  <2> QED
    BY <2>1, <2>2
<1>2. CASE Park(c)
  <2>1. Users \ {c} \subseteq ClientId
    BY DEF LeaseInv, FlagsOK, Users
  <2>2. CASE is_controller(c)
    <3> DEFINE to == promotion_candidate(Users \ {c})
    <3>1. /\ Users \ {c} = {} => to = None
          /\ Users \ {c} # {} => to \in Users \ {c}
      BY <2>1, CandidateIsEntitled
    <3>2. /\ controller' = to /\ rejoined' = None
          /\ requesting_control' = requesting_control \ {to}
          /\ parked' = parked \cup {c}
          /\ UNCHANGED <<conns, rows>>
      BY <1>2, <2>2 DEF Park, release_controller
    <3>3. c \in attached
      BY <1>2 DEF Park
    <3>4. Users' = Users \ {c}
      BY <3>2 DEF Users, conns
    <3> HIDE DEF to
    <3>5. to \in ClientId \cup {None}
      BY <3>1, <2>1
    <3>6. FlagsOK'
      BY <3>2, <3>3, <3>5 DEF LeaseInv, FlagsOK, conns
    <3>7. Users' \subseteq attached'
      BY DEF Users
    <3> QED
      BY <2>1, <3>1, <3>2, <3>4, <3>6, <3>7
         DEF LeaseInv, LeaseHeldByUser, LeaseNotIdle, NoSelfRequest
  <2>3. CASE ~is_controller(c)
    BY <1>2, <2>3 DEF Park, is_controller, LeaseInv, FlagsOK, LeaseHeldByUser, LeaseNotIdle,
       NoSelfRequest, Users, conns
  <2> QED
    BY <2>2, <2>3
<1>3. CASE Unpark(c)
  <2>1. CASE controller = None /\ c \notin read_only
    <3>1. /\ controller' = c /\ rejoined' = None
          /\ requesting_control' = requesting_control \ {c}
          /\ parked' = parked \ {c}
          /\ c \in attached
          /\ UNCHANGED <<conns, rows>>
      BY <1>3, <2>1 DEF Unpark, assign_controller
    <3>2. FlagsOK'
      BY <3>1 DEF LeaseInv, FlagsOK, conns
    <3>3. c \in Users' /\ c \in attached'
      BY <2>1, <3>1 DEF Users, conns
    <3> QED
      BY <3>1, <3>2, <3>3 DEF LeaseInv, LeaseHeldByUser, LeaseNotIdle, NoSelfRequest
  <2>2. CASE controller # None \/ c \in read_only
    <3>1. /\ Users \subseteq Users'
          /\ c \in read_only => Users' = Users
      BY <1>3 DEF Unpark, Users, conns
    <3>2. FlagsOK' /\ UNCHANGED <<attached, controller, rejoined, requesting_control>>
      BY <1>3, <2>2 DEF Unpark, LeaseInv, FlagsOK, conns
    <3> QED
      BY <2>2, <3>1, <3>2 DEF LeaseInv, LeaseHeldByUser, LeaseNotIdle, NoSelfRequest
  <2> QED
    BY <2>1, <2>2
<1>4. CASE ReportPaneRows(c)
  BY <1>4 DEF ReportPaneRows, LeaseInv, FlagsOK, LeaseHeldByUser, LeaseNotIdle,
     NoSelfRequest, Users, conns
<1>5. CASE Detach(c)
  BY <1>5, UntouchedPreserves DEF Detach
<1>6. ASSUME NEW to \in ClientId, GrantControl(c, to)
      PROVE  LeaseInv'
  BY <1>6, AssignPreserves DEF GrantControl
<1>7. ASSUME NEW to \in ClientId, DeclineControl(c, to)
      PROVE  LeaseInv'
  BY <1>7 DEF DeclineControl, LeaseInv, FlagsOK, LeaseHeldByUser, LeaseNotIdle,
     NoSelfRequest, Users, conns
<1>8. ASSUME NEW to \in ClientId, EvictClient(c, to)
      PROVE  LeaseInv'
  BY <1>8 DEF EvictClient, LeaseInv, FlagsOK, LeaseHeldByUser, LeaseNotIdle,
     NoSelfRequest, Users, conns
<1>9. ASSUME NEW on \in BOOLEAN,
             SetControlTakeover(c, on) \/ SetInputLock(c, on) \/ Drag(c, on)
      PROVE  LeaseInv'
  BY <1>9, UntouchedPreserves DEF SetControlTakeover, SetInputLock, Drag
<1> QED
  BY <1>1, <1>2, <1>3, <1>4, <1>5, <1>6, <1>7, <1>8, <1>9 DEF Request

\* The removal of a client from inside a response loop.
LEMMA RemovalPreserves ==
  ASSUME LeaseInv, NEW c, c \in clients,
         remove_client(c, promotion_candidate(Users \ {c})),
         UNCHANGED next_client_id
  PROVE  LeaseInv'
<1> DEFINE to == promotion_candidate(Users \ {c})
<1>1. Users \ {c} \subseteq ClientId
  BY DEF LeaseInv, FlagsOK, Users
<1>2. /\ Users \ {c} = {} => to = None
      /\ Users \ {c} # {} => to \in Users \ {c}
  BY <1>1, CandidateIsEntitled
<1> HIDE DEF to
<1>3. remove_client(c, to)
  BY DEF to
<1>4. Users' = Users \ {c}
  BY <1>3 DEF Users, remove_client
<1>5. FlagsOK'
  BY <1>1, <1>2, <1>3 DEF LeaseInv, FlagsOK, remove_client, withdraw_client_rows, is_controller
<1>6. Users' \subseteq attached'
  BY DEF Users
<1> QED
  BY <1>1, <1>2, <1>3, <1>4, <1>5, <1>6
     DEF LeaseInv, LeaseHeldByUser, LeaseNotIdle, NoSelfRequest, remove_client, is_controller

\* Connections: accepting, attaching, refusing and losing them.
LEMMA ConnectionPreserves ==
  ASSUME LeaseInv, NEW c \in ClientId,
         \/ Accept \/ AttachRefused(c) \/ \E ro \in BOOLEAN : Attach(c, ro) \/ AttachOverflow(c, ro)
         \/ Disconnect(c) \/ HeartbeatExpire(c) \/ Flush(c)
  PROVE  LeaseInv'
<1>1. CASE Accept
  BY <1>1 DEF Accept, LeaseInv, FlagsOK, LeaseHeldByUser, LeaseNotIdle, NoSelfRequest,
     Users
<1>2. CASE AttachRefused(c)
  BY <1>2 DEF AttachRefused, MayAttach, LeaseInv, FlagsOK, LeaseHeldByUser, LeaseNotIdle,
     NoSelfRequest, Users
<1>3. ASSUME NEW ro \in BOOLEAN, Attach(c, ro)
      PROVE  LeaseInv'
  <2>1. /\ c \in clients /\ attached' = attached \cup {c}
        /\ read_only' = (read_only \ {c}) \cup (IF ro THEN {c} ELSE {})
        /\ controller' = IF controller = None /\ ~ro THEN c ELSE controller
        /\ rejoined' = IF controller' # c THEN rejoined ELSE IF c \in attached THEN c ELSE None
        /\ UNCHANGED <<next_client_id, clients, close_after_flush, parked,
                       requesting_control, rows>>
    BY <1>3 DEF Attach, MayAttach, LeaseInv, FlagsOK
  <2>2. c # None
    BY ONLY c \in ClientId, MaxClientsAssumption DEF None, ClientId
  <2>3. FlagsOK'
    BY <2>1 DEF LeaseInv, FlagsOK
  <2>4. \A d : d # c => (d \in Users' <=> d \in Users)
    BY <2>1 DEF Users
  <2>5. c \notin attached /\ ~ro => c \in Users'
    BY <2>1 DEF Users, LeaseInv, FlagsOK
  <2>6. LeaseHeldByUser' /\ NoSelfRequest'
    BY <2>1, <2>2, <2>4, <2>5 DEF LeaseInv, LeaseHeldByUser, NoSelfRequest, FlagsOK
  <2>7. LeaseNotIdle'
    BY <2>1, <2>2, <2>4 DEF LeaseInv, LeaseNotIdle, Users
  <2> QED
    BY <2>3, <2>6, <2>7 DEF LeaseInv
<1>5. ASSUME NEW ro \in BOOLEAN, AttachOverflow(c, ro)
      PROVE  LeaseInv'
  BY <1>5, RemovalPreserves DEF AttachOverflow, MayAttach, LeaseInv, FlagsOK
<1>4. CASE Disconnect(c) \/ HeartbeatExpire(c) \/ Flush(c)
  BY <1>4, UntouchedPreserves DEF Disconnect, HeartbeatExpire, Flush
<1> QED
  BY <1>1, <1>2, <1>3, <1>4, <1>5

\* Every step of the server keeps the lease invariant.
LEMMA LeaseInvStep ==
  ASSUME LeaseInv, [Next]_vars
  PROVE  LeaseInv'
<1>1. CASE UNCHANGED vars
  BY <1>1, UntouchedPreserves DEF vars
<1>2. CASE Accept
  BY <1>2 DEF Accept, LeaseInv, FlagsOK, LeaseHeldByUser, LeaseNotIdle, NoSelfRequest,
     Users
<1>3. CASE PaneRuntimeChange \/ Send \/ Return \/ AttachReplies
  BY <1>3, UntouchedPreserves DEF PaneRuntimeChange, Send, Return, AttachReplies
<1>4. CASE RemoveSlow
  <2> DEFINE c == CHOOSE s \in top.slow : \A d \in top.slow : s <= d
  <2>1. CASE c \in clients
    BY <1>4, <2>1, RemovalPreserves DEF RemoveSlow
  <2>2. CASE c \notin clients
    BY <1>4, <2>2, UntouchedPreserves DEF RemoveSlow, conns
  <2> QED
    BY <2>1, <2>2
<1>5. ASSUME NEW c \in ClientId,
             \/ Request(c) \/ AttachRefused(c) \/ \E ro \in BOOLEAN : Attach(c, ro) \/ AttachOverflow(c, ro)
             \/ Disconnect(c) \/ HeartbeatExpire(c) \/ Flush(c)
      PROVE  LeaseInv'
  BY <1>5, RequestPreserves, ConnectionPreserves
<1> QED
  BY <1>1, <1>2, <1>3, <1>4, <1>5 DEF Next

\* Whatever the number of clients and the order in which they come, ask, park,
\* leave and are removed as slow, in the middle of which broadcast, the lease is
\* held by an attached, writable, unparked client, and is unheld only when there
\* is no such client; its holder has no request pending.
THEOREM LeaseSafety == Spec => []LeaseSound
<1>1. Init => LeaseInv
  BY DEF Init, LeaseInv, FlagsOK, LeaseHeldByUser, LeaseNotIdle, NoSelfRequest, Users
<1>2. LeaseInv /\ [Next]_vars => LeaseInv'
  BY LeaseInvStep
<1>3. LeaseInv => LeaseSound
  BY DEF LeaseInv, LeaseSound
<1> QED
  BY <1>1, <1>2, <1>3, PTL DEF Spec
-----------------------------------------------------------------------------
(* Types of the messages, the response loops and the clients' views. *)

PolicyOK == input_locked \in BOOLEAN /\ allow_takeover \in BOOLEAN

\* client_roster lists one well-formed entry per attached client.
LEMMA RosterType == FlagsOK => client_roster \in SUBSET ClientInfo
<1> SUFFICES ASSUME FlagsOK, NEW c \in attached
             PROVE  [id |-> c, read_only |-> c \in read_only,
                     requesting_control |-> c \in requesting_control,
                     parked |-> c \in parked] \in ClientInfo
  BY DEF client_roster
<1>1. c \in ClientId
  BY DEF FlagsOK
<1>2. /\ (c \in read_only) \in BOOLEAN
      /\ (c \in requesting_control) \in BOOLEAN
      /\ (c \in parked) \in BOOLEAN
  OBVIOUS
<1> QED
  BY <1>1, <1>2, Zenon DEF ClientInfo

\* The ClientsChanged message composed from the present state is well formed.
LEMMA ClientsChangedType == FlagsOK /\ PolicyOK => clients_changed \in Message
BY RosterType DEF PolicyOK, clients_changed, Message

\* The state an Attached reply carries is well formed.
LEMMA TrueStateType == FlagsOK /\ PolicyOK => TrueState \in SharedState
BY RosterType DEF FlagsOK, PolicyOK, TrueState, SharedState

\* A ControllerChanged message is well formed for a client id or None.
LEMMA ControllerChangedType ==
  ASSUME NEW c \in ClientId \cup {None}
  PROVE  controller_changed(c) \in Message
BY DEF controller_changed, Message

\* The payload-free notices are messages.
LEMMA NoteType ==
  ASSUME NEW t \in {"ControlRequested", "ControlDeclined", "Error", "PaneRuntime"}
  PROVE  Note(t) \in Message
BY DEF Note, Message

\* A message addressed to one client or to everyone is an envelope.
LEMMA EnvelopeType ==
  ASSUME NEW m \in Message
  PROVE  /\ ToAll(m) \in Envelope
         /\ \A c \in ClientId : To(c, m) \in Envelope
BY DEF ToAll, To, Everyone, Envelope

\* A response loop about to start is a stack of one frame.
LEMMA ReplyType ==
  ASSUME NEW msgs \in Seq(Envelope), Reply(msgs)
  PROVE  stack' \in Seq(Frame) /\ Len(stack') = 1
BY DEF Reply, Frame

\* A call of remove_client from outside a loop leaves a well-formed stack.
LEMMA DropType ==
  ASSUME NEW c \in ClientId, Drop(c)
  PROVE  stack' \in Seq(Frame) /\ Len(stack') = 1
BY DEF Drop, Frame

\* A handler's responses form one well-typed response loop.
LEMMA RequestLoop ==
  ASSUME TypeOK, FlagsOK', PolicyOK', NEW c \in ClientId, Request(c)
  PROVE  stack' \in Seq(Frame) /\ Len(stack') = 1
<1>1. ToAll(clients_changed') \in Envelope
  <2>1. (clients_changed \in Message)'
    BY ClientsChangedType, PTL
  <2> QED
    BY <2>1, EnvelopeType
<1>2. \A d \in ClientId \cup {None} : ToAll(controller_changed(d)) \in Envelope
  BY ControllerChangedType, EnvelopeType
<1>3. \A d \in ClientId : /\ To(d, Note("ControlRequested")) \in Envelope
                          /\ To(d, Note("ControlDeclined")) \in Envelope
                          /\ To(d, Note("Error")) \in Envelope
  BY NoteType, EnvelopeType
<1>4. ToAll(Note("PaneRuntime")) \in Envelope
  BY NoteType, EnvelopeType
<1>5. ASSUME NEW to \in ClientId, assign_controller(to)
      PROVE  stack' \in Seq(Frame) /\ Len(stack') = 1
  <2>1. <<ToAll(controller_changed(to)), ToAll(clients_changed')>> \in Seq(Envelope)
    BY <1>1, <1>2
  <2> QED
    BY <1>5, <2>1, ReplyType DEF assign_controller
<1>6. CASE RequestControl(c)
  <2>1. CASE TakesAtOnce
    BY <1>5, <1>6, <2>1 DEF RequestControl
  <2>2. CASE ~TakesAtOnce
    <3>1. controller \in ClientId
      BY <2>2 DEF TakesAtOnce, TypeOK, FlagsOK
    <3>2. To(controller, Note("ControlRequested")) \in Envelope
      BY <1>3, <3>1
    <3> DEFINE badge == IF c \in requesting_control
                        THEN <<>> ELSE <<ToAll(clients_changed')>>
    <3>3. badge \in Seq(Envelope)
      BY <1>1
    <3>4. Reply(badge \o <<To(controller, Note("ControlRequested"))>>)
      BY <1>6, <2>2 DEF RequestControl
    <3> HIDE DEF badge
    <3>5. badge \o <<To(controller, Note("ControlRequested"))>> \in Seq(Envelope)
      BY <3>2, <3>3
    <3> QED
      BY <3>4, <3>5, ReplyType
  <2> QED
    BY <2>1, <2>2
<1>7. CASE Reply(<<ToAll(clients_changed')>>)
  BY <1>1, <1>7, ReplyType
<1>8. CASE Park(c)
  <2>1. CASE is_controller(c)
    <3> DEFINE to == promotion_candidate(Users \ {c})
    <3>1. Reply(<<ToAll(controller_changed(to)), ToAll(clients_changed')>>)
      BY <1>8, <2>1 DEF Park, release_controller
    <3>2. Users \ {c} \subseteq ClientId
      BY DEF TypeOK, FlagsOK, Users
    <3>3. to \in ClientId \cup {None}
      BY <3>2, CandidateIsEntitled
    <3> HIDE DEF to
    <3>4. <<ToAll(controller_changed(to)), ToAll(clients_changed')>> \in Seq(Envelope)
      BY <1>1, <1>2, <3>3
    <3> QED
      BY <3>1, <3>4, ReplyType
  <2>2. CASE ~is_controller(c)
    BY <1>7, <1>8, <2>2 DEF Park
  <2> QED
    BY <2>1, <2>2
<1>9. CASE Unpark(c)
  BY <1>5, <1>7, <1>9 DEF Unpark
<1>10. CASE Detach(c)
  BY <1>10, DropType DEF Detach
<1>11. CASE ReportPaneRows(c)
  <2>1. <<ToAll(Note("PaneRuntime"))>> \in Seq(Envelope)
    BY <1>4
  <2> QED
    BY <1>11, <2>1, ReplyType DEF ReportPaneRows
<1>12. ASSUME NEW to \in ClientId, GrantControl(c, to)
       PROVE  stack' \in Seq(Frame) /\ Len(stack') = 1
  BY <1>5, <1>12 DEF GrantControl
<1>13. ASSUME NEW to \in ClientId, DeclineControl(c, to)
       PROVE  stack' \in Seq(Frame) /\ Len(stack') = 1
  <2>1. <<ToAll(clients_changed'), To(to, Note("ControlDeclined"))>> \in Seq(Envelope)
    BY <1>1, <1>3
  <2> QED
    BY <1>13, <2>1, ReplyType DEF DeclineControl
<1>14. ASSUME NEW to \in ClientId, EvictClient(c, to)
       PROVE  stack' \in Seq(Frame) /\ Len(stack') = 1
  <2>1. <<To(to, Note("Error"))>> \in Seq(Envelope)
    BY <1>3
  <2> QED
    BY <1>14, <2>1, ReplyType DEF EvictClient
<1>15. ASSUME NEW on \in BOOLEAN, SetControlTakeover(c, on) \/ SetInputLock(c, on)
       PROVE  stack' \in Seq(Frame) /\ Len(stack') = 1
  BY <1>7, <1>15 DEF SetControlTakeover, SetInputLock
<1>16. ASSUME NEW on \in BOOLEAN, Drag(c, on)
       PROVE  stack' \in Seq(Frame) /\ Len(stack') = 1
  <2>1. [type |-> "DragChanged", author |-> c, lifted |-> on] \in Message
    BY DEF Message
  <2>2. <<ToAll([type |-> "DragChanged", author |-> c, lifted |-> on])>> \in Seq(Envelope)
    BY <2>1, EnvelopeType
  <2> QED
    BY <1>16, <2>2, ReplyType DEF Drag
<1> QED
  BY <1>6, <1>8, <1>9, <1>10, <1>11, <1>12, <1>13, <1>14, <1>15, <1>16 DEF Request

\* The first response loop of a connection, and of a broadcast to everyone.
LEMMA ConnectionLoop ==
  ASSUME TypeOK, FlagsOK', PolicyOK', NEW c \in ClientId,
         \/ AttachRefused(c) \/ \E ro \in BOOLEAN : Attach(c, ro)
         \/ Disconnect(c) \/ HeartbeatExpire(c) \/ PaneRuntimeChange
  PROVE  stack' \in Seq(Frame) /\ Len(stack') = 1
<1>1. CASE AttachRefused(c)
  <2>1. <<To(c, Note("Error"))>> \in Seq(Envelope)
    BY NoteType, EnvelopeType
  <2> QED
    BY <1>1, <2>1, ReplyType DEF AttachRefused
<1>2. ASSUME NEW ro \in BOOLEAN, Attach(c, ro)
      PROVE  stack' \in Seq(Frame) /\ Len(stack') = 1
  <2> DEFINE hello == [type |-> "Attached", state |-> TrueState']
             granted == controller = None /\ ~ro
             lease == IF granted THEN <<ToAll(controller_changed(c))>> ELSE <<>>
  <2>1. (clients_changed \in Message)'
    BY ClientsChangedType, PTL
  <2>2. (TrueState \in SharedState)'
    BY TrueStateType, PTL
  <2>3. hello \in Message
    BY <2>2 DEF Message
  <2>4. To(c, hello) \in Envelope /\ ToAll(clients_changed') \in Envelope
    BY <2>1, <2>3, EnvelopeType
  <2>5. ToAll(controller_changed(c)) \in Envelope
    BY ControllerChangedType, EnvelopeType
  <2>6. lease \in Seq(Envelope)
    BY <2>5
  <2>7. Reply(<<To(c, hello), ToAll(clients_changed')>> \o lease)
    BY <1>2 DEF Attach
  <2> HIDE DEF hello, lease
  <2>8. <<To(c, hello), ToAll(clients_changed')>> \o lease \in Seq(Envelope)
    BY <2>4, <2>6
  <2> QED
    BY <2>7, <2>8, ReplyType
<1>3. CASE Disconnect(c) \/ HeartbeatExpire(c)
  BY <1>3, DropType DEF Disconnect, HeartbeatExpire
<1>4. CASE PaneRuntimeChange
  <2>1. <<ToAll(Note("PaneRuntime"))>> \in Seq(Envelope)
    BY NoteType, EnvelopeType
  <2> QED
    BY <1>4, <2>1, ReplyType DEF PaneRuntimeChange
<1> QED
  BY <1>1, <1>2, <1>3, <1>4

\* All ids in the server state are client ids.
LEMMA IdsType == FlagsOK => /\ clients \subseteq ClientId
                            /\ attached \subseteq ClientId
                            /\ Users \subseteq ClientId
BY DEF FlagsOK, Users

\* The innermost response loop of a well-formed stack is a frame.
LEMMA TopType ==
  ASSUME TypeOK, stack # <<>>
  PROVE  /\ top \in Frame
         /\ Tail(stack) \in Seq(Frame)
         /\ Len(Tail(stack)) = Len(stack) - 1
         /\ Len(stack) \in Nat \ {0}
BY DEF TypeOK, top

\* Queueing one message keeps outboxes and stack well formed.
LEMMA SendTypes ==
  ASSUME TypeOK, Send
  PROVE  /\ outbox' \in [ClientId -> Seq(Message)]
         /\ stack' \in Seq(Frame)
         /\ Len(stack') = Len(stack)
<1> DEFINE env  == Head(top.msgs)
           full == {c \in Recipients(env) : Len(outbox[c]) >= MaxBacklog}
           rest == [msgs |-> Tail(top.msgs), slow |-> full]
<1>1. /\ stack # <<>> /\ top.msgs # <<>>
      /\ outbox' = [c \in ClientId |-> IF c \in Recipients(env) \ full
                                      THEN Append(outbox[c], env.msg) ELSE outbox[c]]
      /\ stack' = <<rest>> \o Tail(stack)
  BY DEF Send
<1>2. top.msgs \in Seq(Envelope)
  BY <1>1, TopType DEF Frame
<1>3. env \in Envelope /\ Tail(top.msgs) \in Seq(Envelope)
  BY <1>1, <1>2
<1> HIDE DEF env
<1>4. Recipients(env) \subseteq ClientId
  BY IdsType DEF Recipients, TypeOK
<1>5. rest \in Frame
  BY <1>3, <1>4 DEF Frame
<1>6. env.msg \in Message
  BY <1>3 DEF Envelope
<1> HIDE DEF rest, full
<1>7. outbox' \in [ClientId -> Seq(Message)]
  BY <1>1, <1>6 DEF TypeOK
<1> QED
  BY <1>1, <1>5, <1>7, TopType

\* The end of a response loop keeps the stack well formed.
LEMMA ReturnTypes ==
  ASSUME TypeOK, Return
  PROVE  stack' \in Seq(Frame) /\ Len(stack') = Len(stack) - 1
BY TopType DEF Return

\* What is said of a removal is a well-typed list of responses.
LEMMA DepartureType ==
  ASSUME FlagsOK', PolicyOK', NEW c, NEW held, NEW promoted \in ClientId \cup {None}
  PROVE  Departure(c, held, promoted) \in Seq(Envelope)
<1> DEFINE withdrawn == IF c \in rows THEN <<ToAll(Note("PaneRuntime"))>> ELSE <<>>
           moved == IF held THEN <<ToAll(controller_changed(promoted))>> ELSE <<>>
<1>1. (clients_changed \in Message)'
  BY ClientsChangedType, PTL
<1>2. withdrawn \in Seq(Envelope)
  <2>1. ToAll(Note("PaneRuntime")) \in Envelope
    BY NoteType, EnvelopeType
  <2> QED
    BY <2>1
<1>3. moved \in Seq(Envelope)
  <2>1. ToAll(controller_changed(promoted)) \in Envelope
    BY ControllerChangedType, EnvelopeType
  <2> QED
    BY <2>1
<1>4. <<ToAll(clients_changed')>> \in Seq(Envelope)
  <2>1. ToAll(clients_changed') \in Envelope
    BY <1>1, EnvelopeType
  <2> QED
    BY <2>1
<1>5. Departure(c, held, promoted) = withdrawn \o moved \o <<ToAll(clients_changed')>>
  BY DEF Departure
<1> HIDE DEF withdrawn, moved
<1> QED
  BY <1>2, <1>3, <1>4, <1>5

\* The removal of a slow client pushes at most one loop, over well-typed messages.
LEMMA RemoveSlowTypes ==
  ASSUME TypeOK, LeaseInv, FlagsOK', PolicyOK', RemoveSlow
  PROVE  /\ outbox' \in [ClientId -> Seq(Message)]
         /\ stack' \in Seq(Frame)
         /\ \/ clients' = clients /\ Len(stack') = Len(stack)
            \/ /\ Len(stack') <= Len(stack) + 1
               /\ \E c \in clients : clients' = clients \ {c}
<1> DEFINE c        == CHOOSE s \in top.slow : \A d \in top.slow : s <= d
           promoted == promotion_candidate(Users \ {c})
           caller   == <<[top EXCEPT !.slow = @ \ {c}]>> \o Tail(stack)
           msgs     == RemovalMessages(c, promoted)
           pushed   == [msgs |-> msgs, slow |-> {}]
<1>1. stack # <<>>
  BY DEF RemoveSlow
<1>2. [top EXCEPT !.slow = @ \ {c}] \in Frame
  BY <1>1, TopType DEF Frame
<1>3. caller \in Seq(Frame) /\ Len(caller) = Len(stack)
  BY <1>1, <1>2, TopType
<1>4. \/ /\ c \in clients
         /\ remove_client(c, promoted)
         /\ stack' = IF c \in attached THEN <<pushed>> \o caller ELSE caller
      \/ /\ c \notin clients
         /\ stack' = caller
         /\ UNCHANGED <<clients, outbox>>
  BY DEF RemoveSlow
<1>5. \A S : S \subseteq Users => S \subseteq ClientId
  BY IdsType DEF TypeOK
<1>6. promoted \in ClientId \cup {None}
  BY <1>5, CandidateIsEntitled
<1> HIDE DEF promoted
<1>8. msgs \in Seq(Envelope)
  BY <1>6, DepartureType DEF RemovalMessages
<1> HIDE DEF c, caller, msgs
<1>9. pushed \in Frame
  BY <1>8 DEF Frame
<1> HIDE DEF pushed
<1>10. <<pushed>> \o caller \in Seq(Frame) /\ Len(<<pushed>> \o caller) = Len(stack) + 1
  BY <1>1, <1>3, <1>9, TopType
<1>11. Len(stack) \in Nat
  BY <1>1, TopType
<1>12. outbox' \in [ClientId -> Seq(Message)]
  <2>1. outbox \in [ClientId -> Seq(Message)] /\ <<>> \in Seq(Message)
    BY DEF TypeOK
  <2>2. outbox' = [outbox EXCEPT ![c] = <<>>] \/ outbox' = outbox
    BY <1>4 DEF remove_client
  <2> QED
    BY <2>1, <2>2
<1>13. c \in clients => clients' = clients \ {c}
  BY <1>4 DEF remove_client
<1>14. CASE c \in clients
  <2>1. stack' = <<pushed>> \o caller \/ stack' = caller
    BY <1>4, <1>14
  <2>2. /\ stack' \in Seq(Frame)
        /\ Len(stack') = Len(stack) + 1 \/ Len(stack') = Len(stack)
    BY <1>3, <1>10, <2>1, Zenon
  <2>3. Len(stack') <= Len(stack) + 1
    BY <1>11, <2>2
  <2> QED
    BY <1>12, <1>13, <1>14, <2>2, <2>3
<1>15. CASE c \notin clients
  BY <1>3, <1>4, <1>12, <1>15
<1> QED
  BY <1>14, <1>15

\* A client removed by its own Attached leaves one well-formed response loop.
LEMMA OverflowTypes ==
  ASSUME TypeOK, FlagsOK', PolicyOK', NEW c \in ClientId, NEW ro \in BOOLEAN,
         AttachOverflow(c, ro)
  PROVE  /\ outbox' \in [ClientId -> Seq(Message)]
         /\ stack' \in Seq(Frame) /\ Len(stack') = 1
         /\ UNCHANGED ui
<1> DEFINE held == is_controller(c) \/ (controller = None /\ ~ro)
           promoted == promotion_candidate(Users \ {c})
           msgs == Departure(c, held, promoted)
<1>1. /\ remove_client(c, promoted) /\ UNCHANGED ui
      /\ stack' = <<[msgs |-> msgs, slow |-> {}]>>
  BY DEF AttachOverflow
<1>2. promoted \in ClientId \cup {None}
  <2>1. Users \ {c} \subseteq ClientId
    BY IdsType DEF TypeOK
  <2> QED
    BY <2>1, CandidateIsEntitled
<1> HIDE DEF promoted, held
<1>3. msgs \in Seq(Envelope)
  BY <1>2, DepartureType
<1> HIDE DEF msgs
<1>4. [msgs |-> msgs, slow |-> {}] \in Frame
  BY <1>3 DEF Frame
<1>5. outbox' \in [ClientId -> Seq(Message)]
  <2>1. outbox \in [ClientId -> Seq(Message)] /\ <<>> \in Seq(Message)
    BY DEF TypeOK
  <2>2. outbox' = [outbox EXCEPT ![c] = <<>>]
    BY <1>1 DEF remove_client
  <2> QED
    BY <2>1, <2>2
<1> QED
  BY <1>1, <1>4, <1>5

\* The responses of the interrupted handle_attach are well typed.
LEMMA AttachRepliesTypes ==
  ASSUME TypeOK, PolicyOK, AttachReplies
  PROVE  stack' \in Seq(Frame) /\ Len(stack') = 1
<1> DEFINE moved == IF attaching = "granted"
                    THEN <<ToAll(controller_changed(controller))>> ELSE <<>>
<1>1. ToAll(clients_changed) \in Envelope
  BY ClientsChangedType, EnvelopeType DEF TypeOK
<1>2. ToAll(controller_changed(controller)) \in Envelope
  BY ControllerChangedType, EnvelopeType DEF TypeOK, FlagsOK
<1>3. moved \in Seq(Envelope) /\ <<ToAll(clients_changed)>> \in Seq(Envelope)
  BY <1>1, <1>2
<1>4. Reply(<<ToAll(clients_changed)>> \o moved)
  BY DEF AttachReplies
<1> HIDE DEF moved
<1>5. <<ToAll(clients_changed)>> \o moved \in Seq(Envelope)
  BY <1>3
<1> QED
  BY <1>4, <1>5, ReplyType

\* What a delivered message leaves in the client's view.
LEMMA DeliveryTypes ==
  ASSUME TypeOK, NEW c \in ClientId, NEW m \in Message
  PROVE  /\ ViewAfter(c, m) \in SharedState
         /\ DragAfter(c, m) \in ClientId \cup {None}
<1>1. view[c] \in SharedState /\ remote_drag[c] \in ClientId \cup {None}
  BY DEF TypeOK
<1>2. /\ m.type = "Attached" => m.state \in SharedState
      /\ m.type = "ControllerChanged" => m.controller \in ClientId \cup {None}
      /\ m.type = "ClientsChanged" => /\ m.clients \in SUBSET ClientInfo
                                      /\ m.input_locked \in BOOLEAN
                                      /\ m.allow_takeover \in BOOLEAN
      /\ m.type = "DragChanged" => m.author \in ClientId
  BY DEF Message
<1>3. ViewAfter(c, m) \in SharedState
  BY <1>1, <1>2 DEF ViewAfter, SharedState
<1>4. DragAfter(c, m) \in ClientId \cup {None}
  BY <1>1, <1>2 DEF DragAfter
<1> QED
  BY <1>3, <1>4

\* Writing a frame to a socket keeps outboxes, views and stack well formed.
LEMMA FlushTypes ==
  ASSUME TypeOK, NEW c \in ClientId, Flush(c)
  PROVE  /\ outbox' \in [ClientId -> Seq(Message)]
         /\ view' \in [ClientId -> SharedState]
         /\ remote_drag' \in [ClientId -> ClientId \cup {None}]
         /\ stack' \in Seq(Frame)
         /\ stack' = stack \/ Len(stack') = 1
<1>1. outbox \in [ClientId -> Seq(Message)] /\ outbox[c] # <<>>
  BY DEF Flush, TypeOK
<1>2. Head(outbox[c]) \in Message /\ Tail(outbox[c]) \in Seq(Message)
  BY <1>1
<1>3. /\ ViewAfter(c, Head(outbox[c])) \in SharedState
      /\ DragAfter(c, Head(outbox[c])) \in ClientId \cup {None}
  BY <1>2, DeliveryTypes
<1>4. outbox' = [outbox EXCEPT ![c] = Tail(outbox[c])]
  BY DEF Flush
<1>5. outbox' \in [ClientId -> Seq(Message)]
  BY <1>1, <1>2, <1>4
<1>6. view' \in [ClientId -> SharedState]
  BY <1>3 DEF Flush, TypeOK
<1>7. remote_drag' \in [ClientId -> ClientId \cup {None}]
  BY <1>3 DEF Flush, TypeOK
<1>8. Drop(c) \/ stack' = stack
  BY DEF Flush
<1>9. stack' \in Seq(Frame) /\ (stack' = stack \/ Len(stack') = 1)
  BY <1>8, DropType DEF TypeOK
<1> QED
  BY <1>5, <1>6, <1>7, <1>9

-----------------------------------------------------------------------------
(* Type correctness. *)

\* The input lock and the takeover policy stay Boolean.
LEMMA PolicyStep ==
  ASSUME PolicyOK, [Next]_vars
  PROVE  PolicyOK'
<1>1. CASE \/ UNCHANGED vars \/ Accept \/ PaneRuntimeChange \/ Send \/ RemoveSlow
           \/ Return \/ AttachReplies
  BY <1>1 DEF PolicyOK, vars, policy, Accept, PaneRuntimeChange, Send, RemoveSlow, Return,
     AttachReplies
<1>2. ASSUME NEW c \in ClientId, Request(c)
      PROVE  PolicyOK'
  <2>1. ASSUME NEW on \in BOOLEAN,
               SetControlTakeover(c, on) \/ SetInputLock(c, on) \/ Drag(c, on)
        PROVE  PolicyOK'
    BY <2>1 DEF PolicyOK, policy, SetControlTakeover, SetInputLock, Drag
  <2>2. ASSUME NEW to \in ClientId,
               GrantControl(c, to) \/ DeclineControl(c, to) \/ EvictClient(c, to)
        PROVE  PolicyOK'
    BY <2>2 DEF PolicyOK, policy, GrantControl, DeclineControl, EvictClient
  <2>3. CASE \/ RequestControl(c) \/ Park(c) \/ Unpark(c) \/ Detach(c)
             \/ ReportPaneRows(c)
    BY <2>3 DEF PolicyOK, policy, RequestControl, Park, Unpark, Detach, ReportPaneRows
  <2> QED
    BY <1>2, <2>1, <2>2, <2>3 DEF Request
<1>3. ASSUME NEW c \in ClientId,
             \/ AttachRefused(c) \/ \E ro \in BOOLEAN : Attach(c, ro) \/ AttachOverflow(c, ro)
             \/ Disconnect(c) \/ HeartbeatExpire(c) \/ Flush(c)
      PROVE  PolicyOK'
  BY <1>3 DEF PolicyOK, policy, AttachRefused, Attach, AttachOverflow, Disconnect,
     HeartbeatExpire, Flush
<1> QED
  BY <1>1, <1>2, <1>3 DEF Next

\* The interrupted handle_attach is one of the kinds there are.
LEMMA AttachingStep ==
  ASSUME attaching \in {"none", "attached", "granted"}, [Next]_vars
  PROVE  attaching' \in {"none", "attached", "granted"}
<1>1. CASE UNCHANGED vars
  BY <1>1 DEF vars
<1>2. CASE Accept \/ PaneRuntimeChange \/ Send \/ RemoveSlow \/ Return \/ AttachReplies
  BY <1>2 DEF Accept, PaneRuntimeChange, Send, RemoveSlow, Return, AttachReplies, Reply
<1>3. ASSUME NEW c \in ClientId, Request(c)
      PROVE  attaching' \in {"none", "attached", "granted"}
  <2>1. attaching' = "none"
    BY <1>3 DEF Request, RequestControl, Park, Unpark, Detach, ReportPaneRows, GrantControl,
       DeclineControl, EvictClient, SetControlTakeover, SetInputLock, Drag,
       assign_controller, release_controller, Reply, Drop
  <2> QED
    BY <2>1
<1>4. ASSUME NEW c \in ClientId, NEW ro \in BOOLEAN,
             \/ AttachRefused(c) \/ Attach(c, ro) \/ AttachOverflow(c, ro)
             \/ Disconnect(c) \/ HeartbeatExpire(c) \/ Flush(c)
      PROVE  attaching' \in {"none", "attached", "granted"}
  BY <1>4 DEF AttachRefused, Attach, AttachOverflow, Disconnect, HeartbeatExpire, Flush,
     Reply, Drop
<1> QED
  BY <1>1, <1>2, <1>3, <1>4 DEF Next

\* A step that starts a response loop leaves outboxes and views alone.
LEMMA LoopStartTypes ==
  ASSUME TypeOK, FlagsOK', PolicyOK', stack' \in Seq(Frame), UNCHANGED <<outbox, ui>>,
         attaching' \in {"none", "attached", "granted"}
  PROVE  TypeOK'
BY DEF TypeOK, PolicyOK, ui

\* Every step keeps the types.
LEMMA TypeStep ==
  ASSUME TypeOK, LeaseInv, [Next]_vars
  PROVE  TypeOK'
<1>1. FlagsOK'
  BY LeaseInvStep DEF LeaseInv
<1>2. PolicyOK'
  BY PolicyStep DEF TypeOK, PolicyOK
<1>a. attaching' \in {"none", "attached", "granted"}
  BY AttachingStep DEF TypeOK
<1>3. CASE UNCHANGED vars \/ Accept
  BY <1>a, <1>1, <1>2, <1>3, LoopStartTypes DEF vars, Accept, TypeOK
<1>4. CASE PaneRuntimeChange
  <2>1. <<ToAll(Note("PaneRuntime"))>> \in Seq(Envelope)
    <3>1. ToAll(Note("PaneRuntime")) \in Envelope
      BY NoteType, EnvelopeType
    <3> QED
      BY <3>1
  <2>2. Reply(<<ToAll(Note("PaneRuntime"))>>) /\ UNCHANGED <<outbox, ui>>
    BY <1>4 DEF PaneRuntimeChange
  <2>3. stack' \in Seq(Frame)
    BY <2>1, <2>2, ReplyType
  <2> QED
    BY <1>a, <1>1, <1>2, <2>2, <2>3, LoopStartTypes
<1>5. CASE Send
  BY <1>a, <1>1, <1>2, <1>5, SendTypes DEF Send, TypeOK, PolicyOK, ui
<1>6. CASE RemoveSlow
  BY <1>a, <1>1, <1>2, <1>6, RemoveSlowTypes DEF RemoveSlow, TypeOK, PolicyOK, ui
<1>7. CASE Return
  BY <1>a, <1>1, <1>2, <1>7, ReturnTypes, LoopStartTypes DEF Return
<1>8. ASSUME NEW c \in ClientId, Request(c)
      PROVE  TypeOK'
  <2>1. UNCHANGED <<outbox, ui>>
    BY <1>8 DEF Request, RequestControl, Park, Unpark, Detach, ReportPaneRows, GrantControl,
       DeclineControl, EvictClient, SetControlTakeover, SetInputLock, Drag
  <2> QED
    BY <1>a, <1>1, <1>2, <1>8, <2>1, RequestLoop, LoopStartTypes
<1>9. ASSUME NEW c \in ClientId,
             \/ AttachRefused(c) \/ \E ro \in BOOLEAN : Attach(c, ro)
             \/ Disconnect(c) \/ HeartbeatExpire(c)
      PROVE  TypeOK'
  <2>1. UNCHANGED <<outbox, ui>>
    BY <1>9 DEF AttachRefused, Attach, Disconnect, HeartbeatExpire
  <2> QED
    BY <1>a, <1>1, <1>2, <1>9, <2>1, ConnectionLoop, LoopStartTypes
<1>10. ASSUME NEW c \in ClientId, Flush(c)
       PROVE  TypeOK'
  BY <1>a, <1>1, <1>2, <1>10, FlushTypes DEF TypeOK, PolicyOK
<1>11. ASSUME NEW c \in ClientId, NEW ro \in BOOLEAN, AttachOverflow(c, ro)
       PROVE  TypeOK'
  BY <1>a, <1>1, <1>2, <1>11, OverflowTypes DEF TypeOK, PolicyOK, ui
<1>12. CASE AttachReplies
  <2>1. UNCHANGED <<outbox, ui>>
    BY <1>12 DEF AttachReplies
  <2> QED
    BY <1>a, <1>1, <1>2, <1>12, <2>1, AttachRepliesTypes, LoopStartTypes DEF TypeOK, PolicyOK
<1> QED
  BY <1>3, <1>4, <1>5, <1>6, <1>7, <1>8, <1>9, <1>10, <1>11, <1>12 DEF Next

\* The initial state has the types.
LEMMA InitTypes ==
  ASSUME Init
  PROVE  TypeOK /\ LeaseInv
<1>1. LeaseInv
  BY DEF Init, LeaseInv, FlagsOK, LeaseHeldByUser, LeaseNotIdle, NoSelfRequest, Users
<1>2. NoView \in SharedState
  BY DEF NoView, SharedState
<1>3. /\ outbox \in [ClientId -> Seq(Message)] /\ stack \in Seq(Frame)
      /\ attaching \in {"none", "attached", "granted"}
  BY DEF Init
<1>4. view \in [ClientId -> SharedState] /\ remote_drag \in [ClientId -> ClientId \cup {None}]
  BY <1>2 DEF Init
<1>5. input_locked \in BOOLEAN /\ allow_takeover \in BOOLEAN
  BY DEF Init
<1> QED
  BY <1>1, <1>3, <1>4, <1>5 DEF TypeOK, LeaseInv

\* Every message queued, every response loop and every client's view stays well
\* typed, and a removal leaves no flag of the removed client behind.
THEOREM TypeCorrect == Spec => []TypeOK
<1>1. Init => TypeOK /\ LeaseInv
  BY InitTypes
<1>2. TypeOK /\ LeaseInv /\ [Next]_vars => TypeOK' /\ LeaseInv'
  BY TypeStep, LeaseInvStep
<1> QED
  BY <1>1, <1>2, PTL DEF Spec

-----------------------------------------------------------------------------
(* The recursion of removals. *)

\* The set of clients is finite and no larger than the number of accepted connections.
LEMMA ClientsFinite ==
  FlagsOK => /\ IsFiniteSet(clients)
             /\ Cardinality(clients) \in Nat
             /\ Cardinality(clients) <= next_client_id - 1
<1> SUFFICES ASSUME FlagsOK
             PROVE  /\ IsFiniteSet(clients)
                    /\ Cardinality(clients) \in Nat
                    /\ Cardinality(clients) <= next_client_id - 1
  OBVIOUS
<1> DEFINE ids == 1 .. next_client_id - 1
<1>1. next_client_id \in Nat \ {0} /\ clients \in SUBSET ids
  BY DEF FlagsOK
<1>2. IsFiniteSet(ids) /\ Cardinality(ids) = next_client_id - 1
  BY <1>1, FS_Interval
<1> HIDE DEF ids
<1>3. IsFiniteSet(clients) /\ Cardinality(clients) <= Cardinality(ids)
  BY <1>1, <1>2, FS_Subset
<1> QED
  BY <1>2, <1>3, FS_CardinalityType

\* A loop started from the event loop itself is not nested in any other.
LEMMA OutermostLoop ==
  ASSUME FlagsOK', Len(stack') \in 0 .. 1
  PROVE  RecursionBounded'
<1>1. (Cardinality(clients) \in Nat /\ Cardinality(clients) <= next_client_id - 1)'
  BY ClientsFinite, PTL
<1>2. next_client_id' \in Nat
  BY DEF FlagsOK
<1> QED
  <2> DEFINE n == Cardinality(clients')
             l == Len(stack')
             k == next_client_id'
  <2>1. n \in Nat /\ n <= k - 1 /\ l \in 0 .. 1 /\ k \in Nat
    BY <1>1, <1>2
  <2> HIDE DEF n, l, k
  <2>2. l + n <= k
    BY <2>1
  <2> QED
    BY <2>2 DEF RecursionBounded, n, l, k

\* Every step keeps the bound on the nesting of removals.
LEMMA RecursionStep ==
  ASSUME TypeOK, LeaseInv, RecursionBounded, [Next]_vars
  PROVE  RecursionBounded'
<1>1. FlagsOK' /\ FlagsOK
  BY LeaseInvStep DEF LeaseInv
<1>2. PolicyOK'
  BY PolicyStep DEF TypeOK, PolicyOK
<1>3. /\ IsFiniteSet(clients) /\ Cardinality(clients) \in Nat
      /\ next_client_id \in Nat /\ Len(stack) \in Nat
  BY <1>1, ClientsFinite DEF FlagsOK, TypeOK
<1>4. CASE UNCHANGED vars
  BY <1>4 DEF vars, conns, RecursionBounded
<1>5. CASE Accept
  BY <1>1, <1>5, OutermostLoop DEF Accept, Serving, Idle
<1>6. CASE PaneRuntimeChange
  <2>1. <<ToAll(Note("PaneRuntime"))>> \in Seq(Envelope)
    BY NoteType, EnvelopeType
  <2> QED
    <3>1. Len(stack') = 1
      BY <1>6, <2>1, ReplyType DEF PaneRuntimeChange
    <3> QED
      BY <1>1, <3>1, OutermostLoop
<1>7. CASE Send
  BY <1>7, SendTypes DEF Send, conns, RecursionBounded
<1>8. CASE RemoveSlow
  <2>1. next_client_id' = next_client_id
    BY <1>8 DEF RemoveSlow
  <2>2. CASE clients' = clients /\ Len(stack') = Len(stack)
    BY <2>1, <2>2 DEF RecursionBounded
  <2>3. ASSUME NEW c \in clients, clients' = clients \ {c}, stack' \in Seq(Frame),
               Len(stack') <= Len(stack) + 1
        PROVE  RecursionBounded'
    <3>1. Cardinality(clients') = Cardinality(clients) - 1
      BY <1>3, <2>3, FS_RemoveElement
    <3>2. Len(stack') \in Nat
      BY <2>3
    <3> QED
      BY <1>3, <2>1, <2>3, <3>1, <3>2 DEF RecursionBounded
  <2> QED
    BY <1>1, <1>2, <1>8, <2>2, <2>3, RemoveSlowTypes
<1>9. CASE Return
  BY <1>3, <1>9, ReturnTypes DEF Return, conns, RecursionBounded
<1>10. ASSUME NEW c \in ClientId, Request(c)
       PROVE  RecursionBounded'
  BY <1>1, <1>2, <1>10, RequestLoop, OutermostLoop
<1>11. ASSUME NEW c \in ClientId,
             \/ AttachRefused(c) \/ \E ro \in BOOLEAN : Attach(c, ro)
             \/ Disconnect(c) \/ HeartbeatExpire(c)
       PROVE  RecursionBounded'
  <2>1. Len(stack') = 1
    BY <1>1, <1>2, <1>11, ConnectionLoop
  <2> QED
    BY <1>1, <2>1, OutermostLoop
<1>12. ASSUME NEW c \in ClientId, Flush(c)
       PROVE  RecursionBounded'
  <2>1. CASE stack' = stack
    BY <1>12, <2>1 DEF Flush, conns, RecursionBounded
  <2>2. CASE Len(stack') = 1
    BY <1>1, <2>2, OutermostLoop
  <2> QED
    BY <1>12, <2>1, <2>2, FlushTypes
<1>13. ASSUME NEW c \in ClientId, NEW ro \in BOOLEAN, AttachOverflow(c, ro)
       PROVE  RecursionBounded'
  BY <1>1, <1>2, <1>13, OverflowTypes, OutermostLoop
<1>14. CASE AttachReplies
  BY <1>1, <1>14, AttachRepliesTypes, OutermostLoop DEF TypeOK, PolicyOK
<1> QED
  BY <1>4, <1>5, <1>6, <1>7, <1>8, <1>9, <1>10, <1>11, <1>12, <1>13, <1>14 DEF Next

\* remove_client broadcasts, a broadcast may remove further clients, and so on:
\* the nesting is bounded by the clients removed so far, for every number of
\* clients and every backlog limit.
THEOREM RecursionSafe == Spec => []RecursionBounded
<1>1. Init => TypeOK /\ LeaseInv /\ RecursionBounded
  <2>1. Init => RecursionBounded
    BY FS_EmptySet DEF Init, RecursionBounded
  <2> QED
    BY <2>1, InitTypes
<1>2. TypeOK /\ LeaseInv /\ RecursionBounded /\ [Next]_vars
        => TypeOK' /\ LeaseInv' /\ RecursionBounded'
  BY TypeStep, LeaseInvStep, RecursionStep
<1> QED
  BY <1>1, <1>2, PTL DEF Spec
-----------------------------------------------------------------------------
(* Drags and the lease. *)

(***************************************************************************)
(* A pane lifted by a client that has lost the lease is put down again by  *)
(* the next Attached or ControllerChanged the client takes in.  That a     *)
(* drained client holds none therefore rests on what is still on its way:  *)
(* a clearing message behind the drag in its outbox, an announcement in    *)
(* some response loop, or its own removal.                                 *)
(***************************************************************************)

Moves(m) == m.type \in {"Attached", "ControllerChanged"}

Clears(c, i) == \E j \in DOMAIN outbox[c] : j > i /\ Moves(outbox[c][j])

\* Every stale drag the client shows or has queued is followed by its clearing.
Settled(c) ==
  /\ remote_drag[c] \in {None, controller} \/ Clears(c, 0)
  /\ \A i \in DOMAIN outbox[c] :
       outbox[c][i].type = "DragChanged" => outbox[c][i].author = controller \/ Clears(c, i)

\* Some response loop has yet to tell everyone who the controller is.
Tells(env) == env.to = Everyone /\ env.msg.type = "ControllerChanged"
Announced ==
  \E i \in DOMAIN stack : \E k \in DOMAIN stack[i].msgs : Tells(stack[i].msgs[k])

\* The client is about to be removed as slow.
Doomed(c) == \E i \in DOMAIN stack : c \in stack[i].slow

DragsSettled == \A c \in attached : Announced \/ Doomed(c) \/ Settled(c)

\* A drag is relayed by a response loop of its own, while its author controls.
DragsAlone ==
  \A i \in DOMAIN stack : \A k \in DOMAIN stack[i].msgs :
    stack[i].msgs[k].msg.type = "DragChanged" =>
      /\ Len(stack) = 1 /\ stack[i].slow = {} /\ Len(stack[i].msgs) = 1
      /\ stack[i].msgs[k].to = Everyone /\ stack[i].msgs[k].msg.author = controller

\* A client that may still attach has seen no drag.
NoDragYet ==
  \A c \in ClientId \ attached : c \in clients \/ c >= next_client_id =>
    /\ remote_drag[c] = None
    /\ \A i \in DOMAIN outbox[c] : outbox[c][i].type # "DragChanged"

DragInv == DragsSettled /\ DragsAlone /\ NoDragYet

\* What a list of responses does to the drags.
NoDrag(msgs) == \A k \in DOMAIN msgs : msgs[k].msg.type # "DragChanged"
TellsIn(msgs) == \E k \in DOMAIN msgs : Tells(msgs[k])

\* A list of responses tells, or relays a drag, when one of its parts does.
LEMMA ConcatLoop ==
  ASSUME NEW s \in Seq(Envelope), NEW t \in Seq(Envelope)
  PROVE  /\ NoDrag(s) /\ NoDrag(t) => NoDrag(s \o t)
         /\ TellsIn(s) \/ TellsIn(t) => TellsIn(s \o t)
<1>1. \A k \in DOMAIN (s \o t) :
        \/ k \in DOMAIN s /\ (s \o t)[k] = s[k]
        \/ k - Len(s) \in DOMAIN t /\ (s \o t)[k] = t[k - Len(s)]
  OBVIOUS
<1>2. \A k \in DOMAIN s : k \in DOMAIN (s \o t) /\ (s \o t)[k] = s[k]
  OBVIOUS
<1>3. \A k \in DOMAIN t : k + Len(s) \in DOMAIN (s \o t) /\ (s \o t)[k + Len(s)] = t[k]
  OBVIOUS
<1> DEFINE u == s \o t
<1> HIDE DEF u
<1>4. NoDrag(s) /\ NoDrag(t) => NoDrag(u)
  BY <1>1 DEF NoDrag, u
<1>5. TellsIn(s) => TellsIn(u)
  BY <1>2 DEF TellsIn, u
<1>6. TellsIn(t) => TellsIn(u)
  BY <1>3 DEF TellsIn, u
<1> QED
  BY <1>4, <1>5, <1>6 DEF u

\* Short lists of responses, put together.
LEMMA ShortLists ==
  ASSUME NEW a, NEW b, NEW d
  PROVE  <<a>> \o <<b>> = <<a, b>> /\ <<a, b>> \o <<d>> = <<a, b, d>>
<1> DEFINE S == {a, b, d}
<1>1. /\ <<a>> \in Seq(S) /\ <<b>> \in Seq(S) /\ <<d>> \in Seq(S)
      /\ <<a, b>> \in Seq(S) /\ <<a, b, d>> \in Seq(S)
  OBVIOUS
<1>2. <<a>> \o <<b>> = <<a, b>>
  <2> DEFINE s == <<a>> \o <<b>>
             t == <<a, b>>
  <2>1. s \in Seq(S) /\ Len(s) = 2 /\ s[1] = a /\ s[2] = b
    BY <1>1
  <2>2. t \in Seq(S) /\ Len(t) = 2 /\ t[1] = a /\ t[2] = b
    BY <1>1
  <2> HIDE DEF s, t, S
  <2>3. \A i \in 1 .. Len(s) : s[i] = t[i]
    BY <2>1, <2>2
  <2>4. s = t
    BY <2>1, <2>2, <2>3, SeqEqual
  <2> QED
    BY <2>4 DEF s, t
<1>3. <<a, b>> \o <<d>> = <<a, b, d>>
  <2> DEFINE s == <<a, b>> \o <<d>>
             t == <<a, b, d>>
  <2>1. s \in Seq(S) /\ Len(s) = 3 /\ s[1] = a /\ s[2] = b /\ s[3] = d
    BY <1>1
  <2>2. t \in Seq(S) /\ Len(t) = 3 /\ t[1] = a /\ t[2] = b /\ t[3] = d
    BY <1>1
  <2> HIDE DEF s, t, S
  <2>3. \A i \in 1 .. Len(s) : s[i] = t[i]
    BY <2>1, <2>2
  <2>4. s = t
    BY <2>1, <2>2, <2>3, SeqEqual
  <2> QED
    BY <2>4 DEF s, t
<1> QED
  BY <1>2, <1>3

\* The usual responses relay no drag; a change of controller is told to everyone.
LEMMA UsualMessages ==
  /\ NoDrag(<<>>)
  /\ \A d, e : /\ NoDrag(<<ToAll(controller_changed(d)), ToAll(e)>>) <=> e.type # "DragChanged"
               /\ TellsIn(<<ToAll(controller_changed(d)), ToAll(e)>>)
               /\ NoDrag(<<ToAll(controller_changed(d))>>)
               /\ TellsIn(<<ToAll(controller_changed(d))>>)
  /\ \A e : NoDrag(<<ToAll(e)>>) <=> e.type # "DragChanged"
  /\ \A d, e : NoDrag(<<To(d, e)>>) <=> e.type # "DragChanged"
  /\ \A d, e, f : /\ NoDrag(<<ToAll(e), To(d, f)>>) <=> e.type # "DragChanged" /\ f.type # "DragChanged"
                  /\ NoDrag(<<To(d, f), ToAll(e)>>) <=> e.type # "DragChanged" /\ f.type # "DragChanged"
BY DEF NoDrag, TellsIn, Tells, ToAll, To, controller_changed, Everyone

\* Responses that leave the lease alone, or announce its move, keep the drags in
\* order.
LEMMA ReplyDrags ==
  ASSUME DragInv, stack = <<>>, NEW msgs, Reply(msgs), NoDrag(msgs),
         UNCHANGED <<outbox, ui, next_client_id, clients>>,
         attached \subseteq attached', attached' \subseteq attached \cup clients,
         attached' \subseteq ClientId,
         controller' = controller \/ TellsIn(msgs)
  PROVE  DragInv'
<1>2. /\ DOMAIN stack' = {1}
      /\ stack'[1].msgs = msgs /\ stack'[1].slow = {}
  BY DEF Reply
<1>3. DragsAlone'
  BY <1>2 DEF DragsAlone, NoDrag
<1>4. NoDragYet'
  BY DEF DragInv, NoDragYet, ui
<1>5. ASSUME controller' = controller
      PROVE  DragsSettled'
  <2>1. \A c \in attached : Settled(c)
    BY DEF DragInv, DragsSettled, Announced, Doomed
  <2>2. \A c \in attached : Settled(c)'
    BY <1>5, <2>1 DEF Settled, Clears, ui
  <2>3. \A c \in attached' \ attached : Settled(c)'
    BY DEF DragInv, NoDragYet, Settled, ui
  <2> QED
    BY <2>2, <2>3 DEF DragsSettled
<1>6. ASSUME TellsIn(msgs)
      PROVE  DragsSettled'
  <2>1. Announced'
    BY <1>2, <1>6 DEF TellsIn, Announced
  <2> QED
    BY <2>1 DEF DragsSettled
<1> QED
  BY <1>3, <1>4, <1>5, <1>6 DEF DragInv

\* The same of a handler of the idle server.
LEMMA LoopStartDrags ==
  ASSUME DragInv, Idle, NEW msgs, Reply(msgs), NoDrag(msgs),
         UNCHANGED <<outbox, ui, next_client_id, clients>>,
         attached \subseteq attached', attached' \subseteq attached \cup clients,
         attached' \subseteq ClientId,
         controller' = controller \/ TellsIn(msgs)
  PROVE  DragInv'
BY ReplyDrags DEF Idle

\* What is said of a removal lifts no pane, and names the new holder if it has to.
LEMMA DepartureDrags ==
  ASSUME FlagsOK', PolicyOK', NEW c, NEW held \in BOOLEAN, NEW promoted \in ClientId \cup {None},
         NEW msgs, msgs = Departure(c, held, promoted)
  PROVE  msgs \in Seq(Envelope) /\ NoDrag(msgs) /\ (held => TellsIn(msgs))
<1> DEFINE withdrawn == IF c \in rows THEN <<ToAll(Note("PaneRuntime"))>> ELSE <<>>
           moved == IF held THEN <<ToAll(controller_changed(promoted))>> ELSE <<>>
           roster == <<ToAll(clients_changed')>>
<1>1. withdrawn \in Seq(Envelope) /\ NoDrag(withdrawn)
  <2>1. ToAll(Note("PaneRuntime")) \in Envelope /\ Note("PaneRuntime").type # "DragChanged"
    BY NoteType, EnvelopeType DEF Note
  <2> QED
    BY <2>1, UsualMessages
<1>2. moved \in Seq(Envelope) /\ NoDrag(moved) /\ (held => TellsIn(moved))
  <2>1. ToAll(controller_changed(promoted)) \in Envelope
    BY ControllerChangedType, EnvelopeType
  <2>2. CASE held
    <3>1. moved = <<ToAll(controller_changed(promoted))>>
      BY <2>2
    <3> DEFINE told == <<ToAll(controller_changed(promoted))>>
    <3>2. told \in Seq(Envelope)
      BY <2>1
    <3>3. NoDrag(told) /\ TellsIn(told)
      BY UsualMessages
    <3> HIDE DEF told
    <3>4. moved = told
      BY <3>1 DEF told
    <3> HIDE DEF moved
    <3> QED
      BY <3>2, <3>3, <3>4
  <2>3. CASE ~ held
    <3>1. moved = <<>>
      BY <2>3
    <3> QED
      BY <2>3, <3>1, UsualMessages
  <2> QED
    BY <2>2, <2>3
<1>3. roster \in Seq(Envelope) /\ NoDrag(roster)
  <2>1. (clients_changed \in Message)'
    BY ClientsChangedType, PTL
  <2>2. clients_changed'.type # "DragChanged"
    BY DEF clients_changed
  <2>3. ToAll(clients_changed') \in Envelope
    BY <2>1, EnvelopeType
  <2> QED
    BY <2>2, <2>3, UsualMessages
<1>4. msgs = (withdrawn \o moved) \o roster
  BY DEF Departure
<1> HIDE DEF withdrawn, moved, roster
<1>5. withdrawn \o moved \in Seq(Envelope) /\ (withdrawn \o moved) \o roster \in Seq(Envelope)
  BY <1>1, <1>2, <1>3
<1> QED
  BY <1>1, <1>2, <1>3, <1>4, <1>5, ConcatLoop

\* Starting the removal of a client changes no drag.
LEMMA DropDrags ==
  ASSUME DragInv, Idle, NEW d, Drop(d), UNCHANGED <<outbox, ui, conns, controller>>
  PROVE  DragInv'
<1>1. stack = <<>>
  BY DEF Idle
<1>2. /\ DOMAIN stack' = {1}
      /\ stack'[1].msgs = <<>> /\ stack'[1].slow = {d}
  BY DEF Drop
<1>3. DragsAlone'
  BY <1>2 DEF DragsAlone
<1>4. NoDragYet'
  BY DEF DragInv, NoDragYet, ui, conns
<1>5. \A c \in attached : Settled(c)
  BY <1>1 DEF DragInv, DragsSettled, Announced, Doomed
<1>6. \A c \in attached : Settled(c)'
  BY <1>5 DEF Settled, Clears, ui
<1> QED
  BY <1>3, <1>4, <1>6 DEF DragInv, DragsSettled, conns

\* The requests of an attached client keep the drags in order.
LEMMA RequestDrags ==
  ASSUME TypeOK, LeaseInv, DragInv, NEW c \in ClientId, Request(c)
  PROVE  DragInv'
<1>1. UNCHANGED <<outbox, ui, next_client_id, clients, attached>>
  BY DEF Request, RequestControl, Park, Unpark, Detach, ReportPaneRows, GrantControl,
     DeclineControl, EvictClient, SetControlTakeover, SetInputLock, Drag, conns
<1>2. attached \subseteq ClientId
  BY IdsType DEF TypeOK
<1>3. Idle
  BY DEF Request, RequestControl, Park, Unpark, Detach, ReportPaneRows, GrantControl,
     DeclineControl, EvictClient, SetControlTakeover, SetInputLock, Drag, Serving
<1>4. ASSUME NEW msgs, Reply(msgs), NoDrag(msgs), controller' = controller \/ TellsIn(msgs)
      PROVE  DragInv'
  BY <1>1, <1>2, <1>3, <1>4, LoopStartDrags
<1>5. clients_changed'.type = "ClientsChanged"
  BY DEF clients_changed
<1>6. ASSUME NEW to, assign_controller(to)
      PROVE  DragInv'
  <2>1. Reply(<<ToAll(controller_changed(to)), ToAll(clients_changed')>>)
    BY <1>6 DEF assign_controller
  <2> QED
    BY <1>4, <1>5, <2>1, UsualMessages
<1>7. CASE Reply(<<ToAll(clients_changed')>>) /\ controller' = controller
  BY <1>4, <1>5, <1>7, UsualMessages
<1>8. \A t \in {"ControlRequested", "ControlDeclined", "Error", "PaneRuntime"} :
        Note(t).type # "DragChanged"
  BY DEF Note
<1>9. CASE RequestControl(c)
  <2>1. CASE TakesAtOnce
    BY <1>6, <1>9, <2>1 DEF RequestControl
  <2>2. CASE ~TakesAtOnce /\ c \in requesting_control
    <3>1. Reply(<<>> \o <<To(controller, Note("ControlRequested"))>>)
      BY <1>9, <2>2 DEF RequestControl
    <3>2. <<>> \o <<To(controller, Note("ControlRequested"))>>
            = <<To(controller, Note("ControlRequested"))>>
      OBVIOUS
    <3>3. Reply(<<To(controller, Note("ControlRequested"))>>) /\ controller' = controller
      BY <1>9, <2>2, <3>1, <3>2 DEF RequestControl
    <3> QED
      BY <1>4, <1>8, <3>3, UsualMessages
  <2>3. CASE ~TakesAtOnce /\ c \notin requesting_control
    <3>1. Reply(<<ToAll(clients_changed')>> \o <<To(controller, Note("ControlRequested"))>>)
      BY <1>9, <2>3 DEF RequestControl
    <3>2. <<ToAll(clients_changed')>> \o <<To(controller, Note("ControlRequested"))>>
            = <<ToAll(clients_changed'), To(controller, Note("ControlRequested"))>>
      BY ShortLists
    <3>3. /\ Reply(<<ToAll(clients_changed'), To(controller, Note("ControlRequested"))>>)
          /\ controller' = controller
      BY <1>9, <2>3, <3>1, <3>2 DEF RequestControl
    <3> QED
      BY <1>4, <1>5, <1>8, <3>3, UsualMessages
  <2> QED
    BY <2>1, <2>2, <2>3
<1>10. CASE Park(c)
  <2>1. CASE is_controller(c)
    <3> DEFINE to == promotion_candidate(Users \ {c})
    <3>1. Reply(<<ToAll(controller_changed(to)), ToAll(clients_changed')>>)
      BY <1>10, <2>1 DEF Park, release_controller
    <3> HIDE DEF to
    <3> QED
      BY <1>4, <1>5, <3>1, UsualMessages
  <2>2. CASE ~is_controller(c)
    BY <1>7, <1>10, <2>2 DEF Park
  <2> QED
    BY <2>1, <2>2
<1>11. CASE Unpark(c)
  BY <1>6, <1>7, <1>11 DEF Unpark
<1>12. CASE Detach(c)
  BY <1>3, <1>12, DropDrags DEF Detach
<1>13. CASE ReportPaneRows(c)
  BY <1>4, <1>8, <1>13, UsualMessages DEF ReportPaneRows
<1>14. ASSUME NEW to \in ClientId, GrantControl(c, to)
       PROVE  DragInv'
  BY <1>6, <1>14 DEF GrantControl
<1>15. ASSUME NEW to \in ClientId, DeclineControl(c, to)
       PROVE  DragInv'
  BY <1>4, <1>5, <1>8, <1>15, UsualMessages DEF DeclineControl
<1>16. ASSUME NEW to \in ClientId, EvictClient(c, to)
       PROVE  DragInv'
  BY <1>4, <1>8, <1>16, UsualMessages DEF EvictClient
<1>17. ASSUME NEW on \in BOOLEAN, SetControlTakeover(c, on) \/ SetInputLock(c, on)
       PROVE  DragInv'
  BY <1>7, <1>17 DEF SetControlTakeover, SetInputLock
<1>18. ASSUME NEW on \in BOOLEAN, Drag(c, on)
       PROVE  DragInv'
  <2>1. /\ controller' = controller /\ controller = c
        /\ Reply(<<ToAll([type |-> "DragChanged", author |-> c, lifted |-> on])>>)
    BY <1>18 DEF Drag, is_controller
  <2>2. /\ DOMAIN stack' = {1} /\ Len(stack') = 1
        /\ stack'[1].msgs = <<ToAll([type |-> "DragChanged", author |-> c, lifted |-> on])>>
        /\ stack'[1].slow = {}
    BY <2>1 DEF Reply
  <2>3. DragsAlone'
    BY <2>1, <2>2 DEF DragsAlone, ToAll
  <2>4. NoDragYet'
    BY <1>1 DEF DragInv, NoDragYet, ui
  <2>5. \A d \in attached : Settled(d)
    BY <1>3 DEF DragInv, DragsSettled, Announced, Doomed, Idle
  <2>6. \A d \in attached : Settled(d)'
    BY <1>1, <2>1, <2>5 DEF Settled, Clears, ui
  <2> QED
    BY <1>1, <2>3, <2>4, <2>6 DEF DragInv, DragsSettled
<1> QED
  BY <1>9, <1>10, <1>11, <1>12, <1>13, <1>14, <1>15, <1>16, <1>17, <1>18 DEF Request

\* Connections that come, attach, are refused and end keep the drags in order.
LEMMA ConnectionDrags ==
  ASSUME TypeOK, DragInv, NEW c \in ClientId,
         \/ Accept \/ AttachRefused(c) \/ \E ro \in BOOLEAN : Attach(c, ro)
         \/ Disconnect(c) \/ HeartbeatExpire(c) \/ PaneRuntimeChange
  PROVE  DragInv'
<1>1. attached \subseteq ClientId /\ clients \subseteq ClientId
  BY IdsType DEF TypeOK
<1>2. CASE Accept
  <2>1. UNCHANGED <<attached, outbox, stack, controller, remote_drag>>
    BY <1>2 DEF Accept, ui
  <2>2. DragsSettled' /\ DragsAlone'
    BY <2>1 DEF DragInv, DragsSettled, DragsAlone, Announced, Doomed, Settled, Clears
  <2>3. /\ next_client_id \in Nat /\ next_client_id' = next_client_id + 1
        /\ clients' = clients \cup {next_client_id}
    BY <1>2 DEF Accept, TypeOK, FlagsOK
  <2>4. \A d \in ClientId : d \in clients' \/ d >= next_client_id' =>
                              d \in clients \/ d >= next_client_id
    BY <2>3
  <2>5. NoDragYet'
    BY <2>1, <2>4 DEF DragInv, NoDragYet
  <2> QED
    BY <2>2, <2>5 DEF DragInv
<1>3. CASE AttachRefused(c)
  <2>1. Note("Error").type # "DragChanged"
    BY DEF Note
  <2> QED
    BY <1>1, <1>3, <2>1, LoopStartDrags, UsualMessages DEF AttachRefused, Serving
<1>4. ASSUME NEW ro \in BOOLEAN, Attach(c, ro)
      PROVE  DragInv'
  <2> DEFINE hello == [type |-> "Attached", state |-> TrueState']
             granted == controller = None /\ ~ro
             first == <<To(c, hello), ToAll(clients_changed')>>
  <2>1. NoDrag(first)
    <3>1. hello.type # "DragChanged" /\ clients_changed'.type # "DragChanged"
      BY DEF clients_changed
    <3> QED
      BY <3>1, UsualMessages
  <2>2. /\ Idle /\ UNCHANGED <<outbox, ui, next_client_id, clients>>
        /\ attached' = attached \cup {c} /\ c \in clients
        /\ controller' = IF granted THEN c ELSE controller
    BY <1>4 DEF Attach, MayAttach, Serving, TypeOK, FlagsOK
  <2>3. CASE granted
    <3> DEFINE all == <<To(c, hello), ToAll(clients_changed'), ToAll(controller_changed(c))>>
    <3>1. first \o <<ToAll(controller_changed(c))>> = all
      BY ShortLists
    <3>2. Reply(first \o <<ToAll(controller_changed(c))>>)
      BY <1>4, <2>3 DEF Attach
    <3>3. Reply(all)
      BY <3>1, <3>2
    <3>4. NoDrag(all) /\ TellsIn(all)
      <4>1. /\ To(c, hello).msg.type # "DragChanged"
            /\ ToAll(clients_changed').msg.type # "DragChanged"
            /\ ToAll(controller_changed(c)).msg.type # "DragChanged"
            /\ Tells(ToAll(controller_changed(c)))
        BY DEF To, ToAll, clients_changed, controller_changed, Tells, Everyone
      <4> HIDE DEF hello
      <4> QED
        BY <4>1 DEF NoDrag, TellsIn
    <3> HIDE DEF all, hello
    <3> QED
      BY <1>1, <2>2, <3>3, <3>4, LoopStartDrags
  <2>4. CASE ~granted
    <3>1. first \o <<>> = first
      OBVIOUS
    <3>2. Reply(first \o <<>>)
      BY <1>4, <2>4 DEF Attach
    <3>3. Reply(first)
      BY <3>1, <3>2
    <3> HIDE DEF first
    <3> QED
      BY <1>1, <2>1, <2>2, <2>4, <3>3, LoopStartDrags
  <2> QED
    BY <2>3, <2>4
<1>5. CASE Disconnect(c) \/ HeartbeatExpire(c)
  BY <1>5, DropDrags DEF Disconnect, HeartbeatExpire
<1>6. CASE PaneRuntimeChange
  <2>1. Note("PaneRuntime").type # "DragChanged"
    BY DEF Note
  <2> QED
    BY <1>1, <1>6, <2>1, LoopStartDrags, UsualMessages DEF PaneRuntimeChange, Serving, conns
<1> QED
  BY <1>2, <1>3, <1>4, <1>5, <1>6

\* The innermost loop in a new form, the others as they were.
LEMMA TopReplaced ==
  ASSUME NEW s \in Seq(Frame), s # <<>>, NEW f \in Frame
  PROVE  /\ Len(<<f>> \o Tail(s)) = Len(s)
         /\ DOMAIN (<<f>> \o Tail(s)) = DOMAIN s
         /\ 1 \in DOMAIN s
         /\ (<<f>> \o Tail(s))[1] = f
         /\ \A i \in DOMAIN s \ {1} : (<<f>> \o Tail(s))[i] = s[i]
         /\ <<f>> \o Tail(s) \in Seq(Frame)
OBVIOUS

\* One more loop on top of the others.
LEMMA LoopPushed ==
  ASSUME NEW s \in Seq(Frame), NEW f \in Frame
  PROVE  /\ DOMAIN (<<f>> \o s) = 1 .. Len(s) + 1
         /\ (<<f>> \o s)[1] = f
         /\ \A i \in DOMAIN s : i + 1 \in DOMAIN (<<f>> \o s) /\ (<<f>> \o s)[i + 1] = s[i]
         /\ \A i \in DOMAIN (<<f>> \o s) : i = 1 \/ (i - 1 \in DOMAIN s /\ (<<f>> \o s)[i] = s[i - 1])
OBVIOUS

\* A message queued on every recipient with room keeps the drags in order: it is
\* no drag of a former controller, and an announcement clears those there are.
LEMMA SendDrags ==
  ASSUME TypeOK, DragInv, Send
  PROVE  DragInv'
<1> DEFINE env  == Head(top.msgs)
           full == {c \in Recipients(env) : Len(outbox[c]) >= MaxBacklog}
           rest == [msgs |-> Tail(top.msgs), slow |-> full]
<1>1. /\ stack # <<>> /\ top.msgs # <<>> /\ top.slow = {}
      /\ outbox' = [c \in ClientId |-> IF c \in Recipients(env) \ full
                                      THEN Append(outbox[c], env.msg) ELSE outbox[c]]
      /\ stack' = <<rest>> \o Tail(stack)
      /\ UNCHANGED <<next_client_id, clients, attached, controller, remote_drag>>
  BY DEF Send, conns, ui
<1>2. top.msgs \in Seq(Envelope)
  BY <1>1, TopType DEF Frame
<1>3. env \in Envelope /\ Tail(top.msgs) \in Seq(Envelope) /\ env = top.msgs[1] /\ 1 \in DOMAIN top.msgs
  BY <1>1, <1>2
<1>4. \A k \in DOMAIN Tail(top.msgs) : k + 1 \in DOMAIN top.msgs /\ Tail(top.msgs)[k] = top.msgs[k + 1]
  BY <1>1, <1>2
<1>5. \A k \in DOMAIN top.msgs : k = 1 \/ (k - 1 \in DOMAIN Tail(top.msgs) /\ Tail(top.msgs)[k - 1] = top.msgs[k])
  BY <1>1, <1>2
<1>6. Recipients(env) \subseteq ClientId
  BY IdsType, <1>3 DEF Recipients, TypeOK
<1>7. rest \in Frame
  BY <1>3, <1>6 DEF Frame
<1>8. rest.msgs = Tail(top.msgs) /\ rest.slow = full
  OBVIOUS
<1>9. /\ outbox \in [ClientId -> Seq(Message)] /\ stack \in Seq(Frame)
      /\ attached \subseteq ClientId
  BY IdsType DEF TypeOK
<1> HIDE DEF env, rest
<1>10. /\ DOMAIN stack' = DOMAIN stack /\ 1 \in DOMAIN stack /\ Len(stack') = Len(stack)
       /\ stack'[1] = rest
       /\ \A i \in DOMAIN stack \ {1} : stack'[i] = stack[i]
  BY <1>1, <1>7, <1>9, TopReplaced
<1>11. top = stack[1]
  BY DEF top
<1>12. env.msg \in Message
  BY <1>3 DEF Envelope
<1>13. env.msg.type = "DragChanged" => env.to = Everyone /\ env.msg.author = controller
  BY <1>3, <1>10, <1>11 DEF DragInv, DragsAlone
<1>14. DragsAlone'
  <2> SUFFICES ASSUME NEW i \in DOMAIN stack', NEW k \in DOMAIN stack'[i].msgs,
                      stack'[i].msgs[k].msg.type = "DragChanged"
               PROVE  FALSE
    BY DEF DragsAlone
  <2>1. CASE i = 1
    <3>1. /\ k + 1 \in DOMAIN stack[1].msgs
          /\ stack[1].msgs[k + 1].msg.type = "DragChanged"
      BY <1>4, <1>8, <1>10, <1>11, <2>1
    <3>2. Len(stack[1].msgs) = 1
      BY <1>10, <3>1 DEF DragInv, DragsAlone
    <3>3. k \in DOMAIN Tail(top.msgs) /\ Len(top.msgs) = 1
      BY <1>8, <1>10, <1>11, <2>1, <3>2
    <3>4. Len(Tail(top.msgs)) = 0 /\ Tail(top.msgs) \in Seq(Envelope)
      BY <1>1, <1>2, <3>3
    <3> DEFINE t == Tail(top.msgs)
    <3>5. k \in DOMAIN t /\ Len(t) = 0 /\ t \in Seq(Envelope)
      BY <3>3, <3>4
    <3> HIDE DEF t
    <3> QED
      BY <3>5
  <2>2. CASE i # 1
    <3>1. Len(stack) = 1
      BY <1>10, <2>2 DEF DragInv, DragsAlone
    <3> QED
      BY <1>9, <1>10, <2>2, <3>1
  <2> QED
    BY <2>1, <2>2
<1>15. ASSUME NEW c \in ClientId
       PROVE  \/ outbox'[c] = outbox[c] /\ c \notin Recipients(env) \ full
              \/ /\ c \in Recipients(env) \ full
                 /\ outbox'[c] = Append(outbox[c], env.msg)
                 /\ DOMAIN outbox'[c] = DOMAIN outbox[c] \cup {Len(outbox[c]) + 1}
                 /\ outbox'[c][Len(outbox[c]) + 1] = env.msg
                 /\ \A i \in DOMAIN outbox[c] : outbox'[c][i] = outbox[c][i] /\ i < Len(outbox[c]) + 1
  <2>1. outbox[c] \in Seq(Message)
    BY <1>9
  <2> HIDE DEF full
  <2>2. CASE c \in Recipients(env) \ full
    BY <1>1, <1>12, <2>1, <2>2
  <2>3. CASE c \notin Recipients(env) \ full
    BY <1>1, <2>3
  <2> QED
    BY <2>2, <2>3
<1>16. NoDragYet'
  <2> SUFFICES ASSUME NEW c \in ClientId \ attached, c \in clients \/ c >= next_client_id
               PROVE  /\ remote_drag[c] = None
                      /\ \A i \in DOMAIN outbox'[c] : outbox'[c][i].type # "DragChanged"
    BY <1>1 DEF NoDragYet
  <2>1. c \in Recipients(env) => env.msg.type # "DragChanged"
    BY <1>13 DEF Recipients
  <2>2. /\ remote_drag[c] = None
        /\ \A i \in DOMAIN outbox[c] : outbox[c][i].type # "DragChanged"
    BY DEF DragInv, NoDragYet
  <2> HIDE DEF full
  <2> QED
    BY <1>15, <2>1, <2>2
<1>17. ASSUME NEW c \in attached
       PROVE  (Announced \/ Doomed(c) \/ Settled(c))'
  <2>1. CASE Doomed(c)
    <3>1. PICK i \in DOMAIN stack : c \in stack[i].slow
      BY <2>1 DEF Doomed
    <3>2. i # 1
      BY <1>1, <1>11, <3>1
    <3> QED
      BY <1>10, <3>1, <3>2 DEF Doomed
  <2>2. CASE Settled(c)
    <3> HIDE DEF full
    <3>1. CASE outbox'[c] = outbox[c]
      BY <1>1, <2>2, <3>1 DEF Settled, Clears
    <3>2. CASE outbox'[c] # outbox[c]
      <4>1. c \in ClientId
        BY <1>9
      <4>2. \A i : Clears(c, i) => Clears(c, i)'
        BY <1>15, <3>2, <4>1 DEF Clears
      <4> QED
        BY <1>1, <1>13, <1>15, <2>2, <3>2, <4>1, <4>2 DEF Settled
    <3> QED
      BY <3>1, <3>2
  <2>3. CASE Announced
    <3>0. PICK i \in DOMAIN stack : \E k \in DOMAIN stack[i].msgs : Tells(stack[i].msgs[k])
      BY <2>3 DEF Announced
    <3>1. PICK k \in DOMAIN stack[i].msgs : Tells(stack[i].msgs[k])
      BY <3>0
    <3>2. CASE i # 1
      BY <1>10, <3>1, <3>2 DEF Announced
    <3>3. CASE i = 1 /\ k # 1
      <4>1. k - 1 \in DOMAIN stack'[1].msgs /\ stack'[1].msgs[k - 1] = stack[1].msgs[k]
        BY <1>5, <1>8, <1>10, <1>11, <3>1, <3>3
      <4> QED
        BY <1>10, <3>1, <3>3, <4>1 DEF Announced
    <3>4. CASE i = 1 /\ k = 1
      <4>1. Tells(env)
        BY <1>3, <1>11, <3>1, <3>4
      <4>2. c \in Recipients(env) /\ c \in ClientId
        BY <1>9, <4>1 DEF Tells, Recipients
      <4>3. CASE c \in full
        BY <1>8, <1>10, <4>3 DEF Doomed
      <4>4. CASE c \notin full
        <5> HIDE DEF full
        <5>1. Moves(env.msg) /\ env.msg.type # "DragChanged"
          BY <4>1 DEF Tells, Moves
        <5>2. Len(outbox[c]) \in Nat /\ DOMAIN outbox[c] = 1 .. Len(outbox[c])
          BY <1>9, <4>2
        <5>3. Clears(c, 0)' /\ \A j \in DOMAIN outbox[c] : Clears(c, j)'
          BY <1>15, <4>2, <4>4, <5>1, <5>2 DEF Clears
        <5> QED
          BY <1>15, <4>2, <4>4, <5>1, <5>3 DEF Settled
      <4> QED
        BY <4>3, <4>4
    <3> QED
      BY <3>2, <3>3, <3>4
  <2> QED
    BY <2>1, <2>2, <2>3 DEF DragInv, DragsSettled
<1> QED
  BY <1>1, <1>14, <1>16, <1>17 DEF DragInv, DragsSettled

\* A finished loop has announced all it had to.
LEMMA ReturnDrags ==
  ASSUME TypeOK, DragInv, Return
  PROVE  DragInv'
<1>1. /\ stack # <<>> /\ top.slow = {} /\ top.msgs = <<>> /\ stack' = Tail(stack)
      /\ UNCHANGED <<next_client_id, clients, attached, controller, outbox, remote_drag>>
  BY DEF Return, conns, ui
<1>2. stack \in Seq(Frame) /\ top = stack[1]
  BY DEF TypeOK, top
<1>3. /\ \A i \in DOMAIN stack' : i + 1 \in DOMAIN stack /\ stack'[i] = stack[i + 1]
      /\ \A i \in DOMAIN stack : i = 1 \/ (i - 1 \in DOMAIN stack' /\ stack'[i - 1] = stack[i])
      /\ DOMAIN stack = 1 .. Len(stack) /\ Len(stack) \in Nat
  BY <1>1, <1>2
<1>4. DragsAlone'
  <2> SUFFICES ASSUME NEW i \in DOMAIN stack', NEW k \in DOMAIN stack'[i].msgs,
                      stack'[i].msgs[k].msg.type = "DragChanged"
               PROVE  FALSE
    BY DEF DragsAlone
  <2>1. Len(stack) = 1
    BY <1>3 DEF DragInv, DragsAlone
  <2> QED
    BY <1>1, <1>2, <2>1
<1>5. NoDragYet'
  BY <1>1 DEF DragInv, NoDragYet
<1>6. Announced => Announced'
  <2> SUFFICES ASSUME NEW i \in DOMAIN stack, NEW k \in DOMAIN stack[i].msgs, Tells(stack[i].msgs[k])
               PROVE  Announced'
    BY DEF Announced
  <2>1. i # 1
    BY <1>1, <1>2
  <2> QED
    BY <1>3, <2>1 DEF Announced
<1>7. \A c \in attached : Doomed(c) => Doomed(c)'
  <2> SUFFICES ASSUME NEW c \in attached, NEW i \in DOMAIN stack, c \in stack[i].slow
               PROVE  Doomed(c)'
    BY DEF Doomed
  <2>1. i # 1
    BY <1>1, <1>2
  <2> QED
    BY <1>3, <2>1 DEF Doomed
<1>8. \A c \in attached : Settled(c) => Settled(c)'
  BY <1>1 DEF Settled, Clears
<1> QED
  BY <1>1, <1>4, <1>5, <1>6, <1>7, <1>8 DEF DragInv, DragsSettled

\* The removal of a slow client keeps the drags in order: if it held the lease,
\* the loop it starts announces the move to everyone.
LEMMA RemoveSlowDrags ==
  ASSUME TypeOK, LeaseInv, DragInv, FlagsOK', PolicyOK', RemoveSlow
  PROVE  DragInv'
<1> DEFINE c        == CHOOSE s \in top.slow : \A d \in top.slow : s <= d
           promoted == promotion_candidate(Users \ {c})
           less     == [top EXCEPT !.slow = @ \ {c}]
           caller   == <<less>> \o Tail(stack)
           msgs     == RemovalMessages(c, promoted)
           pushed   == [msgs |-> msgs, slow |-> {}]
<1>1. /\ stack # <<>> /\ top.slow # {}
      /\ UNCHANGED <<next_client_id, remote_drag>>
  BY DEF RemoveSlow, ui
<1>2. \/ /\ c \in clients
         /\ remove_client(c, promoted)
         /\ stack' = IF c \in attached THEN <<pushed>> \o caller ELSE caller
      \/ /\ c \notin clients
         /\ stack' = caller
         /\ UNCHANGED <<clients, attached, controller, outbox>>
  BY DEF RemoveSlow
<1>3. less \in Frame /\ less.msgs = top.msgs /\ less.slow = top.slow \ {c}
  BY <1>1, TopType DEF Frame
<1>4. /\ stack \in Seq(Frame) /\ top = stack[1] /\ attached \subseteq clients
      /\ attached \subseteq ClientId /\ clients \subseteq ClientId
      /\ outbox \in [ClientId -> Seq(Message)] /\ next_client_id \in Nat
      /\ \A d \in clients : d < next_client_id
  BY IdsType DEF TypeOK, FlagsOK, top
<1>5. promoted \in ClientId \cup {None}
  <2>1. Users \ {c} \subseteq ClientId
    BY IdsType DEF TypeOK
  <2> QED
    BY <2>1, CandidateIsEntitled
<1>6. msgs \in Seq(Envelope) /\ NoDrag(msgs) /\ (controller = c => TellsIn(msgs))
  <2>1. PICK held \in BOOLEAN : held = is_controller(c)
    BY DEF is_controller
  <2>2. msgs = Departure(c, held, promoted)
    BY <2>1 DEF RemovalMessages
  <2> HIDE DEF msgs, promoted, c
  <2>3. msgs \in Seq(Envelope) /\ NoDrag(msgs) /\ (held => TellsIn(msgs))
    BY <1>5, <2>2, DepartureDrags
  <2> QED
    BY <2>1, <2>3 DEF is_controller
<1>7. c \in top.slow
  <2>1. top.slow \subseteq ClientId
    BY <1>1, TopType DEF Frame
  <2> QED
    BY <1>1, <2>1, SmallestId
<1> HIDE DEF c, less, msgs, promoted
<1>8. pushed \in Frame /\ pushed.msgs = msgs /\ pushed.slow = {}
  BY <1>6 DEF Frame
<1> HIDE DEF pushed
<1>9. /\ caller \in Seq(Frame)
      /\ DOMAIN caller = DOMAIN stack /\ 1 \in DOMAIN stack /\ Len(caller) = Len(stack)
      /\ caller[1] = less
      /\ \A i \in DOMAIN stack \ {1} : caller[i] = stack[i]
  BY <1>1, <1>3, <1>4, TopReplaced
<1>10. /\ \A i \in DOMAIN stack : caller[i].msgs = stack[i].msgs
       /\ \A i \in DOMAIN stack : \A d : d # c /\ d \in stack[i].slow => d \in caller[i].slow
  BY <1>3, <1>4, <1>9
<1>11. \A i \in DOMAIN stack : NoDrag(stack[i].msgs)
  <2> SUFFICES ASSUME NEW i \in DOMAIN stack, NEW k \in DOMAIN stack[i].msgs,
                      stack[i].msgs[k].msg.type = "DragChanged"
               PROVE  FALSE
    BY DEF NoDrag
  <2>1. stack[i].slow = {} /\ Len(stack) = 1
    BY DEF DragInv, DragsAlone
  <2>2. i = 1
    BY <1>4, <2>1
  <2> QED
    BY <1>1, <1>4, <2>1, <2>2
<1> HIDE DEF caller
<1>12. \/ stack' = caller
       \/ stack' = <<pushed>> \o caller
  BY <1>2
<1>13. /\ \A i \in DOMAIN stack : \E j \in DOMAIN stack' : stack'[j] = caller[i]
       /\ \A j \in DOMAIN stack' : \/ stack'[j] = pushed
                                   \/ \E i \in DOMAIN stack : stack'[j] = caller[i]
  <2>1. CASE stack' = caller
    BY <1>9, <2>1
  <2>2. CASE stack' = <<pushed>> \o caller
    <3> DEFINE s == <<pushed>> \o caller
    <3>1. /\ \A i \in DOMAIN caller : i + 1 \in DOMAIN s /\ s[i + 1] = caller[i]
          /\ \A i \in DOMAIN s : i = 1 \/ (i - 1 \in DOMAIN caller /\ s[i] = caller[i - 1])
          /\ s[1] = pushed
      BY <1>8, <1>9, LoopPushed
    <3>2. stack' = s
      BY <2>2
    <3> HIDE DEF s
    <3> QED
      BY <1>9, <3>1, <3>2
  <2> QED
    BY <1>12, <2>1, <2>2
<1>14. DragsAlone'
  <2>1. \A j \in DOMAIN stack' : NoDrag(stack'[j].msgs)
    BY <1>6, <1>8, <1>10, <1>11, <1>13
  <2> QED
    BY <2>1 DEF DragsAlone, NoDrag
<1>15. Announced => Announced'
  <2> SUFFICES ASSUME NEW i \in DOMAIN stack, NEW k \in DOMAIN stack[i].msgs, Tells(stack[i].msgs[k])
               PROVE  Announced'
    BY DEF Announced
  <2>1. PICK j \in DOMAIN stack' : stack'[j] = caller[i]
    BY <1>13
  <2>2. stack'[j].msgs = stack[i].msgs
    BY <1>10, <2>1
  <2> QED
    BY <2>2 DEF Announced
<1>16. \A d : Doomed(d) /\ d # c => Doomed(d)'
  BY <1>10, <1>13 DEF Doomed
<1>17. c \notin attached'
  BY <1>2, <1>4 DEF remove_client
<1>18. attached' \subseteq attached
  BY <1>2 DEF remove_client
<1>19. NoDragYet'
  <2> SUFFICES ASSUME NEW d \in ClientId \ attached', d \in clients' \/ d >= next_client_id'
               PROVE  /\ remote_drag'[d] = None
                      /\ \A i \in DOMAIN outbox'[d] : outbox'[d][i].type # "DragChanged"
    BY DEF NoDragYet
  <2>1. CASE c \in clients
    <3>1. /\ clients' = clients \ {c} /\ attached' = attached \ {c}
          /\ outbox' = [outbox EXCEPT ![c] = <<>>]
      BY <1>2, <2>1 DEF remove_client
    <3>2. d # c
      BY <1>1, <1>4, <2>1, <3>1
    <3>3. d \notin attached /\ (d \in clients \/ d >= next_client_id) /\ outbox'[d] = outbox[d]
      BY <1>1, <1>4, <3>1, <3>2
    <3> QED
      BY <1>1, <3>3 DEF DragInv, NoDragYet
  <2>2. CASE c \notin clients
    BY <1>1, <1>2, <2>2 DEF DragInv, NoDragYet
  <2> QED
    BY <2>1, <2>2
<1>20. CASE controller' = controller
  <2>1. ASSUME NEW d \in attached', Settled(d)
        PROVE  Settled(d)'
    <3>1. d # c
      BY <1>17
    <3>2. outbox'[d] = outbox[d]
      BY <1>2, <1>4, <3>1 DEF remove_client
    <3> QED
      BY <1>1, <1>20, <2>1, <3>2 DEF Settled, Clears
  <2>2. DragsSettled'
    BY <1>15, <1>16, <1>17, <1>18, <2>1 DEF DragInv, DragsSettled
  <2> QED
    BY <1>14, <1>19, <2>2 DEF DragInv
<1>21. CASE controller' # controller
  <2>1. controller = c /\ c \in clients
    BY <1>2, <1>21 DEF remove_client, is_controller
  <2>2. c \in attached
    <3>1. controller \in ClientId
      BY <1>4, <2>1
    <3>2. controller # None
      BY ONLY <3>1, MaxClientsAssumption DEF None, ClientId
    <3> QED
      BY <2>1, <3>2 DEF LeaseInv, LeaseHeldByUser
  <2>3. stack' = <<pushed>> \o caller
    BY <1>2, <2>1, <2>2
  <2>4. 1 \in DOMAIN stack' /\ stack'[1] = pushed
    <3>1. /\ DOMAIN (<<pushed>> \o caller) = 1 .. Len(caller) + 1
          /\ (<<pushed>> \o caller)[1] = pushed
      BY <1>8, <1>9, LoopPushed
    <3>2. Len(caller) \in Nat
      BY <1>9
    <3> QED
      BY <2>3, <3>1, <3>2
  <2>5. Announced'
    BY <1>6, <1>8, <2>1, <2>4 DEF TellsIn, Announced
  <2> QED
    BY <1>14, <1>19, <2>5 DEF DragInv, DragsSettled
<1> QED
  BY <1>20, <1>21

\* A client removed by its own Attached: if it held the lease, or was granted it,
\* everybody is told who has it now.
LEMMA OverflowDrags ==
  ASSUME TypeOK, LeaseInv, DragInv, FlagsOK', PolicyOK', NEW c \in ClientId,
         NEW ro \in BOOLEAN, AttachOverflow(c, ro)
  PROVE  DragInv'
<1>1. PICK promoted : promoted = promotion_candidate(Users \ {c})
  OBVIOUS
<1>2. PICK held \in BOOLEAN : held = (is_controller(c) \/ (controller = None /\ ~ro))
  BY DEF is_controller
<1>3. PICK msgs : msgs = Departure(c, held, promoted)
  OBVIOUS
<1>4. /\ stack = <<>> /\ c \in clients
      /\ clients' = clients \ {c} /\ attached' = attached \ {c}
      /\ outbox' = [outbox EXCEPT ![c] = <<>>]
      /\ controller' = IF is_controller(c) THEN promoted ELSE controller
      /\ UNCHANGED <<next_client_id, remote_drag>>
      /\ stack' = <<[msgs |-> msgs, slow |-> {}]>>
  <2>1. c \in clients
    BY DEF AttachOverflow, MayAttach, TypeOK, FlagsOK
  <2> QED
    BY <1>1, <1>2, <1>3, <2>1 DEF AttachOverflow, Serving, Idle, remove_client, ui
<1>5. promoted \in ClientId \cup {None}
  <2>1. Users \ {c} \subseteq ClientId
    BY IdsType DEF TypeOK
  <2> QED
    BY <1>1, <2>1, CandidateIsEntitled
<1>6. msgs \in Seq(Envelope) /\ NoDrag(msgs) /\ (held => TellsIn(msgs))
  BY <1>3, <1>5, DepartureDrags
<1>7. DOMAIN stack' = {1} /\ stack'[1].msgs = msgs /\ stack'[1].slow = {}
  BY <1>4
<1>8. DragsAlone'
  BY <1>6, <1>7 DEF DragsAlone, NoDrag
<1>9. /\ outbox \in [ClientId -> Seq(Message)] /\ attached \subseteq ClientId
      /\ next_client_id \in Nat /\ \A d \in clients : d < next_client_id
  BY IdsType DEF TypeOK, FlagsOK
<1>10. NoDragYet'
  <2> SUFFICES ASSUME NEW d \in ClientId \ attached', d \in clients' \/ d >= next_client_id'
               PROVE  /\ remote_drag'[d] = None
                      /\ \A i \in DOMAIN outbox'[d] : outbox'[d][i].type # "DragChanged"
    BY DEF NoDragYet
  <2>1. d # c
    BY <1>4, <1>9
  <2>2. d \notin attached /\ (d \in clients \/ d >= next_client_id) /\ outbox'[d] = outbox[d]
    BY <1>4, <1>9, <2>1
  <2> QED
    BY <1>4, <2>2 DEF DragInv, NoDragYet
<1>11. DragsSettled'
  <2>1. CASE held
    BY <1>6, <1>7, <2>1 DEF DragsSettled, Announced, TellsIn
  <2>2. CASE ~ held
    <3>1. controller' = controller
      BY <1>2, <1>4, <2>2
    <3>2. \A d \in attached : Settled(d)
      BY <1>4 DEF DragInv, DragsSettled, Announced, Doomed
    <3>3. ASSUME NEW d \in attached'
          PROVE  Settled(d)'
      <4>1. d \in attached /\ outbox'[d] = outbox[d]
        BY <1>4, <1>9
      <4> QED
        BY <1>4, <3>1, <3>2, <4>1 DEF Settled, Clears
    <3> QED
      BY <3>3 DEF DragsSettled
  <2> QED
    BY <2>1, <2>2
<1> QED
  BY <1>8, <1>10, <1>11 DEF DragInv

\* The responses of the interrupted handle_attach lift no pane.
LEMMA AttachRepliesDrags ==
  ASSUME TypeOK, DragInv, AttachReplies
  PROVE  DragInv'
<1> PICK roster, moved : roster = ToAll(clients_changed) /\ moved = ToAll(controller_changed(controller))
  OBVIOUS
<1>1. roster.msg.type # "DragChanged" /\ moved.msg.type # "DragChanged"
  BY DEF ToAll, clients_changed, controller_changed
<1>2. attached \subseteq ClientId
  BY IdsType DEF TypeOK
<1>3. /\ stack = <<>> /\ UNCHANGED <<outbox, ui, next_client_id, clients, attached, controller>>
      /\ Reply(<<roster>> \o IF attaching = "granted" THEN <<moved>> ELSE <<>>)
  BY DEF AttachReplies, conns
<1>4. PICK msgs : Reply(msgs) /\ NoDrag(msgs)
  <2>1. CASE attaching = "granted"
    <3>1. <<roster>> \o <<moved>> = <<roster, moved>>
      BY ShortLists
    <3>2. Reply(<<roster, moved>>)
      BY <1>3, <2>1, <3>1
    <3>3. NoDrag(<<roster, moved>>)
      BY <1>1 DEF NoDrag
    <3> QED
      BY <3>2, <3>3
  <2>2. CASE attaching # "granted"
    <3>1. <<roster>> \o <<>> = <<roster>>
      OBVIOUS
    <3>2. Reply(<<roster>> \o <<>>)
      BY <1>3, <2>2
    <3>3. NoDrag(<<roster>>)
      BY <1>1 DEF NoDrag
    <3> QED
      BY <3>1, <3>2, <3>3
  <2> QED
    BY <2>1, <2>2
<1> QED
  BY <1>2, <1>3, <1>4, ReplyDrags

\* The rest of a queue is the queue moved up by one.
LEMMA TailShifts ==
  ASSUME NEW s \in Seq(Message), s # <<>>, NEW t, t = Tail(s)
  PROVE  /\ \A i \in DOMAIN t : i + 1 \in DOMAIN s /\ t[i] = s[i + 1]
         /\ \A i \in DOMAIN s : i = 1 \/ (i - 1 \in DOMAIN t /\ t[i - 1] = s[i])
         /\ DOMAIN s \subseteq Nat \ {0}
OBVIOUS

\* A client that takes in the next message keeps its drags in order.
LEMMA FlushDrags ==
  ASSUME TypeOK, DragInv, NEW c \in ClientId, Flush(c)
  PROVE  DragInv'
<1> DEFINE m == Head(outbox[c])
<1>1. /\ stack = <<>> /\ c \in clients /\ outbox[c] # <<>>
      /\ outbox' = [outbox EXCEPT ![c] = Tail(outbox[c])]
      /\ remote_drag' = [remote_drag EXCEPT ![c] = DragAfter(c, m)]
      /\ UNCHANGED <<next_client_id, clients, attached, controller>>
  BY DEF Flush, Idle, conns
<1>2. /\ outbox \in [ClientId -> Seq(Message)]
      /\ remote_drag \in [ClientId -> ClientId \cup {None}]
      /\ attached \subseteq ClientId
  BY IdsType DEF TypeOK
<1>3. stack' = stack \/ stack' = <<[msgs |-> <<>>, slow |-> {c}]>>
  BY DEF Flush, Drop
<1>4. \A i \in DOMAIN stack' : stack'[i].msgs = <<>>
  BY <1>1, <1>3
<1>5. DragsAlone'
  BY <1>4 DEF DragsAlone
<1>6. \A d \in attached : Settled(d)
  BY <1>1 DEF DragInv, DragsSettled, Announced, Doomed
<1>7. /\ m = outbox[c][1] /\ 1 \in DOMAIN outbox[c] /\ outbox[c] \in Seq(Message)
      /\ outbox'[c] = Tail(outbox[c])
      /\ remote_drag'[c] = DragAfter(c, m)
      /\ \A d \in ClientId \ {c} : outbox'[d] = outbox[d] /\ remote_drag'[d] = remote_drag[d]
  BY <1>1, <1>2
<1>8. /\ \A i \in DOMAIN outbox'[c] : i + 1 \in DOMAIN outbox[c] /\ outbox'[c][i] = outbox[c][i + 1]
      /\ \A i \in DOMAIN outbox[c] : i = 1 \/ (i - 1 \in DOMAIN outbox'[c] /\ outbox'[c][i - 1] = outbox[c][i])
      /\ DOMAIN outbox[c] \subseteq Nat \ {0}
  BY <1>1, <1>7, TailShifts
<1> HIDE DEF m
<1>9. NoDragYet'
  <2> SUFFICES ASSUME NEW d \in ClientId \ attached, d \in clients \/ d >= next_client_id
               PROVE  /\ remote_drag'[d] = None
                      /\ \A i \in DOMAIN outbox'[d] : outbox'[d][i].type # "DragChanged"
    BY <1>1 DEF NoDragYet
  <2>1. /\ remote_drag[d] = None
        /\ \A i \in DOMAIN outbox[d] : outbox[d][i].type # "DragChanged"
    BY DEF DragInv, NoDragYet
  <2>2. CASE d = c
    <3>1. m.type # "DragChanged"
      BY <1>7, <2>1, <2>2
    <3>2. DragAfter(c, m) = None
      BY <2>1, <2>2, <3>1 DEF DragAfter
    <3>3. \A i \in DOMAIN outbox'[c] : outbox'[c][i].type # "DragChanged"
      BY <1>8, <2>1, <2>2
    <3> QED
      BY <1>7, <2>2, <3>2, <3>3
  <2>3. CASE d # c
    BY <1>7, <2>1, <2>3
  <2> QED
    BY <2>2, <2>3
<1>10. ASSUME NEW d \in attached
       PROVE  Settled(d)'
  <2>1. CASE d # c
    <3>1. outbox'[d] = outbox[d] /\ remote_drag'[d] = remote_drag[d]
      BY <1>2, <1>7, <2>1
    <3> QED
      BY <1>1, <1>6, <3>1 DEF Settled, Clears
  <2>2. CASE d = c
    <3>1. \A i \in Nat : Clears(c, i + 1) => Clears(c, i)'
      <4> SUFFICES ASSUME NEW i \in Nat, NEW j \in DOMAIN outbox[c], j > i + 1, Moves(outbox[c][j])
                   PROVE  Clears(c, i)'
        BY DEF Clears
      <4>1. j - 1 \in DOMAIN outbox'[c] /\ outbox'[c][j - 1] = outbox[c][j]
        BY <1>8
      <4>2. j - 1 > i
        BY <1>8
      <4> QED
        BY <4>1, <4>2 DEF Clears
    <3>2. \A i \in DOMAIN outbox'[c] :
            outbox'[c][i].type = "DragChanged" => outbox'[c][i].author = controller \/ Clears(c, i)'
      <4> SUFFICES ASSUME NEW i \in DOMAIN outbox'[c], outbox'[c][i].type = "DragChanged",
                          outbox'[c][i].author # controller
                   PROVE  Clears(c, i)'
        OBVIOUS
      <4>1. Clears(c, i + 1)
        BY <1>6, <1>8, <2>2 DEF Settled
      <4>2. i \in Nat
        BY <1>7
      <4> QED
        BY <3>1, <4>1, <4>2
    <3>3. remote_drag'[c] \in {None, controller} \/ Clears(c, 0)'
      <4>1. CASE Moves(m)
        BY <1>7, <4>1 DEF Moves, DragAfter
      <4>2. CASE ~Moves(m)
        <5>1. Clears(c, 0) => Clears(c, 1)
          BY <1>7, <1>8, <4>2 DEF Clears
        <5>2. CASE Clears(c, 1)
          BY <3>1, <5>2
        <5>3. CASE ~Clears(c, 1)
          <6>1. /\ remote_drag[c] \in {None, controller}
                /\ m.type = "DragChanged" => m.author = controller
            BY <1>6, <1>7, <2>2, <5>1, <5>3 DEF Settled
          <6>2. DragAfter(c, m) \in {None, controller}
            BY <6>1 DEF DragAfter
          <6> QED
            BY <1>7, <6>2
        <5> QED
          BY <5>2, <5>3
      <4> QED
        BY <4>1, <4>2
    <3> QED
      BY <1>1, <2>2, <3>2, <3>3 DEF Settled
  <2> QED
    BY <2>1, <2>2
<1> QED
  BY <1>1, <1>5, <1>9, <1>10 DEF DragInv, DragsSettled

\* Every step of the server and of the clients keeps the drags in order.
LEMMA DragStep ==
  ASSUME TypeOK, LeaseInv, DragInv, [Next]_vars
  PROVE  DragInv'
<1>1. FlagsOK'
  BY LeaseInvStep DEF LeaseInv
<1>2. PolicyOK'
  BY PolicyStep DEF TypeOK, PolicyOK
<1>3. CASE UNCHANGED vars
  <2>1. UNCHANGED <<next_client_id, clients, attached, controller, outbox, stack, remote_drag>>
    BY <1>3 DEF vars, conns, ui
  <2> QED
    BY <2>1 DEF DragInv, DragsSettled, DragsAlone, NoDragYet, Announced, Doomed, Settled, Clears
<1>4. CASE Send
  BY <1>4, SendDrags
<1>5. CASE RemoveSlow
  BY <1>1, <1>2, <1>5, RemoveSlowDrags
<1>6. CASE Return
  BY <1>6, ReturnDrags
<1>7. CASE Accept \/ PaneRuntimeChange
  <2>1. CASE MaxClients > 0
    <3>1. 1 \in ClientId
      BY <2>1
    <3> QED
      BY <1>7, <3>1, ConnectionDrags
  <2>2. CASE ~ (MaxClients > 0)
    <3>1. MaxClients = 0
      BY <2>2
    <3>2. ~ Accept /\ attached = {}
      BY <3>1 DEF Accept, TypeOK, FlagsOK
    <3> QED
      BY <1>7, <3>2 DEF PaneRuntimeChange
  <2> QED
    BY <2>1, <2>2
<1>8. ASSUME NEW c \in ClientId, Request(c)
      PROVE  DragInv'
  BY <1>8, RequestDrags
<1>9. ASSUME NEW c \in ClientId,
             \/ AttachRefused(c) \/ \E ro \in BOOLEAN : Attach(c, ro)
             \/ Disconnect(c) \/ HeartbeatExpire(c)
      PROVE  DragInv'
  BY <1>9, ConnectionDrags
<1>10. ASSUME NEW c \in ClientId, Flush(c)
       PROVE  DragInv'
  BY <1>10, FlushDrags
<1>11. ASSUME NEW c \in ClientId, NEW ro \in BOOLEAN, AttachOverflow(c, ro)
       PROVE  DragInv'
  BY <1>1, <1>2, <1>11, OverflowDrags
<1>12. CASE AttachReplies
  BY <1>12, AttachRepliesDrags
<1> QED
  BY <1>3, <1>4, <1>5, <1>6, <1>7, <1>8, <1>9, <1>10, <1>11, <1>12 DEF Next

\* A drained client shows a drag of the present controller or none, whatever
\* moved the lease in the middle of the drag: a request, a grant, parking, a
\* departure, or the removal of the author inside the broadcast of its own drag.
THEOREM DragsSafe == Spec => []DragFollowsLease
<1>1. Init => TypeOK /\ LeaseInv /\ DragInv
  <2>1. Init => DragInv
    BY DEF Init, DragInv, DragsSettled, DragsAlone, NoDragYet
  <2> QED
    BY <2>1, InitTypes
<1>2. TypeOK /\ LeaseInv /\ DragInv /\ [Next]_vars => TypeOK' /\ LeaseInv' /\ DragInv'
  BY TypeStep, LeaseInvStep, DragStep
<1>3. DragInv => DragFollowsLease
  <2> SUFFICES ASSUME DragInv, Idle, NEW c \in attached, outbox[c] = <<>>
               PROVE  remote_drag[c] \in {None, controller}
    BY DEF DragFollowsLease
  <2>1. Settled(c)
    BY DEF DragInv, DragsSettled, Announced, Doomed, Idle
  <2>2. ~ Clears(c, 0)
    BY DEF Clears
  <2> QED
    BY <2>1, <2>2 DEF Settled
<1> QED
  BY <1>1, <1>2, <1>3, PTL DEF Spec
-----------------------------------------------------------------------------
(* What the clients know of the server. *)

(***************************************************************************)
(* A client knows of the lease what the last Attached or ControllerChanged *)
(* it took in says, and of the roster and the policy what the last         *)
(* Attached or ClientsChanged says.  For each of the two kinds T, `Learns` *)
(* says of an outbox that its last message in T is one of G, which hold    *)
(* the true value, or that it has none and b holds already.                *)
(***************************************************************************)

Learns(q, T, G, b) == LastIn(q, T, G) \/ (NoneIn(q, T) /\ b)

Movers == {m \in Message : m.type \in {"Attached", "ControllerChanged"}}
Named(m) == IF m.type = "Attached" THEN m.state.controller ELSE m.controller
Naming(k) == {m \in Movers : Named(m) = k}

Rosters == {m \in Message : m.type \in {"Attached", "ClientsChanged"}}
Listed(v) == <<v.clients, v.input_locked, v.allow_takeover>>
Listing(r) == {m \in Rosters : Listed(IF m.type = "Attached" THEN m.state ELSE m) = r}

Roster == Listed(TrueState)

KnowsController(c) ==
  Learns(outbox[c], Movers, Naming(controller), view[c].controller = controller)
KnowsRoster(c) ==
  Learns(outbox[c], Rosters, Listing(Roster), Listed(view[c]) = Roster)

\* Some response loop has yet to send a message of T to c.
Has(msgs, T, c) ==
  \E k \in DOMAIN msgs : msgs[k].msg \in T /\ msgs[k].to \in {Everyone, c}
Coming(T, c) == \E i \in DOMAIN stack : Has(stack[i].msgs, T, c)

\* Responses that name h as the holder of the lease, and list r, if they say.
TellsTrue(m, h, r) == /\ m \in Movers => m \in Naming(h)
                      /\ m \in Rosters => m \in Listing(r)
Truthful(msgs, h, r) == \A k \in DOMAIN msgs : TellsTrue(msgs[k].msg, h, r)

\* The kinds of messages.
LEMMA MessageKinds ==
  /\ \A k : Naming(k) \subseteq Movers
  /\ \A r : Listing(r) \subseteq Rosters
  /\ \A d \in ClientId \cup {None} :
        /\ controller_changed(d) \in Naming(d)
        /\ controller_changed(d) \notin Rosters
  /\ \A t : t \notin {"Attached", "ControllerChanged", "ClientsChanged"} =>
        Note(t) \notin Movers \cup Rosters
  /\ \A a, b : [type |-> "DragChanged", author |-> a, lifted |-> b] \notin Movers \cup Rosters
<1>1. \A d \in ClientId \cup {None} : /\ controller_changed(d) \in Message
                                      /\ controller_changed(d).type = "ControllerChanged"
                                      /\ controller_changed(d).controller = d
  BY ControllerChangedType DEF controller_changed
<1>2. /\ \A t : Note(t).type = t
      /\ \A a, b : [type |-> "DragChanged", author |-> a, lifted |-> b].type = "DragChanged"
  BY DEF Note
<1> QED
  BY <1>1, <1>2 DEF Movers, Rosters, Naming, Listing, Named

\* A ClientsChanged composed from the present state lists the present roster.
LEMMA RosterTruthful ==
  ASSUME FlagsOK, PolicyOK
  PROVE  clients_changed \in Listing(Roster) /\ clients_changed \notin Movers
<1>1. clients_changed \in Message
  BY ClientsChangedType
<1>2. /\ clients_changed.type = "ClientsChanged" /\ clients_changed.clients = client_roster
      /\ clients_changed.input_locked = input_locked
      /\ clients_changed.allow_takeover = allow_takeover
  BY DEF clients_changed
<1>3. /\ TrueState.clients = client_roster /\ TrueState.input_locked = input_locked
      /\ TrueState.allow_takeover = allow_takeover
  BY DEF TrueState
<1> QED
  BY <1>1, <1>2, <1>3 DEF Movers, Rosters, Listing, Listed, Roster

\* An Attached composed from the present state tells both.
LEMMA HelloTruthful ==
  ASSUME FlagsOK, PolicyOK
  PROVE  /\ [type |-> "Attached", state |-> TrueState] \in Naming(controller)
         /\ [type |-> "Attached", state |-> TrueState] \in Listing(Roster)
<1> PICK m : m = [type |-> "Attached", state |-> TrueState]
  OBVIOUS
<1>1. m \in Message /\ m.type = "Attached" /\ m.state = TrueState
  BY TrueStateType DEF Message
<1>2. m.state.controller = controller
  BY <1>1 DEF TrueState
<1>3. m \in Naming(controller) /\ m \in Listing(Roster)
  BY <1>1, <1>2 DEF Movers, Naming, Named, Rosters, Listing, Roster
<1> QED
  BY <1>3

\* A message added to an outbox keeps what the client will know, unless it says
\* otherwise, and a true one of the kind tells it.
LEMMA LearnsAppended ==
  ASSUME NEW q \in Seq(Message), NEW x \in Message, NEW T, NEW G, NEW b
  PROVE  /\ x \in G => Learns(Append(q, x), T, G, b)
         /\ (x \in T => x \in G) /\ Learns(q, T, G, b) => Learns(Append(q, x), T, G, b)
BY LastAppended DEF Learns

\* A client that takes in the next message knows what it says.
LEMMA LearnsTaken ==
  ASSUME NEW q \in Seq(Message), q # <<>>, NEW T, NEW G, G \subseteq T, NEW b, NEW e,
         Learns(q, T, G, b), Head(q) \in G => e, Head(q) \notin T /\ b => e
  PROVE  Learns(Tail(q), T, G, e)
<1> PICK r : r = Tail(q)
  OBVIOUS
<1>1. /\ Head(q) \notin T => /\ LastIn(q, T, G) => LastIn(r, T, G)
                             /\ NoneIn(q, T) => NoneIn(r, T)
      /\ Head(q) \in T => /\ ~NoneIn(q, T)
                          /\ LastIn(q, T, G) => \/ LastIn(r, T, G)
                                                \/ NoneIn(r, T) /\ Head(q) \in G
  BY ONLY q \in Seq(Message), q # <<>>, G \subseteq T, r = Tail(q), EndsTaken
<1> QED
  BY <1>1 DEF Learns

\* A list of responses has what one of its parts has, and is true when they are.
LEMMA ConcatHas ==
  ASSUME NEW s \in Seq(Envelope), NEW t \in Seq(Envelope)
  PROVE  /\ \A T, c : Has(s, T, c) \/ Has(t, T, c) => Has(s \o t, T, c)
         /\ \A h, r : Truthful(s, h, r) /\ Truthful(t, h, r) => Truthful(s \o t, h, r)
<1>1. \A k \in DOMAIN (s \o t) :
        \/ k \in DOMAIN s /\ (s \o t)[k] = s[k]
        \/ k - Len(s) \in DOMAIN t /\ (s \o t)[k] = t[k - Len(s)]
  OBVIOUS
<1>2. \A k \in DOMAIN s : k \in DOMAIN (s \o t) /\ (s \o t)[k] = s[k]
  OBVIOUS
<1>3. \A k \in DOMAIN t : k + Len(s) \in DOMAIN (s \o t) /\ (s \o t)[k + Len(s)] = t[k]
  OBVIOUS
<1> PICK u : u = s \o t
  OBVIOUS
<1>4. \A h, r : Truthful(s, h, r) /\ Truthful(t, h, r) => Truthful(u, h, r)
  BY <1>1 DEF Truthful
<1>5. \A T, c : Has(s, T, c) => Has(u, T, c)
  BY <1>2 DEF Has
<1>6. \A T, c : Has(t, T, c) => Has(u, T, c)
  BY <1>3 DEF Has
<1> QED
  BY <1>4, <1>5, <1>6

\* A list of one response, and of none.
LEMMA ShortHas ==
  /\ \A a : /\ \A T, c : Has(<<a>>, T, c) <=> a.msg \in T /\ a.to \in {Everyone, c}
            /\ \A h, r : Truthful(<<a>>, h, r) <=> TellsTrue(a.msg, h, r)
  /\ \A h, r : Truthful(<<>>, h, r)
<1>1. \A a : DOMAIN <<a>> = {1} /\ <<a>>[1] = a
  OBVIOUS
<1>2. DOMAIN <<>> = {}
  OBVIOUS
<1>3. ASSUME NEW a
      PROVE  /\ \A T, c : Has(<<a>>, T, c) <=> a.msg \in T /\ a.to \in {Everyone, c}
             /\ \A h, r : Truthful(<<a>>, h, r) <=> TellsTrue(a.msg, h, r)
  <2> PICK s : s = <<a>>
    OBVIOUS
  <2>1. DOMAIN s = {1} /\ s[1] = a
    BY <1>1
  <2>2. \A T, c : Has(s, T, c) <=> a.msg \in T /\ a.to \in {Everyone, c}
    BY <2>1 DEF Has
  <2>3. \A h, r : Truthful(s, h, r) <=> TellsTrue(a.msg, h, r)
    BY <2>1 DEF Truthful
  <2> QED
    BY <2>2, <2>3
<1> QED
  BY <1>2, <1>3 DEF Truthful

\* Lists of two and of three responses.
LEMMA PairHas ==
  ASSUME NEW a \in Envelope, NEW b \in Envelope
  PROVE  /\ <<a, b>> \in Seq(Envelope) /\ Len(<<a, b>>) = 2
         /\ \A T, c : Has(<<a>>, T, c) \/ Has(<<b>>, T, c) => Has(<<a, b>>, T, c)
         /\ \A h, r : TellsTrue(a.msg, h, r) /\ TellsTrue(b.msg, h, r) => Truthful(<<a, b>>, h, r)
         /\ \A d \in Envelope :
              /\ <<a, b, d>> \in Seq(Envelope) /\ Len(<<a, b, d>>) = 3
              /\ \A T, c : Has(<<a>>, T, c) \/ Has(<<b>>, T, c) \/ Has(<<d>>, T, c)
                              => Has(<<a, b, d>>, T, c)
              /\ \A h, r : /\ TellsTrue(a.msg, h, r) /\ TellsTrue(b.msg, h, r)
                           /\ TellsTrue(d.msg, h, r)
                           => Truthful(<<a, b, d>>, h, r)
<1>1. /\ <<a, b>> \in Seq(Envelope) /\ Len(<<a, b>>) = 2
      /\ \A T, c : Has(<<a>>, T, c) \/ Has(<<b>>, T, c) => Has(<<a, b>>, T, c)
      /\ \A h, r : TellsTrue(a.msg, h, r) /\ TellsTrue(b.msg, h, r) => Truthful(<<a, b>>, h, r)
  <2> PICK s, t, u : s = <<a>> /\ t = <<b>> /\ u = <<a, b>>
    OBVIOUS
  <2>1. s \in Seq(Envelope) /\ t \in Seq(Envelope) /\ u = s \o t
    <3>1. u = s \o t
      BY ShortLists
    <3>2. s \in Seq(Envelope) /\ t \in Seq(Envelope)
      OBVIOUS
    <3> QED
      BY <3>1, <3>2
  <2>2. /\ \A T, c : Has(s, T, c) \/ Has(t, T, c) => Has(u, T, c)
        /\ \A h, r : Truthful(s, h, r) /\ Truthful(t, h, r) => Truthful(u, h, r)
    BY ONLY <2>1, ConcatHas
  <2>3. \A h, r : /\ Truthful(s, h, r) <=> TellsTrue(a.msg, h, r)
                 /\ Truthful(t, h, r) <=> TellsTrue(b.msg, h, r)
    BY ShortHas
  <2>4. <<a, b>> \in Seq(Envelope) /\ Len(<<a, b>>) = 2
    OBVIOUS
  <2> QED
    BY <2>2, <2>3, <2>4
<1>2. ASSUME NEW d \in Envelope
      PROVE  /\ <<a, b, d>> \in Seq(Envelope) /\ Len(<<a, b, d>>) = 3
             /\ \A T, c : Has(<<a>>, T, c) \/ Has(<<b>>, T, c) \/ Has(<<d>>, T, c)
                             => Has(<<a, b, d>>, T, c)
             /\ \A h, r : /\ TellsTrue(a.msg, h, r) /\ TellsTrue(b.msg, h, r)
                          /\ TellsTrue(d.msg, h, r)
                          => Truthful(<<a, b, d>>, h, r)
  <2> PICK s, t, u : s = <<a, b>> /\ t = <<d>> /\ u = <<a, b, d>>
    OBVIOUS
  <2>1. s \in Seq(Envelope) /\ t \in Seq(Envelope) /\ u = s \o t
    <3>1. u = s \o t
      BY ShortLists
    <3>2. s \in Seq(Envelope) /\ t \in Seq(Envelope)
      OBVIOUS
    <3> QED
      BY <3>1, <3>2
  <2>2. /\ \A T, c : Has(s, T, c) \/ Has(t, T, c) => Has(u, T, c)
        /\ \A h, r : Truthful(s, h, r) /\ Truthful(t, h, r) => Truthful(u, h, r)
    BY ONLY <2>1, ConcatHas
  <2>3. \A h, r : Truthful(t, h, r) <=> TellsTrue(d.msg, h, r)
    BY ShortHas
  <2>4. <<a, b, d>> \in Seq(Envelope) /\ Len(<<a, b, d>>) = 3
    OBVIOUS
  <2> QED
    BY <1>1, <2>2, <2>3, <2>4
<1> QED
  BY <1>1, <1>2

\* A step that sends: what becomes of the stack and of the outboxes.
LEMMA SendShape ==
  ASSUME TypeOK, Send, NEW env, env = Head(top.msgs),
         NEW full, full = {c \in Recipients(env) : Len(outbox[c]) >= MaxBacklog}
  PROVE  /\ stack # <<>> /\ top.slow = {} /\ top.msgs # <<>> /\ top = stack[1]
         /\ 1 \in DOMAIN stack /\ 1 \in DOMAIN top.msgs
         /\ env \in Envelope /\ env = top.msgs[1]
         /\ Recipients(env) \subseteq clients /\ clients \subseteq ClientId
         /\ env.to = Everyone => Recipients(env) = attached
         /\ env.to # Everyone => Recipients(env) = {env.to} \cap clients
         /\ DOMAIN stack' = DOMAIN stack /\ Len(stack') = Len(stack) /\ stack' # <<>>
         /\ stack'[1].msgs = Tail(top.msgs) /\ stack'[1].slow = full
         /\ \A i \in DOMAIN stack \ {1} : stack'[i] = stack[i]
         /\ \A k \in DOMAIN Tail(top.msgs) : k + 1 \in DOMAIN top.msgs /\ Tail(top.msgs)[k] = top.msgs[k + 1]
         /\ \A k \in DOMAIN top.msgs : k = 1 \/ (k - 1 \in DOMAIN Tail(top.msgs) /\ Tail(top.msgs)[k - 1] = top.msgs[k])
         /\ Len(top.msgs) \in Nat /\ Len(Tail(top.msgs)) = Len(top.msgs) - 1
         /\ \A c \in ClientId : outbox'[c] = IF c \in Recipients(env) \ full
                                           THEN Append(outbox[c], env.msg) ELSE outbox[c]
         /\ UNCHANGED <<next_client_id, clients, attached, read_only, close_after_flush, parked,
                        requesting_control, rows, controller, input_locked, allow_takeover, view>>
<1> DEFINE rest == [msgs |-> Tail(top.msgs), slow |-> full]
<1>1. /\ stack # <<>> /\ top.msgs # <<>> /\ top.slow = {}
      /\ outbox' = [c \in ClientId |-> IF c \in Recipients(env) \ full
                                      THEN Append(outbox[c], env.msg) ELSE outbox[c]]
      /\ stack' = <<rest>> \o Tail(stack)
      /\ UNCHANGED <<next_client_id, clients, attached, read_only, close_after_flush, parked,
                     requesting_control, rows, controller, input_locked, allow_takeover, view>>
  BY DEF Send, conns, ui, policy
<1>2. top.msgs \in Seq(Envelope)
  BY <1>1, TopType DEF Frame
<1>3. /\ env \in Envelope /\ Tail(top.msgs) \in Seq(Envelope) /\ env = top.msgs[1]
      /\ 1 \in DOMAIN top.msgs
  BY <1>1, <1>2
<1>4. /\ \A k \in DOMAIN Tail(top.msgs) : k + 1 \in DOMAIN top.msgs /\ Tail(top.msgs)[k] = top.msgs[k + 1]
      /\ \A k \in DOMAIN top.msgs : k = 1 \/ (k - 1 \in DOMAIN Tail(top.msgs) /\ Tail(top.msgs)[k - 1] = top.msgs[k])
      /\ Len(top.msgs) \in Nat /\ Len(Tail(top.msgs)) = Len(top.msgs) - 1
  BY <1>1, <1>2
<1>5. /\ Recipients(env) \subseteq clients /\ clients \subseteq ClientId
      /\ env.to = Everyone => Recipients(env) = attached
      /\ env.to # Everyone => Recipients(env) = {env.to} \cap clients
  BY IdsType DEF Recipients, TypeOK, FlagsOK
<1>6. full \subseteq ClientId
  BY <1>5
<1>7. rest \in Frame /\ rest.msgs = Tail(top.msgs) /\ rest.slow = full
  BY <1>3, <1>6 DEF Frame
<1>8. stack \in Seq(Frame) /\ top = stack[1]
  BY DEF TypeOK, top
<1> HIDE DEF rest
<1>9. /\ DOMAIN stack' = DOMAIN stack /\ 1 \in DOMAIN stack /\ Len(stack') = Len(stack)
      /\ stack'[1] = rest /\ stack' # <<>>
      /\ \A i \in DOMAIN stack \ {1} : stack'[i] = stack[i]
  BY <1>1, <1>7, <1>8, TopReplaced
<1>10. \A c \in ClientId : outbox'[c] = IF c \in Recipients(env) \ full
                                         THEN Append(outbox[c], env.msg) ELSE outbox[c]
  BY ONLY <1>1
<1> QED
  BY <1>1, <1>3, <1>4, <1>5, <1>7, <1>8, <1>9, <1>10

\* A step that removes: what becomes of the stack.
LEMMA RemovalShape ==
  ASSUME TypeOK, LeaseInv, RemoveSlow
  PROVE  \E c \in top.slow : \E p \in ClientId \cup {None} : \E caller \in Seq(Frame) :
           /\ c \in ClientId /\ stack # <<>> /\ 1 \in DOMAIN stack
           /\ DOMAIN caller = DOMAIN stack /\ Len(caller) = Len(stack)
           /\ caller[1].msgs = top.msgs /\ caller[1].slow = top.slow \ {c}
           /\ \A i \in DOMAIN stack \ {1} : caller[i] = stack[i]
           /\ UNCHANGED <<next_client_id, input_locked, allow_takeover, view>>
           /\ \/ /\ c \in clients
                 /\ remove_client(c, p)
                 /\ stack' = IF c \in attached
                             THEN <<[msgs |-> RemovalMessages(c, p), slow |-> {}]>> \o caller
                             ELSE caller
              \/ /\ c \notin clients
                 /\ stack' = caller
                 /\ UNCHANGED <<clients, attached, read_only, close_after_flush, parked,
                                requesting_control, rows, controller, outbox>>
<1> DEFINE c        == CHOOSE s \in top.slow : \A d \in top.slow : s <= d
           promoted == promotion_candidate(Users \ {c})
           less     == [top EXCEPT !.slow = @ \ {c}]
           caller   == <<less>> \o Tail(stack)
<1>1. /\ stack # <<>> /\ top.slow # {}
      /\ UNCHANGED <<next_client_id, input_locked, allow_takeover, view>>
      /\ \/ /\ c \in clients
            /\ remove_client(c, promoted)
            /\ stack' = IF c \in attached
                        THEN <<[msgs |-> RemovalMessages(c, promoted), slow |-> {}]>> \o caller
                        ELSE caller
         \/ /\ c \notin clients
            /\ stack' = caller
            /\ UNCHANGED <<clients, attached, read_only, close_after_flush, parked,
                           requesting_control, rows, controller, outbox>>
  BY DEF RemoveSlow, ui, policy
<1>2. less \in Frame /\ less.msgs = top.msgs /\ less.slow = top.slow \ {c}
  BY <1>1, TopType DEF Frame
<1>3. c \in top.slow /\ c \in ClientId
  <2>1. top.slow \subseteq ClientId
    BY <1>1, TopType DEF Frame
  <2> QED
    BY <1>1, <2>1, SmallestId
<1>4. promoted \in ClientId \cup {None}
  <2>1. Users \ {c} \subseteq ClientId
    BY IdsType DEF TypeOK
  <2> QED
    BY <2>1, CandidateIsEntitled
<1>5. stack \in Seq(Frame) /\ top = stack[1]
  BY DEF TypeOK, top
<1> HIDE DEF c, promoted, less
<1>6. /\ caller \in Seq(Frame)
      /\ DOMAIN caller = DOMAIN stack /\ 1 \in DOMAIN stack /\ Len(caller) = Len(stack)
      /\ caller[1] = less
      /\ \A i \in DOMAIN stack \ {1} : caller[i] = stack[i]
  BY <1>1, <1>2, <1>5, TopReplaced
<1> HIDE DEF caller
<1> QED
  BY <1>1, <1>2, <1>3, <1>4, <1>6

\* What the messages of a removal say, and that they say it to everyone.
LEMMA RemovalSays ==
  ASSUME FlagsOK', PolicyOK', NEW c, NEW p \in ClientId \cup {None},
         controller' = IF is_controller(c) THEN p ELSE controller,
         NEW msgs, msgs = RemovalMessages(c, p)
  PROVE  /\ msgs \in Seq(Envelope) /\ Len(msgs) \in 1 .. 3
         /\ \A d : Has(msgs, Rosters, d)
         /\ controller = c => \A d : Has(msgs, Movers, d)
         /\ Truthful(msgs, controller', Roster')
<1> DEFINE withdrawn == IF c \in rows THEN <<ToAll(Note("PaneRuntime"))>> ELSE <<>>
           moved == IF is_controller(c) THEN <<ToAll(controller_changed(p))>> ELSE <<>>
           roster == <<ToAll(clients_changed')>>
           h == controller'
           r == Roster'
<1>1. /\ ToAll(Note("PaneRuntime")) \in Envelope /\ ToAll(controller_changed(p)) \in Envelope
      /\ Note("PaneRuntime") \notin Movers \cup Rosters
      /\ controller_changed(p) \in Naming(p) /\ controller_changed(p) \notin Rosters
      /\ \A k : Naming(k) \subseteq Movers
      /\ \A k : Listing(k) \subseteq Rosters
  BY NoteType, ControllerChangedType, EnvelopeType, MessageKinds
<1>2. \A m : ToAll(m).to = Everyone /\ ToAll(m).msg = m
  BY DEF ToAll
<1>3. withdrawn \in Seq(Envelope) /\ Len(withdrawn) \in 0 .. 1 /\ Truthful(withdrawn, h, r)
  <2>1. Truthful(<<ToAll(Note("PaneRuntime"))>>, h, r) /\ Truthful(<<>>, h, r)
    BY <1>1, <1>2, ShortHas DEF TellsTrue
  <2> QED
    BY <1>1, <2>1
<1>4. /\ moved \in Seq(Envelope) /\ Len(moved) \in 0 .. 1 /\ Truthful(moved, h, r)
      /\ controller = c => \A d : Has(moved, Movers, d)
  <2>1. CASE is_controller(c)
    <3>1. h = p /\ moved = <<ToAll(controller_changed(p))>>
      BY <2>1
    <3>2. Truthful(<<ToAll(controller_changed(p))>>, p, r)
      BY <1>1, <1>2, ShortHas DEF TellsTrue
    <3>3. \A d : Has(<<ToAll(controller_changed(p))>>, Movers, d)
      <4>1. controller_changed(p) \in Movers
        BY <1>1
      <4> QED
        BY <1>2, <4>1, ShortHas
    <3>4. <<ToAll(controller_changed(p))>> \in Seq(Envelope) /\ Len(<<ToAll(controller_changed(p))>>) = 1
      BY <1>1
    <3> HIDE DEF moved, h, r
    <3> QED
      BY <3>1, <3>2, <3>3, <3>4
  <2>2. CASE ~ is_controller(c)
    <3>1. moved = <<>> /\ controller # c
      BY <2>2 DEF is_controller
    <3> HIDE DEF moved, h, r
    <3> QED
      BY <3>1, ShortHas
  <2> QED
    BY <2>1, <2>2
<1>5. /\ roster \in Seq(Envelope) /\ Len(roster) = 1 /\ Truthful(roster, h, r)
      /\ \A d : Has(roster, Rosters, d)
  <2>1. (clients_changed \in Listing(Roster) /\ clients_changed \notin Movers)'
    BY RosterTruthful, PTL
  <2>2. (clients_changed \in Message)'
    BY ClientsChangedType, PTL
  <2> PICK m : m = clients_changed'
    OBVIOUS
  <2>3. m \in Listing(r) /\ m \in Rosters /\ m \notin Movers /\ ToAll(m) \in Envelope
    BY <1>1, <2>1, <2>2, EnvelopeType
  <2>4. Truthful(<<ToAll(m)>>, h, r) /\ \A d : Has(<<ToAll(m)>>, Rosters, d)
    BY <1>2, <2>3, ShortHas DEF TellsTrue
  <2>5. <<ToAll(m)>> \in Seq(Envelope) /\ Len(<<ToAll(m)>>) = 1
    BY <2>3
  <2> QED
    BY <2>4, <2>5
<1>6. msgs = (withdrawn \o moved) \o roster
  BY DEF RemovalMessages, Departure
<1> HIDE DEF withdrawn, moved, roster, h, r
<1>7. /\ withdrawn \o moved \in Seq(Envelope)
      /\ (withdrawn \o moved) \o roster \in Seq(Envelope)
      /\ Len((withdrawn \o moved) \o roster) = Len(withdrawn) + Len(moved) + Len(roster)
  <2>1. withdrawn \in Seq(Envelope) /\ moved \in Seq(Envelope) /\ roster \in Seq(Envelope)
    BY <1>3, <1>4, <1>5
  <2> PICK s : s = withdrawn \o moved
    OBVIOUS
  <2>2. s \in Seq(Envelope) /\ Len(s) = Len(withdrawn) + Len(moved)
    BY <2>1
  <2>3. s \o roster \in Seq(Envelope) /\ Len(s \o roster) = Len(s) + Len(roster)
    BY <2>1, <2>2
  <2> QED
    BY <2>2, <2>3
<1>8. Truthful(withdrawn \o moved, h, r) /\ (controller = c => \A d : Has(withdrawn \o moved, Movers, d))
  BY <1>3, <1>4, ConcatHas
<1>9. /\ Truthful(msgs, h, r) /\ (controller = c => \A d : Has(msgs, Movers, d))
      /\ \A d : Has(msgs, Rosters, d)
  <2> PICK s : s = withdrawn \o moved
    OBVIOUS
  <2>1. s \in Seq(Envelope) /\ roster \in Seq(Envelope) /\ msgs = s \o roster
    BY <1>5, <1>6, <1>7
  <2>2. /\ \A T, d : Has(s, T, d) \/ Has(roster, T, d) => Has(msgs, T, d)
        /\ Truthful(s, h, r) /\ Truthful(roster, h, r) => Truthful(msgs, h, r)
    BY ONLY <2>1, ConcatHas
  <2> QED
    BY <1>5, <1>8, <2>2
<1>10. Len(msgs) \in 1 .. 3 /\ msgs \in Seq(Envelope)
  BY <1>3, <1>4, <1>5, <1>6, <1>7
<1> QED
  BY <1>9, <1>10 DEF h, r

\* A message queued keeps what a client will know, unless it says otherwise.
LEMMA SentLearns ==
  ASSUME TypeOK, NEW c \in ClientId, NEW m \in Message, NEW S,
         outbox'[c] = IF c \in S THEN Append(outbox[c], m) ELSE outbox[c],
         NEW T, NEW G, m \in T => m \in G, NEW b
  PROVE  /\ Learns(outbox[c], T, G, b) => Learns(outbox'[c], T, G, b)
         /\ c \in S /\ m \in T => Learns(outbox'[c], T, G, b)
<1> PICK q : q = outbox[c]
  OBVIOUS
<1>1. q \in Seq(Message)
  BY DEF TypeOK
<1>2. /\ m \in G => Learns(Append(q, m), T, G, b)
      /\ (m \in T => m \in G) /\ Learns(q, T, G, b) => Learns(Append(q, m), T, G, b)
  BY ONLY <1>1, m \in Message, LearnsAppended
<1> QED
  BY <1>2

-----------------------------------------------------------------------------
(* The roster, when every client reads what it is sent. *)

(***************************************************************************)
(* When no socket stops, no loop nests deeper than a removal started by    *)
(* the event loop, and an outbox holds at most the three messages of the   *)
(* present request and three for every client removed since: it never      *)
(* overflows.  What a loop has yet to send is then still true when it is   *)
(* sent, and everybody else has heard the truth or is about to.            *)
(***************************************************************************)

\* Under the innermost loop there is nothing left to send and nobody to remove;
\* it removes at most the one client it was started for.
OneLoop ==
  \A i \in DOMAIN stack :
    /\ i # 1 => stack[i].msgs = <<>> /\ stack[i].slow = {}
    /\ stack[i].slow = {} \/ (stack[i].msgs = <<>> /\ \E c \in ClientId : stack[i].slow = {c})

GoneHasNoOutbox == \A c \in ClientId \ clients : outbox[c] = <<>>

Pending == IF stack = <<>> THEN 0 ELSE Len(stack[1].msgs)

RoomLeft ==
  \A c \in clients :
    Len(outbox[c]) + Pending + 3 * Cardinality(clients) <= 3 * MaxClients + 3

Current == \A i \in DOMAIN stack : Truthful(stack[i].msgs, controller, Roster)

Informed(c) == /\ KnowsController(c) \/ Coming(Movers, c)
               /\ KnowsRoster(c) \/ Coming(Rosters, c)

RosterInv ==
  OneLoop /\ GoneHasNoOutbox /\ RoomLeft /\ Current /\ \A c \in attached : Informed(c)

\* The bound of the backlog is out of reach.
RoomyBacklog == MaxBacklog >= 3 * MaxClients

\* Queueing the next message: it fits, and it is true.
LEMMA SendInforms ==
  ASSUME TypeOK, LeaseInv, RosterInv, RoomyBacklog, Send
  PROVE  RosterInv'
<1> PICK env : env = Head(top.msgs)
  OBVIOUS
<1> PICK full : full = {c \in Recipients(env) : Len(outbox[c]) >= MaxBacklog}
  OBVIOUS
<1>1. /\ stack # <<>> /\ top.slow = {} /\ top.msgs # <<>> /\ top = stack[1]
      /\ 1 \in DOMAIN stack /\ 1 \in DOMAIN top.msgs
      /\ env \in Envelope /\ env = top.msgs[1]
      /\ Recipients(env) \subseteq clients /\ clients \subseteq ClientId
      /\ env.to = Everyone => Recipients(env) = attached
      /\ env.to # Everyone => Recipients(env) = {env.to} \cap clients
      /\ DOMAIN stack' = DOMAIN stack /\ Len(stack') = Len(stack) /\ stack' # <<>>
      /\ stack'[1].msgs = Tail(top.msgs) /\ stack'[1].slow = full
      /\ \A i \in DOMAIN stack \ {1} : stack'[i] = stack[i]
      /\ \A k \in DOMAIN Tail(top.msgs) : k + 1 \in DOMAIN top.msgs /\ Tail(top.msgs)[k] = top.msgs[k + 1]
      /\ \A k \in DOMAIN top.msgs : k = 1 \/ (k - 1 \in DOMAIN Tail(top.msgs) /\ Tail(top.msgs)[k - 1] = top.msgs[k])
      /\ Len(top.msgs) \in Nat /\ Len(Tail(top.msgs)) = Len(top.msgs) - 1
      /\ \A c \in ClientId : outbox'[c] = IF c \in Recipients(env) \ full
                                        THEN Append(outbox[c], env.msg) ELSE outbox[c]
      /\ UNCHANGED <<next_client_id, clients, attached, read_only, close_after_flush, parked,
                     requesting_control, rows, controller, input_locked, allow_takeover, view>>
  BY SendShape
<1>2. /\ \A c \in clients : Len(outbox[c]) \in Nat /\ outbox[c] \in Seq(Message)
      /\ Cardinality(clients) \in Nat /\ clients \subseteq ClientId
      /\ attached \subseteq clients
  <2>1. Cardinality(clients) \in Nat /\ attached \subseteq clients /\ clients \subseteq ClientId
    BY <1>1, ClientsFinite DEF TypeOK, FlagsOK
  <2>2. \A c \in ClientId : outbox[c] \in Seq(Message)
    BY DEF TypeOK
  <2> QED
    BY <2>1, <2>2
<1>3. Pending = Len(top.msgs) /\ Pending' = Len(top.msgs) - 1 /\ Len(top.msgs) \in Nat \ {0}
  BY <1>1 DEF Pending
<1>4. full = {}
  <2> SUFFICES ASSUME NEW c \in Recipients(env)
               PROVE  ~ (Len(outbox[c]) >= MaxBacklog)
    OBVIOUS
  <2>1. /\ c \in clients /\ Len(outbox[c]) \in Nat
        /\ Len(outbox[c]) + Pending + 3 * Cardinality(clients) <= 3 * MaxClients + 3
    BY <1>1, <1>2 DEF RosterInv, RoomLeft
  <2>2. Cardinality(clients) >= 1
    <3>1. IsFiniteSet(clients)
      BY ClientsFinite DEF TypeOK
    <3>2. Cardinality(clients) # 0
      BY <2>1, <3>1, FS_EmptySet
    <3> QED
      BY <1>2, <3>2
  <2> PICK n, p, k : n = Len(outbox[c]) /\ p = Pending /\ k = Cardinality(clients)
    OBVIOUS
  <2>3. n \in Nat /\ p \in Nat \ {0} /\ k \in Nat /\ k >= 1 /\ n + p + 3 * k <= 3 * MaxClients + 3
    BY <1>2, <1>3, <2>1, <2>2
  <2>4. MaxBacklog \in Nat /\ MaxBacklog >= 3 * MaxClients
    BY BacklogAssumption DEF RoomyBacklog
  <2>5. ~ (n >= MaxBacklog)
    BY ONLY <2>3, <2>4, MaxClientsAssumption
  <2> QED
    BY <2>5
<1>5. OneLoop'
  BY <1>1, <1>4 DEF RosterInv, OneLoop
<1>6. GoneHasNoOutbox'
  BY <1>1 DEF RosterInv, GoneHasNoOutbox
<1>7. RoomLeft'
  <2> SUFFICES ASSUME NEW c \in clients
               PROVE  Len(outbox'[c]) + Pending' + 3 * Cardinality(clients) <= 3 * MaxClients + 3
    BY <1>1 DEF RoomLeft
  <2>1. Len(outbox[c]) + Pending + 3 * Cardinality(clients) <= 3 * MaxClients + 3
    BY DEF RosterInv, RoomLeft
  <2>2. Len(outbox'[c]) \in Nat /\ Len(outbox'[c]) <= Len(outbox[c]) + 1
    <3> PICK q, m : q = outbox[c] /\ m = env.msg
      OBVIOUS
    <3>1. q \in Seq(Message) /\ m \in Message
      BY <1>1, <1>2 DEF Envelope
    <3>2. Len(Append(q, m)) = Len(q) + 1 /\ Len(q) \in Nat
      BY <3>1
    <3>3. outbox'[c] = Append(q, m) \/ outbox'[c] = q
      BY <1>1, <1>2
    <3> QED
      BY <3>2, <3>3
  <2> PICK n, o, p, w, k : /\ n = Len(outbox[c]) /\ o = Len(outbox'[c]) /\ p = Pending
                           /\ w = Pending' /\ k = Cardinality(clients)
    OBVIOUS
  <2>3. /\ n \in Nat /\ o \in Nat /\ o <= n + 1 /\ p \in Nat \ {0} /\ w = p - 1 /\ k \in Nat
        /\ n + p + 3 * k <= 3 * MaxClients + 3
    BY <1>2, <1>3, <2>1, <2>2
  <2>4. o + w + 3 * k <= 3 * MaxClients + 3
    BY ONLY <2>3, MaxClientsAssumption
  <2> QED
    BY <2>4
<1>8. Roster' = Roster
  BY <1>1 DEF Roster, TrueState, client_roster
<1>9. TellsTrue(env.msg, controller, Roster) /\ env.msg \in Message
  BY <1>1 DEF RosterInv, Current, Truthful, Envelope
<1>10. Current'
  <2> SUFFICES ASSUME NEW i \in DOMAIN stack
               PROVE  Truthful(stack'[i].msgs, controller, Roster)
    BY <1>1, <1>8 DEF Current
  <2>1. Truthful(stack[i].msgs, controller, Roster)
    BY DEF RosterInv, Current
  <2>2. CASE i = 1
    <3>1. \A k \in DOMAIN stack'[1].msgs : k + 1 \in DOMAIN stack[1].msgs
                                          /\ stack'[1].msgs[k] = stack[1].msgs[k + 1]
      BY <1>1
    <3> QED
      BY <2>1, <2>2, <3>1 DEF Truthful
  <2>3. CASE i # 1
    BY <1>1, <2>1, <2>3
  <2> QED
    BY <2>2, <2>3
<1>11. ASSUME NEW c \in attached, NEW T, NEW G, NEW b, env.msg \in T => env.msg \in G,
              Learns(outbox[c], T, G, b) \/ Coming(T, c)
       PROVE  Learns(outbox'[c], T, G, b) \/ Coming(T, c)'
  <2>1. c \in ClientId
    BY <1>2
  <2>2. outbox'[c] = IF c \in Recipients(env) \ full THEN Append(outbox[c], env.msg) ELSE outbox[c]
    BY <1>1, <2>1
  <2>3. /\ Learns(outbox[c], T, G, b) => Learns(outbox'[c], T, G, b)
        /\ c \in Recipients(env) \ full /\ env.msg \in T => Learns(outbox'[c], T, G, b)
    <3> PICK S, m : S = Recipients(env) \ full /\ m = env.msg
      OBVIOUS
    <3>1. outbox'[c] = IF c \in S THEN Append(outbox[c], m) ELSE outbox[c]
      BY <2>2
    <3>2. m \in Message /\ (m \in T => m \in G)
      BY <1>9, <1>11
    <3>3. /\ Learns(outbox[c], T, G, b) => Learns(outbox'[c], T, G, b)
          /\ c \in S /\ m \in T => Learns(outbox'[c], T, G, b)
      BY ONLY TypeOK, <2>1, <3>1, <3>2, SentLearns
    <3> QED
      BY <3>3
  <2>4. CASE Coming(T, c)
    <3>1. PICK i \in DOMAIN stack : Has(stack[i].msgs, T, c)
      BY <2>4 DEF Coming
    <3>2. PICK k \in DOMAIN stack[i].msgs : stack[i].msgs[k].msg \in T /\ stack[i].msgs[k].to \in {Everyone, c}
      BY <3>1 DEF Has
    <3>3. i = 1
      <4>1. stack[i].msgs # <<>>
        BY <3>2
      <4> QED
        BY <4>1 DEF RosterInv, OneLoop
    <3>4. CASE k = 1
      <4>1. c \in Recipients(env)
        BY <1>1, <1>2, <3>2, <3>3, <3>4
      <4> QED
        BY <1>1, <1>4, <2>3, <3>2, <3>3, <3>4, <4>1
    <3>5. CASE k # 1
      <4>1. k - 1 \in DOMAIN stack'[1].msgs /\ stack'[1].msgs[k - 1] = stack[1].msgs[k]
        BY <1>1, <3>2, <3>3, <3>5
      <4>2. Has(stack'[1].msgs, T, c)
        BY <3>2, <3>3, <4>1 DEF Has
      <4> QED
        BY <1>1, <4>2 DEF Coming
    <3> QED
      BY <3>4, <3>5
  <2> QED
    BY <1>11, <2>3, <2>4
<1>12. ASSUME NEW c \in attached'
       PROVE  Informed(c)'
  <2>1. Informed(c) /\ c \in attached
    BY <1>1 DEF RosterInv
  <2>2. view'[c] = view[c] /\ controller' = controller
    BY <1>1
  <2>3. (KnowsController(c) \/ Coming(Movers, c))'
    BY <1>9, <1>11, <2>1, <2>2 DEF Informed, KnowsController, TellsTrue
  <2>4. (KnowsRoster(c) \/ Coming(Rosters, c))'
    BY <1>8, <1>9, <1>11, <2>1, <2>2 DEF Informed, KnowsRoster, TellsTrue
  <2> QED
    BY <2>3, <2>4 DEF Informed
<1> QED
  BY <1>5, <1>6, <1>7, <1>10, <1>12 DEF RosterInv

\* When nothing is left to send, what is known stays known.
LEMMA QuietInforms ==
  ASSUME RosterInv, OneLoop', RoomLeft', \A i \in DOMAIN stack : stack[i].msgs = <<>>,
         \A i \in DOMAIN stack' : stack'[i].msgs = <<>>,
         UNCHANGED <<clients, attached, controller, outbox, view>>, Roster' = Roster
  PROVE  RosterInv'
<1>1. GoneHasNoOutbox' /\ Current'
  BY DEF RosterInv, GoneHasNoOutbox, Current, Truthful
<1>2. ASSUME NEW c \in attached'
      PROVE  Informed(c)'
  <2>1. Informed(c) /\ \A T : ~ Coming(T, c)
    BY DEF RosterInv, Coming, Has
  <2>2. KnowsController(c)' /\ KnowsRoster(c)'
    BY <2>1 DEF Informed, KnowsController, KnowsRoster
  <2> QED
    BY <2>2 DEF Informed
<1> QED
  BY <1>1, <1>2 DEF RosterInv

\* A finished loop leaves nothing behind.
LEMMA ReturnInforms ==
  ASSUME TypeOK, RosterInv, Return
  PROVE  RosterInv'
<1>1. /\ stack # <<>> /\ top.slow = {} /\ top.msgs = <<>> /\ stack' = Tail(stack)
      /\ UNCHANGED <<clients, attached, read_only, parked, requesting_control, controller,
                     input_locked, allow_takeover, outbox, view>>
  BY DEF Return, conns, ui, policy
<1>2. stack \in Seq(Frame) /\ top = stack[1]
  BY DEF TypeOK, top
<1>3. /\ \A i \in DOMAIN stack' : i + 1 \in DOMAIN stack /\ stack'[i] = stack[i + 1]
      /\ DOMAIN stack' \subseteq Nat \ {0}
  BY <1>1, <1>2
<1>4. /\ \A i \in DOMAIN stack : stack[i].msgs = <<>>
      /\ \A i \in DOMAIN stack' : stack'[i].msgs = <<>> /\ stack'[i].slow = {}
  BY <1>1, <1>2, <1>3 DEF RosterInv, OneLoop
<1>5. Roster' = Roster
  BY <1>1 DEF Roster, TrueState, client_roster
<1>6. OneLoop'
  BY <1>4 DEF OneLoop
<1>7. Pending = 0 /\ Pending' = 0
  <2>1. 1 \in DOMAIN stack /\ (stack' # <<>> => 1 \in DOMAIN stack')
    BY <1>1, <1>2
  <2>2. Len(<<>>) = 0
    OBVIOUS
  <2> QED
    BY <1>4, <2>1, <2>2 DEF Pending
<1>8. RoomLeft'
  BY <1>1, <1>7 DEF RosterInv, RoomLeft
<1> QED
  BY <1>1, <1>4, <1>5, <1>6, <1>8, QuietInforms

\* The removal of a client is told to everybody who stays.
LEMMA RemovalInforms ==
  ASSUME TypeOK, LeaseInv, RosterInv, FlagsOK', PolicyOK', RemoveSlow
  PROVE  RosterInv'
<1>1. PICK c \in top.slow, p \in ClientId \cup {None}, caller \in Seq(Frame) :
        /\ c \in ClientId /\ stack # <<>> /\ 1 \in DOMAIN stack
        /\ DOMAIN caller = DOMAIN stack /\ Len(caller) = Len(stack)
        /\ caller[1].msgs = top.msgs /\ caller[1].slow = top.slow \ {c}
        /\ \A i \in DOMAIN stack \ {1} : caller[i] = stack[i]
        /\ UNCHANGED <<next_client_id, input_locked, allow_takeover, view>>
        /\ \/ /\ c \in clients
              /\ remove_client(c, p)
              /\ stack' = IF c \in attached
                          THEN <<[msgs |-> RemovalMessages(c, p), slow |-> {}]>> \o caller
                          ELSE caller
           \/ /\ c \notin clients
              /\ stack' = caller
              /\ UNCHANGED <<clients, attached, read_only, close_after_flush, parked,
                             requesting_control, rows, controller, outbox>>
  BY RemovalShape
<1>2. /\ stack \in Seq(Frame) /\ top = stack[1] /\ IsFiniteSet(clients)
      /\ Cardinality(clients) \in Nat /\ attached \subseteq clients /\ clients \subseteq ClientId
      /\ outbox \in [ClientId -> Seq(Message)]
  BY ClientsFinite, IdsType DEF TypeOK, FlagsOK, top
<1>3. /\ \A i \in DOMAIN stack : stack[i].msgs = <<>>
      /\ \A i \in DOMAIN caller : caller[i].msgs = <<>> /\ caller[i].slow = {}
  <2>1. top.msgs = <<>> /\ top.slow = {c}
    <3>1. top.slow = {} \/ (top.msgs = <<>> /\ \E d \in ClientId : top.slow = {d})
      <4>1. 1 \in DOMAIN stack /\ top = stack[1]
        BY <1>1, <1>2
      <4> QED
        BY <4>1 DEF RosterInv, OneLoop
    <3>2. c \in top.slow
      BY <1>1
    <3> QED
      BY <3>1, <3>2
  <2> QED
    BY <1>1, <1>2, <2>1 DEF RosterInv, OneLoop
<1>4. Pending = 0
  BY <1>1, <1>3 DEF Pending
<1>5. stack' = caller => OneLoop' /\ Pending' = 0
  <2>1. Len(<<>>) = 0
    OBVIOUS
  <2> QED
    BY <1>1, <1>3, <2>1 DEF OneLoop, Pending
<1>6. CASE c \notin clients
  <2>0. UNCHANGED <<clients, attached, read_only, parked, requesting_control, controller,
                    input_locked, allow_takeover, outbox, view>>
    BY <1>1, <1>6
  <2>1. Roster' = Roster
    BY <2>0 DEF Roster, TrueState, client_roster
  <2>2. RoomLeft'
    BY <1>1, <1>4, <1>5, <1>6 DEF RosterInv, RoomLeft
  <2> QED
    BY <1>1, <1>3, <1>5, <1>6, <2>0, <2>1, <2>2, QuietInforms
<1>7. CASE c \in clients
  <2>1. /\ remove_client(c, p)
        /\ stack' = IF c \in attached
                    THEN <<[msgs |-> RemovalMessages(c, p), slow |-> {}]>> \o caller
                    ELSE caller
    BY <1>1, <1>7
  <2>2. /\ clients' = clients \ {c} /\ attached' = attached \ {c}
        /\ controller' = IF is_controller(c) THEN p ELSE controller
        /\ outbox'[c] = <<>> /\ \A d \in ClientId \ {c} : outbox'[d] = outbox[d]
    BY <1>1, <1>2, <2>1 DEF remove_client
  <2>3. GoneHasNoOutbox'
    BY <2>2 DEF RosterInv, GoneHasNoOutbox
  <2>4. Cardinality(clients') = Cardinality(clients) - 1
    BY <1>2, <1>7, <2>2, FS_RemoveElement
  <2>5. ASSUME Pending' \in 0 .. 3
        PROVE  RoomLeft'
    <3> SUFFICES ASSUME NEW d \in clients'
                 PROVE  Len(outbox'[d]) + Pending' + 3 * Cardinality(clients') <= 3 * MaxClients + 3
      BY DEF RoomLeft
    <3>1. /\ outbox'[d] = outbox[d] /\ Len(outbox[d]) \in Nat
          /\ Len(outbox[d]) + Pending + 3 * Cardinality(clients) <= 3 * MaxClients + 3
      BY <1>2, <2>2 DEF RosterInv, RoomLeft
    <3> PICK n, w, k : n = Len(outbox[d]) /\ w = Pending' /\ k = Cardinality(clients)
      OBVIOUS
    <3>2. n \in Nat /\ w \in 0 .. 3 /\ k \in Nat /\ n + 0 + 3 * k <= 3 * MaxClients + 3
      BY <1>2, <1>4, <2>5, <3>1
    <3>3. n + w + 3 * (k - 1) <= 3 * MaxClients + 3
      BY ONLY <3>2, MaxClientsAssumption
    <3> QED
      BY <2>4, <3>1, <3>3
  <2>6. \A d \in attached : /\ KnowsController(d) /\ KnowsRoster(d)
    BY <1>3 DEF RosterInv, Informed, Coming, Has
  <2>7. controller' = controller => \A d \in attached' : KnowsController(d)'
    BY <1>1, <1>2, <2>2, <2>6 DEF KnowsController
  <2>8. CASE c \notin attached
    <3>0. c # None /\ UNCHANGED <<input_locked, allow_takeover>>
      <4>1. c \in ClientId /\ UNCHANGED <<input_locked, allow_takeover>>
        BY <1>1
      <4> QED
        BY ONLY <4>1, MaxClientsAssumption DEF None, ClientId
    <3>1. controller' = controller
      <4>1. controller # c
        BY <3>0, <2>8 DEF LeaseInv, LeaseHeldByUser, Users
      <4> QED
        BY <2>2, <4>1 DEF is_controller
    <3>2. Roster' = Roster
      <4>1. /\ c \notin read_only /\ c \notin parked /\ c \notin requesting_control
            /\ ~ is_controller(c)
        BY <3>0, <2>8 DEF LeaseInv, FlagsOK, LeaseHeldByUser, Users, is_controller
      <4>2. UNCHANGED <<attached, read_only, parked, requesting_control>>
        BY <2>1, <2>8, <4>1 DEF remove_client
      <4> QED
        BY <3>0, <3>1, <4>2 DEF Roster, TrueState, client_roster
    <3>3. \A d \in attached' : KnowsRoster(d)'
      BY <1>1, <1>2, <2>2, <2>6, <2>8, <3>2 DEF KnowsRoster
    <3>4. stack' = caller
      BY <2>1, <2>8
    <3>5. Current'
      BY <1>3, <3>4 DEF Current, Truthful
    <3> QED
      BY <1>5, <2>3, <2>5, <2>7, <3>1, <3>3, <3>4, <3>5 DEF RosterInv, Informed
  <2>9. CASE c \in attached
    <3> PICK msgs : msgs = RemovalMessages(c, p)
      OBVIOUS
    <3>1. /\ msgs \in Seq(Envelope) /\ Len(msgs) \in 1 .. 3
          /\ \A d : Has(msgs, Rosters, d)
          /\ controller = c => \A d : Has(msgs, Movers, d)
          /\ Truthful(msgs, controller', Roster')
      BY <2>2, RemovalSays
    <3> PICK f : f = [msgs |-> msgs, slow |-> {}]
      OBVIOUS
    <3>2. f \in Frame /\ f.msgs = msgs /\ f.slow = {}
      BY <3>1 DEF Frame
    <3>3. stack' = <<f>> \o caller
      BY <2>1, <2>9
    <3>4. /\ DOMAIN stack' = 1 .. Len(caller) + 1 /\ Len(caller) \in Nat
          /\ stack'[1] = f
          /\ \A i \in DOMAIN stack' : i = 1 \/ (i - 1 \in DOMAIN caller /\ stack'[i] = caller[i - 1])
      BY <3>2, <3>3, LoopPushed
    <3>5. 1 \in DOMAIN stack' /\ stack' # <<>>
      BY <3>4
    <3>6. OneLoop'
      BY <1>3, <3>2, <3>4 DEF OneLoop
    <3>7. RoomLeft'
      BY <2>5, <3>1, <3>2, <3>4, <3>5 DEF Pending
    <3>8. Current'
      <4> SUFFICES ASSUME NEW i \in DOMAIN stack'
                   PROVE  Truthful(stack'[i].msgs, controller', Roster')
        BY DEF Current
      <4>1. CASE i = 1
        BY <3>1, <3>2, <3>4, <4>1
      <4>2. CASE i # 1
        BY <1>3, <3>4, <4>2, ShortHas
      <4> QED
        BY <4>1, <4>2
    <3>9. \A d : Coming(Rosters, d)' /\ (controller = c => Coming(Movers, d)')
      BY <3>1, <3>2, <3>4, <3>5 DEF Coming
    <3>10. controller # c => controller' = controller
      BY <2>2 DEF is_controller
    <3>11. \A d \in attached' : Informed(d)'
      BY <2>7, <3>9, <3>10 DEF Informed
    <3> QED
      BY <2>3, <3>6, <3>7, <3>8, <3>11 DEF RosterInv
  <2> QED
    BY <2>8, <2>9
<1> QED
  BY <1>6, <1>7

\* Responses that name h as the holder of the lease and list r, and reach every
\* attached client that does not know these already.
Informs(msgs, h, r) ==
  /\ msgs \in Seq(Envelope) /\ Len(msgs) \in 0 .. 3 /\ Truthful(msgs, h, r)
  /\ \A c \in attached' : /\ (c \in attached /\ controller = h) \/ Has(msgs, Movers, c)
                          /\ (c \in attached /\ Roster = r) \/ Has(msgs, Rosters, c)

\* A handler starts its loop when everything sent before has been read.
LEMMA LoopStartInforms ==
  ASSUME TypeOK, RosterInv, FlagsOK', Idle, \A c \in clients : outbox[c] = <<>>,
         NEW msgs, Reply(msgs), UNCHANGED <<outbox, view, clients>>,
         Informs(msgs, controller', Roster')
  PROVE  RosterInv'
<1>1. stack = <<>> /\ attached \subseteq clients
  BY DEF Idle, TypeOK, FlagsOK
<1>2. /\ DOMAIN stack' = {1} /\ stack' # <<>>
      /\ stack'[1].msgs = msgs /\ stack'[1].slow = {}
  BY DEF Reply
<1>3. OneLoop' /\ GoneHasNoOutbox' /\ Current'
  BY <1>2 DEF RosterInv, OneLoop, GoneHasNoOutbox, Current, Informs
<1>4. RoomLeft'
  <2>1. (Cardinality(clients) \in Nat /\ Cardinality(clients) <= next_client_id - 1
          /\ next_client_id \in 1 .. MaxClients + 1)'
    BY ClientsFinite, PTL DEF FlagsOK
  <2>2. \A c \in clients' : Len(outbox'[c]) = 0
    OBVIOUS
  <2>3. Pending' \in 0 .. 3
    BY <1>2 DEF Pending, Informs
  <2> PICK k, w, n : k = Cardinality(clients') /\ w = Pending' /\ n = next_client_id'
    OBVIOUS
  <2>4. k \in Nat /\ w \in 0 .. 3 /\ n \in 1 .. MaxClients + 1 /\ k <= n - 1
    BY <2>1, <2>3
  <2>5. 0 + w + 3 * k <= 3 * MaxClients + 3
    BY ONLY <2>4, MaxClientsAssumption
  <2> QED
    BY <2>2, <2>5 DEF RoomLeft
<1>5. ASSUME NEW c \in attached'
      PROVE  Informed(c)'
  <2>1. c \in attached => KnowsController(c) /\ KnowsRoster(c)
    BY <1>1 DEF RosterInv, Informed, Coming
  <2>2. \A T : Has(msgs, T, c) => Coming(T, c)'
    BY <1>2 DEF Coming
  <2>3. c \in attached /\ controller = controller' => KnowsController(c)'
    BY <2>1 DEF KnowsController
  <2>4. c \in attached /\ Roster = Roster' => KnowsRoster(c)'
    BY <2>1 DEF KnowsRoster
  <2> QED
    BY <2>2, <2>3, <2>4 DEF Informs, Informed
<1> QED
  BY <1>3, <1>4, <1>5 DEF RosterInv

\* Starting the removal of a client tells nobody anything.
LEMMA DropInforms ==
  ASSUME RosterInv, Idle, NEW c \in ClientId, Drop(c),
         UNCHANGED <<clients, attached, controller, outbox, view>>, Roster' = Roster
  PROVE  RosterInv'
<1>1. /\ stack = <<>> /\ stack' # <<>>
      /\ DOMAIN stack' = {1} /\ stack'[1].msgs = <<>> /\ stack'[1].slow = {c}
  BY DEF Idle, Drop
<1>2. OneLoop'
  BY <1>1 DEF OneLoop
<1>3. Pending = 0 /\ Pending' = 0
  <2>1. Len(<<>>) = 0
    OBVIOUS
  <2> QED
    BY <1>1, <2>1 DEF Pending
<1>4. RoomLeft'
  BY <1>3 DEF RosterInv, RoomLeft
<1> QED
  BY <1>1, <1>2, <1>4, QuietInforms

\* The three kinds of responses: a move of the lease, a new roster with or
\* without a word to one client, and a message about something else.
LEMMA UsualInforms ==
  ASSUME FlagsOK', PolicyOK', attached' = attached
  PROVE  /\ \A to \in ClientId \cup {None} :
              Informs(<<ToAll(controller_changed(to)), ToAll(clients_changed')>>, to, Roster')
         /\ Informs(<<ToAll(clients_changed')>>, controller, Roster')
         /\ \A m \in Message, d \in ClientId : m \notin Movers \cup Rosters =>
              Informs(<<ToAll(clients_changed'), To(d, m)>>, controller, Roster')
         /\ \A m \in Message : m \notin Movers \cup Rosters =>
              /\ Informs(<<ToAll(m)>>, controller, Roster)
              /\ \A d \in ClientId : Informs(<<To(d, m)>>, controller, Roster)
<1> PICK x, r : x = clients_changed' /\ r = Roster'
  OBVIOUS
<1>1. x \in Listing(r) /\ x \in Rosters /\ x \notin Movers /\ x \in Message
  <2>1. (clients_changed \in Listing(Roster) /\ clients_changed \notin Movers)'
    BY RosterTruthful, PTL
  <2>2. (clients_changed \in Message)'
    BY ClientsChangedType, PTL
  <2> QED
    BY <2>1, <2>2, MessageKinds
<1>2. /\ \A m : ToAll(m).to = Everyone /\ ToAll(m).msg = m
      /\ \A m, d : To(d, m).msg = m
      /\ \A m \in Message : ToAll(m) \in Envelope /\ \A d \in ClientId : To(d, m) \in Envelope
  BY EnvelopeType DEF ToAll, To
<1> PICK a : a = ToAll(x)
  OBVIOUS
<1>3. /\ a \in Envelope /\ \A c : Has(<<a>>, Rosters, c)
      /\ \A h : TellsTrue(a.msg, h, r)
  BY <1>1, <1>2, ShortHas DEF TellsTrue
<1>4. \A b \in Envelope : <<b>> \in Seq(Envelope) /\ Len(<<b>>) = 1
  OBVIOUS
<1>5. ASSUME NEW to \in ClientId \cup {None}
      PROVE  Informs(<<ToAll(controller_changed(to)), a>>, to, r)
  <2> PICK b : b = ToAll(controller_changed(to))
    OBVIOUS
  <2>1. /\ b \in Envelope /\ \A c : Has(<<b>>, Movers, c)
        /\ TellsTrue(b.msg, to, r)
    <3>1. /\ controller_changed(to) \in Message
          /\ controller_changed(to) \in Naming(to) /\ controller_changed(to) \in Movers
          /\ controller_changed(to) \notin Rosters
      BY ControllerChangedType, MessageKinds
    <3> QED
      BY <1>2, <3>1, ShortHas DEF TellsTrue
  <2>2. /\ <<b, a>> \in Seq(Envelope) /\ Len(<<b, a>>) = 2
        /\ \A T, c : Has(<<b>>, T, c) \/ Has(<<a>>, T, c) => Has(<<b, a>>, T, c)
        /\ TellsTrue(b.msg, to, r) /\ TellsTrue(a.msg, to, r) => Truthful(<<b, a>>, to, r)
    BY <1>3, <2>1, PairHas
  <2> PICK s : s = <<b, a>>
    OBVIOUS
  <2>3. Informs(s, to, r)
    BY <1>3, <2>1, <2>2 DEF Informs
  <2> QED
    BY <2>3
<1>6. Informs(<<a>>, controller, r)
  <2> PICK s : s = <<a>>
    OBVIOUS
  <2>1. /\ s \in Seq(Envelope) /\ Len(s) = 1 /\ \A c : Has(s, Rosters, c)
        /\ Truthful(s, controller, r)
    BY <1>3, <1>4, ShortHas
  <2>2. Informs(s, controller, r)
    BY <2>1 DEF Informs
  <2> QED
    BY <2>2
<1>7. ASSUME NEW m \in Message, NEW d \in ClientId, m \notin Movers \cup Rosters
      PROVE  Informs(<<a, To(d, m)>>, controller, r)
  <2> PICK b : b = To(d, m)
    OBVIOUS
  <2>1. b \in Envelope /\ TellsTrue(b.msg, controller, r)
    BY <1>2, <1>7 DEF TellsTrue
  <2>2. /\ <<a, b>> \in Seq(Envelope) /\ Len(<<a, b>>) = 2
        /\ \A T, c : Has(<<a>>, T, c) \/ Has(<<b>>, T, c) => Has(<<a, b>>, T, c)
        /\ TellsTrue(a.msg, controller, r) /\ TellsTrue(b.msg, controller, r)
             => Truthful(<<a, b>>, controller, r)
    BY <1>3, <2>1, PairHas
  <2> PICK s : s = <<a, b>>
    OBVIOUS
  <2>3. Informs(s, controller, r)
    BY <1>3, <2>1, <2>2 DEF Informs
  <2> QED
    BY <2>3
<1>8. ASSUME NEW b \in Envelope, b.msg \notin Movers \cup Rosters
      PROVE  Informs(<<b>>, controller, Roster)
  <2> PICK s : s = <<b>>
    OBVIOUS
  <2>1. s \in Seq(Envelope) /\ Len(s) = 1 /\ Truthful(s, controller, Roster)
    BY <1>4, <1>8, ShortHas DEF TellsTrue
  <2>2. Informs(s, controller, Roster)
    BY <2>1 DEF Informs
  <2> QED
    BY <2>2
<1>9. \A m \in Message : m \notin Movers \cup Rosters =>
        /\ Informs(<<ToAll(m)>>, controller, Roster)
        /\ \A d \in ClientId : Informs(<<To(d, m)>>, controller, Roster)
  BY <1>2, <1>8
<1> QED
  BY <1>5, <1>6, <1>7, <1>9

\* Nobody lags behind when the server turns to a request.
LEMMA ServingDrained ==
  ASSUME Slow = {}, Serving
  PROVE  Idle /\ \A c \in clients : outbox[c] = <<>>
BY DEF Serving

\* Every request of an attached client is told to those it concerns.
LEMMA RequestInforms ==
  ASSUME TypeOK, LeaseInv, RosterInv, Slow = {}, FlagsOK', PolicyOK', NEW c \in ClientId, Request(c)
  PROVE  RosterInv'
<1>1. UNCHANGED <<outbox, view, clients, attached, read_only>>
  BY DEF Request, RequestControl, Park, Unpark, Detach, ReportPaneRows, GrantControl,
     DeclineControl, EvictClient, SetControlTakeover, SetInputLock, Drag, conns, ui
<1>2. Idle /\ \A d \in clients : outbox[d] = <<>>
  <2>1. Serving
    BY DEF Request, RequestControl, Park, Unpark, Detach, ReportPaneRows, GrantControl,
       DeclineControl, EvictClient, SetControlTakeover, SetInputLock, Drag
  <2> QED
    BY <2>1, ServingDrained
<1>3. ASSUME NEW msgs, Reply(msgs), Informs(msgs, controller', Roster')
      PROVE  RosterInv'
  BY <1>1, <1>2, <1>3, LoopStartInforms
<1>4. /\ \A to \in ClientId \cup {None} :
           Informs(<<ToAll(controller_changed(to)), ToAll(clients_changed')>>, to, Roster')
      /\ Informs(<<ToAll(clients_changed')>>, controller, Roster')
      /\ \A m \in Message, d \in ClientId : m \notin Movers \cup Rosters =>
           Informs(<<ToAll(clients_changed'), To(d, m)>>, controller, Roster')
      /\ \A m \in Message : m \notin Movers \cup Rosters =>
           /\ Informs(<<ToAll(m)>>, controller, Roster)
           /\ \A d \in ClientId : Informs(<<To(d, m)>>, controller, Roster)
  BY <1>1, UsualInforms
<1>5. \A t \in {"ControlRequested", "ControlDeclined", "Error", "PaneRuntime"} :
        Note(t) \in Message /\ Note(t) \notin Movers \cup Rosters
  BY NoteType, MessageKinds
<1>6. ASSUME NEW to \in ClientId \cup {None}, controller' = to,
             Reply(<<ToAll(controller_changed(to)), ToAll(clients_changed')>>)
      PROVE  RosterInv'
  BY <1>3, <1>4, <1>6
<1>7. ASSUME NEW to \in ClientId, assign_controller(to)
      PROVE  RosterInv'
  BY <1>6, <1>7 DEF assign_controller
<1>8. CASE Reply(<<ToAll(clients_changed')>>) /\ controller' = controller
  BY <1>3, <1>4, <1>8
<1>9. ASSUME UNCHANGED <<parked, requesting_control, controller, input_locked, allow_takeover>>
      PROVE  Roster' = Roster
  BY <1>1, <1>9 DEF Roster, TrueState, client_roster
<1>10. CASE RequestControl(c)
  <2>1. CASE TakesAtOnce
    BY <1>7, <1>10, <2>1 DEF RequestControl
  <2>2. CASE ~TakesAtOnce
    <3>1. controller \in ClientId /\ controller' = controller
      BY <1>10, <2>2 DEF RequestControl, TakesAtOnce, TypeOK, FlagsOK
    <3>2. CASE c \in requesting_control
      <4>1. Reply(<<>> \o <<To(controller, Note("ControlRequested"))>>)
        BY <1>10, <2>2, <3>2 DEF RequestControl
      <4>2. <<>> \o <<To(controller, Note("ControlRequested"))>>
              = <<To(controller, Note("ControlRequested"))>>
        OBVIOUS
      <4>3. UNCHANGED <<parked, requesting_control, controller, input_locked, allow_takeover>>
        BY <1>10, <2>2, <3>2 DEF RequestControl, policy
      <4>4. Reply(<<To(controller, Note("ControlRequested"))>>)
        BY <4>1, <4>2
      <4> QED
        BY <1>3, <1>4, <1>5, <1>9, <3>1, <4>3, <4>4
    <3>3. CASE c \notin requesting_control
      <4>1. Reply(<<ToAll(clients_changed')>> \o <<To(controller, Note("ControlRequested"))>>)
        BY <1>10, <2>2, <3>3 DEF RequestControl
      <4>2. <<ToAll(clients_changed')>> \o <<To(controller, Note("ControlRequested"))>>
              = <<ToAll(clients_changed'), To(controller, Note("ControlRequested"))>>
        BY ShortLists
      <4>3. Reply(<<ToAll(clients_changed'), To(controller, Note("ControlRequested"))>>)
        BY <4>1, <4>2
      <4> QED
        BY <1>3, <1>4, <1>5, <3>1, <4>3
    <3> QED
      BY <3>2, <3>3
  <2> QED
    BY <2>1, <2>2
<1>11. CASE Park(c)
  <2>1. CASE is_controller(c)
    <3> PICK to : to = promotion_candidate(Users \ {c})
      OBVIOUS
    <3>1. /\ Reply(<<ToAll(controller_changed(to)), ToAll(clients_changed')>>)
          /\ controller' = to
      BY <1>11, <2>1 DEF Park, release_controller
    <3>2. Users \ {c} \subseteq ClientId
      BY IdsType DEF TypeOK
    <3>3. to \in ClientId \cup {None}
      BY <3>2, CandidateIsEntitled
    <3> QED
      BY <1>6, <3>1, <3>3
  <2>2. CASE ~is_controller(c)
    BY <1>8, <1>11, <2>2 DEF Park
  <2> QED
    BY <2>1, <2>2
<1>12. CASE Unpark(c)
  BY <1>7, <1>8, <1>12 DEF Unpark
<1>13. CASE Detach(c)
  <2>1. UNCHANGED <<parked, requesting_control, controller, input_locked, allow_takeover>> /\ Drop(c)
    BY <1>13 DEF Detach, policy
  <2> QED
    BY <1>1, <1>2, <1>9, <2>1, DropInforms
<1>14. CASE ReportPaneRows(c)
  <2>1. /\ UNCHANGED <<parked, requesting_control, controller, input_locked, allow_takeover>>
        /\ Reply(<<ToAll(Note("PaneRuntime"))>>)
    BY <1>14 DEF ReportPaneRows, policy
  <2> QED
    BY <1>3, <1>4, <1>5, <1>9, <2>1
<1>15. ASSUME NEW to \in ClientId, GrantControl(c, to)
       PROVE  RosterInv'
  BY <1>7, <1>15 DEF GrantControl
<1>16. ASSUME NEW to \in ClientId, DeclineControl(c, to)
       PROVE  RosterInv'
  <2>1. /\ controller' = controller
        /\ Reply(<<ToAll(clients_changed'), To(to, Note("ControlDeclined"))>>)
    BY <1>16 DEF DeclineControl
  <2> QED
    BY <1>3, <1>4, <1>5, <2>1
<1>17. ASSUME NEW to \in ClientId, EvictClient(c, to)
       PROVE  RosterInv'
  <2>1. /\ UNCHANGED <<parked, requesting_control, controller, input_locked, allow_takeover>>
        /\ Reply(<<To(to, Note("Error"))>>)
    BY <1>17 DEF EvictClient, policy
  <2> QED
    BY <1>3, <1>4, <1>5, <1>9, <2>1
<1>18. ASSUME NEW on \in BOOLEAN, SetControlTakeover(c, on) \/ SetInputLock(c, on)
       PROVE  RosterInv'
  BY <1>8, <1>18 DEF SetControlTakeover, SetInputLock
<1>19. ASSUME NEW on \in BOOLEAN, Drag(c, on)
       PROVE  RosterInv'
  <2> PICK m : m = [type |-> "DragChanged", author |-> c, lifted |-> on]
    OBVIOUS
  <2>1. /\ UNCHANGED <<parked, requesting_control, controller, input_locked, allow_takeover>>
        /\ Reply(<<ToAll(m)>>)
    BY <1>19 DEF Drag, policy
  <2>2. m \in Message /\ m \notin Movers \cup Rosters
    <3>1. m \in Message
      BY DEF Message
    <3> QED
      BY <3>1, MessageKinds
  <2> QED
    BY <1>3, <1>4, <1>9, <2>1, <2>2
<1> QED
  BY <1>10, <1>11, <1>12, <1>13, <1>14, <1>15, <1>16, <1>17, <1>18, <1>19 DEF Request

\* A client that attaches is told everything, and everyone that it has come.
LEMMA AttachInforms ==
  ASSUME TypeOK, RosterInv, Slow = {}, FlagsOK', PolicyOK', NEW c \in ClientId, NEW ro \in BOOLEAN,
         Attach(c, ro)
  PROVE  RosterInv'
<1> PICK m : m = [type |-> "Attached", state |-> TrueState']
  OBVIOUS
<1> PICK x, r, h : x = clients_changed' /\ r = Roster' /\ h = controller'
  OBVIOUS
<1> PICK granted \in BOOLEAN : granted = (controller = None /\ ~ro)
  OBVIOUS
<1>1. /\ Idle /\ \A d \in clients : outbox[d] = <<>>
      /\ UNCHANGED <<outbox, view, clients>> /\ attached' = attached \cup {c}
      /\ controller' = IF granted THEN c ELSE controller
      /\ Reply(<<To(c, m), ToAll(x)>> \o IF granted THEN <<ToAll(controller_changed(c))>> ELSE <<>>)
  <2>1. Serving
    BY DEF Attach
  <2> QED
    BY <2>1, ServingDrained DEF Attach, ui
<1>2. x \in Listing(r) /\ x \in Rosters /\ x \notin Movers /\ x \in Message
  <2>1. (clients_changed \in Listing(Roster) /\ clients_changed \notin Movers)'
    BY RosterTruthful, PTL
  <2>2. (clients_changed \in Message)'
    BY ClientsChangedType, PTL
  <2> QED
    BY <2>1, <2>2, MessageKinds
<1>3. m \in Naming(h) /\ m \in Listing(r) /\ m \in Message /\ m \in Movers /\ m \in Rosters
  <2>1. ([type |-> "Attached", state |-> TrueState] \in Naming(controller)
          /\ [type |-> "Attached", state |-> TrueState] \in Listing(Roster))'
    BY HelloTruthful, PTL
  <2> QED
    BY <2>1 DEF Naming, Listing, Movers, Rosters
<1> PICK a, b, d : a = To(c, m) /\ b = ToAll(x) /\ d = ToAll(controller_changed(c))
  OBVIOUS
<1>4. /\ a \in Envelope /\ b \in Envelope /\ a.to = c /\ a.msg = m /\ b.to = Everyone /\ b.msg = x
  BY <1>2, <1>3, EnvelopeType DEF To, ToAll
<1>5. /\ TellsTrue(a.msg, h, r) /\ TellsTrue(b.msg, h, r)
      /\ Has(<<a>>, Movers, c) /\ \A e : Has(<<b>>, Rosters, e)
  BY <1>2, <1>3, <1>4, ShortHas DEF TellsTrue
<1>6. CASE granted
  <2>1. d \in Envelope /\ TellsTrue(d.msg, h, r) /\ \A e : Has(<<d>>, Movers, e)
    <3>1. /\ controller_changed(c) \in Message /\ controller_changed(c) \in Naming(c)
          /\ controller_changed(c) \in Movers /\ controller_changed(c) \notin Rosters
      BY ControllerChangedType, MessageKinds
    <3>2. d \in Envelope /\ d.to = Everyone /\ d.msg = controller_changed(c)
      BY <3>1, EnvelopeType DEF ToAll
    <3>3. h = c
      BY <1>1, <1>6
    <3> QED
      BY <3>1, <3>2, <3>3, ShortHas DEF TellsTrue
  <2> PICK s : s = <<a, b, d>>
    OBVIOUS
  <2>2. /\ s \in Seq(Envelope) /\ Len(s) = 3
        /\ \A T, e : Has(<<a>>, T, e) \/ Has(<<b>>, T, e) \/ Has(<<d>>, T, e) => Has(s, T, e)
        /\ Truthful(s, h, r)
    BY <1>4, <1>5, <2>1, PairHas
  <2>3. Informs(s, controller', Roster')
    BY <1>5, <2>1, <2>2 DEF Informs
  <2>4. Reply(s)
    BY <1>1, <1>6, ShortLists
  <2> QED
    BY <1>1, <2>3, <2>4, LoopStartInforms
<1>7. CASE ~granted
  <2> PICK s : s = <<a, b>>
    OBVIOUS
  <2>1. /\ s \in Seq(Envelope) /\ Len(s) = 2
        /\ \A T, e : Has(<<a>>, T, e) \/ Has(<<b>>, T, e) => Has(s, T, e)
        /\ Truthful(s, h, r)
    BY <1>4, <1>5, PairHas
  <2>2. \A e \in attached' : e = c \/ (e \in attached /\ controller' = controller)
    BY <1>1, <1>7
  <2>3. Informs(s, controller', Roster')
    BY <1>5, <2>1, <2>2 DEF Informs
  <2>4. Reply(s)
    <3>1. s \o <<>> = s
      BY <2>1
    <3>2. Reply(s \o <<>>)
      BY <1>1, <1>7
    <3> QED
      BY <3>1, <3>2
  <2> QED
    BY <1>1, <2>3, <2>4, LoopStartInforms
<1> QED
  BY <1>6, <1>7

\* A connection accepted brings room for its own removal.
LEMMA AcceptInforms ==
  ASSUME TypeOK, RosterInv, Slow = {}, FlagsOK', Accept
  PROVE  RosterInv'
<1>1. /\ stack = <<>> /\ \A c \in clients : outbox[c] = <<>>
      /\ clients' = clients \cup {next_client_id}
      /\ UNCHANGED <<attached, read_only, parked, requesting_control, controller,
                     input_locked, allow_takeover, outbox, stack, view>>
  <2>1. Serving
    BY DEF Accept
  <2> QED
    BY <2>1, ServingDrained DEF Accept, Idle, ui, policy
<1>2. Roster' = Roster
  BY <1>1 DEF Roster, TrueState, client_roster
<1>3. \A c \in clients' : outbox[c] = <<>>
  <2> PICK n : n = next_client_id
    OBVIOUS
  <2>a. /\ n \in 1 .. MaxClients + 1 /\ n <= MaxClients
        /\ clients \subseteq 1 .. n - 1
    BY DEF Accept, TypeOK, FlagsOK
  <2>b. n \in 1 .. MaxClients /\ n \notin 1 .. n - 1
    BY ONLY <2>a, MaxClientsAssumption
  <2>1. next_client_id \in ClientId /\ next_client_id \notin clients
    BY <2>a, <2>b DEF ClientId
  <2> QED
    BY <1>1, <2>1 DEF RosterInv, GoneHasNoOutbox
<1>4. RoomLeft'
  <2>1. (Cardinality(clients) \in Nat /\ Cardinality(clients) <= next_client_id - 1
          /\ next_client_id \in 1 .. MaxClients + 1)'
    BY ClientsFinite, PTL DEF FlagsOK
  <2>2. \A c \in clients' : Len(outbox'[c]) = 0
    BY <1>1, <1>3
  <2>3. Pending' = 0
    BY <1>1 DEF Pending
  <2> PICK k, n : k = Cardinality(clients') /\ n = next_client_id'
    OBVIOUS
  <2>4. k \in Nat /\ n \in 1 .. MaxClients + 1 /\ k <= n - 1
    BY <2>1
  <2>5. 0 + 0 + 3 * k <= 3 * MaxClients + 3
    BY ONLY <2>4, MaxClientsAssumption
  <2> QED
    BY <2>2, <2>3, <2>5 DEF RoomLeft
<1>5. OneLoop' /\ GoneHasNoOutbox' /\ Current'
  BY <1>1 DEF RosterInv, OneLoop, GoneHasNoOutbox, Current
<1>6. ASSUME NEW c \in attached'
      PROVE  Informed(c)'
  <2>1. KnowsController(c) /\ KnowsRoster(c)
    BY <1>1 DEF RosterInv, Informed, Coming
  <2>2. KnowsController(c)' /\ KnowsRoster(c)'
    BY <1>1, <1>2, <2>1 DEF KnowsController, KnowsRoster
  <2> QED
    BY <2>2 DEF Informed
<1> QED
  BY <1>4, <1>5, <1>6 DEF RosterInv

\* Refusals, broadcasts about something else, and connections that end.
LEMMA ConnectionInforms ==
  ASSUME TypeOK, RosterInv, Slow = {}, FlagsOK', PolicyOK', NEW c \in ClientId,
         AttachRefused(c) \/ PaneRuntimeChange \/ Disconnect(c) \/ HeartbeatExpire(c)
  PROVE  RosterInv'
<1>1. /\ UNCHANGED <<clients, attached, read_only, parked, requesting_control, controller,
                     input_locked, allow_takeover, outbox, view>>
      /\ Idle
  BY DEF AttachRefused, PaneRuntimeChange, Disconnect, HeartbeatExpire, Serving, conns, ui, policy
<1>2. Roster' = Roster
  BY <1>1 DEF Roster, TrueState, client_roster
<1>3. CASE AttachRefused(c) \/ PaneRuntimeChange
  <2>1. Serving
    BY <1>3 DEF AttachRefused, PaneRuntimeChange
  <2>2. \A t \in {"Error", "PaneRuntime"} : Note(t) \in Message /\ Note(t) \notin Movers \cup Rosters
    BY NoteType, MessageKinds
  <2>3. /\ Informs(<<ToAll(Note("PaneRuntime"))>>, controller, Roster)
        /\ Informs(<<To(c, Note("Error"))>>, controller, Roster)
    BY <1>1, <2>2, UsualInforms
  <2>4. Reply(<<ToAll(Note("PaneRuntime"))>>) \/ Reply(<<To(c, Note("Error"))>>)
    BY <1>3 DEF AttachRefused, PaneRuntimeChange
  <2> QED
    BY <1>1, <1>2, <2>1, <2>3, <2>4, ServingDrained, LoopStartInforms
<1>4. CASE Disconnect(c) \/ HeartbeatExpire(c)
  <2>1. Drop(c)
    BY <1>4 DEF Disconnect, HeartbeatExpire
  <2> QED
    BY <1>1, <1>2, <2>1, DropInforms
<1> QED
  BY <1>3, <1>4

\* What a client sees of the lease and of the roster after a message.
LEMMA ViewTakes ==
  ASSUME TypeOK, NEW c \in ClientId, NEW m \in Message, NEW v, v = ViewAfter(c, m)
  PROVE  /\ \A h : m \in Naming(h) => v.controller = h
         /\ m \notin Movers => v.controller = view[c].controller
         /\ \A r : m \in Listing(r) => Listed(v) = r
         /\ m \notin Rosters => Listed(v) = Listed(view[c])
<1>1. view[c] \in SharedState
  BY DEF TypeOK
<1>2. CASE m.type = "Attached"
  <2>1. v = m.state /\ m \in Movers /\ m \in Rosters
    BY <1>2 DEF ViewAfter, Movers, Rosters
  <2> QED
    BY <1>2, <2>1 DEF Naming, Named, Listing
<1>3. CASE m.type = "ControllerChanged"
  <2>1. /\ v.controller = m.controller /\ v.clients = view[c].clients
        /\ v.input_locked = view[c].input_locked /\ v.allow_takeover = view[c].allow_takeover
    BY <1>1, <1>3 DEF ViewAfter, SharedState
  <2>2. m \in Movers /\ m \notin Rosters
    BY <1>3 DEF Movers, Rosters
  <2> QED
    BY <1>3, <2>1, <2>2 DEF Naming, Named, Listing, Listed
<1>4. CASE m.type = "ClientsChanged"
  <2>1. /\ v.controller = view[c].controller /\ v.clients = m.clients
        /\ v.input_locked = m.input_locked /\ v.allow_takeover = m.allow_takeover
    BY <1>1, <1>4 DEF ViewAfter, SharedState
  <2>2. m \notin Movers /\ m \in Rosters
    BY <1>4 DEF Movers, Rosters
  <2> QED
    BY <1>4, <2>1, <2>2 DEF Naming, Listing, Listed
<1>5. CASE m.type \notin {"Attached", "ControllerChanged", "ClientsChanged"}
  <2>1. v = view[c] /\ m \notin Movers /\ m \notin Rosters
    BY <1>5 DEF ViewAfter, Movers, Rosters
  <2> QED
    BY <2>1 DEF Naming, Listing
<1> QED
  BY <1>2, <1>3, <1>4, <1>5

\* A client that takes in its next message still learns the rest.
LEMMA FlushLearns ==
  ASSUME TypeOK, NEW c \in ClientId, Flush(c), UNCHANGED controller, Roster' = Roster
  PROVE  \A d \in ClientId : /\ KnowsController(d) => KnowsController(d)'
                             /\ KnowsRoster(d) => KnowsRoster(d)'
<1> PICK q, m, v : q = outbox[c] /\ m = Head(outbox[c]) /\ v = ViewAfter(c, m)
  OBVIOUS
<1>1. /\ q # <<>> /\ outbox' = [outbox EXCEPT ![c] = Tail(@)] /\ view' = [view EXCEPT ![c] = v]
  BY DEF Flush
<1>2. /\ outbox \in [ClientId -> Seq(Message)] /\ view \in [ClientId -> SharedState]
  BY DEF TypeOK
<1>3. /\ outbox'[c] = Tail(q) /\ view'[c] = v
      /\ \A d \in ClientId \ {c} : outbox'[d] = outbox[d] /\ view'[d] = view[d]
  BY <1>1, <1>2
<1>4. q \in Seq(Message) /\ m \in Message /\ m = Head(q)
  <2>1. q \in Seq(Message)
    BY <1>2
  <2> QED
    BY <1>1, <2>1
<1>5. /\ \A h : m \in Naming(h) => v.controller = h
      /\ m \notin Movers => v.controller = view[c].controller
      /\ \A r : m \in Listing(r) => Listed(v) = r
      /\ m \notin Rosters => Listed(v) = Listed(view[c])
  BY <1>4, ViewTakes
<1>6. ASSUME NEW T, NEW G, G \subseteq T, NEW b, NEW e, Learns(q, T, G, b), m \in G => e, m \notin T /\ b => e
      PROVE  Learns(Tail(q), T, G, e)
  <2>1. (Head(q) \in G => e) /\ (Head(q) \notin T /\ b => e)
    BY <1>4, <1>6
  <2> QED
    BY ONLY <1>1, <1>4, <1>6, <2>1, LearnsTaken
<1>7. KnowsController(c) => KnowsController(c)'
  <2> PICK G, h, o : G = Naming(controller) /\ h = controller /\ o = view[c].controller
    OBVIOUS
  <2>1. G \subseteq Movers
    BY MessageKinds
  <2>2. Learns(q, Movers, G, o = h) => Learns(Tail(q), Movers, G, v.controller = h)
    BY <1>5, <1>6, <2>1
  <2> QED
    BY <1>3, <2>2 DEF KnowsController
<1>8. KnowsRoster(c) => KnowsRoster(c)'
  <2> PICK G, r, o : G = Listing(Roster) /\ r = Roster /\ o = Listed(view[c])
    OBVIOUS
  <2>1. G \subseteq Rosters
    BY MessageKinds
  <2>2. Learns(q, Rosters, G, o = r) => Learns(Tail(q), Rosters, G, Listed(v) = r)
    BY <1>5, <1>6, <2>1
  <2> QED
    BY <1>3, <2>2 DEF KnowsRoster
<1>9. ASSUME NEW d \in ClientId, d # c
      PROVE  (KnowsController(d) => KnowsController(d)') /\ (KnowsRoster(d) => KnowsRoster(d)')
  BY <1>3, <1>9 DEF KnowsController, KnowsRoster
<1> QED
  BY <1>7, <1>8, <1>9

\* A client that takes in its next message leaves room and still learns the rest.
LEMMA FlushInforms ==
  ASSUME TypeOK, RosterInv, NEW c \in ClientId, Flush(c)
  PROVE  RosterInv'
<1>1. /\ stack = <<>> /\ c \in clients /\ outbox[c] # <<>>
      /\ outbox' = [outbox EXCEPT ![c] = Tail(@)]
      /\ UNCHANGED <<clients, attached, read_only, parked, requesting_control, controller,
                     input_locked, allow_takeover>>
      /\ stack' = stack \/ stack' = <<[msgs |-> <<>>, slow |-> {c}]>>
  BY DEF Flush, Idle, conns, policy, Drop
<1>2. Roster' = Roster
  BY <1>1 DEF Roster, TrueState, client_roster
<1>3. \A i \in DOMAIN stack' : i = 1 /\ stack'[i].msgs = <<>> /\ stack'[i].slow = {c}
  BY <1>1
<1>4. OneLoop' /\ Current'
  BY <1>3 DEF OneLoop, Current, Truthful
<1>5. /\ outbox \in [ClientId -> Seq(Message)] /\ clients \subseteq ClientId
      /\ attached \subseteq ClientId
      /\ Cardinality(clients) \in Nat
  BY IdsType, ClientsFinite DEF TypeOK
<1>6. GoneHasNoOutbox'
  BY <1>1, <1>5 DEF RosterInv, GoneHasNoOutbox
<1>7. RoomLeft'
  <2> SUFFICES ASSUME NEW d \in clients
               PROVE  Len(outbox'[d]) + Pending' + 3 * Cardinality(clients) <= 3 * MaxClients + 3
    BY <1>1 DEF RoomLeft
  <2>1. Len(outbox[d]) + Pending + 3 * Cardinality(clients) <= 3 * MaxClients + 3
    BY DEF RosterInv, RoomLeft
  <2>2. Pending = 0 /\ Pending' = 0
    <3>1. Len(<<>>) = 0
      OBVIOUS
    <3> QED
      BY <1>1, <3>1 DEF Pending
  <2>3. Len(outbox[d]) \in Nat /\ Len(outbox'[d]) \in Nat /\ Len(outbox'[d]) <= Len(outbox[d])
    <3>1. outbox[d] \in Seq(Message) /\ outbox[c] \in Seq(Message)
      BY <1>5
    <3>2. Len(Tail(outbox[c])) = Len(outbox[c]) - 1 /\ Len(outbox[c]) \in Nat \ {0}
      BY <1>1, <3>1
    <3>3. outbox'[d] = IF d = c THEN Tail(outbox[c]) ELSE outbox[d]
      BY <1>1, <1>5
    <3> QED
      BY <3>1, <3>2, <3>3
  <2> PICK n, o, k : n = Len(outbox[d]) /\ o = Len(outbox'[d]) /\ k = Cardinality(clients)
    OBVIOUS
  <2>4. n \in Nat /\ o \in Nat /\ k \in Nat /\ o <= n /\ n + 0 + 3 * k <= 3 * MaxClients + 3
    BY <1>5, <2>1, <2>2, <2>3
  <2>5. o + 0 + 3 * k <= 3 * MaxClients + 3
    BY ONLY <2>4, MaxClientsAssumption
  <2> QED
    BY <2>2, <2>5
<1>8. \A d \in attached : KnowsController(d) /\ KnowsRoster(d)
  BY <1>1 DEF RosterInv, Informed, Coming
<1>9. \A d \in attached : KnowsController(d)' /\ KnowsRoster(d)'
  BY <1>1, <1>2, <1>5, <1>8, FlushLearns
<1> QED
  BY <1>1, <1>4, <1>6, <1>7, <1>9 DEF RosterInv, Informed

\* An Attached that fits never has handle_attach remove its own client.
LEMMA StaysSettled ==
  ASSUME attaching = "none", [Next]_vars,
         Serving => \A c \in MayAttach \cap ClientId : Len(outbox[c]) < MaxBacklog,
         \A c \in ClientId : Len(outbox[c]) \in Nat
  PROVE  /\ attaching' = "none" /\ ~ AttachReplies
         /\ \A c \in ClientId, ro \in BOOLEAN : ~ AttachOverflow(c, ro)
<1>1. ~ AttachReplies
  BY DEF AttachReplies
<1>2. ASSUME NEW c \in ClientId, NEW ro \in BOOLEAN, AttachOverflow(c, ro)
      PROVE  FALSE
  <2>1. Serving /\ c \in MayAttach /\ Len(outbox[c]) >= MaxBacklog
    BY <1>2 DEF AttachOverflow
  <2>2. Len(outbox[c]) < MaxBacklog /\ Len(outbox[c]) \in Nat
    BY <2>1
  <2> PICK n : n = Len(outbox[c])
    OBVIOUS
  <2> QED
    BY ONLY <2>1, <2>2, BacklogAssumption, n = Len(outbox[c])
<1>3. UNCHANGED vars => attaching' = "none"
  BY DEF vars
<1>4. ASSUME Accept \/ PaneRuntimeChange \/ Send \/ RemoveSlow \/ Return
      PROVE  attaching' = "none"
  BY <1>4 DEF Accept, PaneRuntimeChange, Send, RemoveSlow, Return, Reply
<1>5. ASSUME NEW c \in ClientId, Request(c)
      PROVE  attaching' = "none"
  BY <1>5 DEF Request, RequestControl, Park, Unpark, Detach, ReportPaneRows, GrantControl,
     DeclineControl, EvictClient, SetControlTakeover, SetInputLock, Drag,
     assign_controller, release_controller, Reply, Drop
<1>6. ASSUME NEW c \in ClientId,
             \/ AttachRefused(c) \/ \E ro \in BOOLEAN : Attach(c, ro)
             \/ Disconnect(c) \/ HeartbeatExpire(c) \/ Flush(c)
      PROVE  attaching' = "none"
  BY <1>6 DEF AttachRefused, Attach, Disconnect, HeartbeatExpire, Flush, Reply, Drop
<1>7. attaching' = "none"
  BY <1>1, <1>2, <1>3, <1>4, <1>5, <1>6 DEF Next
<1> QED
  BY <1>1, <1>2, <1>7

\* Every step keeps everybody informed.
LEMMA RosterStep ==
  ASSUME TypeOK, LeaseInv, RosterInv, attaching = "none", Slow = {}, RoomyBacklog, [Next]_vars
  PROVE  RosterInv' /\ attaching' = "none"
<1>a. /\ attaching' = "none" /\ ~ AttachReplies
      /\ \A c \in ClientId, ro \in BOOLEAN : ~ AttachOverflow(c, ro)
  <2>1. ASSUME NEW c \in MayAttach \cap ClientId, Serving
        PROVE  Len(outbox[c]) < MaxBacklog
    <3>1. c \in clients
      BY DEF MayAttach, TypeOK, FlagsOK
    <3>2. Len(outbox[c]) = 0
      BY <2>1, <3>1, ServingDrained
    <3>3. c \in ClientId
      OBVIOUS
    <3>4. MaxBacklog > 0
      BY ONLY <3>3, RoomyBacklog, MaxClientsAssumption, BacklogAssumption DEF ClientId, RoomyBacklog
    <3> QED
      BY <3>2, <3>4
  <2>2. \A c \in ClientId : Len(outbox[c]) \in Nat
    <3>1. \A c \in ClientId : outbox[c] \in Seq(Message)
      BY DEF TypeOK
    <3> QED
      BY <3>1
  <2>3. Serving => \A c \in MayAttach \cap ClientId : Len(outbox[c]) < MaxBacklog
    BY <2>1
  <2> QED
    BY <2>2, <2>3, StaysSettled
<1>1. FlagsOK'
  BY LeaseInvStep DEF LeaseInv
<1>2. PolicyOK'
  BY PolicyStep DEF TypeOK, PolicyOK
<1>3. CASE UNCHANGED vars
  <2>1. UNCHANGED <<clients, attached, read_only, parked, requesting_control, controller,
                    input_locked, allow_takeover, outbox, stack, view>>
    BY <1>3 DEF vars, conns, ui, policy
  <2>2. Roster' = Roster
    BY <2>1 DEF Roster, TrueState, client_roster
  <2>3. OneLoop' /\ GoneHasNoOutbox' /\ RoomLeft' /\ Current'
    BY <2>1, <2>2 DEF RosterInv, OneLoop, GoneHasNoOutbox, RoomLeft, Pending, Current
  <2>4. \A c \in attached' : Informed(c)'
    BY <2>1, <2>2 DEF RosterInv, Informed, KnowsController, KnowsRoster, Coming
  <2> QED
    BY <1>a, <2>3, <2>4 DEF RosterInv
<1>4. CASE Send
  BY <1>a, <1>4, SendInforms
<1>5. CASE RemoveSlow
  BY <1>a, <1>1, <1>2, <1>5, RemovalInforms
<1>6. CASE Return
  BY <1>a, <1>6, ReturnInforms
<1>7. CASE Accept
  BY <1>a, <1>1, <1>7, AcceptInforms
<1>8. CASE PaneRuntimeChange
  <2>1. PICK c : c \in ClientId
    <3>1. attached # {} /\ attached \subseteq ClientId
      BY <1>8, IdsType DEF PaneRuntimeChange, TypeOK
    <3> QED
      BY <3>1
  <2> QED
    BY <1>a, <1>1, <1>2, <1>8, <2>1, ConnectionInforms
<1>9. ASSUME NEW c \in ClientId, Request(c)
      PROVE  RosterInv'
  BY <1>1, <1>2, <1>9, RequestInforms
<1>10. ASSUME NEW c \in ClientId, \E ro \in BOOLEAN : Attach(c, ro)
       PROVE  RosterInv'
  BY <1>1, <1>2, <1>10, AttachInforms
<1>11. ASSUME NEW c \in ClientId, AttachRefused(c) \/ Disconnect(c) \/ HeartbeatExpire(c)
       PROVE  RosterInv'
  BY <1>1, <1>2, <1>11, ConnectionInforms
<1>12. ASSUME NEW c \in ClientId, Flush(c)
       PROVE  RosterInv'
  BY <1>12, FlushInforms
<1> QED
  BY <1>a, <1>3, <1>4, <1>5, <1>6, <1>7, <1>8, <1>9, <1>10, <1>11, <1>12 DEF Next

\* A client with an empty outbox and no loop in progress knows the truth.
LEMMA DrainedKnows ==
  ASSUME TypeOK, Idle, NEW c \in attached, outbox[c] = <<>>
  PROVE  /\ KnowsController(c) => view[c].controller = controller
         /\ KnowsController(c) /\ KnowsRoster(c) => view[c] = TrueState
<1>1. \A T, G : ~ LastIn(outbox[c], T, G)
  BY DEF LastIn
<1>2. KnowsController(c) => view[c].controller = controller
  BY <1>1 DEF KnowsController, Learns
<1>3. ASSUME KnowsController(c), KnowsRoster(c)
      PROVE  view[c] = TrueState
  <2>1. view[c] \in SharedState
    BY IdsType DEF TypeOK
  <2>2. /\ TrueState.controller = controller
        /\ TrueState = [controller |-> TrueState.controller, clients |-> TrueState.clients,
                        input_locked |-> TrueState.input_locked,
                        allow_takeover |-> TrueState.allow_takeover]
    BY DEF TrueState
  <2>3. view[c] = [controller |-> view[c].controller, clients |-> view[c].clients,
                   input_locked |-> view[c].input_locked,
                   allow_takeover |-> view[c].allow_takeover]
    BY <2>1 DEF SharedState
  <2>4. Listed(view[c]) = Listed(TrueState)
    BY <1>1, <1>3 DEF KnowsRoster, Learns, Roster
  <2>5. /\ view[c].clients = TrueState.clients /\ view[c].input_locked = TrueState.input_locked
        /\ view[c].allow_takeover = TrueState.allow_takeover
    BY <2>4 DEF Listed
  <2>6. view[c].controller = TrueState.controller
    BY <1>2, <1>3, <2>2
  <2> QED
    BY <2>2, <2>3, <2>5, <2>6
<1> QED
  BY <1>2, <1>3

\* While every client reads what it is sent, and the backlog is not so short that
\* one request and the removals of the others fill it, a client with nothing left
\* to read sees the lease, the roster, the lock and the policy as the server has
\* them, whoever comes, asks, parks, publishes rows and leaves in between.
THEOREM RostersSafe ==
  ASSUME Slow = {}, RoomyBacklog
  PROVE  Spec => []RosterAgreed
<1> DEFINE Settling == attaching = "none"
<1>1. Init => TypeOK /\ LeaseInv /\ RosterInv /\ Settling
  <2>1. Init => RosterInv /\ Settling
    BY DEF Init, RosterInv, OneLoop, GoneHasNoOutbox, RoomLeft, Current
  <2> QED
    BY <2>1, InitTypes
<1>2. TypeOK /\ LeaseInv /\ RosterInv /\ Settling /\ [Next]_vars
        => TypeOK' /\ LeaseInv' /\ RosterInv' /\ Settling'
  BY TypeStep, LeaseInvStep, RosterStep
<1>3. TypeOK /\ RosterInv => RosterAgreed
  <2> SUFFICES ASSUME TypeOK, RosterInv, Idle, NEW c \in attached, outbox[c] = <<>>
               PROVE  view[c] = TrueState
    BY DEF RosterAgreed
  <2>1. KnowsController(c) /\ KnowsRoster(c)
    BY DEF RosterInv, Informed, Coming, Idle
  <2> QED
    BY <2>1, DrainedKnows
<1> QED
  BY <1>1, <1>2, <1>3, PTL DEF Spec

-----------------------------------------------------------------------------
(* Who holds the lease, when sockets stop and removals nest. *)

(***************************************************************************)
(* A response that names the holder of the lease goes out first in its     *)
(* loop, before that loop can have anybody removed: it is `Fresh`.  The    *)
(* exception is an Attach that is granted the lease, which announces it    *)
(* last, after a roster.  The new client may be removed before that, and   *)
(* the announcement then names a client that is gone.  But until then      *)
(* every client is sent what the new one is, but for the Attached          *)
(* (`Granted`): the message that overflows the new one leaves no room in   *)
(* any outbox (`Collapsing`), and the announcement that has come out of    *)
(* date reaches nobody who could take it in.                               *)
(***************************************************************************)

Heard(c) == KnowsController(c) \/ Doomed(c) \/ Coming(Movers, c)

\* Only clients that have attached, or are being turned away, are sent anything.
Unattached == \A c \in ClientId \ attached : c \notin close_after_flush => outbox[c] = <<>>

ForMembers(msgs) ==
  \A k \in DOMAIN msgs : msgs[k].to \in clients => msgs[k].to \in attached \cup close_after_flush
Addressed == \A i \in DOMAIN stack : ForMembers(stack[i].msgs)

\* Responses that name h as the holder, if anybody.
Names(msgs, h) == \A k \in DOMAIN msgs : msgs[k].msg \in Movers => msgs[k].msg \in Naming(h)
NoneStale == \A i \in DOMAIN stack : Names(stack[i].msgs, controller)

\* The holder of the lease is named first or not at all.
MoverFirst(msgs) == \A k \in DOMAIN msgs : msgs[k].msg \in Movers => k = 1
NoMover(msgs) == \A k \in DOMAIN msgs : msgs[k].msg \notin Movers

Fresh == \A i \in DOMAIN stack : IF i = 1 /\ stack[1].slow = {}
                                 THEN MoverFirst(stack[1].msgs) ELSE NoMover(stack[i].msgs)

\* What the outermost loop has yet to send.
Outer == stack[Len(stack)].msgs

\* Everything is for everyone, but for the Attached of the new holder.
Public ==
  \A i \in DOMAIN stack : \A k \in DOMAIN stack[i].msgs :
    \/ stack[i].msgs[k].to = Everyone
    \/ /\ i = 1 /\ k = 1 /\ stack[1].slow = {}
       /\ stack[i].msgs[k].to = controller /\ outbox[controller] = <<>>

Granted ==
  /\ stack # <<>> /\ controller \in attached /\ ~ Doomed(controller)
  /\ Outer # <<>> /\ Outer[Len(Outer)] = ToAll(controller_changed(controller))
  /\ Public
  /\ \A d \in attached : Len(outbox[d]) + 1 >= Len(outbox[controller])

Collapsing ==
  /\ stack # <<>> /\ Outer # <<>> /\ Outer[Len(Outer)].to = Everyone
  /\ \A d \in attached : Doomed(d) \/ Len(outbox[d]) >= MaxBacklog

HolderInv ==
  /\ rows = {} /\ Unattached /\ Addressed
  /\ \/ Collapsing
     \/ NoneStale /\ Granted
     \/ NoneStale /\ Fresh /\ \A c \in attached : Heard(c)

\* Queueing the next message while no announcement is held back.
LEMMA SendFresh ==
  ASSUME TypeOK, NoneStale, Send, Fresh, \A c \in attached : Heard(c)
  PROVE  Fresh' /\ \A c \in attached' : Heard(c)'
<1> PICK env : env = Head(top.msgs)
  OBVIOUS
<1> PICK full : full = {c \in Recipients(env) : Len(outbox[c]) >= MaxBacklog}
  OBVIOUS
<1>1. /\ stack # <<>> /\ top.slow = {} /\ top.msgs # <<>> /\ top = stack[1]
      /\ 1 \in DOMAIN stack /\ 1 \in DOMAIN top.msgs
      /\ env \in Envelope /\ env = top.msgs[1]
      /\ Recipients(env) \subseteq clients /\ clients \subseteq ClientId
      /\ env.to = Everyone => Recipients(env) = attached
      /\ env.to # Everyone => Recipients(env) = {env.to} \cap clients
      /\ DOMAIN stack' = DOMAIN stack /\ Len(stack') = Len(stack) /\ stack' # <<>>
      /\ stack'[1].msgs = Tail(top.msgs) /\ stack'[1].slow = full
      /\ \A i \in DOMAIN stack \ {1} : stack'[i] = stack[i]
      /\ \A k \in DOMAIN Tail(top.msgs) : k + 1 \in DOMAIN top.msgs /\ Tail(top.msgs)[k] = top.msgs[k + 1]
      /\ Len(top.msgs) \in Nat /\ Len(Tail(top.msgs)) = Len(top.msgs) - 1
      /\ \A c \in ClientId : outbox'[c] = IF c \in Recipients(env) \ full
                                        THEN Append(outbox[c], env.msg) ELSE outbox[c]
      /\ UNCHANGED <<next_client_id, clients, attached, read_only, close_after_flush, parked,
                     requesting_control, rows, controller, input_locked, allow_takeover, view>>
  BY SendShape
<1>2. attached \subseteq clients /\ attached \subseteq ClientId
  BY IdsType DEF TypeOK, FlagsOK
<1>3. /\ MoverFirst(top.msgs) /\ \A i \in DOMAIN stack \ {1} : NoMover(stack[i].msgs)
  BY <1>1 DEF Fresh
<1>4. NoMover(stack'[1].msgs)
  <2> PICK s, r : s = top.msgs /\ r = stack'[1].msgs
    OBVIOUS
  <2>1. DOMAIN r \subseteq Nat \ {0}
    <3>1. top.msgs \in Seq(Envelope)
      BY <1>1, TopType DEF Frame
    <3>2. Tail(top.msgs) \in Seq(Envelope)
      BY <1>1, <3>1
    <3> QED
      BY <1>1, <3>2
  <2>2. \A k \in DOMAIN r : k + 1 \in DOMAIN s /\ r[k] = s[k + 1]
    BY <1>1
  <2> QED
    BY <1>3, <2>1, <2>2 DEF MoverFirst, NoMover
<1>5. Fresh'
  <2>1. \A i \in DOMAIN stack' : NoMover(stack'[i].msgs)
    BY <1>1, <1>3, <1>4
  <2> QED
    BY <2>1 DEF Fresh, MoverFirst, NoMover
<1>6. ASSUME NEW c \in attached
      PROVE  Heard(c)'
  <2>1. CASE Doomed(c)
    <3>1. PICK i \in DOMAIN stack : c \in stack[i].slow
      BY <2>1 DEF Doomed
    <3>2. i # 1
      BY <1>1, <3>1
    <3> QED
      BY <1>1, <3>1, <3>2 DEF Heard, Doomed
  <2>2. CASE c \in full
    BY <1>1, <2>2 DEF Heard, Doomed
  <2>3. CASE ~ Doomed(c) /\ c \notin full
    <3>1. env.msg \in Message /\ (env.msg \in Movers => env.msg \in Naming(controller))
      <4>1. Names(stack[1].msgs, controller)
        BY <1>1 DEF NoneStale
      <4> QED
        BY <1>1, <4>1 DEF Names, Envelope
    <3>2. Coming(Movers, c) => env.msg \in Movers /\ c \in Recipients(env)
      <4> SUFFICES ASSUME Coming(Movers, c)
                   PROVE  env.msg \in Movers /\ c \in Recipients(env)
        OBVIOUS
      <4>1. PICK i \in DOMAIN stack : Has(stack[i].msgs, Movers, c)
        BY DEF Coming
      <4>2. PICK k \in DOMAIN stack[i].msgs : stack[i].msgs[k].msg \in Movers /\ stack[i].msgs[k].to \in {Everyone, c}
        BY <4>1 DEF Has
      <4>3. i = 1
        BY <1>3, <4>2 DEF NoMover
      <4>4. k = 1
        BY <1>1, <1>3, <4>2, <4>3 DEF MoverFirst
      <4>5. env.msg \in Movers /\ env.to \in {Everyone, c}
        BY <1>1, <4>2, <4>3, <4>4
      <4> QED
        BY <1>1, <1>2, <4>5
    <3> PICK S, m, b : S = Recipients(env) \ full /\ m = env.msg /\ b = (view[c].controller = controller)
      OBVIOUS
    <3> PICK G : G = Naming(controller)
      OBVIOUS
    <3>3. outbox'[c] = IF c \in S THEN Append(outbox[c], m) ELSE outbox[c]
      BY <1>1, <1>2
    <3>4. m \in Message /\ (m \in Movers => m \in G) /\ c \in ClientId
      BY <1>2, <3>1
    <3>5. /\ Learns(outbox[c], Movers, G, b) => Learns(outbox'[c], Movers, G, b)
          /\ c \in S /\ m \in Movers => Learns(outbox'[c], Movers, G, b)
      BY ONLY TypeOK, <3>3, <3>4, SentLearns
    <3>6. KnowsController(c) \/ (c \in S /\ m \in Movers)
      BY <2>3, <3>2 DEF Heard
    <3>7. Learns(outbox'[c], Movers, G, b)
      BY <3>5, <3>6 DEF KnowsController
    <3>8. KnowsController(c)'
      BY <1>1, <3>7 DEF KnowsController
    <3> QED
      BY <3>8 DEF Heard
  <2> QED
    BY <2>1, <2>2, <2>3
<1> QED
  BY <1>1, <1>5, <1>6

\* The last message of the outermost loop is the last of all.
LEMMA OuterSent ==
  ASSUME TypeOK, Send, Outer # <<>>
  PROVE  \/ /\ DOMAIN stack = {1} /\ DOMAIN stack' = {1} /\ stack'[1].msgs = <<>>
            /\ top.msgs[1] = Outer[Len(Outer)]
         \/ stack' # <<>> /\ Outer' # <<>> /\ Outer'[Len(Outer')] = Outer[Len(Outer)]
<1>1. /\ stack # <<>> /\ top.msgs # <<>> /\ top = stack[1]
      /\ DOMAIN stack' = DOMAIN stack /\ Len(stack') = Len(stack) /\ stack' # <<>>
      /\ stack'[1].msgs = Tail(top.msgs)
      /\ \A i \in DOMAIN stack \ {1} : stack'[i] = stack[i]
      /\ \A k \in DOMAIN top.msgs : k = 1 \/ (k - 1 \in DOMAIN Tail(top.msgs) /\ Tail(top.msgs)[k - 1] = top.msgs[k])
      /\ Len(top.msgs) \in Nat /\ Len(Tail(top.msgs)) = Len(top.msgs) - 1
  BY SendShape
<1>2. /\ stack \in Seq(Frame) /\ Len(stack) \in Nat \ {0} /\ DOMAIN stack = 1 .. Len(stack)
  BY <1>1 DEF TypeOK
<1>3. top.msgs \in Seq(Envelope) /\ Len(top.msgs) \in Nat \ {0}
  <2>1. top.msgs \in Seq(Envelope)
    BY <1>1, TopType DEF Frame
  <2> QED
    BY <1>1, <2>1, EmptySeq
<1> PICK s, t : s = top.msgs /\ t = Tail(top.msgs)
  OBVIOUS
<1>4. t \in Seq(Envelope) /\ Len(t) = Len(s) - 1 /\ Len(s) \in Nat \ {0} /\ DOMAIN s = 1 .. Len(s)
  BY <1>1, <1>3
<1>5. CASE Len(stack) > 1
  <2>1. Len(stack) \in DOMAIN stack \ {1}
    <3> PICK n : n = Len(stack)
      OBVIOUS
    <3>1. n \in Nat /\ n > 1 /\ DOMAIN stack = 1 .. n
      BY <1>2, <1>5
    <3>2. n \in (1 .. n) \ {1}
      BY ONLY <3>1
    <3> QED
      BY <3>1, <3>2
  <2>2. Outer' = Outer
    BY <1>1, <2>1 DEF Outer
  <2> QED
    BY <1>1, <2>2
<1>6. CASE Len(stack) = 1 /\ Len(s) > 1
  <2>1. Outer = s /\ Outer' = t
    BY <1>1, <1>6 DEF Outer
  <2>2. Len(s) - 1 \in DOMAIN t /\ t[Len(s) - 1] = s[Len(s)]
    <3>1. Len(s) \in DOMAIN s /\ Len(s) # 1
      BY <1>4, <1>6
    <3> QED
      BY <1>1, <3>1
  <2>3. t # <<>>
    <3>1. Len(<<>>) = 0
      OBVIOUS
    <3> PICK n : n = Len(t)
      OBVIOUS
    <3>2. n # 0
      BY <1>4, <1>6
    <3> QED
      BY <3>1, <3>2
  <2> QED
    BY <1>1, <1>4, <2>1, <2>2, <2>3
<1>7. CASE Len(stack) = 1 /\ Len(s) = 1
  <2>1. Outer = s /\ DOMAIN stack = {1} /\ DOMAIN stack' = {1}
    BY <1>1, <1>2, <1>7 DEF Outer
  <2>2. t = <<>>
    BY <1>4, <1>7, EmptySeq
  <2> QED
    BY <1>1, <1>7, <2>1, <2>2
<1>8. Len(stack) > 1 \/ (Len(stack) = 1 /\ (Len(s) > 1 \/ Len(s) = 1))
  <2> PICK a, b : a = Len(stack) /\ b = Len(s)
    OBVIOUS
  <2>1. a \in Nat \ {0} /\ b \in Nat \ {0}
    BY <1>2, <1>4
  <2>2. a > 1 \/ (a = 1 /\ (b > 1 \/ b = 1))
    BY ONLY <2>1
  <2> QED
    BY <2>2
<1> QED
  BY <1>5, <1>6, <1>7, <1>8

\* Queueing a message makes an outbox longer by one, if it has room.
LEMMA SentLengths ==
  ASSUME TypeOK, NEW env \in Envelope, NEW S,
         \A c \in ClientId : outbox'[c] = IF c \in S THEN Append(outbox[c], env.msg) ELSE outbox[c]
  PROVE  \A c \in ClientId : /\ Len(outbox[c]) \in Nat
                             /\ Len(outbox'[c]) = IF c \in S THEN Len(outbox[c]) + 1 ELSE Len(outbox[c])
<1> SUFFICES ASSUME NEW c \in ClientId
             PROVE  /\ Len(outbox[c]) \in Nat
                    /\ Len(outbox'[c]) = IF c \in S THEN Len(outbox[c]) + 1 ELSE Len(outbox[c])
  OBVIOUS
<1> PICK q, m : q = outbox[c] /\ m = env.msg
  OBVIOUS
<1>1. q \in Seq(Message) /\ m \in Message
  BY DEF TypeOK, Envelope
<1>2. Len(Append(q, m)) = Len(q) + 1 /\ Len(q) \in Nat
  BY <1>1
<1> QED
  BY <1>2

\* Queueing the next message while the announcement is held back: it goes to the
\* holder and to the others alike, or it is the announcement.
LEMMA SendGranted ==
  ASSUME TypeOK, Send, Granted
  PROVE  Collapsing' \/ Granted' \/ (Fresh' /\ \A c \in attached' : Heard(c)')
<1> PICK env : env = Head(top.msgs)
  OBVIOUS
<1> PICK full : full = {c \in Recipients(env) : Len(outbox[c]) >= MaxBacklog}
  OBVIOUS
<1>1. /\ stack # <<>> /\ top.slow = {} /\ top = stack[1]
      /\ 1 \in DOMAIN stack /\ 1 \in DOMAIN top.msgs
      /\ env \in Envelope /\ env = top.msgs[1]
      /\ env.to = Everyone => Recipients(env) = attached
      /\ env.to # Everyone => Recipients(env) = {env.to} \cap clients
      /\ DOMAIN stack' = DOMAIN stack /\ stack' # <<>>
      /\ stack'[1].msgs = Tail(top.msgs) /\ stack'[1].slow = full
      /\ \A i \in DOMAIN stack \ {1} : stack'[i] = stack[i]
      /\ \A k \in DOMAIN Tail(top.msgs) : k + 1 \in DOMAIN top.msgs /\ Tail(top.msgs)[k] = top.msgs[k + 1]
      /\ \A c \in ClientId : outbox'[c] = IF c \in Recipients(env) \ full
                                        THEN Append(outbox[c], env.msg) ELSE outbox[c]
      /\ UNCHANGED <<next_client_id, clients, attached, read_only, close_after_flush, parked,
                     requesting_control, rows, controller, input_locked, allow_takeover, view>>
  BY SendShape
<1>2. /\ controller \in attached /\ controller \in ClientId /\ controller \in clients
      /\ attached \subseteq ClientId
  BY IdsType DEF Granted, TypeOK, FlagsOK
<1> PICK h : h = controller
  OBVIOUS
<1>3. \A c \in ClientId : /\ Len(outbox[c]) \in Nat
                          /\ Len(outbox'[c]) = IF c \in Recipients(env) \ full
                                               THEN Len(outbox[c]) + 1 ELSE Len(outbox[c])
  <2> PICK S : S = Recipients(env) \ full
    OBVIOUS
  <2>1. \A c \in ClientId : outbox'[c] = IF c \in S THEN Append(outbox[c], env.msg) ELSE outbox[c]
    BY <1>1
  <2> QED
    BY <1>1, <2>1, SentLengths
<1>4. MaxBacklog \in Nat
  BY BacklogAssumption
<1>5. \A d \in attached : Len(outbox[d]) + 1 >= Len(outbox[h])
  BY DEF Granted
<1>6. env.to = Everyone \/ (env.to = h /\ outbox[h] = <<>> /\ Recipients(env) = {h})
  <2>1. env.to = Everyone \/ (env.to = h /\ outbox[h] = <<>>)
    BY <1>1 DEF Granted, Public
  <2> QED
    BY <1>1, <1>2, <2>1
<1>7. Len(<<>>) = 0
  OBVIOUS
<1>8. \/ /\ DOMAIN stack = {1} /\ DOMAIN stack' = {1} /\ stack'[1].msgs = <<>>
         /\ top.msgs[1] = Outer[Len(Outer)]
      \/ stack' # <<>> /\ Outer' # <<>> /\ Outer'[Len(Outer')] = Outer[Len(Outer)]
  BY OuterSent DEF Granted
<1>9. CASE /\ stack' # <<>> /\ Outer' # <<>> /\ Outer'[Len(Outer')] = Outer[Len(Outer)]
           /\ h \in full
  <2>1. Outer'[Len(Outer')].to = Everyone
    BY <1>9 DEF Granted, ToAll
  <2>2. ASSUME NEW d \in attached
        PROVE  Doomed(d)' \/ Len(outbox'[d]) >= MaxBacklog
    <3>1. Len(outbox[h]) >= MaxBacklog
      BY <1>9
    <3>2. CASE env.to = Everyone
      <4>1. CASE d \in full
        BY <1>1, <4>1 DEF Doomed
      <4>2. CASE d \notin full
        <5>1. Len(outbox'[d]) = Len(outbox[d]) + 1
          BY <1>1, <1>2, <1>3, <3>2, <4>2
        <5> PICK a, b : a = Len(outbox[d]) /\ b = Len(outbox[h])
          OBVIOUS
        <5>2. a \in Nat /\ b \in Nat /\ b >= MaxBacklog /\ a + 1 >= b
          BY <1>2, <1>3, <1>5, <3>1
        <5>3. a + 1 >= MaxBacklog
          BY ONLY <5>2, <1>4
        <5> QED
          BY <5>1, <5>3
      <4> QED
        BY <4>1, <4>2
    <3>3. CASE env.to # Everyone
      <4>1. 0 >= MaxBacklog
        BY <1>6, <1>7, <3>1, <3>3
      <4>2. Len(outbox'[d]) \in Nat
        BY <1>2, <1>3
      <4> PICK a : a = Len(outbox'[d])
        OBVIOUS
      <4>3. a >= MaxBacklog
        BY <1>4, <4>1, <4>2
      <4> QED
        BY <4>3
    <3> QED
      BY <3>2, <3>3
  <2> QED
    BY <1>1, <1>9, <2>1, <2>2 DEF Collapsing
<1>10. CASE /\ stack' # <<>> /\ Outer' # <<>> /\ Outer'[Len(Outer')] = Outer[Len(Outer)]
            /\ h \notin full
  <2>1. ~ Doomed(controller)'
    BY <1>1, <1>10 DEF Granted, Doomed
  <2>2. Public'
    <3> SUFFICES ASSUME NEW i \in DOMAIN stack', NEW k \in DOMAIN stack'[i].msgs
                 PROVE  stack'[i].msgs[k].to = Everyone
      BY DEF Public
    <3>1. CASE i = 1
      <4>1. /\ k + 1 \in DOMAIN stack[1].msgs /\ stack'[1].msgs[k] = stack[1].msgs[k + 1]
            /\ k + 1 # 1
        <5>1. k \in DOMAIN Tail(top.msgs)
          BY <1>1, <3>1
        <5>2. DOMAIN Tail(top.msgs) \subseteq Nat \ {0}
          <6>1. top.msgs \in Seq(Envelope)
            BY <1>1, TopType DEF Frame
          <6>2. Tail(top.msgs) \in Seq(Envelope)
            BY <1>1, <6>1
          <6> QED
            BY <6>2
        <5> QED
          BY <1>1, <5>1, <5>2
      <4>2. stack[1].msgs[k + 1].to = Everyone
        BY <1>1, <4>1 DEF Granted, Public
      <4> QED
        BY <3>1, <4>1, <4>2
    <3>2. CASE i # 1
      BY <1>1, <3>2 DEF Granted, Public
    <3> QED
      BY <3>1, <3>2
  <2>3. ASSUME NEW d \in attached
        PROVE  Len(outbox'[d]) + 1 >= Len(outbox'[h])
    <3> PICK a, b, e, f : /\ a = Len(outbox[d]) /\ b = Len(outbox[h])
                          /\ e = Len(outbox'[d]) /\ f = Len(outbox'[h])
      OBVIOUS
    <3>1. a \in Nat /\ b \in Nat /\ a + 1 >= b /\ (e = a \/ e = a + 1) /\ (f = b \/ f = b + 1)
      BY <1>2, <1>3, <1>5
    <3>2. CASE env.to = Everyone
      <4>1. h \in Recipients(env) /\ d \in Recipients(env)
        BY <1>1, <1>2, <3>2
      <4>2. f = b + 1 /\ ~ (b >= MaxBacklog)
        BY <1>2, <1>3, <1>10, <4>1
      <4>3. e = a + 1 \/ (e = a /\ a >= MaxBacklog)
        BY <1>2, <1>3, <4>1
      <4>4. e + 1 >= f
        BY ONLY <1>4, <3>1, <4>2, <4>3
      <4> QED
        BY <4>4
    <3>3. CASE env.to # Everyone
      <4>1. b = 0
        BY <1>6, <1>7, <3>3
      <4>2. e + 1 >= f
        BY ONLY <3>1, <4>1
      <4> QED
        BY <4>2
    <3> QED
      BY <3>2, <3>3
  <2> QED
    BY <1>1, <1>10, <2>1, <2>2, <2>3 DEF Granted
<1>11. CASE /\ DOMAIN stack' = {1} /\ stack'[1].msgs = <<>>
            /\ top.msgs[1] = Outer[Len(Outer)]
  <2>1. /\ env.to = Everyone /\ env.msg = controller_changed(controller)
        /\ env.msg \in Movers /\ env.msg \in Naming(controller) /\ env.msg \in Message
    <3>1. env = ToAll(controller_changed(controller))
      BY <1>1, <1>11 DEF Granted
    <3>2. controller_changed(controller) \in Naming(controller) /\ controller_changed(controller) \in Message
      BY <1>2, MessageKinds, ControllerChangedType
    <3> QED
      BY <3>1, <3>2, MessageKinds DEF ToAll
  <2>2. Fresh'
    BY <1>11 DEF Fresh, MoverFirst, NoMover
  <2>3. ASSUME NEW c \in attached
        PROVE  Heard(c)'
    <3>1. CASE c \in full
      BY <1>1, <3>1 DEF Heard, Doomed
    <3>2. CASE c \notin full
      <4> PICK S, m, b : S = Recipients(env) \ full /\ m = env.msg /\ b = (view[c].controller = controller)
        OBVIOUS
      <4> PICK G : G = Naming(controller)
        OBVIOUS
      <4>1. outbox'[c] = IF c \in S THEN Append(outbox[c], m) ELSE outbox[c]
        BY <1>1, <1>2
      <4>2. m \in Message /\ (m \in Movers => m \in G) /\ c \in ClientId
        BY <1>2, <2>1
      <4>3. /\ Learns(outbox[c], Movers, G, b) => Learns(outbox'[c], Movers, G, b)
            /\ c \in S /\ m \in Movers => Learns(outbox'[c], Movers, G, b)
        BY ONLY TypeOK, <4>1, <4>2, SentLearns
      <4>4. c \in S /\ m \in Movers
        BY <1>1, <2>1, <3>2
      <4>5. KnowsController(c)'
        BY <1>1, <4>3, <4>4 DEF KnowsController
      <4> QED
        BY <4>5 DEF Heard
    <3> QED
      BY <3>1, <3>2
  <2> QED
    BY <1>1, <2>2, <2>3
<1> QED
  BY <1>8, <1>9, <1>10, <1>11

\* Queueing the next message when no outbox has room: in the end it removes all.
LEMMA SendCollapsing ==
  ASSUME TypeOK, Send, Collapsing
  PROVE  Collapsing' \/ (NoneStale' /\ Fresh' /\ \A c \in attached' : Heard(c)')
<1> PICK env : env = Head(top.msgs)
  OBVIOUS
<1> PICK full : full = {c \in Recipients(env) : Len(outbox[c]) >= MaxBacklog}
  OBVIOUS
<1>1. /\ top.slow = {} /\ top = stack[1] /\ 1 \in DOMAIN stack
      /\ env \in Envelope /\ env = top.msgs[1]
      /\ env.to = Everyone => Recipients(env) = attached
      /\ DOMAIN stack' = DOMAIN stack /\ stack' # <<>>
      /\ stack'[1].slow = full
      /\ \A i \in DOMAIN stack \ {1} : stack'[i] = stack[i]
      /\ \A c \in ClientId : outbox'[c] = IF c \in Recipients(env) \ full
                                        THEN Append(outbox[c], env.msg) ELSE outbox[c]
      /\ UNCHANGED <<next_client_id, clients, attached, read_only, close_after_flush, parked,
                     requesting_control, rows, controller, input_locked, allow_takeover, view>>
  BY SendShape
<1>2. attached \subseteq ClientId
  BY IdsType DEF TypeOK
<1>3. \A d : Doomed(d) => Doomed(d)'
  <2> SUFFICES ASSUME NEW i \in DOMAIN stack, NEW d \in stack[i].slow
               PROVE  \E j \in DOMAIN stack' : d \in stack'[j].slow
    BY DEF Doomed
  <2>1. i # 1
    BY <1>1
  <2> QED
    BY <1>1, <2>1
<1>4. \/ /\ DOMAIN stack = {1} /\ DOMAIN stack' = {1} /\ stack'[1].msgs = <<>>
         /\ top.msgs[1] = Outer[Len(Outer)]
      \/ stack' # <<>> /\ Outer' # <<>> /\ Outer'[Len(Outer')] = Outer[Len(Outer)]
  BY OuterSent DEF Collapsing
<1>5. CASE stack' # <<>> /\ Outer' # <<>> /\ Outer'[Len(Outer')] = Outer[Len(Outer)]
  <2>1. ASSUME NEW d \in attached
        PROVE  Doomed(d)' \/ Len(outbox'[d]) >= MaxBacklog
    <3>1. Doomed(d) \/ Len(outbox[d]) >= MaxBacklog
      BY DEF Collapsing
    <3>2. Len(outbox[d]) >= MaxBacklog => outbox'[d] = outbox[d]
      BY <1>1, <1>2
    <3> QED
      BY <1>3, <3>1, <3>2
  <2> QED
    BY <1>1, <1>5, <2>1 DEF Collapsing
<1>6. CASE /\ DOMAIN stack' = {1} /\ stack'[1].msgs = <<>>
           /\ top.msgs[1] = Outer[Len(Outer)]
  <2>1. Recipients(env) = attached
    BY <1>1, <1>6 DEF Collapsing
  <2>2. \A d \in attached : Doomed(d)'
    <3> SUFFICES ASSUME NEW d \in attached
                 PROVE  Doomed(d)'
      OBVIOUS
    <3>1. CASE d \in full
      BY <1>1, <3>1 DEF Doomed
    <3>2. CASE d \notin full
      BY <1>3, <2>1, <3>2 DEF Collapsing
    <3> QED
      BY <3>1, <3>2
  <2>3. NoneStale' /\ Fresh'
    BY <1>6 DEF NoneStale, Names, Fresh, MoverFirst, NoMover
  <2> QED
    BY <1>1, <2>2, <2>3 DEF Heard
<1> QED
  BY <1>4, <1>5, <1>6

\* Queueing the next message.
LEMMA SendHeard ==
  ASSUME TypeOK, HolderInv, Send
  PROVE  HolderInv'
<1> PICK env : env = Head(top.msgs)
  OBVIOUS
<1> PICK full : full = {c \in Recipients(env) : Len(outbox[c]) >= MaxBacklog}
  OBVIOUS
<1>1. /\ top = stack[1] /\ 1 \in DOMAIN stack /\ 1 \in DOMAIN top.msgs /\ env = top.msgs[1]
      /\ env.to = Everyone => Recipients(env) = attached
      /\ env.to # Everyone => Recipients(env) = {env.to} \cap clients
      /\ DOMAIN stack' = DOMAIN stack
      /\ stack'[1].msgs = Tail(top.msgs)
      /\ \A i \in DOMAIN stack \ {1} : stack'[i] = stack[i]
      /\ \A k \in DOMAIN Tail(top.msgs) : k + 1 \in DOMAIN top.msgs /\ Tail(top.msgs)[k] = top.msgs[k + 1]
      /\ \A c \in ClientId : outbox'[c] = IF c \in Recipients(env) \ full
                                        THEN Append(outbox[c], env.msg) ELSE outbox[c]
      /\ UNCHANGED <<next_client_id, clients, attached, read_only, close_after_flush, parked,
                     requesting_control, rows, controller, input_locked, allow_takeover, view>>
  BY SendShape
<1>2. Unattached'
  <2> SUFFICES ASSUME NEW c \in ClientId \ attached, c \notin close_after_flush
               PROVE  outbox'[c] = <<>>
    BY <1>1 DEF Unattached
  <2>1. outbox[c] = <<>>
    BY DEF HolderInv, Unattached
  <2>2. env.to \in clients => env.to \in attached \cup close_after_flush
    BY <1>1 DEF HolderInv, Addressed, ForMembers
  <2>3. c \notin Recipients(env)
    BY <1>1, <2>2
  <2> QED
    BY <1>1, <2>1, <2>3
<1>3. \A i \in DOMAIN stack' : \A k \in DOMAIN stack'[i].msgs :
        \E l \in DOMAIN stack[i].msgs : stack'[i].msgs[k] = stack[i].msgs[l]
  <2> SUFFICES ASSUME NEW i \in DOMAIN stack', NEW k \in DOMAIN stack'[i].msgs
               PROVE  \E l \in DOMAIN stack[i].msgs : stack'[i].msgs[k] = stack[i].msgs[l]
    OBVIOUS
  <2>1. CASE i = 1
    <3>1. k + 1 \in DOMAIN stack[1].msgs /\ stack'[1].msgs[k] = stack[1].msgs[k + 1]
      BY <1>1, <2>1
    <3> QED
      BY <2>1, <3>1
  <2>2. CASE i # 1
    BY <1>1, <2>2
  <2> QED
    BY <2>1, <2>2
<1>4. Addressed' /\ (NoneStale => NoneStale')
  <2>1. UNCHANGED <<clients, attached, close_after_flush, controller>> /\ DOMAIN stack' = DOMAIN stack
    BY <1>1
  <2>2. Addressed
    BY DEF HolderInv
  <2>3. Addressed'
    BY <1>3, <2>1, <2>2 DEF Addressed, ForMembers
  <2>4. NoneStale => NoneStale'
    BY <1>3, <2>1 DEF NoneStale, Names
  <2> QED
    BY <2>3, <2>4
<1>5. CASE Collapsing
  BY <1>1, <1>2, <1>4, <1>5, SendCollapsing DEF HolderInv
<1>6. CASE NoneStale /\ Granted
  BY <1>1, <1>2, <1>4, <1>6, SendGranted DEF HolderInv
<1>7. CASE NoneStale /\ Fresh /\ \A c \in attached : Heard(c)
  BY <1>1, <1>2, <1>4, <1>7, SendFresh DEF HolderInv
<1> QED
  BY <1>5, <1>6, <1>7 DEF HolderInv

\* A finished loop leaves nothing behind.
LEMMA ReturnHeard ==
  ASSUME TypeOK, HolderInv, Return
  PROVE  HolderInv'
<1>1. /\ stack # <<>> /\ top.slow = {} /\ top.msgs = <<>> /\ stack' = Tail(stack)
      /\ UNCHANGED <<clients, attached, close_after_flush, rows, controller, outbox, view>>
  BY DEF Return, conns, ui
<1>2. stack \in Seq(Frame) /\ top = stack[1] /\ 1 \in DOMAIN stack /\ Len(stack) \in Nat \ {0}
  BY <1>1 DEF TypeOK, top
<1>3. /\ \A i \in DOMAIN stack' : i + 1 \in DOMAIN stack /\ stack'[i] = stack[i + 1] /\ i + 1 # 1
      /\ \A i \in DOMAIN stack : i = 1 \/ (i - 1 \in DOMAIN stack' /\ stack'[i - 1] = stack[i])
      /\ Len(stack') = Len(stack) - 1
  BY <1>1, <1>2
<1>4. Unattached' /\ Addressed' /\ (NoneStale => NoneStale')
  <2>1. Unattached' /\ Addressed'
    BY <1>1, <1>3 DEF HolderInv, Unattached, Addressed, ForMembers
  <2>2. NoneStale => NoneStale'
    BY <1>1, <1>3 DEF NoneStale, Names
  <2> QED
    BY <2>1, <2>2
<1>5. \A d : Doomed(d) <=> Doomed(d)'
  <2>1. \A d : Doomed(d) => Doomed(d)'
    BY <1>1, <1>2, <1>3 DEF Doomed
  <2>2. \A d : Doomed(d)' => Doomed(d)
    BY <1>3 DEF Doomed
  <2> QED
    BY <2>1, <2>2
<1>6. Outer # <<>> => stack' # <<>> /\ Outer' = Outer
  <2> SUFFICES ASSUME Outer # <<>>
               PROVE  stack' # <<>> /\ Outer' = Outer
    OBVIOUS
  <2>1. Len(stack) > 1
    BY <1>1, <1>2 DEF Outer
  <2>2. Len(stack') # 0 /\ Len(stack') \in DOMAIN stack'
    BY <1>1, <1>2, <1>3, <2>1
  <2>3. Len(<<>>) = 0
    OBVIOUS
  <2> QED
    BY <1>2, <1>3, <2>2, <2>3 DEF Outer
<1>7. CASE Collapsing
  <2>1. Collapsing'
    BY <1>1, <1>5, <1>6, <1>7 DEF Collapsing
  <2> QED
    BY <1>1, <1>4, <2>1 DEF HolderInv
<1>8. CASE NoneStale /\ Granted
  <2>1. Public'
    <3> SUFFICES ASSUME NEW i \in DOMAIN stack', NEW k \in DOMAIN stack'[i].msgs
                 PROVE  stack'[i].msgs[k].to = Everyone
      BY DEF Public
    <3> QED
      BY <1>3, <1>8 DEF Granted, Public
  <2>2. Granted'
    BY <1>1, <1>5, <1>6, <1>8, <2>1 DEF Granted
  <2> QED
    BY <1>1, <1>4, <1>8, <2>2 DEF HolderInv
<1>9. CASE NoneStale /\ Fresh /\ \A c \in attached : Heard(c)
  <2>1. \A i \in DOMAIN stack : NoMover(stack[i].msgs)
    BY <1>1, <1>2, <1>9 DEF Fresh, NoMover
  <2>2. Fresh'
    <3>1. \A i \in DOMAIN stack' : NoMover(stack'[i].msgs)
      BY <1>3, <2>1
    <3> QED
      BY <3>1 DEF Fresh, NoMover, MoverFirst
  <2>3. ASSUME NEW c \in attached
        PROVE  Heard(c)'
    <3>1. ~ Coming(Movers, c)
      BY <2>1 DEF Coming, Has, NoMover
    <3>2. KnowsController(c) => KnowsController(c)'
      BY <1>1 DEF KnowsController
    <3> QED
      BY <1>5, <1>9, <3>1, <3>2 DEF Heard
  <2> QED
    BY <1>1, <1>4, <1>9, <2>2, <2>3 DEF HolderInv
<1> QED
  BY <1>7, <1>8, <1>9 DEF HolderInv

\* Lists of one, two and three responses, by place.
LEMMA ListPlaces ==
  ASSUME NEW a, NEW b, NEW d
  PROVE  /\ DOMAIN <<a>> = {1} /\ <<a>>[1] = a /\ Len(<<a>>) = 1 /\ <<>> \o <<a>> = <<a>>
         /\ DOMAIN <<a, b>> = {1, 2} /\ <<a, b>>[1] = a /\ <<a, b>>[2] = b
         /\ DOMAIN <<a, b, d>> = {1, 2, 3} /\ Len(<<a, b, d>>) = 3 /\ <<a, b, d>> # <<>>
         /\ <<a, b, d>>[1] = a /\ <<a, b, d>>[2] = b /\ <<a, b, d>>[3] = d
<1>1. <<a>> \in Seq({a})
  OBVIOUS
<1>2. <<>> \o <<a>> = <<a>>
  BY <1>1, ConcatEmptySeq
<1> QED
  BY <1>2

\* With no rows to withdraw a removal announces the new holder, if the one who
\* left was the old one, and the roster.
LEMMA RemovalIs ==
  ASSUME rows = {}, NEW c, NEW p
  PROVE  RemovalMessages(c, p) =
           IF is_controller(c)
           THEN <<ToAll(controller_changed(p)), ToAll(clients_changed')>>
           ELSE <<ToAll(clients_changed')>>
<1> PICK a, b : a = ToAll(controller_changed(p)) /\ b = ToAll(clients_changed')
  OBVIOUS
<1>1. /\ <<>> \o <<a>> = <<a>> /\ <<>> \o <<b>> = <<b>> /\ <<>> \o <<>> = <<>>
  <2>1. <<>> \o <<a>> = <<a>> /\ <<>> \o <<b>> = <<b>>
    BY ListPlaces
  <2> QED
    BY <2>1
<1>2. <<a>> \o <<b>> = <<a, b>>
  BY ShortLists
<1>3. RemovalMessages(c, p) = (<<>> \o (IF is_controller(c) THEN <<a>> ELSE <<>>)) \o <<b>>
  BY DEF RemovalMessages, Departure
<1>4. CASE is_controller(c)
  BY <1>1, <1>2, <1>3, <1>4
<1>5. CASE ~ is_controller(c)
  BY <1>1, <1>3, <1>5
<1> QED
  BY <1>4, <1>5

\* The messages a removal broadcasts, and the roster in them.
LEMMA BroadcastKinds ==
  ASSUME FlagsOK', PolicyOK'
  PROVE  /\ \A d \in ClientId \cup {None} :
              /\ ToAll(controller_changed(d)).msg \in Naming(d)
              /\ ToAll(controller_changed(d)).msg \in Movers
         /\ \A m : ToAll(m).to = Everyone /\ ToAll(m).msg = m
         /\ clients_changed' \notin Movers
         /\ Everyone \notin clients'
<1>1. (clients_changed \in Listing(Roster) /\ clients_changed \notin Movers)'
  BY RosterTruthful, PTL
<1>2. (clients \subseteq ClientId)'
  BY IdsType, PTL
<1>3. Everyone \notin clients'
  <2>1. Everyone \notin ClientId
    BY ONLY MaxClientsAssumption DEF Everyone, ClientId
  <2> QED
    BY <1>2, <2>1
<1>4. \A d \in ClientId \cup {None} : controller_changed(d) \in Naming(d) /\ controller_changed(d) \in Movers
  BY MessageKinds
<1> QED
  BY <1>1, <1>3, <1>4 DEF ToAll

\* What is left after one more slow client has been removed: the loops there were,
\* and perhaps one inside them that broadcasts the removal.
LEMMA RemovalFrames ==
  ASSUME TypeOK, LeaseInv, rows = {}, FlagsOK', PolicyOK', RemoveSlow
  PROVE  \E c \in top.slow :
           /\ c \in ClientId /\ 1 \in DOMAIN stack /\ top = stack[1]
           /\ stack # <<>> /\ stack' # <<>> /\ Outer' = Outer
           /\ clients' = clients \ {c} /\ attached' = attached \ {c}
           /\ close_after_flush' = close_after_flush \ {c}
           /\ rows' = {} /\ view' = view
           /\ \A d \in ClientId \ {c} : outbox'[d] = outbox[d]
           /\ outbox'[c] = <<>> \/ (outbox'[c] = outbox[c] /\ c \notin clients)
           /\ \A d : d # c /\ Doomed(d) => Doomed(d)'
           /\ \A d : Doomed(d)' => Doomed(d)
           /\ controller # c => controller' = controller
           /\ controller = c => \A d : Coming(Movers, d)'
           /\ \A i \in DOMAIN stack' :
                \/ \E j \in DOMAIN stack : stack'[i].msgs = stack[j].msgs
                \/ /\ i = 1 /\ stack'[1].slow = {} /\ MoverFirst(stack'[1].msgs)
                   /\ \A k \in DOMAIN stack'[1].msgs :
                        /\ stack'[1].msgs[k].to = Everyone
                        /\ stack'[1].msgs[k].msg \in Movers =>
                             controller = c /\ stack'[1].msgs[k].msg \in Naming(controller')
<1>1. PICK c \in top.slow, p \in ClientId \cup {None}, caller \in Seq(Frame) :
        /\ c \in ClientId /\ stack # <<>> /\ 1 \in DOMAIN stack
        /\ DOMAIN caller = DOMAIN stack /\ Len(caller) = Len(stack)
        /\ caller[1].msgs = top.msgs /\ caller[1].slow = top.slow \ {c}
        /\ \A i \in DOMAIN stack \ {1} : caller[i] = stack[i]
        /\ UNCHANGED <<next_client_id, input_locked, allow_takeover, view>>
        /\ \/ /\ c \in clients
              /\ remove_client(c, p)
              /\ stack' = IF c \in attached
                          THEN <<[msgs |-> RemovalMessages(c, p), slow |-> {}]>> \o caller
                          ELSE caller
           \/ /\ c \notin clients
              /\ stack' = caller
              /\ UNCHANGED <<clients, attached, read_only, close_after_flush, parked,
                             requesting_control, rows, controller, outbox>>
  BY RemovalShape
<1>2. /\ top = stack[1] /\ outbox \in [ClientId -> Seq(Message)]
      /\ stack \in Seq(Frame) /\ Len(stack) \in Nat \ {0} /\ DOMAIN stack = 1 .. Len(stack)
      /\ attached \subseteq clients /\ close_after_flush \subseteq clients
      /\ controller = c => c \in attached
  <2>1. stack \in Seq(Frame) /\ Len(stack) \in Nat \ {0} /\ DOMAIN stack = 1 .. Len(stack)
    BY <1>1 DEF TypeOK
  <2>2. c # None
    <3>1. c \in ClientId
      BY <1>1
    <3> QED
      BY ONLY <3>1, MaxClientsAssumption DEF None, ClientId
  <2>3. controller = c => c \in attached
    BY <2>2 DEF LeaseInv, LeaseHeldByUser, Users
  <2> QED
    BY <2>1, <2>3 DEF TypeOK, FlagsOK, top
<1>3. /\ \A i \in DOMAIN caller : caller[i].msgs = stack[i].msgs
      /\ \A i \in DOMAIN caller : caller[i].slow = IF i = 1 THEN stack[i].slow \ {c} ELSE stack[i].slow
      /\ Len(stack) \in DOMAIN stack /\ Outer = caller[Len(caller)].msgs
      /\ caller # <<>>
  <2>1. \A i \in DOMAIN caller : caller[i].msgs = stack[i].msgs
    BY <1>1, <1>2
  <2>2. \A i \in DOMAIN caller : caller[i].slow = IF i = 1 THEN stack[i].slow \ {c} ELSE stack[i].slow
    BY <1>1, <1>2
  <2>3. Len(stack) \in DOMAIN stack
    BY <1>2
  <2>4. DOMAIN <<>> = {}
    OBVIOUS
  <2> QED
    BY <1>1, <2>1, <2>2, <2>3, <2>4 DEF Outer
<1>4. /\ clients' = clients \ {c} /\ attached' = attached \ {c}
      /\ close_after_flush' = close_after_flush \ {c}
      /\ rows' = {} /\ view' = view
      /\ \A d \in ClientId \ {c} : outbox'[d] = outbox[d]
      /\ outbox'[c] = <<>> \/ (outbox'[c] = outbox[c] /\ c \notin clients)
      /\ controller # c => controller' = controller
  <2>1. CASE c \in clients /\ remove_client(c, p)
    <3>1. /\ outbox' = [outbox EXCEPT ![c] = <<>>] /\ rows' = rows \ {c}
          /\ controller' = IF is_controller(c) THEN p ELSE controller
          /\ clients' = clients \ {c} /\ attached' = attached \ {c}
          /\ close_after_flush' = close_after_flush \ {c}
      BY <2>1 DEF remove_client, withdraw_client_rows
    <3> QED
      BY <1>1, <1>2, <3>1 DEF is_controller
  <2>2. CASE c \notin clients /\ UNCHANGED <<clients, attached, close_after_flush, rows, controller, outbox>>
    BY <1>1, <1>2, <2>2
  <2> QED
    BY <1>1, <2>1, <2>2
<1>5. CASE stack' = caller /\ c \notin attached
  <2>1. stack' # <<>> /\ Outer' = Outer
    BY <1>3, <1>5 DEF Outer
  <2>2. /\ \A d : d # c /\ Doomed(d) => Doomed(d)'
        /\ \A d : Doomed(d)' => Doomed(d)
    BY <1>1, <1>3, <1>5 DEF Doomed
  <2>3. \A i \in DOMAIN stack' : i \in DOMAIN stack /\ stack'[i].msgs = stack[i].msgs
    BY <1>1, <1>3, <1>5
  <2> QED
    BY <1>1, <1>2, <1>4, <1>5, <2>1, <2>2, <2>3
<1>6. CASE c \in attached
  <2> PICK msgs, h : msgs = RemovalMessages(c, p) /\ h = controller'
    OBVIOUS
  <2> PICK f : f = [msgs |-> msgs, slow |-> {}]
    OBVIOUS
  <2>1. /\ remove_client(c, p)
        /\ stack' = <<f>> \o caller
        /\ controller' = IF is_controller(c) THEN p ELSE controller
    <3>1. c \in clients
      BY <1>2, <1>6
    <3>2. remove_client(c, p) /\ stack' = <<[msgs |-> RemovalMessages(c, p), slow |-> {}]>> \o caller
      BY <1>1, <1>6, <3>1
    <3> QED
      BY <3>2 DEF remove_client
  <2>2. controller = c => \A d : Has(msgs, Movers, d)
    BY <2>1, RemovalSays
  <2>3. f \in Frame /\ f.msgs = msgs /\ f.slow = {}
    BY <2>1, RemovalSays DEF Frame
  <2>4. /\ DOMAIN stack' = 1 .. Len(caller) + 1 /\ Len(caller) \in Nat
        /\ stack'[1] = f
        /\ \A i \in DOMAIN caller : i + 1 \in DOMAIN stack' /\ stack'[i + 1] = caller[i]
        /\ \A i \in DOMAIN stack' : i = 1 \/ (i - 1 \in DOMAIN caller /\ stack'[i] = caller[i - 1])
    BY <2>1, <2>3, LoopPushed
  <2>5. Len(stack') = Len(caller) + 1 /\ stack' # <<>> /\ 1 \in DOMAIN stack'
    <3>1. Len(stack') = Len(caller) + 1 /\ stack' # <<>>
      BY <2>1, <2>3
    <3> QED
      BY <2>4, <3>1
  <2>6. Outer' = Outer
    BY <1>1, <1>3, <2>4, <2>5 DEF Outer
  <2>7. \A d : d # c /\ Doomed(d) => Doomed(d)'
    <3> SUFFICES ASSUME NEW d, d # c, NEW i \in DOMAIN stack, d \in stack[i].slow
                 PROVE  Doomed(d)'
      BY DEF Doomed
    <3>1. d \in caller[i].slow /\ i \in DOMAIN caller
      BY <1>1, <1>3
    <3> QED
      BY <2>4, <3>1 DEF Doomed
  <2>8. \A d : Doomed(d)' => Doomed(d)
    <3> SUFFICES ASSUME NEW d, NEW i \in DOMAIN stack', d \in stack'[i].slow
                 PROVE  Doomed(d)
      BY DEF Doomed
    <3>1. i # 1
      BY <2>3, <2>4
    <3>2. i - 1 \in DOMAIN stack /\ d \in caller[i - 1].slow
      BY <1>1, <2>4, <3>1
    <3> QED
      BY <1>1, <1>3, <3>2 DEF Doomed
  <2>9. controller = c => \A d : Coming(Movers, d)'
    BY <2>2, <2>3, <2>4, <2>5 DEF Coming
  <2>10. \A k \in DOMAIN msgs :
           /\ msgs[k].to = Everyone
           /\ msgs[k].msg \in Movers => k = 1 /\ controller = c /\ msgs[k].msg \in Naming(h)
    <3> PICK a, b : a = ToAll(controller_changed(p)) /\ b = ToAll(clients_changed')
      OBVIOUS
    <3>1. a.msg \in Naming(p) /\ a.to = Everyone /\ b.to = Everyone /\ b.msg \notin Movers
      BY BroadcastKinds
    <3>2. msgs = IF is_controller(c) THEN <<a, b>> ELSE <<b>>
      BY RemovalIs
    <3>3. /\ DOMAIN <<b>> = {1} /\ <<b>>[1] = b
          /\ DOMAIN <<a, b>> = {1, 2} /\ <<a, b>>[1] = a /\ <<a, b>>[2] = b
      BY ListPlaces
    <3>4. is_controller(c) => h = p /\ controller = c
      BY <2>1 DEF is_controller
    <3> QED
      BY <3>1, <3>2, <3>3, <3>4
  <2>11. ASSUME NEW i \in DOMAIN stack'
         PROVE  \/ \E j \in DOMAIN stack : stack'[i].msgs = stack[j].msgs
                \/ /\ i = 1 /\ stack'[1].slow = {} /\ MoverFirst(stack'[1].msgs)
                   /\ \A k \in DOMAIN stack'[1].msgs :
                        /\ stack'[1].msgs[k].to = Everyone
                        /\ stack'[1].msgs[k].msg \in Movers =>
                             controller = c /\ stack'[1].msgs[k].msg \in Naming(controller')
    <3>1. CASE i = 1
      <4>1. stack'[1].msgs = msgs /\ stack'[1].slow = {}
        BY <2>3, <2>4
      <4>2. MoverFirst(msgs)
        BY <2>10 DEF MoverFirst
      <4> QED
        BY <2>10, <3>1, <4>1, <4>2
    <3>2. CASE i # 1
      <4>1. i - 1 \in DOMAIN caller /\ stack'[i] = caller[i - 1]
        BY <2>4, <3>2
      <4> QED
        BY <1>1, <1>3, <4>1
    <3> QED
      BY <3>1, <3>2
  <2> QED
    BY <1>1, <1>2, <1>4, <2>5, <2>6, <2>7, <2>8, <2>9, <2>11
<1> QED
  BY <1>1, <1>5, <1>6

\* A slow client is removed.  While no announcement is held back, nothing is
\* waiting to be said of the holder, and if it was the holder who left, that is
\* said next; while one is held back, it is another client that goes.
LEMMA RemovalHeard ==
  ASSUME TypeOK, LeaseInv, HolderInv, FlagsOK', PolicyOK', RemoveSlow
  PROVE  HolderInv'
<1>1. PICK c \in top.slow :
        /\ c \in ClientId /\ 1 \in DOMAIN stack /\ top = stack[1]
        /\ stack # <<>> /\ stack' # <<>> /\ Outer' = Outer
        /\ clients' = clients \ {c} /\ attached' = attached \ {c}
        /\ close_after_flush' = close_after_flush \ {c}
        /\ rows' = {} /\ view' = view
        /\ \A d \in ClientId \ {c} : outbox'[d] = outbox[d]
        /\ outbox'[c] = <<>> \/ (outbox'[c] = outbox[c] /\ c \notin clients)
        /\ \A d : d # c /\ Doomed(d) => Doomed(d)'
        /\ \A d : Doomed(d)' => Doomed(d)
        /\ controller # c => controller' = controller
        /\ controller = c => \A d : Coming(Movers, d)'
        /\ \A i \in DOMAIN stack' :
             \/ \E j \in DOMAIN stack : stack'[i].msgs = stack[j].msgs
             \/ /\ i = 1 /\ stack'[1].slow = {} /\ MoverFirst(stack'[1].msgs)
                /\ \A k \in DOMAIN stack'[1].msgs :
                     /\ stack'[1].msgs[k].to = Everyone
                     /\ stack'[1].msgs[k].msg \in Movers =>
                          controller = c /\ stack'[1].msgs[k].msg \in Naming(controller')
  <2>1. rows = {}
    BY DEF HolderInv
  <2> QED
    BY <2>1, RemovalFrames
<1>2. /\ attached \subseteq clients /\ attached \subseteq ClientId
      /\ close_after_flush \subseteq clients /\ Everyone \notin clients'
  BY IdsType, BroadcastKinds DEF TypeOK, FlagsOK
<1>3. Unattached'
  <2> SUFFICES ASSUME NEW d \in ClientId \ attached', d \notin close_after_flush'
               PROVE  outbox'[d] = <<>>
    BY DEF Unattached
  <2>1. CASE d = c
    BY <1>1, <1>2, <2>1 DEF HolderInv, Unattached
  <2>2. CASE d # c
    BY <1>1, <2>2 DEF HolderInv, Unattached
  <2> QED
    BY <2>1, <2>2
<1>4. Addressed'
  <2> SUFFICES ASSUME NEW i \in DOMAIN stack', NEW k \in DOMAIN stack'[i].msgs,
                      NEW e, e = stack'[i].msgs[k], e.to \in clients'
               PROVE  e.to \in attached' \cup close_after_flush'
    BY DEF Addressed, ForMembers
  <2>1. PICK j \in DOMAIN stack : stack'[i].msgs = stack[j].msgs
    BY <1>1, <1>2
  <2>2. e.to \in clients => e.to \in attached \cup close_after_flush
    BY <2>1 DEF HolderInv, Addressed, ForMembers
  <2> QED
    BY <1>1, <2>2
<1>5. CASE Collapsing
  <2>1. ASSUME NEW d \in attached'
        PROVE  Doomed(d)' \/ Len(outbox'[d]) >= MaxBacklog
    BY <1>1, <1>2, <1>5 DEF Collapsing
  <2> QED
    BY <1>1, <1>3, <1>4, <1>5, <2>1 DEF HolderInv, Collapsing
<1>6. (NoneStale /\ (controller = c => \A i \in DOMAIN stack : NoMover(stack[i].msgs))) => NoneStale'
  <2> SUFFICES ASSUME NoneStale, controller = c => \A i \in DOMAIN stack : NoMover(stack[i].msgs),
                      NEW i \in DOMAIN stack', NEW k \in DOMAIN stack'[i].msgs,
                      NEW e, e = stack'[i].msgs[k], e.msg \in Movers
               PROVE  e.msg \in Naming(controller')
    BY DEF NoneStale, Names
  <2>1. CASE \E j \in DOMAIN stack : stack'[i].msgs = stack[j].msgs
    <3>1. PICK j \in DOMAIN stack : stack'[i].msgs = stack[j].msgs
      BY <2>1
    <3>2. controller # c
      BY <3>1 DEF NoMover
    <3>3. e.msg \in Naming(controller)
      BY <3>1 DEF NoneStale, Names
    <3> QED
      BY <1>1, <3>2, <3>3
  <2>2. CASE i = 1 /\ stack'[1].msgs[k].msg \in Naming(controller')
    BY <2>2
  <2> QED
    BY <1>1, <2>1, <2>2
<1>7. CASE NoneStale /\ Fresh /\ \A d \in attached : Heard(d)
  <2>1. \A i \in DOMAIN stack : NoMover(stack[i].msgs)
    BY <1>1, <1>7 DEF Fresh
  <2>2. NoneStale'
    BY <1>6, <1>7, <2>1
  <2>3. Fresh'
    <3> SUFFICES ASSUME NEW i \in DOMAIN stack'
                 PROVE  IF i = 1 /\ stack'[1].slow = {}
                        THEN MoverFirst(stack'[1].msgs) ELSE NoMover(stack'[i].msgs)
      BY DEF Fresh
    <3>1. \/ NoMover(stack'[i].msgs)
          \/ i = 1 /\ stack'[1].slow = {} /\ MoverFirst(stack'[1].msgs)
      BY <1>1, <2>1
    <3> QED
      BY <3>1 DEF NoMover, MoverFirst
  <2>4. ASSUME NEW d \in attached'
        PROVE  Heard(d)'
    <3>1. d \in attached /\ d # c /\ d \in ClientId
      BY <1>1, <1>2
    <3>2. KnowsController(d) \/ Doomed(d)
      BY <1>7, <2>1, <3>1 DEF Heard, Coming, Has, NoMover
    <3>3. controller # c /\ KnowsController(d) => KnowsController(d)'
      BY <1>1, <3>1 DEF KnowsController
    <3>4. Doomed(d) => Doomed(d)'
      BY <1>1, <3>1
    <3>5. controller = c => Coming(Movers, d)'
      BY <1>1
    <3> QED
      BY <3>2, <3>3, <3>4, <3>5 DEF Heard
  <2> QED
    BY <1>1, <1>3, <1>4, <2>2, <2>3, <2>4 DEF HolderInv
<1>8. CASE NoneStale /\ Granted
  <2>1. controller # c /\ controller \in attached /\ controller \in ClientId
    BY <1>1, <1>2, <1>8 DEF Granted, Doomed
  <2>2. controller' = controller
    BY <1>1, <2>1
  <2>3. NoneStale'
    BY <1>6, <1>8, <2>1
  <2>4. \A j \in DOMAIN stack : \A k \in DOMAIN stack[j].msgs : stack[j].msgs[k].to = Everyone
    BY <1>1, <1>8 DEF Granted, Public
  <2>5. Public'
    <3> SUFFICES ASSUME NEW i \in DOMAIN stack', NEW k \in DOMAIN stack'[i].msgs
                 PROVE  stack'[i].msgs[k].to = Everyone
      BY DEF Public
    <3>1. CASE \E j \in DOMAIN stack : stack'[i].msgs = stack[j].msgs
      BY <2>4, <3>1
    <3>2. CASE i = 1 /\ stack'[1].msgs[k].to = Everyone
      BY <3>2
    <3> QED
      BY <1>1, <3>1, <3>2
  <2>6. ~ Doomed(controller)'
    <3>1. ~ Doomed(controller)
      BY <1>8 DEF Granted
    <3>2. Doomed(controller)' => Doomed(controller)
      BY <1>1, <2>2 DEF Doomed
    <3> QED
      BY <3>1, <3>2
  <2>7. \A d \in attached' : Len(outbox'[d]) + 1 >= Len(outbox'[controller'])
    <3>1. \A d \in attached : Len(outbox[d]) + 1 >= Len(outbox[controller])
      BY <1>8 DEF Granted
    <3>2. \A d \in attached' : d \in attached /\ outbox'[d] = outbox[d]
      BY <1>1, <1>2
    <3>3. outbox'[controller'] = outbox[controller]
      BY <1>1, <2>1, <2>2
    <3> QED
      BY <3>1, <3>2, <3>3
  <2>8. Granted'
    BY <1>1, <1>8, <2>1, <2>2, <2>5, <2>6, <2>7 DEF Granted
  <2> QED
    BY <1>1, <1>3, <1>4, <2>3, <2>8 DEF HolderInv
<1> QED
  BY <1>5, <1>7, <1>8 DEF HolderInv

\* Responses a handler may start a loop with while no announcement is held back.
Handled(msgs, h) ==
  /\ MoverFirst(msgs)
  /\ \A k \in DOMAIN msgs :
       /\ msgs[k].msg \in Movers => msgs[k].msg \in Naming(h)
       /\ msgs[k].to \in clients' => msgs[k].to \in attached' \cup close_after_flush'
  /\ \A c \in attached' : (c \in attached /\ controller = h) \/ Has(msgs, Movers, c)

\* Between loops everybody has heard who holds the lease.
LEMMA IdleHeard ==
  ASSUME HolderInv, Idle
  PROVE  stack = <<>> /\ \A c \in attached : KnowsController(c)
<1>1. stack = <<>> /\ ~ Granted /\ ~ Collapsing
  BY DEF Idle, Granted, Collapsing
<1> QED
  BY <1>1 DEF HolderInv, Heard, Doomed, Coming

\* A handler starts its loop.
LEMMA LoopStartHeard ==
  ASSUME HolderInv, Idle, NEW msgs, Reply(msgs), UNCHANGED <<outbox, view, rows>>,
         attached \subseteq attached', close_after_flush \subseteq close_after_flush',
         Handled(msgs, controller')
  PROVE  HolderInv'
<1>1. stack = <<>> /\ \A c \in attached : KnowsController(c)
  BY IdleHeard
<1>2. DOMAIN stack' = {1} /\ stack'[1].msgs = msgs /\ stack'[1].slow = {}
  BY DEF Reply
<1>3. Unattached'
  BY DEF HolderInv, Unattached
<1>4. NoneStale' /\ Addressed'
  <2>1. NoneStale'
    BY <1>2 DEF NoneStale, Names, Handled
  <2>2. Addressed'
    BY <1>2 DEF Addressed, ForMembers, Handled
  <2> QED
    BY <2>1, <2>2
<1>5. Fresh'
  BY <1>2 DEF Fresh, Handled
<1>6. ASSUME NEW c \in attached'
      PROVE  Heard(c)'
  <2>1. Has(msgs, Movers, c) => Coming(Movers, c)'
    BY <1>2 DEF Coming
  <2>2. c \in attached /\ controller = controller' => KnowsController(c)'
    BY <1>1 DEF KnowsController
  <2> QED
    BY <2>1, <2>2 DEF Handled, Heard
<1> QED
  BY <1>3, <1>4, <1>5, <1>6 DEF HolderInv

\* Starting the removal of a client says nothing.
LEMMA DropHeard ==
  ASSUME HolderInv, Idle, NEW c, Drop(c),
         UNCHANGED <<clients, attached, close_after_flush, rows, controller, view>>,
         Unattached', \A d \in attached : KnowsController(d)'
  PROVE  HolderInv'
<1>1. DOMAIN stack' = {1} /\ stack'[1].msgs = <<>>
  BY DEF Drop
<1>2. NoneStale' /\ Fresh' /\ Addressed'
  BY <1>1 DEF NoneStale, Names, Addressed, ForMembers, Fresh, MoverFirst, NoMover
<1> QED
  BY <1>2 DEF HolderInv, Heard

\* The usual responses: a move of the lease, a roster with or without a word to one
\* client, and a message about something else.
LEMMA UsualHandled ==
  ASSUME FlagsOK', PolicyOK', attached' = attached, close_after_flush \subseteq close_after_flush'
  PROVE  /\ \A to \in ClientId \cup {None} :
              Handled(<<ToAll(controller_changed(to)), ToAll(clients_changed')>>, to)
         /\ Handled(<<ToAll(clients_changed')>>, controller)
         /\ \A m : m \notin Movers =>
              /\ Handled(<<ToAll(m)>>, controller)
              /\ \A d \in attached' \cup close_after_flush' :
                   /\ Handled(<<To(d, m)>>, controller)
                   /\ Handled(<<ToAll(clients_changed'), To(d, m)>>, controller)
<1> PICK x : x = ToAll(clients_changed')
  OBVIOUS
<1>1. /\ x.msg \notin Movers /\ x.to \notin clients'
      /\ \A d \in ClientId \cup {None} :
           /\ ToAll(controller_changed(d)).msg \in Naming(d)
           /\ ToAll(controller_changed(d)).msg \in Movers
      /\ \A m : ToAll(m).to = Everyone /\ ToAll(m).to \notin clients' /\ ToAll(m).msg = m
      /\ \A d, m : To(d, m).to = d /\ To(d, m).msg = m
  BY BroadcastKinds DEF To
<1>2. ASSUME NEW to \in ClientId \cup {None}
      PROVE  Handled(<<ToAll(controller_changed(to)), x>>, to)
  <2> PICK a : a = ToAll(controller_changed(to))
    OBVIOUS
  <2> PICK s : s = <<a, x>>
    OBVIOUS
  <2>1. DOMAIN s = {1, 2} /\ s[1] = a /\ s[2] = x
    BY ListPlaces
  <2>2. a.msg \in Naming(to) /\ a.msg \in Movers /\ a.to = Everyone /\ a.to \notin clients'
    BY <1>1
  <2>3. \A c : Has(s, Movers, c)
    BY <2>1, <2>2 DEF Has
  <2>4. Handled(s, to)
    BY <1>1, <2>1, <2>2, <2>3 DEF Handled, MoverFirst
  <2> QED
    BY <2>4
<1>3. ASSUME NEW a, a.msg \notin Movers, a.to \in clients' => a.to \in attached' \cup close_after_flush'
      PROVE  Handled(<<a>>, controller) /\ Handled(<<x, a>>, controller)
  <2> PICK s, t : s = <<a>> /\ t = <<x, a>>
    OBVIOUS
  <2>1. DOMAIN s = {1} /\ s[1] = a /\ DOMAIN t = {1, 2} /\ t[1] = x /\ t[2] = a
    BY ListPlaces
  <2>2. Handled(s, controller)
    BY <1>3, <2>1 DEF Handled, MoverFirst
  <2>3. Handled(t, controller)
    BY <1>1, <1>3, <2>1 DEF Handled, MoverFirst
  <2> QED
    BY <2>2, <2>3
<1>4. Handled(<<x>>, controller)
  BY <1>1, <1>3
<1>5. \A m : m \notin Movers =>
        /\ Handled(<<ToAll(m)>>, controller)
        /\ \A d \in attached' \cup close_after_flush' :
             Handled(<<To(d, m)>>, controller) /\ Handled(<<x, To(d, m)>>, controller)
  <2> SUFFICES ASSUME NEW m, m \notin Movers
               PROVE  /\ Handled(<<ToAll(m)>>, controller)
                      /\ \A d \in attached' \cup close_after_flush' :
                           Handled(<<To(d, m)>>, controller) /\ Handled(<<x, To(d, m)>>, controller)
    OBVIOUS
  <2>1. ToAll(m).to \notin clients' /\ ToAll(m).msg \notin Movers
    BY <1>1
  <2>2. Handled(<<ToAll(m)>>, controller)
    BY <1>3, <2>1
  <2>3. ASSUME NEW d \in attached' \cup close_after_flush'
        PROVE  Handled(<<To(d, m)>>, controller) /\ Handled(<<x, To(d, m)>>, controller)
    <3>1. To(d, m).to \in attached' \cup close_after_flush' /\ To(d, m).msg \notin Movers
      BY <1>1
    <3> QED
      BY <1>3, <3>1
  <2> QED
    BY <2>2, <2>3
<1> QED
  BY <1>2, <1>4, <1>5

\* Every request of an attached client.
LEMMA RequestHeard ==
  ASSUME TypeOK, LeaseInv, HolderInv, Publishers = {}, FlagsOK', PolicyOK', NEW c \in ClientId, Request(c)
  PROVE  HolderInv'
<1>1. /\ UNCHANGED <<outbox, view, clients, attached, read_only, rows>>
      /\ close_after_flush \subseteq close_after_flush' /\ Idle
  BY DEF Request, RequestControl, Park, Unpark, Detach, ReportPaneRows, GrantControl,
     DeclineControl, EvictClient, SetControlTakeover, SetInputLock, Drag, conns, ui, Serving
<1>2. ASSUME NEW msgs, Reply(msgs), Handled(msgs, controller')
      PROVE  HolderInv'
  BY <1>1, <1>2, LoopStartHeard
<1>3. /\ \A to \in ClientId \cup {None} :
           Handled(<<ToAll(controller_changed(to)), ToAll(clients_changed')>>, to)
      /\ Handled(<<ToAll(clients_changed')>>, controller)
      /\ \A m : m \notin Movers =>
           /\ Handled(<<ToAll(m)>>, controller)
           /\ \A d \in attached' \cup close_after_flush' :
                /\ Handled(<<To(d, m)>>, controller)
                /\ Handled(<<ToAll(clients_changed'), To(d, m)>>, controller)
  BY <1>1, UsualHandled
<1>4. \A t \in {"ControlRequested", "ControlDeclined", "Error", "PaneRuntime"} : Note(t) \notin Movers
  BY MessageKinds
<1>5. ASSUME NEW to \in ClientId \cup {None}, controller' = to,
             Reply(<<ToAll(controller_changed(to)), ToAll(clients_changed')>>)
      PROVE  HolderInv'
  BY <1>2, <1>3, <1>5
<1>6. ASSUME NEW to \in ClientId, assign_controller(to)
      PROVE  HolderInv'
  BY <1>5, <1>6 DEF assign_controller
<1>7. CASE Reply(<<ToAll(clients_changed')>>) /\ controller' = controller
  BY <1>2, <1>3, <1>7
<1>8. CASE RequestControl(c)
  <2>1. CASE TakesAtOnce
    BY <1>6, <1>8, <2>1 DEF RequestControl
  <2>2. CASE ~TakesAtOnce
    <3>1. controller' = controller /\ controller \in attached'
      BY <1>1, <1>8, <2>2 DEF RequestControl, TakesAtOnce, LeaseInv, LeaseHeldByUser, Users
    <3>2. CASE c \in requesting_control
      <4>1. Reply(<<>> \o <<To(controller, Note("ControlRequested"))>>)
        BY <1>8, <2>2, <3>2 DEF RequestControl
      <4>2. <<>> \o <<To(controller, Note("ControlRequested"))>>
              = <<To(controller, Note("ControlRequested"))>>
        BY ListPlaces
      <4>3. Reply(<<To(controller, Note("ControlRequested"))>>)
        BY <4>1, <4>2
      <4> QED
        BY <1>2, <1>3, <1>4, <3>1, <4>3
    <3>3. CASE c \notin requesting_control
      <4>1. Reply(<<ToAll(clients_changed')>> \o <<To(controller, Note("ControlRequested"))>>)
        BY <1>8, <2>2, <3>3 DEF RequestControl
      <4>2. <<ToAll(clients_changed')>> \o <<To(controller, Note("ControlRequested"))>>
              = <<ToAll(clients_changed'), To(controller, Note("ControlRequested"))>>
        BY ShortLists
      <4>3. Reply(<<ToAll(clients_changed'), To(controller, Note("ControlRequested"))>>)
        BY <4>1, <4>2
      <4> QED
        BY <1>2, <1>3, <1>4, <3>1, <4>3
    <3> QED
      BY <3>2, <3>3
  <2> QED
    BY <2>1, <2>2
<1>9. CASE Park(c)
  <2>1. CASE is_controller(c)
    <3> PICK to : to = promotion_candidate(Users \ {c})
      OBVIOUS
    <3>1. /\ Reply(<<ToAll(controller_changed(to)), ToAll(clients_changed')>>)
          /\ controller' = to
      BY <1>9, <2>1 DEF Park, release_controller
    <3>2. Users \ {c} \subseteq ClientId
      BY IdsType DEF TypeOK
    <3>3. to \in ClientId \cup {None}
      BY <3>2, CandidateIsEntitled
    <3> QED
      BY <1>5, <3>1, <3>3
  <2>2. CASE ~is_controller(c)
    BY <1>7, <1>9, <2>2 DEF Park
  <2> QED
    BY <2>1, <2>2
<1>10. CASE Unpark(c)
  BY <1>6, <1>7, <1>10 DEF Unpark
<1>11. CASE Detach(c)
  <2>1. UNCHANGED <<controller, close_after_flush>> /\ Drop(c)
    BY <1>11 DEF Detach, conns
  <2>2. Unattached' /\ \A d \in attached : KnowsController(d)'
    BY <1>1, <2>1, IdleHeard DEF HolderInv, Unattached, KnowsController
  <2> QED
    BY <1>1, <2>1, <2>2, DropHeard
<1>12. CASE ReportPaneRows(c)
  BY <1>12 DEF ReportPaneRows
<1>13. ASSUME NEW to \in ClientId, GrantControl(c, to)
       PROVE  HolderInv'
  BY <1>6, <1>13 DEF GrantControl
<1>14. ASSUME NEW to \in ClientId, DeclineControl(c, to)
       PROVE  HolderInv'
  <2>1. /\ controller' = controller /\ to \in attached'
        /\ Reply(<<ToAll(clients_changed'), To(to, Note("ControlDeclined"))>>)
    BY <1>1, <1>14 DEF DeclineControl, TypeOK, FlagsOK
  <2> QED
    BY <1>2, <1>3, <1>4, <2>1
<1>15. ASSUME NEW to \in ClientId, EvictClient(c, to)
       PROVE  HolderInv'
  <2>1. /\ controller' = controller /\ to \in attached'
        /\ Reply(<<To(to, Note("Error"))>>)
    BY <1>1, <1>15 DEF EvictClient
  <2> QED
    BY <1>2, <1>3, <1>4, <2>1
<1>16. ASSUME NEW on \in BOOLEAN, SetControlTakeover(c, on) \/ SetInputLock(c, on)
       PROVE  HolderInv'
  BY <1>7, <1>16 DEF SetControlTakeover, SetInputLock
<1>17. ASSUME NEW on \in BOOLEAN, Drag(c, on)
       PROVE  HolderInv'
  <2> PICK m : m = [type |-> "DragChanged", author |-> c, lifted |-> on]
    OBVIOUS
  <2>1. controller' = controller /\ Reply(<<ToAll(m)>>)
    BY <1>17 DEF Drag
  <2>2. m \notin Movers
    BY MessageKinds
  <2> QED
    BY <1>2, <1>3, <2>1, <2>2
<1> QED
  BY <1>8, <1>9, <1>10, <1>11, <1>12, <1>13, <1>14, <1>15, <1>16, <1>17 DEF Request

\* A client that attaches, with nothing waiting to be sent to it, is told of the
\* lease with its Attached, everybody else at the end.
LEMMA AttachHeard ==
  ASSUME TypeOK, HolderInv, FlagsOK', PolicyOK', NEW c \in ClientId, NEW ro \in BOOLEAN,
         Attach(c, ro), outbox[c] = <<>>
  PROVE  HolderInv'
<1> PICK m, x, h : m = [type |-> "Attached", state |-> TrueState'] /\ x = clients_changed' /\ h = controller'
  OBVIOUS
<1> PICK granted \in BOOLEAN : granted = (controller = None /\ ~ro)
  OBVIOUS
<1>1. /\ Idle /\ UNCHANGED <<outbox, view, clients, rows, close_after_flush>>
      /\ attached' = attached \cup {c}
      /\ controller' = IF granted THEN c ELSE controller
      /\ Reply(<<To(c, m), ToAll(x)>> \o IF granted THEN <<ToAll(controller_changed(c))>> ELSE <<>>)
  BY DEF Attach, ui, Serving
<1>2. m \in Naming(h) /\ m \in Movers
  <2>1. ([type |-> "Attached", state |-> TrueState] \in Naming(controller))'
    BY HelloTruthful, PTL
  <2> QED
    BY <2>1 DEF Naming
<1> PICK a, b, d : a = To(c, m) /\ b = ToAll(x) /\ d = ToAll(controller_changed(c))
  OBVIOUS
<1>3. /\ a.to = c /\ a.msg = m /\ b.msg \notin Movers /\ b.to = Everyone /\ b.to \notin clients'
      /\ d.to = Everyone /\ d.to \notin clients' /\ d.msg \in Naming(c)
  BY BroadcastKinds DEF To
<1>4. CASE ~ granted
  <2> PICK s : s = <<a, b>>
    OBVIOUS
  <2>1. Reply(s)
    <3>1. <<a, b>> \o <<>> = <<a, b>>
      <4>1. <<a, b>> \in Seq({a, b})
        OBVIOUS
      <4> QED
        BY <4>1, ConcatEmptySeq
    <3>2. Reply(<<a, b>> \o <<>>)
      BY <1>1, <1>4
    <3> QED
      BY <3>1, <3>2
  <2>2. DOMAIN s = {1, 2} /\ s[1] = a /\ s[2] = b
    BY ListPlaces
  <2>3. Has(s, Movers, c)
    BY <1>2, <1>3, <2>2 DEF Has
  <2>4. Handled(s, h)
    BY <1>1, <1>2, <1>3, <1>4, <2>2, <2>3 DEF Handled, MoverFirst
  <2> QED
    BY <1>1, <2>1, <2>4, LoopStartHeard
<1>5. CASE granted
  <2> PICK s : s = <<a, b, d>>
    OBVIOUS
  <2>1. Reply(s)
    <3>1. <<a, b>> \o <<d>> = <<a, b, d>>
      BY ShortLists
    <3>2. Reply(<<a, b>> \o <<d>>)
      BY <1>1, <1>5
    <3> QED
      BY <3>1, <3>2
  <2>2. DOMAIN s = {1, 2, 3} /\ s[1] = a /\ s[2] = b /\ s[3] = d /\ Len(s) = 3 /\ s # <<>>
    BY ListPlaces
  <2>3. /\ DOMAIN stack' = {1} /\ Len(stack') = 1 /\ stack' # <<>>
        /\ stack'[1].msgs = s /\ stack'[1].slow = {}
    BY <2>1 DEF Reply
  <2>4. Unattached' /\ rows' = {}
    BY <1>1 DEF HolderInv, Unattached
  <2>5. controller' = c /\ c \in attached'
    BY <1>1, <1>5
  <2>6. \A k \in DOMAIN s : /\ s[k].msg \in Movers => s[k].msg \in Naming(c)
                            /\ s[k].to \in clients' => s[k].to \in attached' \cup close_after_flush'
    BY <1>2, <1>3, <2>2, <2>5
  <2>7. NoneStale' /\ Addressed'
    <3>1. NoneStale'
      BY <2>3, <2>5, <2>6 DEF NoneStale, Names
    <3>2. Addressed'
      BY <2>3, <2>6 DEF Addressed, ForMembers
    <3> QED
      BY <3>1, <3>2
  <2>8. outbox'[c] = <<>>
    BY <1>1
  <2>9. Public'
    <3> SUFFICES ASSUME NEW k \in {1, 2, 3}
                 PROVE  s[k].to = Everyone \/ (k = 1 /\ s[k].to = c)
      BY <2>2, <2>3, <2>5, <2>8 DEF Public
    <3> QED
      BY <1>3, <2>2
  <2>10. \A e \in attached' : Len(outbox'[e]) + 1 >= Len(outbox'[c])
    <3> SUFFICES ASSUME NEW e \in attached'
                 PROVE  Len(outbox'[e]) + 1 >= Len(outbox'[c])
      OBVIOUS
    <3>1. Len(outbox'[c]) = 0
      BY <2>8
    <3>2. e \in ClientId /\ outbox'[e] \in Seq(Message)
      BY <1>1, IdsType DEF TypeOK
    <3> PICK n : n = Len(outbox'[e])
      OBVIOUS
    <3>3. n \in Nat
      BY <3>2
    <3> QED
      BY <3>1, <3>3
  <2>11. Granted'
    BY <2>2, <2>3, <2>5, <2>9, <2>10 DEF Granted, Outer, Doomed
  <2> QED
    BY <2>4, <2>7, <2>11 DEF HolderInv
<1> QED
  BY <1>4, <1>5

\* Connections accepted, refused or ended, and broadcasts about something else.
LEMMA ConnectionHeard ==
  ASSUME TypeOK, HolderInv, FlagsOK', PolicyOK', NEW c \in ClientId,
         Accept \/ AttachRefused(c) \/ PaneRuntimeChange \/ Disconnect(c) \/ HeartbeatExpire(c)
  PROVE  HolderInv'
<1>1. /\ UNCHANGED <<attached, rows, controller, outbox, view>> /\ Idle
      /\ close_after_flush \subseteq close_after_flush'
  BY DEF Accept, AttachRefused, PaneRuntimeChange, Disconnect, HeartbeatExpire, Serving, conns, ui
<1>2. stack = <<>> /\ \A d \in attached : KnowsController(d)
  BY <1>1, IdleHeard
<1>3. Unattached' /\ \A d \in attached : KnowsController(d)'
  BY <1>1, <1>2 DEF HolderInv, Unattached, KnowsController
<1>4. CASE Accept
  <2>1. stack' = <<>>
    BY <1>2, <1>4 DEF Accept
  <2>2. NoneStale' /\ Fresh' /\ Addressed'
    BY <2>1 DEF NoneStale, Addressed, Fresh
  <2> QED
    BY <1>1, <1>3, <2>2 DEF HolderInv, Heard
<1>5. CASE AttachRefused(c) \/ PaneRuntimeChange
  <2>1. Note("Error") \notin Movers /\ Note("PaneRuntime") \notin Movers
    BY MessageKinds
  <2>2. Handled(<<ToAll(Note("PaneRuntime"))>>, controller)
    BY <1>1, <2>1, UsualHandled
  <2>3. AttachRefused(c) => Handled(<<To(c, Note("Error"))>>, controller)
    <3>1. AttachRefused(c) => c \in attached' \cup close_after_flush'
      BY DEF AttachRefused
    <3> QED
      BY <1>1, <2>1, <3>1, UsualHandled
  <2>4. \/ AttachRefused(c) /\ Reply(<<To(c, Note("Error"))>>)
        \/ Reply(<<ToAll(Note("PaneRuntime"))>>)
    BY <1>5 DEF AttachRefused, PaneRuntimeChange
  <2>5. ASSUME NEW msgs, Reply(msgs), Handled(msgs, controller)
        PROVE  HolderInv'
    BY <1>1, <2>5, LoopStartHeard
  <2> QED
    BY <2>2, <2>3, <2>4, <2>5
<1>6. CASE Disconnect(c) \/ HeartbeatExpire(c)
  <2>1. Drop(c) /\ UNCHANGED <<clients, close_after_flush>>
    BY <1>6 DEF Disconnect, HeartbeatExpire, conns
  <2> QED
    BY <1>1, <1>3, <2>1, DropHeard
<1> QED
  BY <1>4, <1>5, <1>6

\* A client that takes in its next message still learns the rest.
LEMMA FlushHeard ==
  ASSUME TypeOK, HolderInv, NEW c \in ClientId, Flush(c)
  PROVE  HolderInv'
<1>1. /\ Idle /\ outbox[c] # <<>> /\ outbox' = [outbox EXCEPT ![c] = Tail(@)]
      /\ UNCHANGED <<clients, attached, read_only, close_after_flush, parked,
                     requesting_control, rows, controller, input_locked, allow_takeover>>
      /\ stack' = stack \/ stack' = <<[msgs |-> <<>>, slow |-> {c}]>>
  BY DEF Flush, conns, policy, Drop
<1>2. stack = <<>> /\ \A d \in attached : KnowsController(d)
  BY <1>1, IdleHeard
<1>3. Roster' = Roster
  BY <1>1 DEF Roster, TrueState, client_roster
<1>4. \A d \in attached : KnowsController(d)'
  <2>1. attached \subseteq ClientId
    BY IdsType DEF TypeOK
  <2> QED
    BY <1>1, <1>2, <1>3, <2>1, FlushLearns
<1>5. Unattached'
  <2>1. outbox \in [ClientId -> Seq(Message)]
    BY DEF TypeOK
  <2>2. \A d \in ClientId \ {c} : outbox'[d] = outbox[d]
    BY <1>1, <2>1
  <2>3. c \in attached \cup close_after_flush
    BY <1>1 DEF HolderInv, Unattached
  <2> QED
    BY <1>1, <2>2, <2>3 DEF HolderInv, Unattached
<1>6. \A i \in DOMAIN stack' : i = 1 /\ stack'[i].msgs = <<>>
  BY <1>1, <1>2
<1>7. NoneStale' /\ Fresh' /\ Addressed'
  BY <1>6 DEF NoneStale, Names, Addressed, ForMembers, Fresh, MoverFirst, NoMover
<1> QED
  BY <1>1, <1>4, <1>5, <1>7 DEF HolderInv, Heard

\* Every step keeps that everybody has heard of the holder or is about to.
LEMMA HolderStep ==
  ASSUME TypeOK, LeaseInv, HolderInv, attaching = "none", Publishers = {},
         Rejoiners \cap Slow = {}, MaxBacklog > 0, [Next]_vars
  PROVE  HolderInv' /\ attaching' = "none"
<1>a. ASSUME NEW c \in ClientId, c \in MayAttach, Serving
      PROVE  outbox[c] = <<>>
  <2>1. CASE c \in attached
    <3>1. c \in Rejoiners /\ c \in clients
      BY <1>a, <2>1 DEF MayAttach, TypeOK, FlagsOK
    <3> QED
      BY <1>a, <3>1 DEF Serving
  <2>2. CASE c \notin attached
    BY <1>a, <2>2 DEF MayAttach, HolderInv, Unattached
  <2> QED
    BY <2>1, <2>2
<1>b. /\ attaching' = "none" /\ ~ AttachReplies
      /\ \A c \in ClientId, ro \in BOOLEAN : ~ AttachOverflow(c, ro)
  <2>1. \A c \in ClientId : Len(outbox[c]) \in Nat
    <3>1. \A c \in ClientId : outbox[c] \in Seq(Message)
      BY DEF TypeOK
    <3> QED
      BY <3>1
  <2>2. ASSUME NEW c \in MayAttach \cap ClientId, Serving
        PROVE  Len(outbox[c]) < MaxBacklog
    <3>1. Len(outbox[c]) = 0
      BY <1>a, <2>2
    <3> QED
      BY <3>1
  <2>3. Serving => \A c \in MayAttach \cap ClientId : Len(outbox[c]) < MaxBacklog
    BY <2>2
  <2> QED
    BY <2>1, <2>3, StaysSettled
<1>1. FlagsOK'
  BY LeaseInvStep DEF LeaseInv
<1>2. PolicyOK'
  BY PolicyStep DEF TypeOK, PolicyOK
<1>3. CASE UNCHANGED vars
  <2>1. UNCHANGED <<clients, attached, close_after_flush, rows, controller, outbox, stack, view>>
    BY <1>3 DEF vars, conns, ui
  <2>2. Unattached' /\ Addressed' /\ rows' = {} /\ (NoneStale => NoneStale')
    BY <2>1 DEF HolderInv, Unattached, Addressed, ForMembers, NoneStale
  <2>3. (Granted => Granted') /\ (Collapsing => Collapsing')
    BY <2>1 DEF Granted, Collapsing, Public, Outer, Doomed
  <2>4. Fresh => Fresh'
    BY <2>1 DEF Fresh
  <2>5. \A c \in attached' : Heard(c) => Heard(c)'
    BY <2>1 DEF Heard, KnowsController, Doomed, Coming
  <2> QED
    BY <1>b, <2>1, <2>2, <2>3, <2>4, <2>5 DEF HolderInv
<1>4. CASE Send
  BY <1>b, <1>4, SendHeard
<1>5. CASE RemoveSlow
  BY <1>b, <1>1, <1>2, <1>5, RemovalHeard
<1>6. CASE Return
  BY <1>b, <1>6, ReturnHeard
<1>7. CASE Accept
  <2>1. PICK c : c \in ClientId
    <3>1. 1 \in ClientId
      <4> PICK n : n = next_client_id
        OBVIOUS
      <4>1. n \in 1 .. MaxClients + 1 /\ n <= MaxClients
        BY <1>7 DEF Accept, TypeOK, FlagsOK
      <4> QED
        BY ONLY <4>1, MaxClientsAssumption DEF ClientId
    <3> QED
      BY <3>1
  <2> QED
    BY <1>b, <1>1, <1>2, <1>7, <2>1, ConnectionHeard
<1>8. CASE PaneRuntimeChange
  <2>1. PICK c : c \in ClientId
    <3>1. attached # {} /\ attached \subseteq ClientId
      BY <1>8, IdsType DEF PaneRuntimeChange, TypeOK
    <3> QED
      BY <3>1
  <2> QED
    BY <1>b, <1>1, <1>2, <1>8, <2>1, ConnectionHeard
<1>9. ASSUME NEW c \in ClientId, Request(c)
      PROVE  HolderInv'
  BY <1>1, <1>2, <1>9, RequestHeard
<1>10. ASSUME NEW c \in ClientId, NEW ro \in BOOLEAN, Attach(c, ro)
       PROVE  HolderInv'
  <2>1. outbox[c] = <<>>
    BY <1>a, <1>10 DEF Attach
  <2> QED
    BY <1>1, <1>2, <1>10, <2>1, AttachHeard
<1>11. ASSUME NEW c \in ClientId, AttachRefused(c) \/ Disconnect(c) \/ HeartbeatExpire(c)
       PROVE  HolderInv'
  BY <1>1, <1>2, <1>11, ConnectionHeard
<1>12. ASSUME NEW c \in ClientId, Flush(c)
       PROVE  HolderInv'
  BY <1>12, FlushHeard
<1> QED
  BY <1>b, <1>3, <1>4, <1>5, <1>6, <1>7, <1>8, <1>9, <1>10, <1>11, <1>12 DEF Next

\* Whichever sockets stop, and however the removals of their clients nest in the
\* broadcasts they interrupt: a client that has drained its outbox sees the lease
\* where it is.  No client publishes rows, whose withdrawal comes before the
\* announcement and can make the promoted client the next to go (remove_client), and
\* none attaches again over a socket that has stopped (handle_attach).
THEOREM ControllersSafe ==
  ASSUME Publishers = {}, Rejoiners \cap Slow = {}, MaxBacklog > 0
  PROVE  Spec => []ControllerAgreed
<1> DEFINE Settling == attaching = "none"
<1>1. Init => TypeOK /\ LeaseInv /\ HolderInv /\ Settling
  <2>1. ASSUME Init
        PROVE  HolderInv
    <3>1. /\ rows = {} /\ Unattached /\ Addressed /\ NoneStale /\ Fresh
          /\ attached = {}
      BY <2>1 DEF Init, Unattached, Addressed, NoneStale, Fresh
    <3> QED
      BY <3>1 DEF HolderInv
  <2>2. Init => Settling
    BY DEF Init
  <2> QED
    BY <2>1, <2>2, InitTypes
<1>2. TypeOK /\ LeaseInv /\ HolderInv /\ Settling /\ [Next]_vars
        => TypeOK' /\ LeaseInv' /\ HolderInv' /\ Settling'
  BY TypeStep, LeaseInvStep, HolderStep
<1>3. TypeOK /\ HolderInv => ControllerAgreed
  <2> SUFFICES ASSUME TypeOK, HolderInv, Idle, NEW c \in attached, outbox[c] = <<>>
               PROVE  view[c].controller = controller
    BY DEF ControllerAgreed
  <2>1. KnowsController(c)
    BY IdleHeard
  <2> QED
    BY <2>1, DrainedKnows
<1> QED
  BY <1>1, <1>2, <1>3, PTL DEF Spec
=============================================================================
