--------------------------- MODULE MCSessionLease ---------------------------
(***************************************************************************)
(* SessionLease with at most MaxEvents events in a behaviour: requests,    *)
(* connections ending, broadcasts.  Steps of the response loops, flushes   *)
(* and accepted connections are not counted, so every behaviour runs to a  *)
(* point where all outboxes have drained.                                  *)
(***************************************************************************)
EXTENDS SessionLease

CONSTANTS MaxEvents, Joined, Backlog

ASSUME Joined \in 0 .. MaxClients /\ Backlog \in 0 .. MaxBacklog

VARIABLE events

\* The first Joined clients have connected and attached writable, one after the
\* other, and the first was granted the lease.  Since then the session broadcast
\* Backlog control frames, which the slow clients have not read yet.
MCInit ==
  /\ next_client_id = Joined + 1
  /\ clients = 1 .. Joined /\ attached = clients
  /\ read_only = {} /\ parked = {} /\ requesting_control = {}
  /\ close_after_flush = {} /\ rows = {}
  /\ controller = IF Joined = 0 THEN None ELSE 1
  /\ rejoined = None
  /\ input_locked = FALSE /\ allow_takeover \in BOOLEAN
  /\ outbox = [c \in ClientId |-> [i \in 1 .. (IF c \in Slow /\ c <= Joined
                                              THEN Backlog ELSE 0)
                                     |-> Note("PaneRuntime")]]
  /\ stack = <<>> /\ attaching = "none"
  /\ view = [c \in ClientId |-> IF c <= Joined THEN TrueState ELSE NoView]
  /\ remote_drag = [c \in ClientId |-> None]
  /\ events = 0

\* A step that starts a response loop is an event.
MCNext ==
  /\ Next
  /\ events' = IF Idle /\ stack' # <<>> THEN events + 1 ELSE events
  /\ events' <= MaxEvents

MCSpec == MCInit /\ [][MCNext]_<<vars, events>>
=============================================================================
