----------------------------- MODULE HeldWaits -----------------------------
(***************************************************************************)
(* Requests whose answer the session server holds: `agents wait`, `agents  *)
(* prompt --wait`, and the waits of capture-pane, send-text and send-keys  *)
(* (session/server/waits.rs, capture_waits.rs, pane/capture_wait.rs).      *)
(*                                                                         *)
(* A round of the loop serves requests, output and runtime changes in any  *)
(* order and ends by expiring agent waits and looking at the screens of    *)
(* capture waits; time passes at any point.  Agent waits are also resolved *)
(* inside the operations that change an agent or a pane; two of these have *)
(* a path on which nobody looks at the waits (Quietly).                    *)
(*                                                                         *)
(* A pane has one agent slot; `visible` is FALSE for a published row that  *)
(* is not on screen.  A screen is its content_generation, the number of    *)
(* its last visible change (cells), the lines on it that show the awaited  *)
(* text (marks, numbered as they are drawn) and its history epoch.  The    *)
(* heirs of a pane are the programs that may still take it over from the   *)
(* one that exits: a shell and, before it, an agent attached to (keep_open,*)
(* agent_resume, command_completed).                                       *)
(***************************************************************************)
EXTENDS Naturals, Sequences, FiniteSets, FiniteSetsExt, Functions

CONSTANTS Panes,
          Headless,     \* connections that ask one question and hang up
          Attached,     \* clients that forward requests
          RequestIds,   \* ids of an attached client's requests
          States,       \* agent states
          Conditions,   \* conditions asked for
          Timeouts,     \* timeouts asked for; None for a wait without one
          Settles,      \* settle times asked for; 0 is none
          MaxTime,      \* bound on the clock
          MaxEvents,    \* bound on what happens to panes and clients
          None

Agents == [incarnation : Nat, generation : Nat, state : States, visible : BOOLEAN]
PaneStates == [generation : Nat, exited : BOOLEAN, agent : Agents \cup {None},
               incarnations : Nat, content : Nat, cells : Nat, marks : SUBSET Nat,
               epoch : Nat, changed : Nat, heirs : 0 .. 2]
Baselines == [epoch : Nat, marks : SUBSET Nat]

\* An agent is named by its pane, the pane's generation and its incarnation.
Subjects == [pane : Panes, generation : Nat, incarnation : Nat]
AgentRequests == [kind : {"wait", "prompt"}, target : Subjects, until : Conditions,
                  initial : States \cup {None}, trail : SUBSET States]
CaptureRequests == [kind : {"capture", "send"}, text : BOOLEAN, settle : Nat, mark : Nat,
                    epoch : Nat]
Closed == [kind |-> "closed"]

\* An agent can be idle; nothing is not something.
ASSUME WaitsAssumption ==
  /\ MaxTime \in Nat /\ MaxEvents \in Nat
  /\ Timeouts \subseteq (Nat \ {0}) \cup {None} /\ Settles \subseteq Nat
  /\ Headless \cap Attached = {}
  /\ 0 \notin RequestIds
  /\ "idle" \in States
  /\ None \notin Nat /\ None \notin States
  /\ None \notin Agents /\ None \notin PaneStates /\ None \notin Baselines
  /\ None \notin AgentRequests /\ None \notin CaptureRequests /\ None # Closed

Clients == Headless \cup Attached
\* WaitKey: the client and the attached request, 0 for a headless one.
Keys == (Headless \X {0}) \cup (Attached \X RequestIds)

VARIABLES
  panes,           \* SessionServer.panes; None where there is no pane
  generations,     \* the last pane generation given out
  conn,            \* clients: open, closing (close_after_flush) or gone
  stalled,         \* clients whose outbox is full
  agent_waits,     \* SessionServer.agent_waits
  capture_waits,   \* SessionServer.capture_waits, by headless client
  now,             \* the clock
  drawn,           \* visible changes so far
  \* bounds and history
  events,
  issued,          \* agent references ever given out
  asked,           \* what each key asked for, until it is answered
  overlooked,      \* subjects whose end nobody looked at since it came
  answers,         \* how often each key was answered
  reply            \* the answers of the last step, with their requests

world == <<panes, generations, drawn, issued, overlooked>>
vars == <<world, conn, stalled, agent_waits, capture_waits, now, events,
          asked, answers, reply>>

(***************************************************************************)
(* Agent conditions.                                                       *)
(***************************************************************************)
Pending == [end |-> "pending", agent |-> None]
Ready(agent) == [end |-> "ready", agent |-> agent]
Error(code) == [end |-> code, agent |-> None]

condition_matches(until, state) ==
  CASE until = "quiescent" -> state \in {"idle", "done", "error"}
    [] until = "turn" -> state # "working"
    [] OTHER -> state = until

gone_evaluation(until, code) == IF until = "gone" THEN Ready(None) ELSE Error(code)

\* Mutant: any agent in the pane will do.
evaluate_any_incarnation(ps, ref, until) ==
  LET pane == ps[ref.pane] IN
  CASE pane = None -> gone_evaluation(until, "agent-gone")
    [] pane # None /\ pane.exited -> gone_evaluation(until, "agent-gone")
    [] pane # None /\ ~pane.exited /\ pane.agent = None -> gone_evaluation(until, "agent-gone")
    [] OTHER -> IF condition_matches(until, pane.agent.state)
                THEN Ready([pane.agent EXCEPT !.generation = pane.generation]) ELSE Pending

evaluate_agent_wait(ps, ref, until) ==
  LET pane == ps[ref.pane]
      gone == pane = None \/ pane.exited
      other == ~gone /\ pane.generation # ref.generation
      empty == ~gone /\ pane.agent = None
      replaced == ~gone /\ ~empty /\ pane.agent.incarnation # ref.incarnation
  IN CASE gone -> gone_evaluation(until, "agent-gone")
       [] ~gone /\ other -> gone_evaluation(until, "agent-replaced")
       [] ~gone /\ ~other /\ empty -> gone_evaluation(until, "agent-gone")
       [] ~gone /\ ~other /\ replaced -> gone_evaluation(until, "agent-replaced")
       [] OTHER -> IF condition_matches(until, pane.agent.state)
                   THEN Ready(pane.agent) ELSE Pending

\* A subject names an agent; incarnation 0 is a pane without one yet.
Ref(p, pane) == [pane |-> p, generation |-> pane.generation, incarnation |-> pane.agent.incarnation]
Subject(p, generation) == [pane |-> p, generation |-> generation, incarnation |-> 0]

\* The subject to keep watching: the first agent of a pane is adopted.
Adopted(ps, s) ==
  LET pane == ps[s.pane] IN
  IF /\ s.incarnation = 0
     /\ pane # None
     /\ ~pane.exited
     /\ pane.generation = s.generation
     /\ pane.agent # None
     /\ pane.agent.visible
  THEN Ref(s.pane, pane) ELSE s

evaluate_wait_subject(ps, s, until) ==
  LET pane == ps[s.pane]
      subject == Adopted(ps, s)
  IN IF subject.incarnation # 0 THEN evaluate_agent_wait(ps, subject, until)
     ELSE IF pane = None \/ pane.exited \/ pane.generation # s.generation
          THEN gone_evaluation(until, "agent-gone")
     ELSE IF pane.agent = None THEN Pending
     ELSE Error("target-required")

pane_awaits_agent(p) == panes[p] # None /\ ~panes[p].exited /\ panes[p].agent = None

\* Mutant: a prompt is content with the state it found.
needs_no_departure(wait, evaluation) == FALSE

needs_departure(wait, evaluation) ==
  /\ wait.require_transition
  /\ ~wait.armed
  /\ (wait.until = "turn" /\ evaluation.end = "ready" /\ evaluation.agent # None) =>
       evaluation.agent.state = wait.initial_state

(***************************************************************************)
(* Answers.  A client whose outbox cannot take its answer is removed, with *)
(* every wait it holds; a headless one is closed behind its answer.        *)
(***************************************************************************)
NoAgentWaits == [k \in {} |-> None]
NoCaptureWaits == [c \in {} |-> None]
KeysOf(cs) == {k \in Keys : k[1] \in cs}

NoReply == [k \in {} |-> None]
Silent == reply' = NoReply /\ UNCHANGED answers

\* Mutant: an answered wait stays registered.
AnswerAndKeep(requests, done, aw, cw) ==
  /\ reply' = [k \in DOMAIN done |-> [request |-> requests[k], answer |-> done[k]]]
  /\ answers' = [k \in Keys |-> IF k \in DOMAIN done THEN answers[k] + 1 ELSE answers[k]]
  /\ asked' = requests
  /\ UNCHANGED conn
  /\ agent_waits' = aw
  /\ capture_waits' = cw

answer_held(requests, done, aw, cw) ==
  LET cut == {k[1] : k \in DOMAIN done} \cap stalled
      sent == DOMAIN done \ KeysOf(cut)
      over == sent \cup {k \in KeysOf(cut) : requests[k] # None}
  IN /\ reply' = [k \in sent |-> [request |-> requests[k], answer |-> done[k]]]
     /\ answers' = [k \in Keys |-> IF k \in sent THEN answers[k] + 1 ELSE answers[k]]
     /\ asked' = [k \in Keys |-> IF k \in over THEN Closed ELSE requests[k]]
     /\ conn' = [c \in Clients |->
                   IF c \in cut THEN "gone"
                   ELSE IF c \in Headless /\ KeysOf({c}) \cap sent # {} THEN "closing"
                   ELSE conn[c]]
     /\ agent_waits' = Restrict(aw, DOMAIN aw \ over)
     /\ capture_waits' = Restrict(cw, {c \in DOMAIN cw : <<c, 0>> \notin over})

resolve_agent_waits(requests, ps) ==
  LET verdict == [k \in DOMAIN agent_waits |->
                    evaluate_wait_subject(ps, agent_waits[k].subject, agent_waits[k].until)]
      waits_on == {k \in DOMAIN agent_waits :
                     needs_departure(agent_waits[k], verdict[k]) /\ verdict[k].end \in {"ready", "pending"}}
      over == {k \in DOMAIN agent_waits \ waits_on : verdict[k].end # "pending"}
      kept == [k \in DOMAIN agent_waits |->
                 [agent_waits[k] EXCEPT
                    !.subject = Adopted(ps, @),
                    !.armed = @ \/ (k \in waits_on /\ verdict[k].end = "pending")]]
  IN answer_held(requests, Restrict(verdict, over), kept, capture_waits)

(***************************************************************************)
(* Requests.                                                               *)
(***************************************************************************)
Unasked(key) ==
  /\ conn[key[1]] = "open"
  /\ asked[key] = None

Deadline(timeout) == IF timeout = None THEN None ELSE now + timeout
InTime(timeout) == timeout # None => now + timeout <= MaxTime

Single(key, x) == [k \in {key} |-> x]
Joined(f, g) == [x \in DOMAIN f \cup DOMAIN g |-> IF x \in DOMAIN f THEN f[x] ELSE g[x]]

Asks == UNCHANGED <<world, stalled, now, events>>
Asking(key, request) == [asked EXCEPT ![key] = request]
Answers(key, request, answer) ==
  answer_held(Asking(key, request), Single(key, answer), agent_waits, capture_waits)

Refused == Error("refused")

\* resolve_agent_wait_target, where it succeeds.
Resolves(target) ==
  LET pane == panes[target.pane] IN
  /\ pane # None
  /\ pane.agent # None
  /\ IF target.incarnation = 0 THEN pane.agent.visible
     ELSE target = Ref(target.pane, pane)

\* A target is a pane, with generation 0, or the reference of an agent.
Targets == {Subject(p, 0) : p \in Panes} \cup issued

NewWait(subject, until, timeout) ==
  [subject |-> subject, until |-> until, deadline |-> Deadline(timeout),
   require_transition |-> FALSE, initial_state |-> None, armed |-> TRUE]

\* A held request remembers the states its agent goes through.
Trail(subject) ==
  LET pane == panes[subject.pane] IN
  IF subject.incarnation = 0 \/ pane = None \/ pane.agent = None THEN {} ELSE {pane.agent.state}

Holds(key, request, wait) ==
  /\ agent_waits' = Joined(agent_waits, Single(key, wait))
  /\ asked' = Asking(key, [request EXCEPT !.trail = Trail(wait.subject)])
  /\ Silent
  /\ UNCHANGED <<conn, capture_waits>>

register_agent_wait(key, target, until, timeout) ==
  LET by_pane == target.incarnation = 0
      awaits == by_pane /\ pane_awaits_agent(target.pane)
      exact_gone == ~by_pane /\ until = "gone"
      subject == IF exact_gone THEN target
                 ELSE IF awaits THEN Subject(target.pane, panes[target.pane].generation)
                 ELSE Ref(target.pane, panes[target.pane])
      verdict == IF until = "turn" \/ ~(exact_gone \/ awaits \/ Resolves(target)) THEN Refused
                 ELSE IF awaits /\ until = "gone" THEN Ready(None)
                 ELSE evaluate_wait_subject(panes, subject, until)
      request == [kind |-> "wait", target |-> target, until |-> until, initial |-> None, trail |-> {}]
  IN /\ Unasked(key)
     /\ InTime(timeout)
     /\ Asks
     /\ \/ verdict.end # "pending" /\ Answers(key, request, verdict)
        \/ verdict.end = "pending" /\ Holds(key, request, NewWait(subject, until, timeout))

\* prepare_agent_prompt: the agent is resolved, on screen and ready for input.
Promptable(target, allow_working) ==
  /\ Resolves(target)
  /\ LET agent == panes[target.pane].agent IN
       /\ agent.visible
       /\ agent.state # "blocked"
       /\ agent.state = "working" => allow_working

\* register_agent_prompt with a wait: armed before the text is written.
AgentPrompt(key, target, until, timeout, allow_working, writable) ==
  LET pane == panes[target.pane]
      subject == Ref(target.pane, pane)
      evaluation == evaluate_agent_wait(panes, subject, until)
      accepted == /\ Promptable(target, allow_working)
                  /\ ~pane.exited
                  /\ writable
      request == [kind |-> "prompt", target |-> target, until |-> until,
                  initial |-> IF accepted THEN pane.agent.state ELSE None, trail |-> {}]
  IN /\ Unasked(key)
     /\ InTime(timeout)
     /\ Asks
     /\ \/ ~accepted /\ Answers(key, request, Refused)
        \/ /\ accepted
           /\ Holds(key, request,
                [NewWait(subject, until, timeout) EXCEPT
                   !.require_transition = TRUE,
                   !.initial_state = IF evaluation.end = "ready" THEN pane.agent.state ELSE None,
                   !.armed = evaluation.end = "pending"])

(***************************************************************************)
(* Capture waits: ScreenWait.                                              *)
(***************************************************************************)
\* Look::shows, against the rows the screen had when input was written.
shows(pane, baseline) ==
  IF baseline # None /\ baseline.epoch = pane.epoch
  THEN pane.marks \ baseline.marks # {} ELSE pane.marks # {}

start(pane, p, text, settle, after_input, timeout) ==
  LET baseline == IF after_input THEN [epoch |-> pane.epoch, marks |-> pane.marks] ELSE None IN
  [pane |-> p, generation |-> pane.generation, seen |-> pane.content, text |-> text,
   settle |-> settle, deadline |-> now + timeout, baseline |-> baseline,
   matched_at |-> IF ~text \/ shows(pane, baseline) THEN now ELSE None,
   cells |-> pane.cells, changed_at |-> now]

\* Mutant: a look does not restart the settle time.
observe_text_only(w, pane) ==
  [w EXCEPT !.seen = pane.content,
            !.cells = pane.cells,
            !.matched_at = IF @ = None /\ shows(pane, w.baseline) THEN now ELSE @]

observe(w, pane) ==
  [w EXCEPT !.seen = pane.content,
            !.cells = pane.cells,
            !.changed_at = IF pane.cells # w.cells THEN now ELSE @,
            !.matched_at = IF @ = None /\ shows(pane, w.baseline) THEN now ELSE @]

status(w) ==
  LET ready_at == IF w.settle = 0 THEN w.matched_at ELSE Max({w.changed_at, w.matched_at}) + w.settle IN
  IF w.matched_at # None /\ ready_at <= w.deadline /\ now >= ready_at THEN "ready"
  ELSE IF now >= w.deadline THEN "timeout" ELSE "pending"

\* What the reply carries: how the wait ended and the screen then.
Captured(end, pane) ==
  [end |-> end, marks |-> IF pane = None THEN {} ELSE pane.marks,
   epoch |-> IF pane = None THEN 0 ELSE pane.epoch,
   quiet |-> IF pane = None THEN 0 ELSE now - pane.changed]

register_capture_wait(c, p, text, settle, after_input, timeout, writable) ==
  LET key == <<c, 0>>
      pane == panes[p]
      refused == ~(pane # None /\ (after_input => ~pane.exited /\ writable))
      wait == start(pane, p, text, settle, after_input, timeout)
      request == [kind |-> IF after_input THEN "send" ELSE "capture", text |-> text,
                  settle |-> settle, mark |-> drawn, epoch |-> IF pane = None THEN 0 ELSE pane.epoch]
  IN /\ Unasked(key)
     /\ InTime(timeout)
     /\ text \/ settle > 0
     /\ settle < timeout
     /\ Asks
     /\ \/ refused /\ Answers(key, request, Captured("refused", None))
        \/ ~refused /\ status(wait) = "ready" /\ Answers(key, request, Captured("ready", pane))
        \/ /\ ~refused
           /\ status(wait) # "ready"
           /\ capture_waits' = Joined(capture_waits, Single(c, wait))
           /\ asked' = Asking(key, request)
           /\ Silent
           /\ UNCHANGED <<conn, agent_waits>>

\* Ready and timed out come before the exit.
WaitEnd(looked, pane) ==
  IF status(looked) = "pending" /\ pane.exited THEN "exited" ELSE status(looked)

\* The capture waits after this round's look, and what each has come to.
Looked(c) ==
  LET w == capture_waits[c]
      pane == panes[w.pane]
  IN IF pane # None /\ pane.generation = w.generation /\ pane.content # w.seen
     THEN observe(w, pane) ELSE w

resolve_capture_waits ==
  LET verdict == [c \in DOMAIN capture_waits |->
        LET pane == panes[capture_waits[c].pane] IN
        IF pane = None \/ pane.generation # capture_waits[c].generation THEN Captured("closed", None)
        ELSE Captured(WaitEnd(Looked(c), pane), pane)]
      over == {c \in DOMAIN capture_waits : verdict[c].end # "pending"}
  IN [k \in over \X {0} |-> verdict[k[1]]]

\* Mutant: a wait expires only once it has an agent to speak of.
expire_found_agents ==
  [k \in {k \in DOMAIN agent_waits : /\ agent_waits[k].deadline # None
                                     /\ now >= agent_waits[k].deadline
                                     /\ agent_waits[k].subject.incarnation # 0} |-> Error("timeout")]

expire_agent_waits ==
  [k \in {k \in DOMAIN agent_waits : /\ agent_waits[k].deadline # None
                                     /\ now >= agent_waits[k].deadline} |-> Error("timeout")]

\* The end of a round: deadlines, then screens.  No client holds both kinds.
EndRound ==
  /\ answer_held(asked, Joined(expire_agent_waits, resolve_capture_waits), agent_waits,
                 [c \in DOMAIN capture_waits |-> Looked(c)])
  /\ UNCHANGED <<world, stalled, now, events>>

(***************************************************************************)
(* Panes, agents and clients.                                              *)
(***************************************************************************)
Event == events < MaxEvents /\ events' = events + 1

Traced(ps) ==
  [k \in Keys |->
    IF k \notin DOMAIN agent_waits THEN asked[k]
    ELSE LET s == agent_waits[k].subject
             pane == ps[s.pane] IN
         IF pane # None /\ pane.generation = s.generation /\ pane.agent # None
            /\ s.incarnation \in {0, pane.agent.incarnation}
         THEN [asked[k] EXCEPT !.trail = @ \cup {pane.agent.state}] ELSE asked[k]]

\* A change of a pane or its agent that ends with resolve_agent_waits.
Becomes(ps) ==
  /\ panes' = ps
  /\ overlooked' = {}
  /\ resolve_agent_waits(Traced(ps), ps)
  /\ UNCHANGED <<stalled, now>>

\* A change after which the pane reads as the clients were last told, so that
\* its sync returns before the waits.
Quietly(ps, subjects) ==
  /\ panes' = ps
  /\ overlooked' = overlooked \cup subjects
  /\ Silent
  /\ UNCHANGED <<conn, stalled, agent_waits, capture_waits, now, asked>>

Running(p) == panes[p] # None /\ ~panes[p].exited

\* What a wait may know a pane and its agent as.
Mentions(p) ==
  {Subject(p, panes[p].generation)}
    \cup (IF panes[p].agent = None THEN {} ELSE {Ref(p, panes[p])})

Fresh(generation, cells, changed, heirs) ==
  [generation |-> generation, exited |-> FALSE, agent |-> None, incarnations |-> 0,
   content |-> 0, cells |-> cells, marks |-> {}, epoch |-> 0, changed |-> changed,
   heirs |-> heirs]

\* install_pane: a new pane, or another program in an exited one.
Spawn(p) ==
  /\ Event
  /\ ~Running(p)
  /\ generations' = generations + 1
  /\ drawn' = drawn + 1
  /\ \E heirs \in 0 .. 1 :
       Becomes([panes EXCEPT ![p] = Fresh(generations + 1, drawn + 1, now, heirs)])
  /\ UNCHANGED issued

\* apply_pane_status, reported rows, an integration or the process inspector:
\* an agent appears, changes its state, makes way for another, or goes.
AgentChanges(p) ==
  /\ Event
  /\ Running(p)
  /\ \E state \in States, visible \in BOOLEAN, launch \in BOOLEAN :
       LET pane == panes[p]
           n == IF launch \/ pane.agent = None THEN pane.incarnations + 1
                ELSE pane.agent.incarnation
           agent == [incarnation |-> n, generation |-> pane.generation,
                     state |-> state, visible |-> visible]
       IN /\ agent # pane.agent
          /\ issued' = issued \cup {[pane |-> p, generation |-> pane.generation, incarnation |-> n]}
          /\ Becomes([panes EXCEPT ![p].agent = agent, ![p].incarnations = Max({n, @})])
  /\ UNCHANGED <<generations, drawn>>

\* An agent goes, and its pane's state shows it.
AgentLeaves(p) ==
  /\ Event
  /\ Running(p)
  /\ panes[p].agent # None
  /\ Becomes([panes EXCEPT ![p].agent = None])
  /\ UNCHANGED <<generations, drawn, issued>>

\* Another catalog: the agents it drops leave first, those it names start anew.
\* Any pane that changes resolves the waits of all; one named again changes.
apply_agent_definitions ==
  /\ Event
  /\ \E cleared \in SUBSET {p \in Panes : Running(p) /\ panes[p].agent # None} :
     \E found \in SUBSET {p \in Panes : Running(p) /\ (p \in cleared \/ panes[p].agent = None)} :
     \E states \in [found -> States] :
       LET n(p) == panes[p].incarnations + 1
           agent(p) == [incarnation |-> n(p), generation |-> panes[p].generation,
                        state |-> states[p], visible |-> TRUE]
           ps == [p \in Panes |->
                    IF p \in found THEN [panes[p] EXCEPT !.agent = agent(p), !.incarnations = n(p)]
                    ELSE IF p \in cleared THEN [panes[p] EXCEPT !.agent = None]
                    ELSE panes[p]]
       IN /\ issued' = issued \cup {Ref(p, ps[p]) : p \in found}
          /\ \/ Becomes(ps)
             \/ found = {} /\ Quietly(ps, UNION {Mentions(p) : p \in cleared})
  /\ UNCHANGED <<generations, drawn>>

\* The program exits; its last screen stays.
Exit(p) ==
  /\ Event
  /\ Running(p)
  /\ panes[p].heirs = 0
  /\ Becomes([panes EXCEPT ![p].exited = TRUE])
  /\ UNCHANGED <<generations, drawn, issued>>

\* Mutant: the pane is taken away without a word to the waits.
KillQuietly(p) ==
  /\ Event
  /\ panes[p] # None
  /\ panes' = [panes EXCEPT ![p] = None]
  /\ Silent
  /\ UNCHANGED <<generations, drawn, issued, overlooked, conn, stalled, agent_waits, capture_waits,
                 now, asked>>

\* Kill and a headless close.
Kill(p) ==
  /\ Event
  /\ panes[p] # None
  /\ Becomes([panes EXCEPT ![p] = None])
  /\ UNCHANGED <<generations, drawn, issued>>

\* Something is drawn: the awaited text stays as it is, goes, or is drawn too.
Drawings(pane) ==
  {[pane EXCEPT !.content = @ + 1, !.cells = drawn + 1, !.changed = now, !.marks = marks] :
     marks \in {pane.marks, {}, pane.marks \cup {drawn + 1}}}

\* Output or a resize: something is drawn; a reflow rewrites the history; a
\* redraw leaves every cell as it was.
Output(p) ==
  /\ Event
  /\ Running(p)
  /\ \/ /\ drawn' = drawn + 1
        /\ \E pane \in Drawings(panes[p]) : panes' = [panes EXCEPT ![p] = pane]
     \/ /\ drawn' = drawn + 1
        /\ panes' = [panes EXCEPT ![p].content = @ + 1, ![p].cells = drawn + 1,
                                  ![p].changed = now, ![p].epoch = @ + 1]
     \/ /\ panes' = [panes EXCEPT ![p].content = @ + 1]
        /\ UNCHANGED drawn
  /\ Silent
  /\ UNCHANGED <<generations, issued, overlooked, conn, stalled, agent_waits, capture_waits, now, asked>>

\* The program of a held pane exits.  Under a banner the agent is attached to, a
\* shell takes the pane over without it, or neither starts and the pane is dead.
replace_with_keep_open_shell(p) ==
  /\ Event
  /\ Running(p)
  /\ panes[p].heirs > 0
  /\ drawn' = drawn + 1
  /\ \E pane \in Drawings(panes[p]) :
       LET attached == [pane EXCEPT !.heirs = 1]
           shell == [pane EXCEPT !.heirs = 0, !.agent = None]
           dead == [pane EXCEPT !.exited = TRUE]
       IN \E next \in {shell, dead} \cup (IF pane.heirs = 2 THEN {attached} ELSE {}) :
            LET ps == [panes EXCEPT ![p] = next] IN
            Becomes(ps) \/ Quietly(ps, IF next = attached THEN {} ELSE Mentions(p))
  /\ UNCHANGED <<generations, issued>>

\* remove_client: the connection ends and takes its waits with it.
remove_client(c) ==
  /\ Event
  /\ conn[c] # "gone"
  /\ conn' = [conn EXCEPT ![c] = "gone"]
  /\ agent_waits' = Restrict(agent_waits, DOMAIN agent_waits \ KeysOf({c}))
  /\ capture_waits' = Restrict(capture_waits, DOMAIN capture_waits \ {c})
  /\ asked' = [k \in Keys |-> IF k[1] = c /\ asked[k] # None THEN Closed ELSE asked[k]]
  /\ Silent
  /\ UNCHANGED <<world, stalled, now>>

\* A client stops reading until its outbox is full.
Stall(c) ==
  /\ Event
  /\ conn[c] = "open"
  /\ c \notin stalled
  /\ stalled' = stalled \cup {c}
  /\ Silent
  /\ UNCHANGED <<world, conn, agent_waits, capture_waits, now, asked>>

Tick ==
  /\ now < MaxTime
  /\ now' = now + 1
  /\ Silent
  /\ UNCHANGED <<world, conn, stalled, agent_waits, capture_waits, events, asked>>

\* Every pane runs, a new one or a restored one that resumes its agent, without
\* an agent or with its first one, idle and on screen.
FirstAgent == [incarnation |-> 1, generation |-> 1, state |-> "idle", visible |-> TRUE]

Init ==
  /\ \E staffed \in SUBSET Panes, heirs \in [Panes -> 0 .. 2] :
       /\ panes = [p \in Panes |-> IF p \in staffed
                     THEN [Fresh(1, 0, 0, heirs[p]) EXCEPT !.agent = FirstAgent, !.incarnations = 1]
                     ELSE Fresh(1, 0, 0, heirs[p])]
       /\ issued = {[pane |-> p, generation |-> 1, incarnation |-> 1] : p \in staffed}
  /\ overlooked = {}
  /\ generations = 1
  /\ conn = [c \in Clients |-> "open"]
  /\ stalled = {}
  /\ agent_waits = NoAgentWaits
  /\ capture_waits = NoCaptureWaits
  /\ now = 0
  /\ drawn = 0
  /\ events = 0
  /\ asked = [k \in Keys |-> None]
  /\ answers = [k \in Keys |-> 0]
  /\ reply = NoReply

Next ==
  \/ \E key \in Keys, target \in Targets, until \in Conditions, timeout \in Timeouts :
       \/ register_agent_wait(key, target, until, timeout)
       \/ \E allow_working, writable \in BOOLEAN :
            AgentPrompt(key, target, until, timeout, allow_working, writable)
  \/ \E c \in Headless, p \in Panes, text, after_input, writable \in BOOLEAN,
        settle \in Settles, timeout \in Timeouts \ {None} :
       register_capture_wait(c, p, text, settle, after_input, timeout, writable)
  \/ \E p \in Panes : \/ Spawn(p) \/ AgentChanges(p) \/ AgentLeaves(p) \/ Exit(p) \/ Kill(p)
                      \/ Output(p) \/ replace_with_keep_open_shell(p)
  \/ apply_agent_definitions
  \/ \E c \in Clients : remove_client(c) \/ Stall(c)
  \/ EndRound \/ Tick

Spec == Init /\ [][Next]_vars

(***************************************************************************)
(* Properties.                                                             *)
(***************************************************************************)
Held(k) == k \in DOMAIN agent_waits \/ (k[2] = 0 /\ k[1] \in DOMAIN capture_waits)
Answered(kinds) == {k \in DOMAIN reply : reply[k].request.kind \in kinds}
Succeeded(kinds) == {k \in Answered(kinds) : reply[k].answer.end = "ready"}

\* The state has its types, and only a connected client holds waits: leaving
\* takes them along, whatever loop it happens in.
TypeOK ==
  /\ \A p \in Panes : panes[p] # None =>
       /\ panes[p].generation \in 1 .. generations
       /\ panes[p].agent # None => panes[p].agent.state \in States
       /\ panes[p].marks \subseteq 1 .. drawn
  /\ conn \in [Clients -> {"open", "closing", "gone"}]
  /\ DOMAIN agent_waits \subseteq Keys
  /\ DOMAIN capture_waits \subseteq Headless
  /\ \A k \in Keys : Held(k) => conn[k[1]] = "open"

\* A request of a client that stays connected is held or answered, never both
\* and never twice, and a headless connection closes behind its one answer.
OneAnswer ==
  \A k \in Keys :
    /\ answers[k] <= 1
    /\ asked[k] # None /\ conn[k[1]] # "gone" => Held(k) # (answers[k] = 1)
    /\ k[2] = 0 => (conn[k[1]] = "closing" => answers[k] = 1)

\* Every request is answered once or leaves with its client (answer_held,
\* finish_agent_waits, remove_client).
AnsweredOnce == TypeOK /\ OneAnswer

\* Whether the agent has left what the prompt found, by the states it went through.
Departed(request) ==
  IF request.until = "turn" THEN request.trail # {request.initial}
  ELSE \E s \in request.trail : ~condition_matches(request.until, s)

\* What a wait would be told if somebody looked.
Verdict(w) == evaluate_wait_subject(panes, w.subject, w.until)

\* A wait is right to sleep: what it waits for is really pending, or it is a
\* prompt whose agent has not moved.
RightlyHeld(k) ==
  LET verdict == Verdict(agent_waits[k]) IN
  \/ verdict.end = "pending"
  \/ verdict.end = "ready" /\ asked[k].kind = "prompt" /\ ~Departed(asked[k])

\* A wait sleeps on although its agent or pane is gone: the end was a quiet one,
\* and no pane or agent has changed since.
MissedTheEnd(w) ==
  w.subject \in overlooked /\ Verdict(w) = gone_evaluation(w.until, "agent-gone")

\* No wait sleeps through its condition, nor through the end of its agent or
\* pane but a quiet one (apply_agent_definitions, replace_with_keep_open_shell),
\* which the next change of any pane or agent makes up for.
NoMissedState ==
  \A k \in DOMAIN agent_waits : RightlyHeld(k) \/ MissedTheEnd(agent_waits[k])

\* No wait sleeps through its condition, its agent or its pane, however they end.
\* Not so: sync_pane_runtime_inner returns before the waits when the pane reads
\* as before.
EveryEndNoticed == \A k \in DOMAIN agent_waits : RightlyHeld(k)

\* A prompt is not answered by the state it found: its agent went on to another
\* one first, were it in the turn already running when it was asked to.
PromptAnswerFresh == \A k \in Succeeded({"prompt"}) : Departed(reply[k].request)

\* An answer about a reference is about that very agent: its state, or that it
\* is gone for good although the pane or another agent goes on under its id.
ExactAgent ==
  \A k \in Succeeded({"wait", "prompt"}) :
    LET target == reply[k].request.target
        agent == reply[k].answer.agent IN
    target.incarnation # 0 =>
      IF agent = None THEN ~ (Running(target.pane) /\ Resolves(target))
      ELSE agent.generation = target.generation /\ agent.incarnation = target.incarnation

\* A settle wait succeeds only when the screen has really not changed for that
\* long, although it is looked at only once a round.
SettledQuiet ==
  \A k \in Succeeded({"capture", "send"}) : reply[k].answer.quiet >= reply[k].request.settle

\* Text on the answered screen that counts: all of it, or what came after the input.
Counts(k) == {m \in reply[k].answer.marks :
                reply[k].request.kind = "capture" \/ m > reply[k].request.mark}

\* Output printed just before an exit still counts: no wait for text fails for
\* the exit when the last screen shows it.
LastOutputCounts ==
  \A k \in Answered({"capture", "send"}) :
    (reply[k].answer.end = "exited" /\ reply[k].request.text /\ reply[k].request.settle = 0)
      => Counts(k) = {}

\* Text that was there before the input does not answer a send, unless the
\* history was rewritten in between.
SendAnswerFresh ==
  \A k \in Succeeded({"send"}) :
    (reply[k].request.text /\ reply[k].request.settle = 0) =>
      Counts(k) # {} \/ reply[k].answer.epoch # reply[k].request.epoch

\* The answer of a screen wait is true of the screen (ScreenWait::observe,
\* status, resolve_capture_waits).
ScreenAnswers == SettledQuiet /\ LastOutputCounts /\ SendAnswerFresh

Deadlines(k) ==
  IF k \in DOMAIN agent_waits THEN agent_waits[k].deadline ELSE capture_waits[k[1]].deadline

\* No request outlives its deadline by more than a round, whatever became of
\* its agent or pane and however its settle time was put off.
DeadlinesKept ==
  [][\/ \A k \in Keys : (Held(k)' /\ Deadlines(k)' # None) => now < Deadlines(k)'
     \/ ~EndRound]_vars
=============================================================================
