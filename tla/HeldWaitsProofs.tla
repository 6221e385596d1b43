-------------------------- MODULE HeldWaitsProofs --------------------------
(***************************************************************************)
(* What holds of held requests for every set of panes, clients, states,    *)
(* conditions, timeouts and settle times: each is answered once, none      *)
(* sleeps through its state or outlives its deadline by a round, and an    *)
(* answer is about the agent, the turn and the screen that were meant.     *)
(***************************************************************************)
EXTENDS HeldWaits, TLAPS

(***************************************************************************)
(* The inductive invariant, in parts.                                      *)
(***************************************************************************)
AgentWaits == [subject : Subjects, until : Conditions, deadline : Nat \cup {None},
               require_transition : BOOLEAN, initial_state : States \cup {None},
               armed : BOOLEAN]

CaptureWaits == [pane : Panes, generation : Nat, seen : Nat, text : BOOLEAN, settle : Nat,
                 deadline : Nat, baseline : Baselines \cup {None},
                 matched_at : Nat \cup {None}, cells : Nat, changed_at : Nat]

\* A pane as it may be at a time: what it is made of was given out before.
IsPane(pane, gens, d, t) ==
  /\ pane \in PaneStates
  /\ pane.generation >= 1 /\ pane.generation <= gens
  /\ \A m \in pane.marks : m >= 1 /\ m <= d
  /\ pane.cells <= d
  /\ pane.changed <= t
  /\ pane.agent # None => pane.agent.incarnation >= 1 /\ pane.agent.generation = pane.generation

Types ==
  /\ generations \in Nat /\ drawn \in Nat /\ now \in Nat
  /\ DOMAIN panes = Panes
  /\ \A p \in Panes : panes[p] # None => IsPane(panes[p], generations, drawn, now)
  /\ conn \in [Clients -> {"open", "closing", "gone"}]
  /\ DOMAIN answers = Keys
  /\ DOMAIN asked = Keys
  /\ DOMAIN agent_waits \subseteq Keys
  /\ DOMAIN capture_waits \subseteq Headless
  /\ \A ref \in issued : ref \in Subjects /\ ref.incarnation # 0

\* A request, whether it is held, how often it was answered and its client.
OneKey(k, request, held, count, state) ==
  /\ count \in {0, 1}
  /\ request = None => ~ held /\ count = 0
  /\ held => state = "open" /\ count = 0
  /\ request # None /\ ~ held => count = 1 \/ state = "gone"
  /\ k[2] = 0 /\ state = "closing" => count = 1

Once == \A k \in Keys : OneKey(k, asked[k], Held(k), answers[k], conn[k[1]])

\* The agent a subject names is in the pane.
Names(s, pane) ==
  /\ pane # None
  /\ pane.generation = s.generation
  /\ pane.agent # None
  /\ pane.agent.incarnation = s.incarnation

\* How an agent wait stands to the request it holds.
WaitFits(w, r) ==
  /\ w \in AgentWaits
  /\ r \in AgentRequests
  /\ w.until = r.until
  /\ w.require_transition = (r.kind = "prompt")
  /\ r.target.incarnation # 0 => w.subject = r.target
  /\ r.kind = "prompt" =>
       /\ w.subject.incarnation # 0
       /\ ~ w.armed => ~ Departed(r)
       /\ ~ w.armed /\ w.until = "turn" => w.initial_state = r.initial
       /\ w.armed => IF w.until = "turn" THEN "working" \in r.trail ELSE Departed(r)

\* A prompt has seen the state its agent is in.
Traces(ps, w, r) ==
  r.kind = "prompt" /\ Names(w.subject, ps[w.subject.pane]) =>
    ps[w.subject.pane].agent.state \in r.trail

\* No wait sleeps through its condition.
Awake(ps, w, r) ==
  LET verdict == evaluate_wait_subject(ps, w.subject, w.until) IN
  \/ verdict.end = "pending"
  \/ verdict.end = "ready" /\ r.kind = "prompt" /\ ~ Departed(r)

\* Its agent or pane came to an end that nobody looked at.
Missed(ps, ov, w) ==
  /\ w.subject \in ov
  /\ evaluate_wait_subject(ps, w.subject, w.until) = gone_evaluation(w.until, "agent-gone")

Agented ==
  \A k \in DOMAIN agent_waits :
    /\ WaitFits(agent_waits[k], asked[k])
    /\ Traces(panes, agent_waits[k], asked[k])
    /\ \/ Awake(panes, agent_waits[k], asked[k])
       \/ Missed(panes, overlooked, agent_waits[k])

\* How a screen wait stands to the request it holds.
ScreenFits(w, r) ==
  /\ w \in CaptureWaits
  /\ r \in CaptureRequests
  /\ w.text = r.text /\ w.settle = r.settle
  /\ w.text /\ w.settle = 0 => w.matched_at = None
  /\ (w.baseline # None) = (r.kind = "send")
  /\ w.baseline # None => w.baseline.epoch = r.epoch /\ \A m \in w.baseline.marks : m <= r.mark

\* What a wait knows of its pane's screen.
Watches(pane, w, r) ==
  pane # None /\ pane.generation = w.generation =>
    /\ w.seen <= pane.content
    /\ w.seen = pane.content => w.cells = pane.cells
    /\ w.cells = pane.cells => pane.changed <= w.changed_at
    /\ w.seen = pane.content /\ w.matched_at = None => ~ shows(pane, w.baseline)
    /\ w.baseline # None => \A m \in pane.marks : m \in w.baseline.marks \/ m > r.mark

Screened ==
  \A c \in DOMAIN capture_waits :
    /\ ScreenFits(capture_waits[c], asked[<<c, 0>>])
    /\ capture_waits[c].generation <= generations
    /\ capture_waits[c].cells <= drawn
    /\ capture_waits[c].changed_at <= now
    /\ asked[<<c, 0>>].mark <= drawn
    /\ Watches(panes[capture_waits[c].pane], capture_waits[c], asked[<<c, 0>>])

Replied == PromptAnswerFresh /\ ExactAgent /\ ScreenAnswers

Inv == Types /\ Once /\ Agented /\ Screened /\ Replied

----------------------------------------------------------------------------
(* Keys and answers                                                        *)

\* A key is a client and a request; only a headless client's request is 0.
LEMMA KeyFacts ==
  ASSUME NEW k \in Keys
  PROVE  /\ k[1] \in Clients
         /\ k[1] \in Headless <=> k[2] = 0
         /\ k[2] = 0 => k = <<k[1], 0>>
         /\ \A c \in Headless : k[1] = c => k = <<c, 0>>
<1>1. CASE k \in Headless \X {0}
  BY <1>1 DEF Clients
<1>2. CASE k \in Attached \X RequestIds
  BY <1>2, WaitsAssumption DEF Clients
<1> QED
  BY <1>1, <1>2 DEF Keys

LEMMA HeadlessKey ==
  ASSUME NEW c \in Headless
  PROVE  <<c, 0>> \in Keys /\ <<c, 0>>[1] = c /\ <<c, 0>>[2] = 0
BY DEF Keys

\* The clients that are cut off, the answers that go out and the requests that
\* are over, when answer_held answers `done`.
Cut(done) == {k[1] : k \in DOMAIN done} \cap stalled
Sent(done) == DOMAIN done \ KeysOf(Cut(done))
Over(requests, done) == Sent(done) \cup {k \in KeysOf(Cut(done)) : requests[k] # None}

\* What answer_held does, key by key and client by client.
AnswerEffect(requests, done, aw, cw) ==
  /\ DOMAIN reply' = Sent(done)
  /\ \A k \in Sent(done) : reply'[k].request = requests[k] /\ reply'[k].answer = done[k]
  /\ DOMAIN answers' = Keys
  /\ \A k \in Keys : answers'[k] = IF k \in Sent(done) THEN answers[k] + 1 ELSE answers[k]
  /\ DOMAIN asked' = Keys
  /\ \A k \in Keys : asked'[k] = IF k \in Over(requests, done) THEN Closed ELSE requests[k]
  /\ conn' = [c \in Clients |->
                IF c \in Cut(done) THEN "gone"
                ELSE IF c \in Headless /\ KeysOf({c}) \cap Sent(done) # {} THEN "closing"
                ELSE conn[c]]
  /\ DOMAIN agent_waits' = DOMAIN aw \ Over(requests, done)
  /\ \A k \in DOMAIN agent_waits' : agent_waits'[k] = aw[k]
  /\ DOMAIN capture_waits' = {c \in DOMAIN cw : <<c, 0>> \notin Over(requests, done)}
  /\ \A c \in DOMAIN capture_waits' : capture_waits'[c] = cw[c]

LEMMA AnswerHeld ==
  ASSUME NEW requests, NEW done, NEW aw, NEW cw, answer_held(requests, done, aw, cw)
  PROVE  AnswerEffect(requests, done, aw, cw)
<1> USE DEF answer_held, Cut, Sent, Over, Restrict
<1>1. /\ DOMAIN reply' = Sent(done)
      /\ \A k \in Sent(done) : reply'[k].request = requests[k] /\ reply'[k].answer = done[k]
  OBVIOUS
<1>2. /\ DOMAIN answers' = Keys
      /\ \A k \in Keys : answers'[k] = IF k \in Sent(done) THEN answers[k] + 1 ELSE answers[k]
  OBVIOUS
<1>3. /\ DOMAIN asked' = Keys
      /\ \A k \in Keys : asked'[k] = IF k \in Over(requests, done) THEN Closed ELSE requests[k]
  OBVIOUS
<1>4. conn' = [c \in Clients |->
                 IF c \in Cut(done) THEN "gone"
                 ELSE IF c \in Headless /\ KeysOf({c}) \cap Sent(done) # {} THEN "closing"
                 ELSE conn[c]]
  BY Zenon
<1>5. /\ DOMAIN agent_waits' = DOMAIN aw \ Over(requests, done)
      /\ \A k \in DOMAIN agent_waits' : agent_waits'[k] = aw[k]
  OBVIOUS
<1>6. /\ DOMAIN capture_waits' = {c \in DOMAIN cw : <<c, 0>> \notin Over(requests, done)}
      /\ \A c \in DOMAIN capture_waits' : capture_waits'[c] = cw[c]
  OBVIOUS
<1> QED
  BY <1>1, <1>2, <1>3, <1>4, <1>5, <1>6, Zenon DEF AnswerEffect

\* An operation answers requests that are open: held ones, or the one at hand.
HeldIn(k, aw, cw) == k \in DOMAIN aw \/ (k[2] = 0 /\ k[1] \in DOMAIN cw)

LEMMA OnceAnswered ==
  ASSUME Types, NEW requests, NEW done, NEW aw, NEW cw, answer_held(requests, done, aw, cw),
         DOMAIN done \subseteq Keys, DOMAIN aw \subseteq Keys, DOMAIN cw \subseteq Headless,
         \A k \in DOMAIN done : requests[k] # None /\ conn[k[1]] = "open" /\ answers[k] = 0,
         \A k \in Keys \ DOMAIN done :
           OneKey(k, requests[k], HeldIn(k, aw, cw), answers[k], conn[k[1]])
  PROVE  /\ Once'
         /\ conn' \in [Clients -> {"open", "closing", "gone"}]
         /\ DOMAIN answers' = Keys
         /\ DOMAIN asked' = Keys
         /\ DOMAIN agent_waits' \subseteq Keys
         /\ DOMAIN capture_waits' \subseteq Headless
         /\ \A k \in DOMAIN agent_waits' :
              k \in DOMAIN aw \ DOMAIN done /\ agent_waits'[k] = aw[k] /\ asked'[k] = requests[k]
         /\ \A c \in DOMAIN capture_waits' :
              /\ c \in DOMAIN cw /\ <<c, 0>> \notin DOMAIN done
              /\ capture_waits'[c] = cw[c] /\ asked'[<<c, 0>>] = requests[<<c, 0>>]
<1>e. AnswerEffect(requests, done, aw, cw)
  BY AnswerHeld
<1>0. /\ \A k \in Keys : answers'[k] = IF k \in Sent(done) THEN answers[k] + 1 ELSE answers[k]
      /\ \A k \in Keys : asked'[k] = IF k \in Over(requests, done) THEN Closed ELSE requests[k]
      /\ conn' = [c \in Clients |->
                    IF c \in Cut(done) THEN "gone"
                    ELSE IF c \in Headless /\ KeysOf({c}) \cap Sent(done) # {} THEN "closing"
                    ELSE conn[c]]
      /\ DOMAIN agent_waits' = DOMAIN aw \ Over(requests, done)
      /\ \A k \in DOMAIN agent_waits' : agent_waits'[k] = aw[k]
      /\ DOMAIN capture_waits' = {c \in DOMAIN cw : <<c, 0>> \notin Over(requests, done)}
      /\ \A c \in DOMAIN capture_waits' : capture_waits'[c] = cw[c]
      /\ DOMAIN answers' = Keys /\ DOMAIN asked' = Keys
  BY <1>e DEF AnswerEffect
<1>1. /\ Sent(done) \subseteq DOMAIN done
      /\ \A k \in Keys : k \in Sent(done) <=> k \in DOMAIN done /\ k[1] \notin Cut(done)
      /\ \A k \in Keys : k \in Over(requests, done) <=> k \in Sent(done) \/ (k[1] \in Cut(done) /\ requests[k] # None)
  BY DEF Sent, Over, KeysOf
<1>2. DOMAIN done \cap Keys \subseteq Over(requests, done)
  BY <1>1
<1>3. \A c \in Headless : KeysOf({c}) \cap Sent(done) # {} => <<c, 0>> \in Sent(done)
  BY <1>1, KeyFacts DEF KeysOf
<1>4. Closed # None
  BY WaitsAssumption
<1>5. conn \in [Clients -> {"open", "closing", "gone"}]
  BY DEF Types
<1>6. conn' \in [Clients -> {"open", "closing", "gone"}]
  BY <1>0, <1>5
<1>7. ASSUME NEW k \in Keys
      PROVE  OneKey(k, asked'[k], Held(k)', answers'[k], conn'[k[1]])
  <2>0. /\ k[1] \in Clients /\ (k[2] = 0 => k[1] \in Headless /\ k = <<k[1], 0>>)
        /\ k[1] \in Headless => k[2] = 0
    BY KeyFacts
  <2>1. Held(k)' <=> (HeldIn(k, aw, cw) /\ k \notin Over(requests, done))
    BY <1>0, <2>0 DEF Held, HeldIn
  <2>2. CASE k \in Sent(done)
    <3>1. answers'[k] = 1 /\ asked'[k] = Closed /\ ~ Held(k)'
      BY <1>0, <1>1, <2>1, <2>2
    <3> QED
      BY <3>1, <1>4 DEF OneKey
  <2>3. CASE k \notin Sent(done) /\ k[1] \in Cut(done)
    <3>1. conn'[k[1]] = "gone" /\ answers'[k] = answers[k] /\ answers[k] \in {0, 1}
      BY <1>0, <1>1, <2>0, <2>3 DEF OneKey
    <3>2. requests[k] = None => ~ HeldIn(k, aw, cw) /\ answers[k] = 0
      BY DEF OneKey
    <3>3. asked'[k] = IF requests[k] # None THEN Closed ELSE None
      BY <1>0, <1>1, <2>3
    <3> QED
      BY <3>1, <3>2, <3>3, <2>1, <1>1, <1>4, <2>3 DEF OneKey
  <2>4. CASE k \notin Sent(done) /\ k[1] \notin Cut(done)
    <3>1. k \notin DOMAIN done /\ k \notin Over(requests, done)
      BY <1>1, <2>4
    <3>2. conn'[k[1]] = conn[k[1]]
      BY <1>0, <1>3, <2>0, <2>4
    <3>3. /\ answers'[k] = answers[k] /\ asked'[k] = requests[k]
          /\ (Held(k)' <=> HeldIn(k, aw, cw))
      BY <1>0, <2>1, <2>4, <3>1
    <3> QED
      BY <3>1, <3>2, <3>3 DEF OneKey
  <2> QED
    BY <2>2, <2>3, <2>4
<1>8. Once'
  BY <1>7 DEF Once
<1>9. \A k \in DOMAIN agent_waits' :
         k \in DOMAIN aw \ DOMAIN done /\ agent_waits'[k] = aw[k] /\ asked'[k] = requests[k]
  BY <1>0, <1>2
<1>10. \A c \in DOMAIN capture_waits' :
         /\ c \in DOMAIN cw /\ <<c, 0>> \notin DOMAIN done
         /\ capture_waits'[c] = cw[c] /\ asked'[<<c, 0>>] = requests[<<c, 0>>]
  BY <1>0, <1>2, HeadlessKey
<1> QED
  BY <1>0, <1>6, <1>8, <1>9, <1>10

----------------------------------------------------------------------------
(* Verdicts on agents                                                      *)

GoodPane(pane) ==
  /\ pane \in PaneStates
  /\ pane.agent # None => pane.agent.incarnation >= 1 /\ pane.agent.generation = pane.generation

\* What the evaluation of a subject says of its pane.
VerdictSound(ps, s, until) ==
  LET verdict == evaluate_wait_subject(ps, s, until)
      t == Adopted(ps, s)
      pane == ps[s.pane] IN
  /\ t \in Subjects /\ t.pane = s.pane
  /\ s.incarnation # 0 => t = s
  /\ evaluate_wait_subject(ps, t, until) = verdict
  /\ verdict.end = "ready" /\ verdict.agent # None =>
       /\ t.incarnation # 0 /\ Names(t, pane) /\ ~ pane.exited
       /\ verdict.agent = pane.agent
       /\ condition_matches(until, pane.agent.state)
  /\ verdict.end = "ready" /\ verdict.agent = None =>
       until = "gone" /\ (s.incarnation # 0 => ~ (Names(s, pane) /\ ~ pane.exited))
  /\ verdict.end = "pending" /\ s.incarnation # 0 =>
       Names(s, pane) /\ ~ pane.exited /\ ~ condition_matches(until, pane.agent.state)

\* The evaluation of a reference.
LEMMA ReferenceVerdict ==
  ASSUME NEW ps, NEW s \in Subjects, NEW until, ps[s.pane] # None => GoodPane(ps[s.pane])
  PROVE  LET verdict == evaluate_agent_wait(ps, s, until)
             pane == ps[s.pane] IN
         /\ verdict.end = "ready" /\ verdict.agent # None =>
              /\ Names(s, pane) /\ ~ pane.exited
              /\ verdict.agent = pane.agent
              /\ condition_matches(until, pane.agent.state)
         /\ verdict.end = "ready" /\ verdict.agent = None =>
              until = "gone" /\ ~ (Names(s, pane) /\ ~ pane.exited)
         /\ verdict.end = "pending" =>
              Names(s, pane) /\ ~ pane.exited /\ ~ condition_matches(until, pane.agent.state)
<1>0. PICK pane : pane = ps[s.pane]
  OBVIOUS
<1>1. pane # None /\ pane.agent # None => pane.agent \in Agents
  BY <1>0 DEF GoodPane, PaneStates
<1>2. CASE pane = None \/ pane.exited
  BY <1>0, <1>2 DEF evaluate_agent_wait, gone_evaluation, Ready, Error, Names
<1>3. CASE ~ (pane = None \/ pane.exited) /\ pane.generation # s.generation
  BY <1>0, <1>3 DEF evaluate_agent_wait, gone_evaluation, Ready, Error, Names
<1>4. CASE ~ (pane = None \/ pane.exited) /\ pane.generation = s.generation /\ pane.agent = None
  BY <1>0, <1>4 DEF evaluate_agent_wait, gone_evaluation, Ready, Error, Names
<1>5. CASE ~ (pane = None \/ pane.exited) /\ pane.generation = s.generation /\ pane.agent # None
           /\ pane.agent.incarnation # s.incarnation
  BY <1>0, <1>5 DEF evaluate_agent_wait, gone_evaluation, Ready, Error, Names
<1>6. CASE ~ (pane = None \/ pane.exited) /\ pane.generation = s.generation /\ pane.agent # None
           /\ pane.agent.incarnation = s.incarnation
  <2>1. evaluate_agent_wait(ps, s, until) =
          IF condition_matches(until, pane.agent.state) THEN Ready(pane.agent) ELSE Pending
    BY <1>0, <1>6 DEF evaluate_agent_wait
  <2> QED
    BY <2>1, <1>0, <1>1, <1>6 DEF Ready, Pending, Names
<1> QED
  BY <1>2, <1>3, <1>4, <1>5, <1>6

LEMMA VerdictFacts ==
  ASSUME NEW ps, NEW s \in Subjects, NEW until, ps[s.pane] # None => GoodPane(ps[s.pane])
  PROVE  VerdictSound(ps, s, until)
<1>0. PICK t : t = Adopted(ps, s)
  OBVIOUS
<1>1. t \in Subjects /\ t.pane = s.pane /\ (s.incarnation # 0 => t = s)
  BY <1>0 DEF Adopted, Ref, Subjects, GoodPane, PaneStates, Agents
<1>2. Adopted(ps, t) = t
  <2>1. CASE t = s
    BY <2>1, <1>0
  <2>2. CASE t # s
    <3>1. t = Ref(s.pane, ps[s.pane]) /\ ps[s.pane] # None /\ ps[s.pane].agent # None
      BY <1>0, <2>2 DEF Adopted
    <3>2. t.incarnation # 0
      BY <3>1 DEF Ref, GoodPane, PaneStates, Agents
    <3> QED
      BY <3>2 DEF Adopted
  <2> QED
    BY <2>1, <2>2
<1>3. evaluate_wait_subject(ps, t, until) = evaluate_wait_subject(ps, s, until)
  <2>1. CASE t.incarnation # 0
    BY <2>1, <1>0, <1>1, <1>2 DEF evaluate_wait_subject
  <2>2. CASE t.incarnation = 0
    <3>1. t = s
      <4>1. ps[s.pane] # None /\ ps[s.pane].agent # None => Ref(s.pane, ps[s.pane]).incarnation # 0
        BY DEF Ref, GoodPane, PaneStates, Agents
      <4> QED
        BY <4>1, <2>2, <1>0 DEF Adopted
    <3> QED
      BY <3>1
  <2> QED
    BY <2>1, <2>2
<1>4. CASE t.incarnation # 0
  <2>1. evaluate_wait_subject(ps, s, until) = evaluate_agent_wait(ps, t, until)
    BY <1>4, <1>0 DEF evaluate_wait_subject
  <2>2. ps[t.pane] # None => GoodPane(ps[t.pane])
    BY <1>1
  <2> QED
    BY <1>0, <1>1, <1>3, <1>4, <2>1, <2>2, ReferenceVerdict DEF VerdictSound
<1>5. CASE t.incarnation = 0
  <2>1. s.incarnation = 0
    BY <1>5, <1>1
  <2>2. \/ evaluate_wait_subject(ps, s, until) = gone_evaluation(until, "agent-gone")
        \/ evaluate_wait_subject(ps, s, until) = Pending
        \/ evaluate_wait_subject(ps, s, until) = Error("target-required")
    BY <1>5, <1>0 DEF evaluate_wait_subject
  <2> QED
    BY <1>0, <1>1, <1>3, <2>1, <2>2 DEF VerdictSound, gone_evaluation, Ready, Error, Pending
<1> QED
  BY <1>4, <1>5

----------------------------------------------------------------------------
(* A held agent request across a change of its pane                        *)

\* A screen that stays as it is, and one with something drawn on it.
SameScreen(old, new) ==
  /\ new.content = old.content /\ new.cells = old.cells /\ new.changed = old.changed
  /\ new.marks = old.marks /\ new.epoch = old.epoch

Drew(old, new, d) ==
  /\ new.content = old.content + 1
  /\ new.cells = d + 1
  /\ \A m \in new.marks : m \in old.marks \/ m = d + 1

\* A pane after a change: another program's, or the same with its screen kept
\* or drawn on and, once it has exited, its agent.
Follows(old, new, gens, d) ==
  \/ new.generation > gens /\ ~ new.exited
  \/ /\ old # None
     /\ new.generation = old.generation
     /\ SameScreen(old, new) \/ Drew(old, new, d)
     /\ new.exited => new.agent = old.agent

\* A request with its trail brought up to date.
Sees(s, pane) ==
  /\ pane # None
  /\ pane.generation = s.generation
  /\ pane.agent # None
  /\ s.incarnation \in {0, pane.agent.incarnation}

Retraced(r, s, pane) == IF Sees(s, pane) THEN [r EXCEPT !.trail = @ \cup {pane.agent.state}] ELSE r

IsRetraced(r, q, s, pane) ==
  /\ q \in AgentRequests
  /\ q.kind = r.kind /\ q.target = r.target /\ q.until = r.until /\ q.initial = r.initial
  /\ Sees(s, pane) => q.trail = r.trail \cup {pane.agent.state}
  /\ ~ Sees(s, pane) => q.trail = r.trail

LEMMA RetracedFacts ==
  ASSUME NEW r \in AgentRequests, NEW s, NEW pane, pane # None => GoodPane(pane)
  PROVE  IsRetraced(r, Retraced(r, s, pane), s, pane)
<1>1. CASE Sees(s, pane)
  <2>1. pane.agent.state \in States
    BY <1>1 DEF Sees, GoodPane, PaneStates, Agents
  <2> QED
    BY <2>1, <1>1 DEF IsRetraced, Retraced, AgentRequests
<1>2. CASE ~ Sees(s, pane)
  BY <1>2 DEF IsRetraced, Retraced
<1> QED
  BY <1>1, <1>2

\* How resolve_agent_waits leaves a wait.
StaysOn(w, verdict) == needs_departure(w, verdict) /\ verdict.end \in {"ready", "pending"}
KeptWait(w, ps, verdict) ==
  [w EXCEPT !.subject = Adopted(ps, @),
            !.armed = @ \/ (StaysOn(w, verdict) /\ verdict.end = "pending")]

\* The facts both lemmas below start from.
Steps(w, r, q, old, ps) ==
  /\ WaitFits(w, r)
  /\ r.kind = "prompt" /\ Names(w.subject, old) => old.agent.state \in r.trail
  /\ LET new == ps[w.subject.pane] IN
     /\ new # None => GoodPane(new)
     /\ new # None /\ new.exited =>
          old # None /\ new.generation = old.generation /\ new.agent = old.agent
     /\ IsRetraced(r, q, w.subject, new)

\* A condition is left for good: what a trail shows it goes on showing.
LEMMA DepartedGrows ==
  ASSUME NEW r, NEW q, r.until = q.until, r.until # "turn", r.trail \subseteq q.trail, Departed(r)
  PROVE  Departed(q)
BY DEF Departed

\* A wait that is kept fits its request, has seen its agent's state and is
\* pending or a prompt whose agent has not moved.
LEMMA KeptFits ==
  ASSUME NEW w, NEW r, NEW q, NEW old, NEW ps, NEW verdict,
         Steps(w, r, q, old, ps),
         verdict = evaluate_wait_subject(ps, w.subject, w.until),
         StaysOn(w, verdict) \/ verdict.end = "pending"
  PROVE  LET v == KeptWait(w, ps, verdict) IN WaitFits(v, q) /\ Traces(ps, v, q) /\ Awake(ps, v, q)
<1>0. PICK v : v = KeptWait(w, ps, verdict)
  OBVIOUS
<1>1. PICK new : new = ps[w.subject.pane]
  OBVIOUS
<1>2. w \in AgentWaits /\ r \in AgentRequests /\ q \in AgentRequests /\ w.subject \in Subjects
  BY DEF Steps, WaitFits, IsRetraced, AgentWaits
<1>3. VerdictSound(ps, w.subject, w.until)
  BY <1>2, VerdictFacts DEF Steps
<1>4. /\ v.subject = Adopted(ps, w.subject) /\ v.until = w.until
      /\ v.require_transition = w.require_transition /\ v.initial_state = w.initial_state
      /\ v.deadline = w.deadline
      /\ v.armed <=> (w.armed \/ (StaysOn(w, verdict) /\ verdict.end = "pending"))
      /\ v \in AgentWaits
  <2>1. Adopted(ps, w.subject) \in Subjects
    BY <1>3 DEF VerdictSound
  <2> QED
    BY <1>0, <1>2, <2>1 DEF KeptWait, AgentWaits
<1>5. /\ q.kind = r.kind /\ q.target = r.target /\ q.until = r.until /\ q.initial = r.initial
      /\ Sees(w.subject, new) => q.trail = r.trail \cup {new.agent.state}
      /\ ~ Sees(w.subject, new) => q.trail = r.trail
  BY <1>1 DEF Steps, IsRetraced
<1>6. r.trail \subseteq q.trail
  BY <1>5
<1>7. /\ w.until = r.until
      /\ w.require_transition = (r.kind = "prompt")
      /\ r.target.incarnation # 0 => w.subject = r.target
  BY DEF Steps, WaitFits
<1>8. w.subject.incarnation # 0 => v.subject = w.subject
  BY <1>3, <1>4 DEF VerdictSound
<1>9. r.target.incarnation # 0 => w.subject.incarnation # 0
  BY <1>7
<1>10. /\ evaluate_wait_subject(ps, v.subject, v.until) = verdict
       /\ v.subject.pane = w.subject.pane
  BY <1>3, <1>4 DEF VerdictSound
<1>11. CASE r.kind # "prompt"
  <2>1. verdict.end = "pending"
    BY <1>7, <1>11 DEF StaysOn, needs_departure
  <2>2. WaitFits(v, q)
    BY <1>2, <1>4, <1>5, <1>7, <1>8, <1>9, <1>11 DEF WaitFits
  <2>3. Traces(ps, v, q)
    BY <1>5, <1>11 DEF Traces
  <2>4. Awake(ps, v, q)
    BY <2>1, <1>10 DEF Awake
  <2> QED
    BY <2>2, <2>3, <2>4, <1>0
<1>12. CASE r.kind = "prompt"
  <2>1. /\ w.subject.incarnation # 0 /\ v.subject = w.subject
        /\ ~ w.armed => ~ Departed(r)
        /\ ~ w.armed /\ w.until = "turn" => w.initial_state = r.initial
        /\ w.armed => IF w.until = "turn" THEN "working" \in r.trail ELSE Departed(r)
        /\ w.require_transition
    BY <1>12, <1>8, <1>7 DEF Steps, WaitFits
  <2>2. Names(w.subject, new) => Sees(w.subject, new)
    BY DEF Names, Sees
  <2>3. Sees(w.subject, new) => Names(w.subject, new)
    BY <2>1 DEF Names, Sees
  <2>4. Traces(ps, v, q)
    BY <2>1, <2>2, <1>1, <1>5 DEF Traces
  <2>5. CASE verdict.end = "pending"
    <3>1. Names(w.subject, new) /\ ~ condition_matches(w.until, new.agent.state)
      BY <2>5, <2>1, <1>3, <1>1 DEF VerdictSound
    <3>2. new.agent.state \in q.trail
      BY <3>1, <2>2, <1>5
    <3>3. v.armed
      BY <2>5, <2>1, <1>4 DEF StaysOn, needs_departure
    <3>4. IF v.until = "turn" THEN "working" \in q.trail ELSE Departed(q)
      <4>1. CASE w.until = "turn"
        BY <4>1, <3>1, <3>2, <1>4 DEF condition_matches
      <4>2. CASE w.until # "turn"
        BY <4>2, <3>1, <3>2, <1>4, <1>5, <1>7 DEF Departed
      <4> QED
        BY <4>1, <4>2
    <3>5. WaitFits(v, q)
      BY <1>2, <1>4, <1>5, <1>7, <1>8, <1>9, <2>1, <3>3, <3>4 DEF WaitFits
    <3>6. Awake(ps, v, q)
      BY <2>5, <1>10 DEF Awake
    <3> QED
      BY <3>5, <3>6, <2>4, <1>0
  <2>6. CASE verdict.end # "pending"
    <3>1. needs_departure(w, verdict) /\ verdict.end = "ready" /\ ~ w.armed /\ ~ v.armed
      BY <2>6, <1>4 DEF StaysOn, needs_departure
    <3>2. ~ Departed(r)
      BY <3>1, <2>1
    <3>3. ~ Departed(q)
      <4>1. CASE verdict.agent # None
        <5>1. /\ Names(w.subject, new) /\ verdict.agent = new.agent
              /\ condition_matches(w.until, new.agent.state)
          BY <4>1, <3>1, <2>1, <1>1, <1>3, <1>4 DEF VerdictSound
        <5>2. q.trail = r.trail \cup {new.agent.state}
          BY <5>1, <2>2, <1>5
        <5>3. CASE w.until = "turn"
          <6>1. r.trail = {r.initial} /\ new.agent.state = r.initial
            BY <5>3, <5>1, <4>1, <3>1, <3>2, <2>1, <1>7 DEF Departed, needs_departure
          <6> QED
            BY <6>1, <5>2, <5>3, <1>5, <1>7 DEF Departed
        <5>4. CASE w.until # "turn"
          BY <5>4, <5>1, <5>2, <3>2, <1>5, <1>7 DEF Departed
        <5> QED
          BY <5>3, <5>4
      <4>2. CASE verdict.agent = None
        <5>1. w.until = "gone" /\ ~ (Names(w.subject, new) /\ ~ new.exited)
          BY <4>2, <3>1, <2>1, <1>1, <1>3 DEF VerdictSound
        <5>2. q.trail = r.trail
          <6>1. CASE Sees(w.subject, new)
            <7>1. Names(w.subject, new) /\ new.exited
              BY <6>1, <2>3, <5>1
            <7>2. Names(w.subject, old) /\ new.agent = old.agent
              BY <7>1, <1>1 DEF Steps, Names
            <7>3. new.agent.state \in r.trail
              BY <7>2, <1>12 DEF Steps
            <7> QED
              BY <7>3, <6>1, <1>5
          <6>2. CASE ~ Sees(w.subject, new)
            BY <6>2, <1>5
          <6> QED
            BY <6>1, <6>2
        <5> QED
          BY <5>2, <3>2, <1>5 DEF Departed
      <4> QED
        BY <4>1, <4>2
    <3>4. WaitFits(v, q)
      BY <1>2, <1>4, <1>5, <1>7, <1>8, <1>9, <2>1, <3>1, <3>3 DEF WaitFits
    <3>5. Awake(ps, v, q)
      BY <3>1, <3>3, <1>5, <1>10, <1>12 DEF Awake
    <3> QED
      BY <3>4, <3>5, <2>4, <1>0
  <2> QED
    BY <2>5, <2>6
<1> QED
  BY <1>11, <1>12

\* A wait that ends well has the answer its request is about.
AnswerFits(q, answer, ps) ==
  answer.end = "ready" =>
    /\ q.kind = "prompt" => Departed(q)
    /\ q.target.incarnation # 0 =>
         IF answer.agent = None
         THEN ~ (Names(q.target, ps[q.target.pane]) /\ ~ ps[q.target.pane].exited)
         ELSE /\ answer.agent.generation = q.target.generation
              /\ answer.agent.incarnation = q.target.incarnation

LEMMA EndedFits ==
  ASSUME NEW w, NEW r, NEW q, NEW old, NEW ps, NEW verdict,
         Steps(w, r, q, old, ps),
         verdict = evaluate_wait_subject(ps, w.subject, w.until),
         ~ StaysOn(w, verdict)
  PROVE  AnswerFits(q, verdict, ps)
<1> SUFFICES ASSUME verdict.end = "ready"
             PROVE  AnswerFits(q, verdict, ps)
  BY DEF AnswerFits
<1>1. PICK new : new = ps[w.subject.pane]
  OBVIOUS
<1>2. w \in AgentWaits /\ w.subject \in Subjects /\ (new # None => GoodPane(new))
  BY <1>1 DEF Steps, WaitFits, AgentWaits
<1>3. VerdictSound(ps, w.subject, w.until)
  BY <1>2, VerdictFacts DEF Steps
<1>5. /\ q.kind = r.kind /\ q.target = r.target /\ q.until = r.until /\ q.initial = r.initial
      /\ Sees(w.subject, new) => q.trail = r.trail \cup {new.agent.state}
      /\ ~ Sees(w.subject, new) => q.trail = r.trail
  BY <1>1 DEF Steps, IsRetraced
<1>7. /\ w.until = r.until
      /\ w.require_transition = (r.kind = "prompt")
      /\ r.target.incarnation # 0 => w.subject = r.target
  BY DEF Steps, WaitFits
<1>8. verdict.agent # None /\ w.subject.incarnation # 0 =>
        /\ Names(w.subject, new) /\ verdict.agent = new.agent
        /\ condition_matches(w.until, new.agent.state)
  BY <1>1, <1>3 DEF VerdictSound
<1>9. verdict.agent = None => /\ w.until = "gone"
                              /\ w.subject.incarnation # 0 => ~ (Names(w.subject, new) /\ ~ new.exited)
  BY <1>1, <1>3 DEF VerdictSound
<1>10. q.kind = "prompt" => Departed(q)
  <2> SUFFICES ASSUME r.kind = "prompt" PROVE Departed(q)
    BY <1>5
  <2>1. /\ w.subject.incarnation # 0
        /\ ~ w.armed /\ w.until = "turn" => w.initial_state = r.initial
        /\ w.armed => IF w.until = "turn" THEN "working" \in r.trail ELSE Departed(r)
        /\ w.require_transition
    BY <1>7 DEF Steps, WaitFits
  <2>2. w.armed \/ (w.until = "turn" /\ verdict.agent # None /\ verdict.agent.state # w.initial_state)
    BY <2>1 DEF StaysOn, needs_departure
  <2>3. CASE w.until = "turn"
    <3>1. verdict.agent # None
      BY <2>3, <1>9
    <3>2. /\ verdict.agent = new.agent /\ new.agent.state # "working"
          /\ Names(w.subject, new)
      BY <3>1, <2>1, <2>3, <1>8 DEF condition_matches
    <3>3. new.agent.state \in q.trail /\ r.trail \subseteq q.trail
      BY <3>2, <1>5 DEF Names, Sees
    <3>4. q.trail # {q.initial}
      BY <2>1, <2>2, <2>3, <3>2, <3>3, <1>5
    <3> QED
      BY <3>4, <2>3, <1>5, <1>7 DEF Departed
  <2>4. CASE w.until # "turn"
    BY <2>4, <2>1, <2>2, <1>5, <1>7, DepartedGrows
  <2> QED
    BY <2>3, <2>4
<1>11. ASSUME q.target.incarnation # 0
       PROVE  IF verdict.agent = None
              THEN ~ (Names(q.target, ps[q.target.pane]) /\ ~ ps[q.target.pane].exited)
              ELSE /\ verdict.agent.generation = q.target.generation
                   /\ verdict.agent.incarnation = q.target.incarnation
  <2>1. q.target = w.subject /\ w.subject.incarnation # 0
    BY <1>5, <1>7, <1>11
  <2>2. Names(w.subject, new) => new.agent.generation = w.subject.generation
                                 /\ new.agent.incarnation = w.subject.incarnation
    BY <1>2 DEF Names, GoodPane
  <2> QED
    BY <2>1, <2>2, <1>1, <1>8, <1>9
<1> QED
  BY <1>10, <1>11 DEF AnswerFits

----------------------------------------------------------------------------
(* Replies                                                                 *)

\* What the answer of a screen wait says of the screen it carries.
ScreenAnswerFits(q, answer) ==
  /\ answer.end = "ready" => answer.quiet >= q.settle
  /\ answer.end = "exited" /\ q.text /\ q.settle = 0 =>
       \A m \in answer.marks : ~ (q.kind = "capture" \/ m > q.mark)
  /\ answer.end = "ready" /\ q.kind = "send" /\ q.text /\ q.settle = 0 =>
       (\E m \in answer.marks : m > q.mark) \/ answer.epoch # q.epoch

ReplyFits(q, answer, ps) ==
  \/ q \in AgentRequests /\ AnswerFits(q, answer, ps)
  \/ q \in CaptureRequests /\ ScreenAnswerFits(q, answer)

RepliesFit == \A k \in DOMAIN reply : ReplyFits(reply[k].request, reply[k].answer, panes)

LEMMA RepliesSound == RepliesFit => Replied
<1> SUFFICES ASSUME RepliesFit PROVE Replied
  OBVIOUS
<1>0. /\ \A q \in AgentRequests : q.kind \in {"wait", "prompt"} /\ q \notin CaptureRequests
      /\ \A q \in CaptureRequests : q.kind \in {"capture", "send"} /\ q \notin AgentRequests
  BY DEF AgentRequests, CaptureRequests
<1>1. PromptAnswerFresh
  <2> SUFFICES ASSUME NEW k \in Succeeded({"prompt"}) PROVE Departed(reply[k].request)
    BY DEF PromptAnswerFresh
  <2>1. k \in DOMAIN reply /\ reply[k].request.kind = "prompt" /\ reply[k].answer.end = "ready"
    BY DEF Succeeded, Answered
  <2>2. AnswerFits(reply[k].request, reply[k].answer, panes)
    BY <2>1, <1>0 DEF RepliesFit, ReplyFits
  <2> QED
    BY <2>1, <2>2 DEF AnswerFits
<1>2. ExactAgent
  <2> SUFFICES ASSUME NEW k \in Succeeded({"wait", "prompt"}), reply[k].request.target.incarnation # 0
               PROVE  IF reply[k].answer.agent = None
                      THEN ~ (Running(reply[k].request.target.pane) /\ Resolves(reply[k].request.target))
                      ELSE /\ reply[k].answer.agent.generation = reply[k].request.target.generation
                           /\ reply[k].answer.agent.incarnation = reply[k].request.target.incarnation
    BY DEF ExactAgent
  <2>1. /\ k \in DOMAIN reply /\ reply[k].request.kind \in {"wait", "prompt"}
        /\ reply[k].answer.end = "ready"
    BY DEF Succeeded, Answered
  <2>2. AnswerFits(reply[k].request, reply[k].answer, panes)
    BY <2>1, <1>0 DEF RepliesFit, ReplyFits
  <2>3. PICK t : t = reply[k].request.target
    OBVIOUS
  <2>4. Running(t.pane) /\ Resolves(t) => Names(t, panes[t.pane]) /\ ~ panes[t.pane].exited
    BY <2>3 DEF Running, Resolves, Names, Ref
  <2> QED
    BY <2>1, <2>2, <2>3, <2>4 DEF AnswerFits
<1>3. ASSUME NEW k \in Answered({"capture", "send"})
      PROVE  ScreenAnswerFits(reply[k].request, reply[k].answer) /\ k \in DOMAIN reply
  BY <1>0 DEF RepliesFit, ReplyFits, Answered
<1>4. ScreenAnswers
  <2>1. SettledQuiet
    BY <1>3 DEF SettledQuiet, Succeeded, ScreenAnswerFits
  <2>2. LastOutputCounts
    BY <1>3 DEF LastOutputCounts, Counts, ScreenAnswerFits
  <2>3. SendAnswerFresh
    <3> SUFFICES ASSUME NEW k \in Succeeded({"send"}), reply[k].request.text, reply[k].request.settle = 0
                 PROVE  Counts(k) # {} \/ reply[k].answer.epoch # reply[k].request.epoch
      BY DEF SendAnswerFresh
    <3>1. k \in Answered({"capture", "send"}) /\ reply[k].answer.end = "ready" /\ reply[k].request.kind = "send"
      BY DEF Succeeded, Answered
    <3> QED
      BY <3>1, <1>3 DEF Counts, ScreenAnswerFits
  <2> QED
    BY <2>1, <2>2, <2>3 DEF ScreenAnswers
<1> QED
  BY <1>1, <1>2, <1>4 DEF Replied

\* A step that answers nobody.
LEMMA SilentReplies ==
  ASSUME Silent
  PROVE  Replied'
<1>1. DOMAIN reply' = {}
  BY DEF Silent, NoReply
<1>2. RepliesFit'
  BY <1>1 DEF RepliesFit
<1> QED
  BY <1>2, RepliesSound, PTL

LEMMA AnswerReplies ==
  ASSUME NEW requests, NEW done, NEW aw, NEW cw, answer_held(requests, done, aw, cw),
         \A k \in DOMAIN done : ReplyFits(requests[k], done[k], panes')
  PROVE  Replied'
<1>0. AnswerEffect(requests, done, aw, cw)
  BY AnswerHeld
<1>1. /\ DOMAIN reply' = Sent(done)
      /\ \A k \in Sent(done) : reply'[k].request = requests[k] /\ reply'[k].answer = done[k]
  BY <1>0 DEF AnswerEffect
<1>2. Sent(done) \subseteq DOMAIN done
  BY DEF Sent
<1>3. RepliesFit'
  BY <1>1, <1>2 DEF RepliesFit
<1> QED
  BY <1>3, RepliesSound, PTL

----------------------------------------------------------------------------
(* Changes of panes and agents                                             *)

\* No key has both kinds of wait.
LEMMA KindsApart ==
  ASSUME Agented, Screened, NEW c \in DOMAIN capture_waits
  PROVE  <<c, 0>> \notin DOMAIN agent_waits
<1>1. asked[<<c, 0>>] \in CaptureRequests
  BY DEF Screened, ScreenFits
<1>2. \A k \in DOMAIN agent_waits : asked[k] \in AgentRequests
  BY DEF Agented, WaitFits
<1> QED
  BY <1>1, <1>2 DEF AgentRequests, CaptureRequests

Changed(ps) ==
  /\ generations' \in Nat /\ generations' >= generations
  /\ drawn' \in Nat /\ drawn' >= drawn
  /\ DOMAIN ps = Panes
  /\ \A p \in Panes : ps[p] # None =>
       IsPane(ps[p], generations', drawn', now) /\ Follows(panes[p], ps[p], generations, drawn)
  /\ \A ref \in issued' : ref \in Subjects /\ ref.incarnation # 0

\* What a screen wait knows of its pane stays true.
LEMMA WatchesGoOn ==
  ASSUME Types, NEW ps, Changed(ps), NEW w \in CaptureWaits, NEW q \in CaptureRequests,
         w.generation <= generations, w.cells <= drawn, q.mark <= drawn,
         Watches(panes[w.pane], w, q)
  PROVE  Watches(ps[w.pane], w, q)
<1>0. PICK old : old = panes[w.pane]
  OBVIOUS
<1>1. PICK new : new = ps[w.pane]
  OBVIOUS
<1>2. /\ w.generation \in Nat /\ w.cells \in Nat /\ w.seen \in Nat /\ q.mark \in Nat
      /\ w.pane \in Panes /\ generations \in Nat /\ drawn \in Nat
  BY DEF CaptureWaits, CaptureRequests, Types
<1> SUFFICES ASSUME new # None, new.generation = w.generation
             PROVE  Watches(new, w, q)
  BY <1>1 DEF Watches
<1>3. old # None => old.content \in Nat
  BY <1>0, <1>2 DEF Types, IsPane, PaneStates
<1>4. /\ old # None /\ new.generation = old.generation
      /\ SameScreen(old, new) \/ Drew(old, new, drawn)
  BY <1>0, <1>1, <1>2 DEF Changed, Follows
<1>5. CASE SameScreen(old, new)
  BY <1>0, <1>4, <1>5 DEF SameScreen, Watches, shows
<1>6. CASE Drew(old, new, drawn)
  <2>1. /\ w.seen <= old.content
        /\ w.baseline # None => \A m \in old.marks : m \in w.baseline.marks \/ m > q.mark
    BY <1>0, <1>4 DEF Watches
  <2>2. w.seen <= new.content /\ w.seen # new.content /\ w.cells # new.cells
    BY <2>1, <1>2, <1>3, <1>4, <1>6 DEF Drew
  <2>3. w.baseline # None => \A m \in new.marks : m \in w.baseline.marks \/ m > q.mark
    BY <2>1, <1>2, <1>6 DEF Drew
  <2> QED
    BY <2>2, <2>3 DEF Watches
<1> QED
  BY <1>4, <1>5, <1>6

LEMMA BecomesKeeps ==
  ASSUME Inv, NEW ps, Becomes(ps), Changed(ps)
  PROVE  Inv'
<1>0. Types /\ Once /\ Agented /\ Screened
  BY DEF Inv
<1>i. panes' = ps /\ now' = now /\ stalled' = stalled
  BY DEF Becomes
<1>v. PICK verdict : verdict = [k \in DOMAIN agent_waits |->
                    evaluate_wait_subject(ps, agent_waits[k].subject, agent_waits[k].until)]
  OBVIOUS
<1>o. PICK over : over = {k \in DOMAIN agent_waits : ~ StaysOn(agent_waits[k], verdict[k]) /\ verdict[k].end # "pending"}
  OBVIOUS
<1>k. PICK kept : kept = [k \in DOMAIN agent_waits |-> KeptWait(agent_waits[k], ps, verdict[k])]
  OBVIOUS
<1>d. PICK done : done = Restrict(verdict, over)
  OBVIOUS
<1>r. PICK requests : requests = Traced(ps)
  OBVIOUS
<1>1. answer_held(requests, done, kept, capture_waits)
  <2>1. LET waits_on == {k \in DOMAIN agent_waits :
                     needs_departure(agent_waits[k], verdict[k]) /\ verdict[k].end \in {"ready", "pending"}}
        IN /\ over = {k \in DOMAIN agent_waits \ waits_on : verdict[k].end # "pending"}
           /\ kept = [k \in DOMAIN agent_waits |->
                 [agent_waits[k] EXCEPT
                    !.subject = Adopted(ps, @),
                    !.armed = @ \/ (k \in waits_on /\ verdict[k].end = "pending")]]
    BY <1>o, <1>k DEF StaysOn, KeptWait
  <2>2. resolve_agent_waits(requests, ps)
    BY <1>r DEF Becomes
  <2> QED
    BY <2>1, <2>2, <1>v, <1>d, Zenon DEF resolve_agent_waits
<1>2. /\ DOMAIN done = over /\ over \subseteq DOMAIN agent_waits
      /\ \A k \in over : done[k] = verdict[k]
      /\ DOMAIN kept = DOMAIN agent_waits
  BY <1>o, <1>d, <1>k DEF Restrict
<1>3. /\ DOMAIN agent_waits \subseteq Keys /\ DOMAIN capture_waits \subseteq Headless
      /\ DOMAIN asked = Keys /\ now \in Nat /\ generations \in Nat /\ drawn \in Nat
  BY <1>0 DEF Types
<1>4. \A p \in Panes : ps[p] # None => GoodPane(ps[p])
  BY DEF Changed, IsPane, GoodPane
<1>5. \A k \in Keys : k \notin DOMAIN agent_waits => requests[k] = asked[k]
  BY <1>r DEF Traced
<1>6. \A k \in DOMAIN agent_waits :
        requests[k] = Retraced(asked[k], agent_waits[k].subject, ps[agent_waits[k].subject.pane])
  BY <1>r, <1>3 DEF Traced, Retraced, Sees
<1>7. ASSUME NEW k \in DOMAIN agent_waits
      PROVE  /\ Steps(agent_waits[k], asked[k], requests[k], panes[agent_waits[k].subject.pane], ps)
             /\ requests[k] \in AgentRequests /\ asked[k] \in AgentRequests
  <2>0. PICK p : p = agent_waits[k].subject.pane
    OBVIOUS
  <2>1. /\ WaitFits(agent_waits[k], asked[k]) /\ Traces(panes, agent_waits[k], asked[k])
        /\ asked[k] \in AgentRequests
    BY <1>0 DEF Agented, WaitFits
  <2>2. p \in Panes
    BY <2>0, <2>1 DEF WaitFits, AgentWaits, Subjects
  <2>3. ps[p] # None => GoodPane(ps[p])
    BY <2>2, <1>4
  <2>4. IsRetraced(asked[k], requests[k], agent_waits[k].subject, ps[p])
    BY <2>0, <2>1, <2>3, <1>6, RetracedFacts
  <2>5. ps[p] # None /\ ps[p].exited =>
          /\ panes[p] # None /\ ps[p].generation = panes[p].generation
          /\ ps[p].agent = panes[p].agent
    BY <2>2 DEF Changed, Follows
  <2> QED
    BY <2>0, <2>1, <2>3, <2>4, <2>5 DEF Steps, Traces, IsRetraced
<1>8. \A k \in Keys : (requests[k] = None <=> asked[k] = None)
  BY <1>5, <1>7, WaitsAssumption
<1>9. \A k \in Keys : OneKey(k, asked[k], Held(k), answers[k], conn[k[1]])
  BY <1>0 DEF Once
<1>10. \A k \in Keys : HeldIn(k, kept, capture_waits) <=> Held(k)
  BY <1>2 DEF HeldIn, Held
<1>11. \A k \in DOMAIN done : requests[k] # None /\ conn[k[1]] = "open" /\ answers[k] = 0
  <2> SUFFICES ASSUME NEW k \in DOMAIN done
               PROVE  requests[k] # None /\ conn[k[1]] = "open" /\ answers[k] = 0
    OBVIOUS
  <2>1. k \in DOMAIN agent_waits /\ k \in Keys /\ Held(k)
    BY <1>2, <1>3 DEF Held
  <2>2. requests[k] # None
    BY <2>1, <1>7, WaitsAssumption
  <2> QED
    BY <2>1, <2>2, <1>9 DEF OneKey
<1>12. \A k \in Keys \ DOMAIN done :
          OneKey(k, requests[k], HeldIn(k, kept, capture_waits), answers[k], conn[k[1]])
  BY <1>8, <1>9, <1>10 DEF OneKey
<1>13. DOMAIN done \subseteq Keys /\ DOMAIN kept \subseteq Keys
  BY <1>2, <1>3
<1>14. /\ Once'
       /\ conn' \in [Clients -> {"open", "closing", "gone"}]
       /\ DOMAIN answers' = Keys
       /\ DOMAIN asked' = Keys
       /\ DOMAIN agent_waits' \subseteq Keys
       /\ DOMAIN capture_waits' \subseteq Headless
       /\ \A k \in DOMAIN agent_waits' :
            k \in DOMAIN kept \ DOMAIN done /\ agent_waits'[k] = kept[k] /\ asked'[k] = requests[k]
       /\ \A c \in DOMAIN capture_waits' :
            /\ c \in DOMAIN capture_waits /\ <<c, 0>> \notin DOMAIN done
            /\ capture_waits'[c] = capture_waits[c] /\ asked'[<<c, 0>>] = requests[<<c, 0>>]
  BY <1>0, <1>1, <1>3, <1>11, <1>12, <1>13, OnceAnswered
<1>15. Types'
  <2>1. \A p \in Panes : ps[p] # None => IsPane(ps[p], generations', drawn', now)
    BY DEF Changed
  <2> QED
    BY <1>14, <1>i, <1>3, <2>1 DEF Types, Changed
<1>16. Agented'
  <2> SUFFICES ASSUME NEW k \in DOMAIN agent_waits'
               PROVE  /\ WaitFits(agent_waits'[k], asked'[k])
                      /\ Traces(panes', agent_waits'[k], asked'[k])
                      /\ Awake(panes', agent_waits'[k], asked'[k])
    BY DEF Agented
  <2>1. /\ k \in DOMAIN agent_waits /\ k \notin over
        /\ agent_waits'[k] = KeptWait(agent_waits[k], ps, verdict[k])
        /\ asked'[k] = requests[k]
    BY <1>2, <1>14, <1>k
  <2>2. StaysOn(agent_waits[k], verdict[k]) \/ verdict[k].end = "pending"
    BY <2>1, <1>o
  <2>3. verdict[k] = evaluate_wait_subject(ps, agent_waits[k].subject, agent_waits[k].until)
    BY <2>1, <1>v
  <2>4. Steps(agent_waits[k], asked[k], requests[k], panes[agent_waits[k].subject.pane], ps)
    BY <2>1, <1>7
  <2>5. /\ WaitFits(KeptWait(agent_waits[k], ps, verdict[k]), requests[k])
        /\ Traces(ps, KeptWait(agent_waits[k], ps, verdict[k]), requests[k])
        /\ Awake(ps, KeptWait(agent_waits[k], ps, verdict[k]), requests[k])
    BY <2>2, <2>3, <2>4, KeptFits
  <2> QED
    BY <2>1, <2>5, <1>i
<1>17. Screened'
  <2> SUFFICES ASSUME NEW c \in DOMAIN capture_waits'
               PROVE  /\ ScreenFits(capture_waits'[c], asked'[<<c, 0>>])
                      /\ capture_waits'[c].generation <= generations'
                      /\ capture_waits'[c].cells <= drawn'
                      /\ capture_waits'[c].changed_at <= now'
                      /\ asked'[<<c, 0>>].mark <= drawn'
                      /\ Watches(panes'[capture_waits'[c].pane], capture_waits'[c], asked'[<<c, 0>>])
    BY DEF Screened
  <2>1. c \in DOMAIN capture_waits /\ <<c, 0>> \in Keys /\ <<c, 0>> \notin DOMAIN agent_waits
    BY <1>0, <1>3, <1>14, HeadlessKey, KindsApart
  <2>w. PICK w : w = capture_waits[c]
    OBVIOUS
  <2>q. PICK q : q = asked[<<c, 0>>]
    OBVIOUS
  <2>2. capture_waits'[c] = w /\ asked'[<<c, 0>>] = q
    BY <2>1, <2>w, <2>q, <1>5, <1>14
  <2>3. /\ ScreenFits(w, q)
        /\ w.generation <= generations /\ w.cells <= drawn /\ w.changed_at <= now /\ q.mark <= drawn
        /\ Watches(panes[w.pane], w, q)
    BY <1>0, <2>1, <2>w, <2>q DEF Screened
  <2>4. w \in CaptureWaits /\ q \in CaptureRequests
    BY <2>3 DEF ScreenFits
  <2>5. w.generation \in Nat /\ w.cells \in Nat /\ q.mark \in Nat /\ w.pane \in Panes
    BY <2>4 DEF CaptureWaits, CaptureRequests
  <2>6. w.generation <= generations' /\ w.cells <= drawn' /\ q.mark <= drawn'
    BY <2>3, <2>5, <1>3 DEF Changed
  <2>7. Watches(ps[w.pane], w, q)
    BY <1>0, <2>3, <2>4, WatchesGoOn
  <2> QED
    BY <2>2, <2>3, <2>6, <2>7, <1>i
<1>18. Replied'
  <2>1. \A k \in DOMAIN done : ReplyFits(requests[k], done[k], panes')
    <3> SUFFICES ASSUME NEW k \in DOMAIN done
                 PROVE  ReplyFits(requests[k], done[k], ps)
      BY <1>i
    <3>1. /\ k \in DOMAIN agent_waits /\ done[k] = verdict[k]
          /\ ~ StaysOn(agent_waits[k], verdict[k])
      BY <1>2, <1>o
    <3>2. verdict[k] = evaluate_wait_subject(ps, agent_waits[k].subject, agent_waits[k].until)
      BY <3>1, <1>v
    <3>3. AnswerFits(requests[k], verdict[k], ps)
      BY <3>1, <3>2, <1>7, EndedFits
    <3> QED
      BY <3>1, <3>3, <1>7 DEF ReplyFits
  <2> QED
    BY <2>1, <1>1, AnswerReplies
<1> QED
  BY <1>14, <1>15, <1>16, <1>17, <1>18 DEF Inv

LEMMA TypesFacts ==
  ASSUME Types
  PROVE  /\ generations \in Nat /\ drawn \in Nat /\ now \in Nat
         /\ DOMAIN panes = Panes
         /\ \A p \in Panes : panes[p] # None =>
              /\ IsPane(panes[p], generations, drawn, now)
              /\ panes[p] \in PaneStates
BY DEF Types, IsPane

\* What stays as it was is still a pane when generations and drawings go on.
LEMMA PaneStays ==
  ASSUME NEW pane, NEW g1 \in Nat, NEW g2 \in Nat, NEW d1 \in Nat, NEW d2 \in Nat, NEW t,
         IsPane(pane, g1, d1, t), g1 <= g2, d1 <= d2
  PROVE  IsPane(pane, g2, d2, t) /\ Follows(pane, pane, g1, d1) 
<1>1. pane \in PaneStates
  BY DEF IsPane
<1>2. pane.generation \in Nat /\ pane.cells \in Nat /\ pane.marks \subseteq Nat
  BY <1>1 DEF PaneStates
<1>3. pane # None
  BY <1>1, WaitsAssumption
<1> QED
  BY <1>2, <1>3 DEF IsPane, Follows, SameScreen

LEMMA SpawnKeeps ==
  ASSUME Inv, NEW p \in Panes, Spawn(p)
  PROVE  Inv'
<1>0. Types /\ \A ref \in issued : ref \in Subjects /\ ref.incarnation # 0
  BY DEF Inv, Types
<1>h. PICK heirs \in 0 .. 1 : Becomes([panes EXCEPT ![p] = Fresh(generations + 1, drawn + 1, now, heirs)])
  BY DEF Spawn
<1>1. PICK new : new = Fresh(generations + 1, drawn + 1, now, heirs)
  OBVIOUS
<1>2. PICK ps : ps = [panes EXCEPT ![p] = new]
  OBVIOUS
<1>3. Becomes(ps)
  BY <1>h, <1>1, <1>2
<1>4. /\ generations \in Nat /\ drawn \in Nat /\ now \in Nat /\ DOMAIN panes = Panes
      /\ generations' = generations + 1 /\ drawn' = drawn + 1 /\ issued' = issued
  BY <1>0, TypesFacts DEF Spawn
<1>5. IsPane(new, generations', drawn', now) /\ Follows(panes[p], new, generations, drawn)
  <2>1. new \in PaneStates
    BY <1>1, <1>4 DEF Fresh, PaneStates
  <2>2. /\ new.generation = generations + 1 /\ new.cells = drawn + 1 /\ new.changed = now
        /\ new.marks = {} /\ new.agent = None /\ new.exited = FALSE
    BY <1>1 DEF Fresh
  <2> QED
    BY <2>1, <2>2, <1>4 DEF IsPane, Follows
<1>6. ASSUME NEW x \in Panes, ps[x] # None
      PROVE  IsPane(ps[x], generations', drawn', now) /\ Follows(panes[x], ps[x], generations, drawn)
  <2>1. CASE x = p
    BY <2>1, <1>2, <1>4, <1>5
  <2>2. CASE x # p
    <3>1. ps[x] = panes[x] /\ IsPane(panes[x], generations, drawn, now)
      BY <2>2, <1>0, <1>2, <1>4, <1>6, TypesFacts
    <3> QED
      BY <3>1, <1>4, PaneStays
  <2> QED
    BY <2>1, <2>2
<1>7. Changed(ps)
  BY <1>0, <1>2, <1>4, <1>6 DEF Changed
<1> QED
  BY <1>3, <1>7, BecomesKeeps

\* Changes that leave generations and the drawings alone.
LEMMA InPlaceKeeps ==
  ASSUME Inv, NEW p \in Panes, NEW ps, Becomes(ps), DOMAIN ps = Panes,
         UNCHANGED <<generations, drawn>>,
         \A x \in Panes : x # p => ps[x] = panes[x],
         ps[p] # None => IsPane(ps[p], generations, drawn, now) /\ Follows(panes[p], ps[p], generations, drawn),
         \A ref \in issued' : ref \in Subjects /\ ref.incarnation # 0
  PROVE  Inv'
<1>0. Types
  BY DEF Inv
<1>1. generations \in Nat /\ drawn \in Nat
  BY <1>0, TypesFacts
<1>2. ASSUME NEW x \in Panes, ps[x] # None
      PROVE  IsPane(ps[x], generations', drawn', now) /\ Follows(panes[x], ps[x], generations, drawn)
  <2>1. CASE x = p
    BY <2>1, <1>2
  <2>2. CASE x # p
    <3>1. ps[x] = panes[x] /\ IsPane(panes[x], generations, drawn, now)
      BY <2>2, <1>0, <1>2, TypesFacts
    <3> QED
      BY <3>1, <1>1, PaneStays
  <2> QED
    BY <2>1, <2>2
<1>3. Changed(ps)
  BY <1>1, <1>2 DEF Changed
<1> QED
  BY <1>3, BecomesKeeps

LEMMA AgentChangesKeeps ==
  ASSUME Inv, NEW p \in Panes, AgentChanges(p)
  PROVE  Inv'
<1>0. Types /\ \A ref \in issued : ref \in Subjects /\ ref.incarnation # 0
  BY DEF Inv, Types
<1>1. /\ generations \in Nat /\ drawn \in Nat /\ now \in Nat /\ DOMAIN panes = Panes
      /\ panes[p] # None /\ ~ panes[p].exited
      /\ IsPane(panes[p], generations, drawn, now) /\ panes[p] \in PaneStates
  BY <1>0, TypesFacts DEF AgentChanges, Running
<1>2. PICK state \in States, visible \in BOOLEAN, launch \in BOOLEAN :
       LET pane == panes[p]
           n == IF launch \/ pane.agent = None THEN pane.incarnations + 1
                ELSE pane.agent.incarnation
           agent == [incarnation |-> n, generation |-> pane.generation,
                     state |-> state, visible |-> visible]
       IN /\ agent # pane.agent
          /\ issued' = issued \cup {[pane |-> p, generation |-> pane.generation, incarnation |-> n]}
          /\ Becomes([panes EXCEPT ![p].agent = agent, ![p].incarnations = Max({n, @})])
  BY Zenon DEF AgentChanges
<1>3. PICK n : n = IF launch \/ panes[p].agent = None THEN panes[p].incarnations + 1
                   ELSE panes[p].agent.incarnation
  OBVIOUS
<1>4. PICK agent : agent = [incarnation |-> n, generation |-> panes[p].generation,
                            state |-> state, visible |-> visible]
  OBVIOUS
<1>5. PICK ps : ps = [panes EXCEPT ![p].agent = agent, ![p].incarnations = Max({n, @})]
  OBVIOUS
<1>6. /\ Becomes(ps)
      /\ issued' = issued \cup {[pane |-> p, generation |-> panes[p].generation, incarnation |-> n]}
  BY <1>2, <1>3, <1>4, <1>5
<1>7. n \in Nat /\ n >= 1 /\ panes[p].incarnations \in Nat /\ panes[p].generation \in Nat
  BY <1>1, <1>3 DEF IsPane, PaneStates, Agents
<1>8. Max({n, panes[p].incarnations}) \in Nat
  BY <1>7 DEF Max
<1>9. DOMAIN ps = Panes /\ \A x \in Panes : x # p => ps[x] = panes[x]
  BY <1>1, <1>5
<1>10. ps[p] = [panes[p] EXCEPT !.agent = agent, !.incarnations = Max({n, panes[p].incarnations})]
  BY <1>1, <1>5 DEF PaneStates
<1>11. agent \in Agents /\ agent.incarnation = n /\ agent.generation = panes[p].generation
  BY <1>4, <1>7 DEF Agents
<1>12. IsPane(ps[p], generations, drawn, now) /\ Follows(panes[p], ps[p], generations, drawn)
  <2>1. /\ ps[p] \in PaneStates /\ ps[p].agent = agent /\ ps[p].generation = panes[p].generation
        /\ ps[p].exited = panes[p].exited /\ ps[p].marks = panes[p].marks
        /\ ps[p].cells = panes[p].cells /\ ps[p].changed = panes[p].changed
        /\ ps[p].content = panes[p].content /\ ps[p].epoch = panes[p].epoch
    BY <1>1, <1>8, <1>10, <1>11 DEF PaneStates
  <2>2. IsPane(ps[p], generations, drawn, now)
    BY <2>1, <1>1, <1>7, <1>11 DEF IsPane
  <2> QED
    BY <2>1, <2>2, <1>1 DEF Follows, SameScreen
<1>13. \A ref \in issued' : ref \in Subjects /\ ref.incarnation # 0
  BY <1>0, <1>6, <1>7 DEF Subjects
<1>14. UNCHANGED <<generations, drawn>>
  BY DEF AgentChanges
<1> QED
  BY <1>6, <1>9, <1>12, <1>13, <1>14, InPlaceKeeps

LEMMA AgentLeavesKeeps ==
  ASSUME Inv, NEW p \in Panes, AgentLeaves(p)
  PROVE  Inv'
<1>0. Types /\ \A ref \in issued : ref \in Subjects /\ ref.incarnation # 0
  BY DEF Inv, Types
<1>1. /\ generations \in Nat /\ drawn \in Nat /\ now \in Nat /\ DOMAIN panes = Panes
      /\ panes[p] # None /\ ~ panes[p].exited
      /\ IsPane(panes[p], generations, drawn, now) /\ panes[p] \in PaneStates
  BY <1>0, TypesFacts DEF AgentLeaves, Running
<1>2. PICK ps : ps = [panes EXCEPT ![p].agent = None]
  OBVIOUS
<1>3. Becomes(ps) /\ UNCHANGED <<generations, drawn, issued>>
  BY <1>2 DEF AgentLeaves
<1>4. DOMAIN ps = Panes /\ \A x \in Panes : x # p => ps[x] = panes[x]
  BY <1>1, <1>2
<1>5. ps[p] = [panes[p] EXCEPT !.agent = None]
  BY <1>1, <1>2
<1>6. IsPane(ps[p], generations, drawn, now) /\ Follows(panes[p], ps[p], generations, drawn)
  <2>1. /\ ps[p] \in PaneStates /\ ps[p].agent = None /\ ps[p].generation = panes[p].generation
        /\ ps[p].exited = panes[p].exited /\ ps[p].marks = panes[p].marks
        /\ ps[p].cells = panes[p].cells /\ ps[p].changed = panes[p].changed
        /\ ps[p].content = panes[p].content /\ ps[p].epoch = panes[p].epoch
    BY <1>1, <1>5 DEF PaneStates
  <2> QED
    BY <2>1, <1>1 DEF Follows, SameScreen, IsPane
<1> QED
  BY <1>0, <1>3, <1>4, <1>6, InPlaceKeeps

LEMMA ExitKeeps ==
  ASSUME Inv, NEW p \in Panes, Exit(p)
  PROVE  Inv'
<1>0. Types /\ \A ref \in issued : ref \in Subjects /\ ref.incarnation # 0
  BY DEF Inv, Types
<1>1. /\ generations \in Nat /\ drawn \in Nat /\ now \in Nat /\ DOMAIN panes = Panes
      /\ panes[p] # None /\ ~ panes[p].exited
      /\ IsPane(panes[p], generations, drawn, now) /\ panes[p] \in PaneStates
  BY <1>0, TypesFacts DEF Exit, Running
<1>2. PICK ps : ps = [panes EXCEPT ![p].exited = TRUE]
  OBVIOUS
<1>3. Becomes(ps) /\ UNCHANGED <<generations, drawn, issued>>
  BY <1>2 DEF Exit
<1>4. DOMAIN ps = Panes /\ \A x \in Panes : x # p => ps[x] = panes[x]
  BY <1>1, <1>2
<1>5. ps[p] = [panes[p] EXCEPT !.exited = TRUE]
  BY <1>1, <1>2
<1>6. IsPane(ps[p], generations, drawn, now) /\ Follows(panes[p], ps[p], generations, drawn)
  <2>1. /\ ps[p] \in PaneStates /\ ps[p].agent = panes[p].agent
        /\ ps[p].generation = panes[p].generation /\ ps[p].marks = panes[p].marks
        /\ ps[p].cells = panes[p].cells /\ ps[p].changed = panes[p].changed
        /\ ps[p].content = panes[p].content /\ ps[p].epoch = panes[p].epoch
    BY <1>1, <1>5 DEF PaneStates
  <2> QED
    BY <2>1, <1>1 DEF Follows, SameScreen, IsPane
<1> QED
  BY <1>0, <1>3, <1>4, <1>6, InPlaceKeeps

LEMMA KillKeeps ==
  ASSUME Inv, NEW p \in Panes, Kill(p)
  PROVE  Inv'
<1>0. Types /\ \A ref \in issued : ref \in Subjects /\ ref.incarnation # 0
  BY DEF Inv, Types
<1>1. DOMAIN panes = Panes
  BY <1>0, TypesFacts
<1>2. PICK ps : ps = [panes EXCEPT ![p] = None]
  OBVIOUS
<1>3. Becomes(ps) /\ UNCHANGED <<generations, drawn, issued>>
  BY <1>2 DEF Kill
<1>4. DOMAIN ps = Panes /\ ps[p] = None /\ \A x \in Panes : x # p => ps[x] = panes[x]
  BY <1>1, <1>2
<1> QED
  BY <1>0, <1>3, <1>4, InPlaceKeeps

----------------------------------------------------------------------------
(* Steps that answer nobody                                                *)

\* What the evaluation of agents looks at.
SameAgents(old, new) ==
  /\ new = None <=> old = None
  /\ old # None => /\ new.exited = old.exited /\ new.generation = old.generation
                   /\ new.agent = old.agent

LEMMA SameVerdict ==
  ASSUME NEW ps, NEW qs, NEW s, NEW until, SameAgents(ps[s.pane], qs[s.pane])
  PROVE  evaluate_wait_subject(qs, s, until) = evaluate_wait_subject(ps, s, until)
<1>1. Adopted(qs, s) = Adopted(ps, s)
  BY DEF Adopted, SameAgents, Ref
<1>2. PICK t : t = Adopted(ps, s)
  OBVIOUS
<1>3. CASE t.incarnation # 0
  <2>0. t.pane = s.pane
    BY <1>2 DEF Adopted, Ref
  <2>1. evaluate_agent_wait(qs, t, until) = evaluate_agent_wait(ps, t, until)
    <3>1. CASE ps[s.pane] = None
      BY <3>1, <2>0 DEF evaluate_agent_wait, SameAgents
    <3>2. CASE ps[s.pane] # None
      BY <3>2, <2>0 DEF evaluate_agent_wait, SameAgents
    <3> QED
      BY <3>1, <3>2
  <2> QED
    BY <1>1, <1>2, <1>3, <2>1 DEF evaluate_wait_subject
<1>4. CASE t.incarnation = 0
  BY <1>1, <1>2, <1>4 DEF evaluate_wait_subject, SameAgents
<1> QED
  BY <1>3, <1>4

LEMMA SameAwake ==
  ASSUME NEW ps, NEW qs, NEW w, NEW r, NEW ov, SameAgents(ps[w.subject.pane], qs[w.subject.pane])
  PROVE  /\ Awake(ps, w, r) => Awake(qs, w, r)
         /\ Traces(ps, w, r) => Traces(qs, w, r)
         /\ Missed(ps, ov, w) => Missed(qs, ov, w)
<1>1. Awake(ps, w, r) => Awake(qs, w, r)
  BY SameVerdict DEF Awake
<1>2. Traces(ps, w, r) => Traces(qs, w, r)
  BY DEF Traces, SameAgents, Names
<1>3. Missed(ps, ov, w) => Missed(qs, ov, w)
  BY SameVerdict DEF Missed
<1> QED
  BY <1>1, <1>2, <1>3

LEMMA DrawingFacts ==
  ASSUME drawn \in Nat, now \in Nat, NEW pane \in PaneStates, NEW new \in Drawings(pane)
  PROVE  /\ new \in PaneStates /\ Drew(pane, new, drawn) /\ new.changed = now
         /\ new.generation = pane.generation /\ new.exited = pane.exited
         /\ new.agent = pane.agent
<1>1. PICK marks \in {pane.marks, {}, pane.marks \cup {drawn + 1}} :
         new = [pane EXCEPT !.content = @ + 1, !.cells = drawn + 1, !.changed = now, !.marks = marks]
  BY DEF Drawings
<1>2. pane.marks \subseteq Nat /\ pane.content \in Nat
  BY DEF PaneStates
<1>3. marks \subseteq Nat /\ \A m \in marks : m \in pane.marks \/ m = drawn + 1
  BY <1>2
<1>4. /\ new.content = pane.content + 1 /\ new.cells = drawn + 1 /\ new.changed = now
      /\ new.marks = marks /\ new.generation = pane.generation /\ new.exited = pane.exited
      /\ new.agent = pane.agent
  BY <1>1 DEF PaneStates
<1>5. new \in PaneStates
  <2>1. new = [generation |-> pane.generation, exited |-> pane.exited, agent |-> pane.agent,
               incarnations |-> pane.incarnations, content |-> pane.content + 1, cells |-> drawn + 1,
               marks |-> marks, epoch |-> pane.epoch, changed |-> now, heirs |-> pane.heirs]
    BY <1>1 DEF PaneStates
  <2>2. /\ pane.generation \in Nat /\ pane.exited \in BOOLEAN /\ pane.agent \in Agents \cup {None}
        /\ pane.incarnations \in Nat /\ pane.epoch \in Nat /\ pane.heirs \in 0 .. 2
    BY DEF PaneStates
  <2> QED
    BY <2>1, <2>2, <1>2, <1>3 DEF PaneStates
<1> QED
  BY <1>3, <1>4, <1>5 DEF Drew

LEMMA OutputKeeps ==
  ASSUME Inv, NEW p \in Panes, Output(p)
  PROVE  Inv'
<1>0. Types /\ Once /\ Agented /\ Screened
  BY DEF Inv
<1>i. /\ UNCHANGED <<generations, issued, overlooked, conn, agent_waits, capture_waits, now, asked>>
      /\ Silent /\ answers' = answers
  BY DEF Output, Silent
<1>1. /\ generations \in Nat /\ drawn \in Nat /\ now \in Nat /\ DOMAIN panes = Panes
      /\ panes[p] # None
      /\ IsPane(panes[p], generations, drawn, now) /\ panes[p] \in PaneStates
  BY <1>0, TypesFacts DEF Output, Running
<1>2. PICK new : new = panes'[p]
  OBVIOUS
<1>n. /\ panes[p].content \in Nat /\ panes[p].cells \in Nat /\ panes[p].marks \subseteq Nat
      /\ panes[p].epoch \in Nat /\ panes[p].cells <= drawn
      /\ \A m \in panes[p].marks : m >= 1 /\ m <= drawn
  BY <1>1 DEF PaneStates, IsPane
<1>3. /\ DOMAIN panes' = Panes /\ \A x \in Panes : x # p => panes'[x] = panes[x]
      /\ new \in PaneStates
      /\ new.generation = panes[p].generation /\ new.exited = panes[p].exited
      /\ new.agent = panes[p].agent /\ new.content = panes[p].content + 1
      /\ \/ /\ drawn' = drawn + 1 /\ new.cells = drawn + 1 /\ new.changed = now
            /\ \A m \in new.marks : m \in panes[p].marks \/ m = drawn + 1
         \/ /\ drawn' = drawn /\ new.cells = panes[p].cells /\ new.changed = panes[p].changed
            /\ new.marks = panes[p].marks /\ new.epoch = panes[p].epoch
  <2>1. CASE /\ drawn' = drawn + 1
             /\ \E pane \in Drawings(panes[p]) : panes' = [panes EXCEPT ![p] = pane]
    <3>1. PICK pane \in Drawings(panes[p]) : panes' = [panes EXCEPT ![p] = pane]
      BY <2>1
    <3>2. new = pane /\ DOMAIN panes' = Panes /\ \A x \in Panes : x # p => panes'[x] = panes[x]
      BY <3>1, <1>1, <1>2
    <3> QED
      BY <3>2, <2>1, <1>1, DrawingFacts DEF Drew
  <2>2. CASE /\ drawn' = drawn + 1
             /\ panes' = [panes EXCEPT ![p].content = @ + 1, ![p].cells = drawn + 1,
                                       ![p].changed = now, ![p].epoch = @ + 1]
    <3>1. new = [panes[p] EXCEPT !.content = @ + 1, !.cells = drawn + 1, !.changed = now, !.epoch = @ + 1]
      BY <2>2, <1>1, <1>2 DEF PaneStates
    <3>2. DOMAIN panes' = Panes /\ \A x \in Panes : x # p => panes'[x] = panes[x]
      BY <2>2, <1>1
    <3> QED
      BY <3>1, <3>2, <2>2, <1>1, <1>n DEF PaneStates
  <2>3. CASE panes' = [panes EXCEPT ![p].content = @ + 1] /\ UNCHANGED drawn
    <3>1. new = [panes[p] EXCEPT !.content = @ + 1]
      BY <2>3, <1>1, <1>2 DEF PaneStates
    <3>2. DOMAIN panes' = Panes /\ \A x \in Panes : x # p => panes'[x] = panes[x]
      BY <2>3, <1>1
    <3> QED
      BY <3>1, <3>2, <2>3, <1>1, <1>n DEF PaneStates
  <2> QED
    BY <2>1, <2>2, <2>3 DEF Output
<1>4. new # None /\ drawn' \in Nat /\ drawn' >= drawn
  BY <1>1, <1>3, WaitsAssumption
<1>5. IsPane(new, generations, drawn', now)
  <2>1. \A m \in new.marks : m >= 1 /\ m <= drawn'
    BY <1>1, <1>3, <1>n
  <2> QED
    BY <2>1, <1>1, <1>3, <1>n DEF IsPane
<1>6. Types'
  <2>1. ASSUME NEW x \in Panes, panes'[x] # None
        PROVE  IsPane(panes'[x], generations, drawn', now)
    <3>1. CASE x = p
      BY <3>1, <1>2, <1>5
    <3>2. CASE x # p
      <4>1. panes'[x] = panes[x] /\ IsPane(panes[x], generations, drawn, now)
        BY <3>2, <2>1, <1>0, <1>3, TypesFacts
      <4> QED
        BY <4>1, <1>1, <1>4, PaneStays
    <3> QED
      BY <3>1, <3>2
  <2> QED
    BY <2>1, <1>0, <1>i, <1>3, <1>4 DEF Types
<1>7. Once'
  BY <1>0, <1>i DEF Once, Held
<1>8. \A x \in Panes : SameAgents(panes[x], panes'[x])
  BY <1>1, <1>2, <1>3, <1>4 DEF SameAgents
<1>9. Agented'
  <2> SUFFICES ASSUME NEW k \in DOMAIN agent_waits
               PROVE  /\ WaitFits(agent_waits[k], asked[k])
                      /\ Traces(panes', agent_waits[k], asked[k])
                      /\ \/ Awake(panes', agent_waits[k], asked[k])
                         \/ Missed(panes', overlooked, agent_waits[k])
    BY <1>i DEF Agented
  <2>1. /\ WaitFits(agent_waits[k], asked[k])
        /\ Traces(panes, agent_waits[k], asked[k])
        /\ \/ Awake(panes, agent_waits[k], asked[k])
           \/ Missed(panes, overlooked, agent_waits[k])
    BY <1>0 DEF Agented
  <2>2. agent_waits[k].subject.pane \in Panes
    BY <2>1 DEF WaitFits, AgentWaits, Subjects
  <2> QED
    BY <2>1, <2>2, <1>8, SameAwake
<1>10. Screened'
  <2> SUFFICES ASSUME NEW c \in DOMAIN capture_waits
               PROVE  /\ ScreenFits(capture_waits[c], asked[<<c, 0>>])
                      /\ capture_waits[c].generation <= generations
                      /\ capture_waits[c].cells <= drawn'
                      /\ capture_waits[c].changed_at <= now
                      /\ asked[<<c, 0>>].mark <= drawn'
                      /\ Watches(panes'[capture_waits[c].pane], capture_waits[c], asked[<<c, 0>>])
    BY <1>i DEF Screened
  <2>w. PICK w : w = capture_waits[c]
    OBVIOUS
  <2>q. PICK q : q = asked[<<c, 0>>]
    OBVIOUS
  <2>3. /\ ScreenFits(w, q)
        /\ w.generation <= generations /\ w.cells <= drawn /\ w.changed_at <= now /\ q.mark <= drawn
        /\ Watches(panes[w.pane], w, q)
    BY <1>0, <2>w, <2>q DEF Screened
  <2>4. w \in CaptureWaits /\ q \in CaptureRequests
    BY <2>3 DEF ScreenFits
  <2>5. w.seen \in Nat /\ w.cells \in Nat /\ q.mark \in Nat /\ w.pane \in Panes
    BY <2>4 DEF CaptureWaits, CaptureRequests
  <2>6. w.cells <= drawn' /\ q.mark <= drawn'
    BY <2>3, <2>5, <1>1, <1>4
  <2>7. Watches(panes'[w.pane], w, q)
    <3>1. CASE w.pane # p
      BY <3>1, <2>3, <2>5, <1>3
    <3>2. CASE w.pane = p
      <4> SUFFICES ASSUME new.generation = w.generation
                   PROVE  /\ w.seen <= new.content
                          /\ w.seen # new.content
                          /\ w.cells = new.cells => new.changed <= w.changed_at
                          /\ w.baseline # None => \A m \in new.marks : m \in w.baseline.marks \/ m > q.mark
        BY <3>2, <1>2 DEF Watches
      <4>1. /\ w.seen <= panes[p].content
            /\ w.cells = panes[p].cells => panes[p].changed <= w.changed_at
            /\ w.baseline # None => \A m \in panes[p].marks : m \in w.baseline.marks \/ m > q.mark
        BY <3>2, <2>3, <1>1, <1>3 DEF Watches
      <4>2. w.seen <= new.content /\ w.seen # new.content
        BY <4>1, <2>5, <1>3, <1>n
      <4>3. w.cells = new.cells => new.changed <= w.changed_at
        BY <4>1, <2>3, <2>5, <1>1, <1>3
      <4>4. w.baseline # None => \A m \in new.marks : m \in w.baseline.marks \/ m > q.mark
        BY <4>1, <2>3, <2>5, <1>1, <1>3
      <4> QED
        BY <4>2, <4>3, <4>4
    <3> QED
      BY <3>1, <3>2
  <2> QED
    BY <2>w, <2>q, <2>3, <2>6, <2>7
<1>11. Replied'
  BY <1>i, SilentReplies
<1> QED
  BY <1>6, <1>7, <1>9, <1>10, <1>11 DEF Inv

LEMMA PanesGood ==
  ASSUME Types
  PROVE  \A p \in Panes : panes[p] # None => GoodPane(panes[p])
BY DEF Types, IsPane, GoodPane

\* A pane that nobody looks at after it lost its agent or its program.
Ended(p, ps, subjects) ==
  /\ panes[p] # None /\ ~ panes[p].exited
  /\ ps[p] # None /\ ps[p].generation = panes[p].generation
  /\ ps[p].exited \/ ps[p].agent = None
  /\ Mentions(p) \subseteq subjects

\* What there is to say of a pane that lost its agent or its program.
LEMMA EndVerdict ==
  ASSUME NEW ps, NEW s, NEW until, ps[s.pane] # None, ps[s.pane].exited \/ ps[s.pane].agent = None
  PROVE  LET pane == ps[s.pane]
             verdict == evaluate_wait_subject(ps, s, until) IN
         /\ pane.exited \/ (pane.generation = s.generation /\ s.incarnation # 0)
              => verdict = gone_evaluation(until, "agent-gone")
         /\ until = "gone" /\ s.incarnation # 0 => verdict = gone_evaluation(until, "agent-gone")
         /\ s.incarnation = 0 /\ pane.generation # s.generation => verdict = gone_evaluation(until, "agent-gone")
         /\ ~ pane.exited /\ s.incarnation = 0 /\ pane.generation = s.generation => verdict = Pending
<1>1. Adopted(ps, s) = s
  BY DEF Adopted
<1> QED
  BY <1>1 DEF evaluate_wait_subject, evaluate_agent_wait, gone_evaluation

\* A wait that was right to sleep is so still, or the end of its pane is one
\* that nobody looked at.
LEMMA EndMissed ==
  ASSUME Types, NEW p \in Panes, NEW ps, NEW subjects, Ended(p, ps, subjects), NEW w, NEW r, NEW ov,
         w \in AgentWaits, w.subject.pane = p, r.kind = "prompt" => w.subject.incarnation # 0,
         Awake(panes, w, r) \/ Missed(panes, ov, w)
  PROVE  Awake(ps, w, r) \/ Missed(ps, ov \cup subjects, w)
<1>0. PICK s : s = w.subject
  OBVIOUS
<1>1. s \in Subjects /\ s.pane = p
  BY <1>0 DEF AgentWaits
<1>2. PICK old : old = panes[p]
  OBVIOUS
<1>3. PICK new : new = ps[p]
  OBVIOUS
<1>4. /\ old # None /\ ~ old.exited /\ GoodPane(old)
      /\ new # None /\ new.generation = old.generation /\ (new.exited \/ new.agent = None)
      /\ Mentions(p) \subseteq subjects
  BY <1>2, <1>3, PanesGood DEF Ended
<1>5. PICK before : before = evaluate_wait_subject(panes, s, w.until)
  OBVIOUS
<1>6. PICK after : after = evaluate_wait_subject(ps, s, w.until)
  OBVIOUS
<1>7. /\ new.exited \/ (new.generation = s.generation /\ s.incarnation # 0)
           => after = gone_evaluation(w.until, "agent-gone")
      /\ w.until = "gone" /\ s.incarnation # 0 => after = gone_evaluation(w.until, "agent-gone")
      /\ s.incarnation = 0 /\ new.generation # s.generation => after = gone_evaluation(w.until, "agent-gone")
      /\ ~ new.exited /\ s.incarnation = 0 /\ new.generation = s.generation => after = Pending
  BY <1>1, <1>3, <1>4, <1>6, EndVerdict
<1>8. VerdictSound(panes, s, w.until)
  BY <1>1, <1>2, <1>4, VerdictFacts
<1>9. s \in Mentions(p) => s \in ov \cup subjects
  BY <1>4
<1>10. s.incarnation # 0 /\ Names(s, old) => s \in Mentions(p)
  BY <1>1, <1>2 DEF Names, Mentions, Ref, Subjects
<1>11. s.incarnation = 0 /\ s.generation = old.generation => s \in Mentions(p)
  BY <1>1, <1>2 DEF Mentions, Subject, Subjects
<1>12. after = gone_evaluation(w.until, "agent-gone") /\ s \in Mentions(p)
         => Missed(ps, ov \cup subjects, w)
  BY <1>0, <1>6, <1>9 DEF Missed
<1>13. after = Pending => Awake(ps, w, r)
  BY <1>0, <1>6 DEF Awake, Pending
<1>14. CASE Missed(panes, ov, w)
  <2>1. s \in ov /\ before = gone_evaluation(w.until, "agent-gone")
    BY <1>0, <1>5, <1>14 DEF Missed
  <2>2. CASE s.incarnation = 0
    <3>1. s.generation = old.generation => s \in Mentions(p)
      BY <2>2, <1>11
    <3>2. after = gone_evaluation(w.until, "agent-gone") \/ after = Pending
      BY <2>2, <1>7
    <3> QED
      BY <3>2, <2>1, <1>0, <1>6, <1>13 DEF Missed
  <2>3. CASE s.incarnation # 0
    <3>1. w.until = "gone" \/ old.generation = s.generation
      <4>1. Adopted(panes, s) = s
        BY <2>3 DEF Adopted
      <4>2. before = evaluate_agent_wait(panes, s, w.until)
        BY <4>1, <2>3, <1>5 DEF evaluate_wait_subject
      <4> QED
        BY <4>2, <2>1, <1>1, <1>2, <1>4 DEF evaluate_agent_wait, gone_evaluation, Error
    <3>2. after = gone_evaluation(w.until, "agent-gone")
      BY <3>1, <2>3, <1>4, <1>7
    <3> QED
      BY <3>2, <2>1, <1>0, <1>6 DEF Missed
  <2> QED
    BY <2>2, <2>3
<1>15. CASE before.end = "pending"
  <2>1. CASE s.incarnation # 0
    <3>1. Names(s, old)
      BY <2>1, <1>1, <1>2, <1>5, <1>8, <1>15 DEF VerdictSound
    <3>2. after = gone_evaluation(w.until, "agent-gone")
      BY <3>1, <2>1, <1>4, <1>7 DEF Names
    <3> QED
      BY <3>1, <3>2, <2>1, <1>10, <1>12
  <2>2. CASE s.incarnation = 0
    <3>1. s.generation = old.generation
      <4>1. ASSUME s.generation # old.generation PROVE FALSE
        <5>1. Adopted(panes, s) = s
          BY <4>1, <1>1, <1>2 DEF Adopted
        <5>2. before = gone_evaluation(w.until, "agent-gone")
          BY <5>1, <4>1, <2>2, <1>1, <1>2, <1>5 DEF evaluate_wait_subject
        <5> QED
          BY <5>2, <1>15 DEF gone_evaluation, Ready, Error
      <4> QED
        BY <4>1
    <3>2. after = gone_evaluation(w.until, "agent-gone") \/ after = Pending
      BY <3>1, <2>2, <1>4, <1>7
    <3> QED
      BY <3>1, <3>2, <2>2, <1>11, <1>12, <1>13
  <2> QED
    BY <2>1, <2>2
<1>16. CASE before.end = "ready" /\ r.kind = "prompt" /\ ~ Departed(r) /\ s.incarnation # 0
  <2>1. CASE before.agent = None
    <3>1. w.until = "gone"
      BY <2>1, <1>5, <1>8, <1>16 DEF VerdictSound
    <3>2. after.end = "ready"
      BY <3>1, <1>7, <1>16 DEF gone_evaluation, Ready
    <3> QED
      BY <3>2, <1>0, <1>6, <1>16 DEF Awake
  <2>2. CASE before.agent # None
    <3>1. Names(s, old)
      BY <2>2, <1>1, <1>2, <1>5, <1>8, <1>16 DEF VerdictSound
    <3>2. after = gone_evaluation(w.until, "agent-gone")
      BY <3>1, <1>4, <1>7, <1>16 DEF Names
    <3> QED
      BY <3>1, <3>2, <1>10, <1>12, <1>16
  <2> QED
    BY <2>1, <2>2
<1> QED
  BY <1>0, <1>5, <1>14, <1>15, <1>16 DEF Awake

\* A change that nobody looks at.
LEMMA QuietKeeps ==
  ASSUME Inv, NEW ps, NEW subjects, Quietly(ps, subjects), Changed(ps),
         \A p \in Panes : SameAgents(panes[p], ps[p]) \/ Ended(p, ps, subjects)
  PROVE  Inv'
<1>0. Types /\ Once /\ Agented /\ Screened
  BY DEF Inv
<1>i. /\ panes' = ps /\ overlooked' = overlooked \cup subjects
      /\ UNCHANGED <<conn, agent_waits, capture_waits, now, asked>>
      /\ Silent /\ answers' = answers
  BY DEF Quietly, Silent
<1>3. generations \in Nat /\ drawn \in Nat /\ now \in Nat
  BY <1>0 DEF Types
<1>4. Types'
  <2>1. \A p \in Panes : ps[p] # None => IsPane(ps[p], generations', drawn', now)
    BY <1>i DEF Changed
  <2> QED
    BY <2>1, <1>0, <1>i DEF Types, Changed
<1>5. Once'
  BY <1>0, <1>i DEF Once, Held
<1>6. Agented'
  <2> SUFFICES ASSUME NEW k \in DOMAIN agent_waits
               PROVE  /\ WaitFits(agent_waits[k], asked[k])
                      /\ Traces(ps, agent_waits[k], asked[k])
                      /\ \/ Awake(ps, agent_waits[k], asked[k])
                         \/ Missed(ps, overlooked \cup subjects, agent_waits[k])
    BY <1>i DEF Agented
  <2>w. PICK w : w = agent_waits[k]
    OBVIOUS
  <2>r. PICK r : r = asked[k]
    OBVIOUS
  <2>1. /\ WaitFits(w, r) /\ Traces(panes, w, r)
        /\ Awake(panes, w, r) \/ Missed(panes, overlooked, w)
    BY <1>0, <2>w, <2>r DEF Agented
  <2>p. PICK p : p = w.subject.pane
    OBVIOUS
  <2>2. /\ w \in AgentWaits /\ w.subject \in Subjects /\ p \in Panes
        /\ r.kind = "prompt" => w.subject.incarnation # 0
    BY <2>1, <2>p DEF WaitFits, AgentWaits, Subjects
  <2>3. CASE SameAgents(panes[p], ps[p])
    <3>1. /\ Traces(ps, w, r)
          /\ Awake(ps, w, r) \/ Missed(ps, overlooked, w)
      BY <2>1, <2>3, <2>p, SameAwake
    <3> QED
      BY <3>1, <2>1, <2>w, <2>r DEF Missed
  <2>4. CASE Ended(p, ps, subjects)
    <3>1. Awake(ps, w, r) \/ Missed(ps, overlooked \cup subjects, w)
      BY <1>0, <2>1, <2>2, <2>4, <2>p, EndMissed
    <3>2. Names(w.subject, ps[p]) => Names(w.subject, panes[p]) /\ ps[p].agent = panes[p].agent
      <4>1. ps[p] # None /\ ps[p].exited => Follows(panes[p], ps[p], generations, drawn)
        BY <2>2 DEF Changed
      <4>2. ps[p] # None /\ ps[p].exited => ps[p].agent = panes[p].agent
        BY <4>1 DEF Follows
      <4> QED
        BY <4>2, <2>4 DEF Ended, Names
    <3>3. Traces(ps, w, r)
      BY <3>2, <2>1, <2>p DEF Traces
    <3> QED
      BY <3>1, <3>3, <2>1, <2>w, <2>r
  <2> QED
    BY <2>2, <2>3, <2>4
<1>7. Screened'
  <2> SUFFICES ASSUME NEW c \in DOMAIN capture_waits
               PROVE  /\ ScreenFits(capture_waits[c], asked[<<c, 0>>])
                      /\ capture_waits[c].generation <= generations'
                      /\ capture_waits[c].cells <= drawn'
                      /\ capture_waits[c].changed_at <= now
                      /\ asked[<<c, 0>>].mark <= drawn'
                      /\ Watches(ps[capture_waits[c].pane], capture_waits[c], asked[<<c, 0>>])
    BY <1>i DEF Screened
  <2>w. PICK w : w = capture_waits[c]
    OBVIOUS
  <2>q. PICK q : q = asked[<<c, 0>>]
    OBVIOUS
  <2>3. /\ ScreenFits(w, q)
        /\ w.generation <= generations /\ w.cells <= drawn /\ w.changed_at <= now /\ q.mark <= drawn
        /\ Watches(panes[w.pane], w, q)
    BY <1>0, <2>w, <2>q DEF Screened
  <2>4. w \in CaptureWaits /\ q \in CaptureRequests
    BY <2>3 DEF ScreenFits
  <2>5. w.generation \in Nat /\ w.cells \in Nat /\ q.mark \in Nat
    BY <2>4 DEF CaptureWaits, CaptureRequests
  <2>6. w.generation <= generations' /\ w.cells <= drawn' /\ q.mark <= drawn'
    BY <2>3, <2>5, <1>3 DEF Changed
  <2>7. Watches(ps[w.pane], w, q)
    BY <1>0, <2>3, <2>4, WatchesGoOn
  <2> QED
    BY <2>w, <2>q, <2>3, <2>6, <2>7
<1>8. Replied'
  BY <1>i, SilentReplies
<1> QED
  BY <1>4, <1>5, <1>6, <1>7, <1>8 DEF Inv

LEMMA ApplyAgentDefinitionsKeeps ==
  ASSUME Inv, apply_agent_definitions
  PROVE  Inv'
<1>0. Types /\ \A ref \in issued : ref \in Subjects /\ ref.incarnation # 0
  BY DEF Inv, Types
<1>1. PICK cleared \in SUBSET {p \in Panes : Running(p) /\ panes[p].agent # None} :
      \E found \in SUBSET {p \in Panes : Running(p) /\ (p \in cleared \/ panes[p].agent = None)} :
      \E states \in [found -> States] :
        LET n(p) == panes[p].incarnations + 1
            agent(p) == [incarnation |-> n(p), generation |-> panes[p].generation,
                         state |-> states[p], visible |-> TRUE]
            ps == [p \in Panes |->
                     IF p \in found THEN [panes[p] EXCEPT !.agent = agent(p), !.incarnations = n(p)]
                     ELSE IF p \in cleared THEN [panes[p] EXCEPT !.agent = None]
                     ELSE panes[p]]
        IN /\ issued' = issued \cup {Ref(p, ps[p]) : p \in found}
           /\ \/ Becomes(ps)
              \/ found = {} /\ Quietly(ps, UNION {Mentions(p) : p \in cleared})
  BY Zenon DEF apply_agent_definitions
<1>2. PICK found \in SUBSET {p \in Panes : Running(p) /\ (p \in cleared \/ panes[p].agent = None)} :
      \E states \in [found -> States] :
        LET n(p) == panes[p].incarnations + 1
            agent(p) == [incarnation |-> n(p), generation |-> panes[p].generation,
                         state |-> states[p], visible |-> TRUE]
            ps == [p \in Panes |->
                     IF p \in found THEN [panes[p] EXCEPT !.agent = agent(p), !.incarnations = n(p)]
                     ELSE IF p \in cleared THEN [panes[p] EXCEPT !.agent = None]
                     ELSE panes[p]]
        IN /\ issued' = issued \cup {Ref(p, ps[p]) : p \in found}
           /\ \/ Becomes(ps)
              \/ found = {} /\ Quietly(ps, UNION {Mentions(p) : p \in cleared})
  BY <1>1, Zenon
<1>3. PICK states \in [found -> States] :
        LET n(p) == panes[p].incarnations + 1
            agent(p) == [incarnation |-> n(p), generation |-> panes[p].generation,
                         state |-> states[p], visible |-> TRUE]
            ps == [p \in Panes |->
                     IF p \in found THEN [panes[p] EXCEPT !.agent = agent(p), !.incarnations = n(p)]
                     ELSE IF p \in cleared THEN [panes[p] EXCEPT !.agent = None]
                     ELSE panes[p]]
        IN /\ issued' = issued \cup {Ref(p, ps[p]) : p \in found}
           /\ \/ Becomes(ps)
              \/ found = {} /\ Quietly(ps, UNION {Mentions(p) : p \in cleared})
  BY <1>2, Zenon
<1> DEFINE agent(p) == [incarnation |-> panes[p].incarnations + 1, generation |-> panes[p].generation,
                        state |-> states[p], visible |-> TRUE]
<1>4. PICK ps : ps = [p \in Panes |->
                 IF p \in found
                 THEN [panes[p] EXCEPT !.agent = agent(p), !.incarnations = panes[p].incarnations + 1]
                 ELSE IF p \in cleared THEN [panes[p] EXCEPT !.agent = None]
                 ELSE panes[p]]
  OBVIOUS
<1>5. /\ issued' = issued \cup {Ref(p, ps[p]) : p \in found}
      /\ \/ Becomes(ps)
         \/ found = {} /\ Quietly(ps, UNION {Mentions(p) : p \in cleared})
  BY <1>3, <1>4
<1>6. /\ generations \in Nat /\ drawn \in Nat /\ now \in Nat
      /\ generations' = generations /\ drawn' = drawn /\ now' = now
  BY <1>0, <1>5, TypesFacts DEF apply_agent_definitions, Becomes, Quietly
<1>7. ASSUME NEW p \in Panes, ps[p] # None
      PROVE  /\ IsPane(ps[p], generations, drawn, now) /\ Follows(panes[p], ps[p], generations, drawn)
             /\ p \in found => Ref(p, ps[p]) \in Subjects /\ Ref(p, ps[p]).incarnation # 0
  <2>1. CASE p \in found
    <3>1. /\ panes[p] # None /\ ~ panes[p].exited
          /\ IsPane(panes[p], generations, drawn, now) /\ panes[p] \in PaneStates
      BY <2>1, <1>0, TypesFacts DEF Running
    <3>2. panes[p].incarnations \in Nat /\ panes[p].generation \in Nat
      BY <3>1 DEF PaneStates
    <3>a. PICK new : new = agent(p)
      OBVIOUS
    <3>3. /\ new \in Agents /\ new.incarnation >= 1 /\ new.incarnation \in Nat
          /\ new.generation = panes[p].generation
      BY <2>1, <3>2, <3>a DEF Agents
    <3>4. ps[p] = [panes[p] EXCEPT !.agent = new, !.incarnations = panes[p].incarnations + 1]
      BY <2>1, <3>a, <1>4
    <3>5. /\ ps[p] \in PaneStates /\ ps[p].agent = new /\ ps[p].generation = panes[p].generation
          /\ ps[p].exited = panes[p].exited /\ ps[p].marks = panes[p].marks
          /\ ps[p].cells = panes[p].cells /\ ps[p].changed = panes[p].changed
          /\ ps[p].content = panes[p].content /\ ps[p].epoch = panes[p].epoch
      <4>1. ps[p] = [generation |-> panes[p].generation, exited |-> panes[p].exited, agent |-> new,
                     incarnations |-> panes[p].incarnations + 1, content |-> panes[p].content,
                     cells |-> panes[p].cells, marks |-> panes[p].marks, epoch |-> panes[p].epoch,
                     changed |-> panes[p].changed, heirs |-> panes[p].heirs]
        BY <3>1, <3>4 DEF PaneStates
      <4>2. /\ panes[p].exited \in BOOLEAN /\ panes[p].content \in Nat /\ panes[p].cells \in Nat
            /\ panes[p].marks \subseteq Nat /\ panes[p].epoch \in Nat /\ panes[p].changed \in Nat
            /\ panes[p].heirs \in 0 .. 2
        BY <3>1 DEF PaneStates
      <4> QED
        BY <4>1, <4>2, <3>2, <3>3 DEF PaneStates
    <3>6. new # None
      BY <3>3, WaitsAssumption
    <3>7. IsPane(ps[p], generations, drawn, now) /\ Follows(panes[p], ps[p], generations, drawn)
      BY <3>1, <3>3, <3>5, <3>6 DEF IsPane, Follows, SameScreen
    <3> QED
      BY <2>1, <3>2, <3>3, <3>5, <3>7 DEF Ref, Subjects
  <2>2. CASE p \notin found /\ p \in cleared
    <3>1. /\ panes[p] # None /\ ~ panes[p].exited
          /\ IsPane(panes[p], generations, drawn, now) /\ panes[p] \in PaneStates
      BY <2>2, <1>0, TypesFacts DEF Running
    <3>2. ps[p] = [panes[p] EXCEPT !.agent = None]
      BY <2>2, <1>4
    <3>3. /\ ps[p] \in PaneStates /\ ps[p].agent = None /\ ps[p].generation = panes[p].generation
          /\ ps[p].exited = panes[p].exited /\ ps[p].marks = panes[p].marks
          /\ ps[p].cells = panes[p].cells /\ ps[p].changed = panes[p].changed
          /\ ps[p].content = panes[p].content /\ ps[p].epoch = panes[p].epoch
      BY <3>1, <3>2 DEF PaneStates
    <3> QED
      BY <3>1, <3>3, <2>2 DEF IsPane, Follows, SameScreen
  <2>3. CASE p \notin found /\ p \notin cleared
    <3>1. ps[p] = panes[p] /\ IsPane(panes[p], generations, drawn, now)
      BY <2>3, <1>0, <1>4, <1>7, TypesFacts
    <3> QED
      BY <3>1, <2>3, <1>6, PaneStays
  <2> QED
    BY <2>1, <2>2, <2>3
<1>8. ASSUME NEW ref \in issued' PROVE ref \in Subjects /\ ref.incarnation # 0
  <2>1. CASE ref \in issued
    BY <2>1, <1>0
  <2>2. CASE ref \in {Ref(p, ps[p]) : p \in found}
    <3>1. PICK p \in found : ref = Ref(p, ps[p])
      BY <2>2
    <3>2. p \in Panes /\ panes[p] # None /\ panes[p] \in PaneStates
      BY <1>0, TypesFacts DEF Running
    <3>3. ps[p] # None
      <4>1. ps[p].generation = panes[p].generation /\ ps[p] \in PaneStates
        <5>1. panes[p].incarnations + 1 \in Nat /\ panes[p].generation \in Nat
          BY <3>2 DEF PaneStates
        <5>2. PICK new : new = agent(p)
          OBVIOUS
        <5>3. new \in Agents
          BY <5>1, <5>2, <3>2 DEF Agents
        <5>4. ps[p] = [panes[p] EXCEPT !.agent = new, !.incarnations = panes[p].incarnations + 1]
          BY <3>2, <5>2, <1>4
        <5> QED
          BY <5>1, <5>3, <5>4, <3>2 DEF PaneStates
      <4> QED
        BY <4>1, WaitsAssumption
    <3> QED
      BY <3>1, <3>2, <3>3, <1>7
  <2> QED
    BY <2>1, <2>2, <1>5
<1>9. Changed(ps)
  <2>1. DOMAIN ps = Panes
    BY <1>4
  <2>2. ASSUME NEW p \in Panes, ps[p] # None
        PROVE  IsPane(ps[p], generations', drawn', now') /\ Follows(panes[p], ps[p], generations, drawn)
    BY <2>2, <1>6, <1>7
  <2> QED
    BY <2>1, <2>2, <1>6, <1>8 DEF Changed
<1>10. CASE Becomes(ps)
  BY <1>9, <1>10, BecomesKeeps
<1>11. CASE found = {} /\ Quietly(ps, UNION {Mentions(p) : p \in cleared})
  <2>1. ASSUME NEW p \in Panes, p \in cleared
        PROVE  Ended(p, ps, UNION {Mentions(x) : x \in cleared})
    <3>1. /\ panes[p] # None /\ ~ panes[p].exited /\ panes[p] \in PaneStates
          /\ ps[p] = [panes[p] EXCEPT !.agent = None]
      BY <2>1, <1>0, <1>4, <1>11, TypesFacts DEF Running
    <3>2. ps[p] # None /\ ps[p].generation = panes[p].generation /\ ps[p].agent = None
      <4>1. ps[p] \in PaneStates /\ ps[p].generation = panes[p].generation /\ ps[p].agent = None
        BY <3>1 DEF PaneStates
      <4> QED
        BY <4>1, WaitsAssumption
    <3>3. Mentions(p) \subseteq UNION {Mentions(x) : x \in cleared}
      BY <2>1
    <3> QED
      BY <3>1, <3>2, <3>3 DEF Ended
  <2>2. ASSUME NEW p \in Panes, p \notin cleared
        PROVE  SameAgents(panes[p], ps[p])
    BY <2>2, <1>4, <1>11 DEF SameAgents
  <2> QED
    BY <2>1, <2>2, <1>9, <1>11, QuietKeeps
<1> QED
  BY <1>5, <1>10, <1>11

LEMMA KeepOpenKeeps ==
  ASSUME Inv, NEW p \in Panes, replace_with_keep_open_shell(p)
  PROVE  Inv'
<1>0. Types /\ \A ref \in issued : ref \in Subjects /\ ref.incarnation # 0
  BY DEF Inv, Types
<1>1. /\ generations \in Nat /\ drawn \in Nat /\ now \in Nat /\ DOMAIN panes = Panes
      /\ panes[p] # None /\ ~ panes[p].exited
      /\ IsPane(panes[p], generations, drawn, now) /\ panes[p] \in PaneStates
      /\ drawn' = drawn + 1 /\ generations' = generations /\ issued' = issued
  BY <1>0, TypesFacts DEF replace_with_keep_open_shell, Running
<1>2. PICK pane \in Drawings(panes[p]) :
       LET attached == [pane EXCEPT !.heirs = 1]
           shell == [pane EXCEPT !.heirs = 0, !.agent = None]
           dead == [pane EXCEPT !.exited = TRUE]
       IN \E next \in {shell, dead} \cup (IF pane.heirs = 2 THEN {attached} ELSE {}) :
            LET ps == [panes EXCEPT ![p] = next] IN
            Becomes(ps) \/ Quietly(ps, IF next = attached THEN {} ELSE Mentions(p))
  BY Zenon DEF replace_with_keep_open_shell
<1>3. /\ pane \in PaneStates /\ Drew(panes[p], pane, drawn) /\ pane.changed = now
      /\ pane.generation = panes[p].generation /\ pane.exited = panes[p].exited
      /\ pane.agent = panes[p].agent
  BY <1>1, DrawingFacts
<1>a. PICK attached : attached = [pane EXCEPT !.heirs = 1]
  OBVIOUS
<1>4. PICK next \in {[pane EXCEPT !.heirs = 0, !.agent = None], [pane EXCEPT !.exited = TRUE], attached} :
        LET ps == [panes EXCEPT ![p] = next] IN
        Becomes(ps) \/ Quietly(ps, IF next = attached THEN {} ELSE Mentions(p))
  BY <1>2, <1>a
<1>c. PICK ps : ps = [panes EXCEPT ![p] = next]
  OBVIOUS
<1>b. Becomes(ps) \/ Quietly(ps, IF next = attached THEN {} ELSE Mentions(p))
  BY <1>4, <1>c
<1>5. DOMAIN ps = Panes /\ ps[p] = next /\ \A x \in Panes : x # p => ps[x] = panes[x]
  BY <1>1, <1>c
<1>10. now' = now
  BY <1>b DEF Becomes, Quietly
<1>6. /\ next \in PaneStates /\ next.generation = panes[p].generation
      /\ next.marks = pane.marks /\ next.cells = pane.cells /\ next.changed = pane.changed
      /\ next.content = pane.content
      /\ next.exited => next.agent = panes[p].agent
      /\ next.agent \in {panes[p].agent, None}
      /\ next = attached => next.exited = panes[p].exited /\ next.agent = panes[p].agent
      /\ next # attached => next.exited \/ next.agent = None
  <2>1. CASE next = [pane EXCEPT !.heirs = 0, !.agent = None]
    <3>1. next.heirs = 0 /\ attached.heirs = 1
      BY <2>1, <1>3, <1>a DEF PaneStates
    <3>2. next = [generation |-> pane.generation, exited |-> pane.exited, agent |-> None,
                  incarnations |-> pane.incarnations, content |-> pane.content, cells |-> pane.cells,
                  marks |-> pane.marks, epoch |-> pane.epoch, changed |-> pane.changed, heirs |-> 0]
      BY <2>1, <1>3 DEF PaneStates
    <3>3. next \in PaneStates
      BY <3>2, <1>3 DEF PaneStates
    <3>4. ~ next.exited /\ next.agent = None /\ next # attached
      BY <3>1, <3>2, <1>1, <1>3
    <3> QED
      BY <3>2, <3>3, <3>4, <1>3
  <2>2. CASE next = [pane EXCEPT !.exited = TRUE]
    <3>1. next.exited = TRUE /\ attached.exited = pane.exited
      BY <2>2, <1>3, <1>a DEF PaneStates
    <3> QED
      BY <2>2, <3>1, <1>1, <1>3 DEF PaneStates
  <2>3. CASE next = attached
    BY <2>3, <1>1, <1>3, <1>a DEF PaneStates
  <2> QED
    BY <2>1, <2>2, <2>3, <1>4
<1>7. next # None /\ Drew(panes[p], next, drawn)
  BY <1>3, <1>6, WaitsAssumption DEF Drew
<1>8. IsPane(next, generations, drawn', now) /\ Follows(panes[p], next, generations, drawn)
  <2>1. \A m \in next.marks : m >= 1 /\ m <= drawn'
    <3>1. \A m \in panes[p].marks : m \in Nat /\ m >= 1 /\ m <= drawn
      BY <1>1 DEF IsPane, PaneStates
    <3> QED
      BY <3>1, <1>1, <1>7 DEF Drew
  <2>2. next.cells <= drawn' /\ next.changed <= now
    BY <1>1, <1>3, <1>6, <1>7 DEF Drew
  <2> QED
    BY <2>1, <2>2, <1>1, <1>6, <1>7 DEF IsPane, Follows
<1>9. ASSUME NEW x \in Panes, ps[x] # None
      PROVE  IsPane(ps[x], generations', drawn', now) /\ Follows(panes[x], ps[x], generations, drawn)
  <2>1. CASE x = p
    BY <2>1, <1>1, <1>5, <1>8, <1>10
  <2>2. CASE x # p
    <3>1. ps[x] = panes[x] /\ IsPane(panes[x], generations, drawn, now)
      BY <2>2, <1>0, <1>5, <1>9, TypesFacts
    <3>2. drawn <= drawn' /\ drawn' \in Nat
      BY <1>1
    <3>3. IsPane(panes[x], generations, drawn', now) /\ Follows(panes[x], panes[x], generations, drawn)
      BY <3>1, <3>2, <1>1, PaneStays
    <3> QED
      BY <3>1, <3>3, <1>1, <1>10
  <2> QED
    BY <2>1, <2>2
<1>11. Changed(ps)
  BY <1>0, <1>1, <1>5, <1>9, <1>10 DEF Changed
<1>12. CASE Becomes(ps)
  BY <1>11, <1>12, BecomesKeeps
<1>13. CASE Quietly(ps, IF next = attached THEN {} ELSE Mentions(p))
  <2>1. PICK subjects : subjects = IF next = attached THEN {} ELSE Mentions(p)
    OBVIOUS
  <2>2. ASSUME NEW x \in Panes
        PROVE  SameAgents(panes[x], ps[x]) \/ Ended(x, ps, subjects)
    <3>1. CASE x # p
      BY <3>1, <1>1, <1>5 DEF SameAgents
    <3>2. CASE x = p /\ next = attached
      BY <3>2, <1>1, <1>5, <1>6, <1>7 DEF SameAgents
    <3>3. CASE x = p /\ next # attached
      BY <3>3, <2>1, <1>1, <1>5, <1>6, <1>7 DEF Ended
    <3> QED
      BY <3>1, <3>2, <3>3
  <2>3. Quietly(ps, subjects)
    BY <2>1, <1>13
  <2> QED
    BY <2>2, <2>3, <1>11, QuietKeeps
<1> QED
  BY <1>b, <1>12, <1>13

\* The screens stay and no wait is touched while the clock may go on.
LEMMA IdleKeeps ==
  ASSUME Inv, Silent, UNCHANGED <<world, conn, agent_waits, capture_waits, asked>>,
         now' \in Nat, now' >= now
  PROVE  Inv'
<1>0. Types /\ Once /\ Agented /\ Screened
  BY DEF Inv
<1>i. /\ UNCHANGED <<panes, generations, drawn, issued, overlooked, conn, agent_waits, capture_waits, asked>>
      /\ answers' = answers
  BY DEF world, Silent
<1>1. now \in Nat
  BY <1>0 DEF Types
<1>2. Types'
  <2>1. ASSUME NEW x \in Panes, panes[x] # None
        PROVE  IsPane(panes[x], generations, drawn, now')
    <3>1. IsPane(panes[x], generations, drawn, now) /\ panes[x].changed \in Nat
      BY <2>1, <1>0, TypesFacts DEF PaneStates
    <3> QED
      BY <3>1, <1>1 DEF IsPane
  <2> QED
    BY <2>1, <1>0, <1>i DEF Types
<1>3. Once'
  BY <1>0, <1>i DEF Once, Held
<1>4. Agented'
  BY <1>0, <1>i DEF Agented
<1>5. Screened'
  <2>1. ASSUME NEW c \in DOMAIN capture_waits
        PROVE  capture_waits[c].changed_at <= now'
    <3>1. capture_waits[c].changed_at <= now /\ capture_waits[c].changed_at \in Nat
      BY <1>0 DEF Screened, ScreenFits, CaptureWaits
    <3> QED
      BY <3>1, <1>1
  <2> QED
    BY <2>1, <1>0, <1>i DEF Screened
<1>6. Replied'
  BY SilentReplies
<1> QED
  BY <1>2, <1>3, <1>4, <1>5, <1>6 DEF Inv

LEMMA StallKeeps ==
  ASSUME Inv, NEW c \in Clients, Stall(c)
  PROVE  Inv'
<1>1. now' \in Nat /\ now' >= now
  BY DEF Inv, Types, Stall
<1> QED
  BY <1>1, IdleKeeps DEF Stall

LEMMA TickKeeps ==
  ASSUME Inv, Tick
  PROVE  Inv'
<1>1. now' \in Nat /\ now' >= now
  BY DEF Inv, Types, Tick
<1> QED
  BY <1>1, IdleKeeps DEF Tick

LEMMA StutterKeeps ==
  ASSUME Inv, UNCHANGED vars
  PROVE  Inv'
<1>0. Types /\ Once /\ Agented /\ Screened /\ Replied
  BY DEF Inv
<1>i. UNCHANGED <<panes, generations, drawn, issued, overlooked, conn, stalled, agent_waits,
                  capture_waits, now, events, asked, answers, reply>>
  BY DEF vars, world
<1>1. Types'
  BY <1>0, <1>i DEF Types
<1>2. Once'
  BY <1>0, <1>i DEF Once, Held
<1>3. Agented'
  BY <1>0, <1>i DEF Agented
<1>4. Screened'
  BY <1>0, <1>i DEF Screened
<1>5. Replied'
  BY <1>0, <1>i DEF Replied, PromptAnswerFresh, ExactAgent, ScreenAnswers, SettledQuiet,
     LastOutputCounts, SendAnswerFresh, Counts, Succeeded, Answered, Running, Resolves
<1> QED
  BY <1>1, <1>2, <1>3, <1>4, <1>5 DEF Inv

LEMMA RemoveClientKeeps ==
  ASSUME Inv, NEW c \in Clients, remove_client(c)
  PROVE  Inv'
<1>0. Types /\ Once /\ Agented /\ Screened
  BY DEF Inv
<1>i. /\ UNCHANGED <<panes, generations, drawn, issued, overlooked, now>>
      /\ Silent /\ answers' = answers
      /\ conn' = [conn EXCEPT ![c] = "gone"]
      /\ DOMAIN asked' = Keys
      /\ \A k \in Keys : asked'[k] = IF k[1] = c /\ asked[k] # None THEN Closed ELSE asked[k]
  BY DEF remove_client, world, Silent
<1>1. /\ DOMAIN agent_waits' = DOMAIN agent_waits \ KeysOf({c})
      /\ \A k \in DOMAIN agent_waits' : agent_waits'[k] = agent_waits[k]
      /\ DOMAIN capture_waits' = DOMAIN capture_waits \ {c}
      /\ \A d \in DOMAIN capture_waits' : capture_waits'[d] = capture_waits[d]
  BY DEF remove_client, Restrict
<1>2. /\ DOMAIN agent_waits \subseteq Keys /\ DOMAIN capture_waits \subseteq Headless
      /\ conn \in [Clients -> {"open", "closing", "gone"}]
  BY <1>0 DEF Types
<1>3. Types'
  BY <1>0, <1>i, <1>1, <1>2 DEF Types
<1>4. Once'
  <2> SUFFICES ASSUME NEW k \in Keys
               PROVE  OneKey(k, asked'[k], Held(k)', answers[k], conn'[k[1]])
    BY <1>i DEF Once
  <2>1. OneKey(k, asked[k], Held(k), answers[k], conn[k[1]])
    BY <1>0 DEF Once
  <2>2. CASE k[1] = c
    <3>1. ~ Held(k)' /\ conn'[k[1]] = "gone"
      BY <2>2, <1>1, <1>2, <1>i DEF Held, KeysOf
    <3>2. asked'[k] = IF asked[k] # None THEN Closed ELSE None
      BY <2>2, <1>i
    <3> QED
      BY <2>1, <3>1, <3>2, WaitsAssumption DEF OneKey
  <2>3. CASE k[1] # c
    <3>1. /\ Held(k)' <=> Held(k)
          /\ conn'[k[1]] = conn[k[1]] /\ asked'[k] = asked[k]
      BY <2>3, <1>1, <1>2, <1>i, KeyFacts DEF Held, KeysOf
    <3> QED
      BY <2>1, <3>1 DEF OneKey
  <2> QED
    BY <2>2, <2>3
<1>5. \A k \in DOMAIN agent_waits' : k \in DOMAIN agent_waits /\ asked'[k] = asked[k]
  BY <1>1, <1>2, <1>i DEF KeysOf
<1>6. \A d \in DOMAIN capture_waits' : d \in DOMAIN capture_waits /\ asked'[<<d, 0>>] = asked[<<d, 0>>]
  BY <1>1, <1>2, <1>i, HeadlessKey
<1>7. Agented'
  BY <1>0, <1>1, <1>5, <1>i DEF Agented
<1>8. Screened'
  BY <1>0, <1>1, <1>6, <1>i DEF Screened
<1>9. Replied'
  BY <1>i, SilentReplies
<1> QED
  BY <1>3, <1>4, <1>7, <1>8, <1>9 DEF Inv

----------------------------------------------------------------------------
(* Requests                                                                *)

\* A request that nobody made yet is neither held nor answered.
LEMMA UnaskedFacts ==
  ASSUME Inv, NEW key \in Keys, Unasked(key)
  PROVE  /\ conn[key[1]] = "open" /\ asked[key] = None
         /\ ~ Held(key) /\ answers[key] = 0
BY DEF Inv, Once, OneKey, Unasked

\* A request that is answered at once.
LEMMA AnswersKeeps ==
  ASSUME Inv, NEW key \in Keys, NEW request, NEW answer, Unasked(key), Asks,
         Answers(key, request, answer), request # None, ReplyFits(request, answer, panes)
  PROVE  Inv'
<1>0. Types /\ Once /\ Agented /\ Screened
  BY DEF Inv
<1>i. UNCHANGED <<panes, generations, drawn, issued, overlooked, now>>
  BY DEF Asks, world
<1>1. PICK requests : requests = Asking(key, request)
  OBVIOUS
<1>2. PICK done : done = Single(key, answer)
  OBVIOUS
<1>3. answer_held(requests, done, agent_waits, capture_waits)
  BY <1>1, <1>2 DEF Answers
<1>4. DOMAIN done = {key} /\ done[key] = answer
  BY <1>2 DEF Single
<1>5. /\ DOMAIN agent_waits \subseteq Keys /\ DOMAIN capture_waits \subseteq Headless
      /\ DOMAIN asked = Keys
  BY <1>0 DEF Types
<1>6. requests[key] = request /\ \A k \in Keys : k # key => requests[k] = asked[k]
  BY <1>1, <1>5 DEF Asking
<1>7. conn[key[1]] = "open" /\ answers[key] = 0 /\ ~ Held(key)
  BY UnaskedFacts
<1>8. \A k \in DOMAIN done : requests[k] # None /\ conn[k[1]] = "open" /\ answers[k] = 0
  BY <1>4, <1>6, <1>7
<1>9. \A k \in Keys \ DOMAIN done :
        OneKey(k, requests[k], HeldIn(k, agent_waits, capture_waits), answers[k], conn[k[1]])
  BY <1>0, <1>4, <1>6 DEF Once, Held, HeldIn
<1>10. DOMAIN done \subseteq Keys
  BY <1>4
<1>14. /\ Once'
       /\ conn' \in [Clients -> {"open", "closing", "gone"}]
       /\ DOMAIN answers' = Keys
       /\ DOMAIN asked' = Keys
       /\ DOMAIN agent_waits' \subseteq Keys
       /\ DOMAIN capture_waits' \subseteq Headless
       /\ \A k \in DOMAIN agent_waits' :
            /\ k \in DOMAIN agent_waits \ DOMAIN done /\ agent_waits'[k] = agent_waits[k]
            /\ asked'[k] = requests[k]
       /\ \A c \in DOMAIN capture_waits' :
            /\ c \in DOMAIN capture_waits /\ <<c, 0>> \notin DOMAIN done
            /\ capture_waits'[c] = capture_waits[c] /\ asked'[<<c, 0>>] = requests[<<c, 0>>]
  BY <1>0, <1>3, <1>5, <1>8, <1>9, <1>10, OnceAnswered
<1>15. Types'
  BY <1>14, <1>0, <1>i DEF Types
<1>16. \A k \in DOMAIN agent_waits' : asked'[k] = asked[k]
  BY <1>14, <1>4, <1>5, <1>6
<1>17. \A c \in DOMAIN capture_waits' : asked'[<<c, 0>>] = asked[<<c, 0>>]
  BY <1>14, <1>4, <1>5, <1>6, HeadlessKey
<1>18. Agented'
  BY <1>0, <1>14, <1>16, <1>i DEF Agented
<1>19. Screened'
  BY <1>0, <1>14, <1>17, <1>i DEF Screened
<1>20. Replied'
  BY <1>3, <1>4, <1>6, <1>i, AnswerReplies
<1> QED
  BY <1>14, <1>15, <1>18, <1>19, <1>20 DEF Inv

\* A request that is held.
LEMMA HoldsKeeps ==
  ASSUME Inv, NEW key \in Keys, NEW request, NEW q, NEW wait, Unasked(key), Asks,
         Holds(key, request, wait),
         q = [request EXCEPT !.trail = Trail(wait.subject)],
         WaitFits(wait, q), Traces(panes, wait, q), Awake(panes, wait, q)
  PROVE  Inv'
<1>0. Types /\ Once /\ Agented /\ Screened
  BY DEF Inv
<1>i. /\ UNCHANGED <<panes, generations, drawn, issued, overlooked, now, conn, capture_waits>>
      /\ Silent /\ answers' = answers
  BY DEF Asks, world, Holds, Silent
<1>1. /\ DOMAIN agent_waits' = DOMAIN agent_waits \cup {key}
      /\ key \notin DOMAIN agent_waits => agent_waits'[key] = wait
      /\ \A k \in DOMAIN agent_waits : agent_waits'[k] = agent_waits[k]
  BY DEF Holds, Joined, Single
<1>2. /\ DOMAIN agent_waits \subseteq Keys /\ DOMAIN capture_waits \subseteq Headless
      /\ DOMAIN asked = Keys
  BY <1>0 DEF Types
<1>3. DOMAIN asked' = Keys /\ asked'[key] = q /\ \A k \in Keys : k # key => asked'[k] = asked[k]
  BY <1>2 DEF Holds, Asking
<1>4. /\ conn[key[1]] = "open" /\ answers[key] = 0 /\ ~ Held(key)
      /\ key \notin DOMAIN agent_waits
  BY UnaskedFacts DEF Held
<1>5. q # None
  BY WaitsAssumption DEF WaitFits
<1>6. Types'
  BY <1>0, <1>1, <1>2, <1>3, <1>i DEF Types
<1>7. Once'
  <2> SUFFICES ASSUME NEW k \in Keys
               PROVE  OneKey(k, asked'[k], Held(k)', answers[k], conn[k[1]])
    BY <1>i DEF Once
  <2>1. CASE k = key
    BY <2>1, <1>1, <1>3, <1>4, <1>5 DEF OneKey, Held
  <2>2. CASE k # key
    <3>1. Held(k)' <=> Held(k)
      BY <2>2, <1>1, <1>i DEF Held
    <3> QED
      BY <3>1, <2>2, <1>0, <1>3 DEF Once, OneKey
  <2> QED
    BY <2>1, <2>2
<1>8. Agented'
  <2> SUFFICES ASSUME NEW k \in DOMAIN agent_waits'
               PROVE  /\ WaitFits(agent_waits'[k], asked'[k])
                      /\ Traces(panes, agent_waits'[k], asked'[k])
                      /\ \/ Awake(panes, agent_waits'[k], asked'[k])
                         \/ Missed(panes, overlooked, agent_waits'[k])
    BY <1>i DEF Agented
  <2>1. CASE k = key
    BY <2>1, <1>1, <1>3, <1>4
  <2>2. CASE k # key
    BY <2>2, <1>0, <1>1, <1>2, <1>3 DEF Agented
  <2> QED
    BY <2>1, <2>2
<1>9. \A c \in DOMAIN capture_waits : asked'[<<c, 0>>] = asked[<<c, 0>>]
  <2> SUFFICES ASSUME NEW c \in DOMAIN capture_waits PROVE asked'[<<c, 0>>] = asked[<<c, 0>>]
    OBVIOUS
  <2>1. <<c, 0>> \in Keys /\ Held(<<c, 0>>)
    BY <1>2, HeadlessKey DEF Held
  <2> QED
    BY <2>1, <1>3, <1>4
<1>10. Screened'
  BY <1>0, <1>9, <1>i DEF Screened
<1>11. Replied'
  BY <1>i, SilentReplies
<1> QED
  BY <1>6, <1>7, <1>8, <1>10, <1>11 DEF Inv

\* A target that resolves is an agent in its pane.
LEMMA ResolvesFacts ==
  ASSUME Types, NEW target, target.pane \in Panes, Resolves(target)
  PROVE  LET pane == panes[target.pane]
             s == Ref(target.pane, pane) IN
         /\ pane # None /\ pane.agent # None /\ pane.agent.state \in States
         /\ s \in Subjects /\ s.incarnation # 0 /\ s.pane = target.pane
         /\ Names(s, pane)
         /\ target.incarnation # 0 => target = s
<1>0. PICK pane : pane = panes[target.pane]
  OBVIOUS
<1>1. pane # None /\ pane.agent # None /\ (target.incarnation # 0 => target = Ref(target.pane, pane))
  BY <1>0 DEF Resolves
<1>2. /\ pane \in PaneStates /\ pane.agent \in Agents /\ pane.agent.incarnation >= 1
      /\ pane.agent.incarnation \in Nat /\ pane.generation \in Nat /\ pane.agent.state \in States
  <2>1. pane \in PaneStates /\ pane.agent.incarnation >= 1
    BY <1>0, <1>1, TypesFacts DEF IsPane
  <2> QED
    BY <2>1, <1>1 DEF PaneStates, Agents
<1>3. LET s == Ref(target.pane, pane) IN
      s \in Subjects /\ s.incarnation # 0 /\ s.pane = target.pane /\ Names(s, pane)
  BY <1>1, <1>2 DEF Ref, Subjects, Names
<1> QED
  BY <1>0, <1>1, <1>2, <1>3

LEMMA TargetFacts ==
  ASSUME Types, NEW target \in Targets
  PROVE  target \in Subjects
BY DEF Types, Targets, Subject, Subjects

LEMMA DeadlineType ==
  ASSUME Types, NEW timeout \in Timeouts
  PROVE  Deadline(timeout) \in Nat \cup {None}
BY WaitsAssumption DEF Types, Deadline

LEMMA RegisterAgentWaitKeeps ==
  ASSUME Inv, NEW key \in Keys, NEW target \in Targets, NEW until \in Conditions,
         NEW timeout \in Timeouts, register_agent_wait(key, target, until, timeout)
  PROVE  Inv'
<1>0. Types
  BY DEF Inv
<1>1. target \in Subjects /\ target.pane \in Panes
  BY <1>0, TargetFacts DEF Subjects
<1>a. PICK awaits : awaits = (target.incarnation = 0 /\ pane_awaits_agent(target.pane))
  OBVIOUS
<1>g. PICK exact_gone : exact_gone = (target.incarnation # 0 /\ until = "gone")
  OBVIOUS
<1>s. PICK subject : subject = IF exact_gone THEN target
                 ELSE IF awaits THEN Subject(target.pane, panes[target.pane].generation)
                 ELSE Ref(target.pane, panes[target.pane])
  OBVIOUS
<1>v. PICK verdict : verdict = IF until = "turn" \/ ~(exact_gone \/ awaits \/ Resolves(target)) THEN Refused
                 ELSE IF awaits /\ until = "gone" THEN Ready(None)
                 ELSE evaluate_wait_subject(panes, subject, until)
  OBVIOUS
<1>r. PICK request : request = [kind |-> "wait", target |-> target, until |-> until, initial |-> None, trail |-> {}]
  OBVIOUS
<1>2. /\ Unasked(key) /\ Asks
      /\ \/ verdict.end # "pending" /\ Answers(key, request, verdict)
         \/ verdict.end = "pending" /\ Holds(key, request, NewWait(subject, until, timeout))
  BY <1>a, <1>g, <1>s, <1>v, <1>r DEF register_agent_wait
<1>3. request \in AgentRequests /\ request # None
  <2>1. request \in AgentRequests
    BY <1>r, <1>1 DEF AgentRequests
  <2> QED
    BY <2>1, WaitsAssumption
<1>4. CASE verdict = Refused
  <2>1. verdict.end = "refused"
    BY <1>4 DEF Refused, Error
  <2>2. AnswerFits(request, verdict, panes)
    BY <2>1 DEF AnswerFits
  <2> QED
    BY <1>2, <1>3, <2>1, <2>2, AnswersKeeps DEF ReplyFits
<1>5. CASE awaits /\ until = "gone" /\ verdict = Ready(None)
  <2>1. verdict.end = "ready"
    BY <1>5 DEF Ready
  <2>2. AnswerFits(request, verdict, panes)
    BY <2>1, <1>5, <1>a, <1>r DEF AnswerFits
  <2> QED
    BY <1>2, <1>3, <2>1, <2>2, AnswersKeeps DEF ReplyFits
<1>6. CASE /\ exact_gone \/ awaits \/ Resolves(target)
           /\ verdict = evaluate_wait_subject(panes, subject, until)
  <2>1. /\ subject \in Subjects /\ subject.pane = target.pane
        /\ target.incarnation # 0 => subject = target
    <3>1. CASE exact_gone
      BY <3>1, <1>1, <1>s
    <3>2. CASE ~ exact_gone /\ awaits
      <4>1. panes[target.pane] # None /\ target.incarnation = 0
        BY <3>2, <1>a DEF pane_awaits_agent
      <4>2. panes[target.pane].generation \in Nat
        BY <4>1, <1>0, <1>1, TypesFacts DEF PaneStates
      <4> QED
        BY <4>1, <4>2, <3>2, <1>1, <1>s DEF Subject, Subjects
    <3>3. CASE ~ exact_gone /\ ~ awaits /\ Resolves(target)
      <4>1. subject = Ref(target.pane, panes[target.pane])
        BY <3>3, <1>s
      <4> QED
        BY <4>1, <3>3, <1>0, <1>1, ResolvesFacts
    <3> QED
      BY <3>1, <3>2, <3>3, <1>6
  <2>2. panes[subject.pane] # None => GoodPane(panes[subject.pane])
    BY <2>1, <1>0, <1>1, PanesGood
  <2>3. VerdictSound(panes, subject, until)
    BY <2>1, <2>2, VerdictFacts
  <2>4. CASE verdict.end = "pending"
    <3>1. PICK wait : wait = NewWait(subject, until, timeout)
      OBVIOUS
    <3>2. PICK q : q = [request EXCEPT !.trail = Trail(wait.subject)]
      OBVIOUS
    <3>3. /\ wait \in AgentWaits /\ wait.subject = subject /\ wait.until = until
          /\ wait.require_transition = FALSE
      BY <3>1, <2>1, <1>0, DeadlineType DEF NewWait, AgentWaits
    <3>4. Trail(wait.subject) \in SUBSET States
      <4>1. panes[subject.pane] # None /\ panes[subject.pane].agent # None => panes[subject.pane].agent.state \in States
        BY <2>2 DEF GoodPane, PaneStates, Agents
      <4> QED
        BY <4>1, <3>3 DEF Trail
    <3>5. /\ q \in AgentRequests /\ q.kind = "wait" /\ q.target = target /\ q.until = until
      BY <3>2, <3>4, <1>3, <1>r DEF AgentRequests
    <3>6. WaitFits(wait, q)
      BY <3>3, <3>5, <2>1 DEF WaitFits
    <3>7. Traces(panes, wait, q)
      BY <3>5 DEF Traces
    <3>8. Awake(panes, wait, q)
      BY <3>3, <2>4, <1>6 DEF Awake
    <3> QED
      BY <3>1, <3>2, <3>6, <3>7, <3>8, <2>4, <1>2, HoldsKeeps
  <2>5. CASE verdict.end # "pending"
    <3>1. AnswerFits(request, verdict, panes)
      <4> SUFFICES ASSUME verdict.end = "ready", target.incarnation # 0
                   PROVE  IF verdict.agent = None
                          THEN ~ (Names(target, panes[target.pane]) /\ ~ panes[target.pane].exited)
                          ELSE /\ verdict.agent.generation = target.generation
                               /\ verdict.agent.incarnation = target.incarnation
        BY <1>r DEF AnswerFits
      <4>1. subject = target
        BY <2>1
      <4>2. CASE verdict.agent = None
        BY <4>1, <4>2, <2>3, <1>6 DEF VerdictSound
      <4>3. CASE verdict.agent # None
        <5>1. Names(target, panes[target.pane]) /\ verdict.agent = panes[target.pane].agent
          BY <4>1, <4>3, <2>3, <1>6 DEF VerdictSound
        <5> QED
          BY <5>1, <4>3, <4>1, <2>2 DEF Names, GoodPane
      <4> QED
        BY <4>2, <4>3
    <3> QED
      BY <3>1, <2>5, <1>2, <1>3, AnswersKeeps DEF ReplyFits
  <2> QED
    BY <2>4, <2>5
<1> QED
  BY <1>4, <1>5, <1>6, <1>v

LEMMA AgentPromptKeeps ==
  ASSUME Inv, NEW key \in Keys, NEW target \in Targets, NEW until \in Conditions,
         NEW timeout \in Timeouts, NEW allow_working \in BOOLEAN, NEW writable \in BOOLEAN,
         AgentPrompt(key, target, until, timeout, allow_working, writable)
  PROVE  Inv'
<1>0. Types
  BY DEF Inv
<1>1. target \in Subjects /\ target.pane \in Panes
  BY <1>0, TargetFacts DEF Subjects
<1>p. PICK pane : pane = panes[target.pane]
  OBVIOUS
<1>s. PICK subject : subject = Ref(target.pane, pane)
  OBVIOUS
<1>e. PICK evaluation : evaluation = evaluate_agent_wait(panes, subject, until)
  OBVIOUS
<1>a. PICK accepted : accepted = (/\ Promptable(target, allow_working)
                                  /\ ~pane.exited
                                  /\ writable)
  OBVIOUS
<1>r. PICK request : request = [kind |-> "prompt", target |-> target, until |-> until,
                  initial |-> IF accepted THEN pane.agent.state ELSE None, trail |-> {}]
  OBVIOUS
<1>w. PICK wait : wait = [NewWait(subject, until, timeout) EXCEPT
                   !.require_transition = TRUE,
                   !.initial_state = IF evaluation.end = "ready" THEN pane.agent.state ELSE None,
                   !.armed = evaluation.end = "pending"]
  OBVIOUS
<1>2. /\ Unasked(key) /\ Asks
      /\ \/ ~accepted /\ Answers(key, request, Refused)
         \/ accepted /\ Holds(key, request, wait)
  BY <1>p, <1>s, <1>e, <1>a, <1>r, <1>w DEF AgentPrompt
<1>3. CASE ~ accepted
  <2>1. request \in AgentRequests
    BY <1>r, <1>1, <1>3 DEF AgentRequests
  <2>2. AnswerFits(request, Refused, panes)
    BY DEF Refused, Error, AnswerFits
  <2> QED
    BY <2>1, <2>2, <1>2, <1>3, WaitsAssumption, AnswersKeeps DEF ReplyFits
<1>4. CASE accepted
  <2>1. Resolves(target) /\ ~ pane.exited
    BY <1>4, <1>a DEF Promptable
  <2>2. /\ pane # None /\ pane.agent # None /\ pane.agent.state \in States
        /\ subject \in Subjects /\ subject.incarnation # 0 /\ subject.pane = target.pane
        /\ Names(subject, pane)
        /\ target.incarnation # 0 => target = subject
    BY <2>1, <1>0, <1>1, <1>p, <1>s, ResolvesFacts
  <2>3. evaluation = IF condition_matches(until, pane.agent.state) THEN Ready(pane.agent) ELSE Pending
    BY <2>1, <2>2, <1>p, <1>e DEF evaluate_agent_wait, Names
  <2>4. evaluation.end = IF condition_matches(until, pane.agent.state) THEN "ready" ELSE "pending"
    BY <2>3 DEF Ready, Pending
  <2>5. PICK q : q = [request EXCEPT !.trail = Trail(wait.subject)]
    OBVIOUS
  <2>6. /\ wait \in AgentWaits /\ wait.subject = subject /\ wait.until = until
        /\ wait.require_transition = TRUE
        /\ wait.initial_state = IF evaluation.end = "ready" THEN pane.agent.state ELSE None
        /\ wait.armed <=> evaluation.end = "pending"
    BY <2>2, <1>0, <1>w, DeadlineType DEF NewWait, AgentWaits
  <2>7. Trail(wait.subject) = {pane.agent.state}
    BY <2>2, <2>6, <1>p DEF Trail
  <2>8. /\ q \in AgentRequests /\ q.kind = "prompt" /\ q.target = target /\ q.until = until
        /\ q.initial = pane.agent.state /\ q.trail = {pane.agent.state}
    BY <2>2, <2>5, <2>7, <1>r, <1>1, <1>4 DEF AgentRequests
  <2>9. evaluation.end = "ready" => ~ Departed(q)
    BY <2>4, <2>8 DEF Departed
  <2>10. evaluation.end = "pending" => IF until = "turn" THEN "working" \in q.trail ELSE Departed(q)
    BY <2>4, <2>8 DEF Departed, condition_matches
  <2>11. WaitFits(wait, q)
    BY <2>2, <2>4, <2>6, <2>8, <2>9, <2>10 DEF WaitFits
  <2>12. Traces(panes, wait, q)
    BY <2>2, <2>6, <2>8, <1>p DEF Traces
  <2>13. Awake(panes, wait, q)
    <3>1. evaluate_wait_subject(panes, subject, until) = evaluation
      BY <2>2, <1>e DEF evaluate_wait_subject, Adopted
    <3> QED
      BY <3>1, <2>4, <2>6, <2>8, <2>9 DEF Awake
  <2> QED
    BY <1>2, <1>4, <2>5, <2>11, <2>12, <2>13, HoldsKeeps
<1> QED
  BY <1>3, <1>4, <1>a

LEMMA RegisterCaptureWaitKeeps ==
  ASSUME Inv, NEW c \in Headless, NEW p \in Panes, NEW text \in BOOLEAN, NEW after_input \in BOOLEAN,
         NEW writable \in BOOLEAN, NEW settle \in Settles, NEW timeout \in Timeouts \ {None},
         register_capture_wait(c, p, text, settle, after_input, timeout, writable)
  PROVE  Inv'
<1>0. Types /\ Once /\ Agented /\ Screened
  BY DEF Inv
<1>1. /\ generations \in Nat /\ drawn \in Nat /\ now \in Nat /\ settle \in Nat /\ timeout \in Nat
      /\ panes[p] # None => /\ IsPane(panes[p], generations, drawn, now)
                            /\ panes[p] \in PaneStates
  BY <1>0, TypesFacts, WaitsAssumption
<1>k. PICK key : key = <<c, 0>>
  OBVIOUS
<1>p. PICK pane : pane = panes[p]
  OBVIOUS
<1>f. PICK refused : refused = ~(pane # None /\ (after_input => ~pane.exited /\ writable))
  OBVIOUS
<1>w. PICK wait : wait = start(pane, p, text, settle, after_input, timeout)
  OBVIOUS
<1>r. PICK request : request =
        [kind |-> IF after_input THEN "send" ELSE "capture", text |-> text,
         settle |-> settle, mark |-> drawn, epoch |-> IF pane = None THEN 0 ELSE pane.epoch]
  OBVIOUS
<1>2. /\ Unasked(key) /\ Asks
      /\ \/ refused /\ Answers(key, request, Captured("refused", None))
         \/ ~refused /\ status(wait) = "ready" /\ Answers(key, request, Captured("ready", pane))
         \/ /\ ~refused
            /\ status(wait) # "ready"
            /\ capture_waits' = Joined(capture_waits, Single(c, wait))
            /\ asked' = Asking(key, request)
            /\ Silent
            /\ UNCHANGED <<conn, agent_waits>>
  BY <1>k, <1>p, <1>f, <1>w, <1>r DEF register_capture_wait
<1>3. key \in Keys /\ key[1] = c /\ key[2] = 0
  BY <1>k, HeadlessKey
<1>n. pane # None => /\ pane.generation \in Nat /\ pane.content \in Nat /\ pane.cells \in Nat
                     /\ pane.epoch \in Nat /\ pane.marks \subseteq Nat /\ pane.changed \in Nat
                     /\ pane.generation <= generations /\ pane.cells <= drawn
                     /\ pane.changed <= now /\ \A m \in pane.marks : m <= drawn
  BY <1>1, <1>p DEF IsPane, PaneStates
<1>4. /\ request \in CaptureRequests /\ request # None
      /\ request.text = text /\ request.settle = settle /\ request.mark = drawn
      /\ request.kind = (IF after_input THEN "send" ELSE "capture")
      /\ pane # None => request.epoch = pane.epoch
  <2>1. request \in CaptureRequests
    BY <1>r, <1>1, <1>n DEF CaptureRequests
  <2> QED
    BY <2>1, <1>r, WaitsAssumption
<1>5. CASE refused /\ Answers(key, request, Captured("refused", None))
  <2>1. ScreenAnswerFits(request, Captured("refused", None))
    BY DEF ScreenAnswerFits, Captured
  <2> QED
    BY <2>1, <1>2, <1>3, <1>4, <1>5, AnswersKeeps DEF ReplyFits
<1>b. PICK baseline : baseline = IF after_input THEN [epoch |-> pane.epoch, marks |-> pane.marks] ELSE None
  OBVIOUS
<1>6. /\ wait.pane = p /\ wait.generation = pane.generation /\ wait.seen = pane.content
      /\ wait.text = text /\ wait.settle = settle /\ wait.deadline = now + timeout
      /\ wait.baseline = baseline
      /\ wait.matched_at = (IF ~text \/ shows(pane, baseline) THEN now ELSE None)
      /\ wait.cells = pane.cells /\ wait.changed_at = now
  BY <1>w, <1>b DEF start
<1>7. pane # None => /\ wait \in CaptureWaits
                     /\ baseline \in Baselines \cup {None}
                     /\ baseline # None <=> after_input
                     /\ after_input => baseline.epoch = pane.epoch /\ baseline.marks = pane.marks
  <2> SUFFICES ASSUME pane # None
               PROVE  /\ wait \in CaptureWaits
                      /\ baseline \in Baselines \cup {None}
                      /\ baseline # None <=> after_input
                      /\ after_input => baseline.epoch = pane.epoch /\ baseline.marks = pane.marks
    OBVIOUS
  <2>1. after_input => baseline \in Baselines /\ baseline.epoch = pane.epoch /\ baseline.marks = pane.marks
    BY <1>b, <1>n DEF Baselines
  <2>2. ~ after_input => baseline = None
    BY <1>b
  <2>3. baseline \in Baselines \cup {None}
    BY <2>1, <2>2
  <2>4. wait = [pane |-> p, generation |-> pane.generation, seen |-> pane.content, text |-> text,
                settle |-> settle, deadline |-> now + timeout, baseline |-> baseline,
                matched_at |-> IF ~text \/ shows(pane, baseline) THEN now ELSE None,
                cells |-> pane.cells, changed_at |-> now]
    BY <1>w, <1>b DEF start
  <2>5. wait \in CaptureWaits
    BY <2>3, <2>4, <1>n, <1>1 DEF CaptureWaits
  <2> QED
    BY <2>1, <2>2, <2>3, <2>5, WaitsAssumption
<1>8. pane # None /\ settle = 0 /\ wait.matched_at # None => status(wait) = "ready"
  BY <1>1, <1>6 DEF status
<1>9. pane # None /\ settle # 0 => status(wait) # "ready"
  <2> SUFFICES ASSUME pane # None, settle # 0, wait.matched_at # None
               PROVE  status(wait) # "ready"
    BY DEF status
  <2>1. Max({wait.changed_at, wait.matched_at}) = now
    BY <1>1, <1>6 DEF Max
  <2> QED
    BY <2>1, <1>1, <1>6 DEF status
<1>10. CASE ~refused /\ status(wait) = "ready" /\ Answers(key, request, Captured("ready", pane))
  <2>1. pane # None /\ settle = 0
    BY <1>10, <1>9, <1>f
  <2>2. ScreenAnswerFits(request, Captured("ready", pane))
    <3>1. now - pane.changed >= 0
      BY <2>1, <1>n, <1>1
    <3>2. ~ (after_input /\ text)
      <4> SUFFICES ASSUME after_input, text PROVE FALSE
        OBVIOUS
      <4>1. ~ shows(pane, baseline)
        BY <2>1, <1>7 DEF shows
      <4> QED
        BY <4>1, <1>6, <1>10 DEF status
    <3> QED
      BY <2>1, <3>1, <3>2, <1>4 DEF ScreenAnswerFits, Captured
  <2> QED
    BY <2>2, <1>2, <1>3, <1>4, <1>10, AnswersKeeps DEF ReplyFits
<1>11. CASE /\ ~refused
            /\ status(wait) # "ready"
            /\ capture_waits' = Joined(capture_waits, Single(c, wait))
            /\ asked' = Asking(key, request)
            /\ Silent
            /\ UNCHANGED <<conn, agent_waits>>
  <2>0. pane # None
    BY <1>11, <1>f
  <2>i. /\ UNCHANGED <<panes, generations, drawn, issued, overlooked, now, conn, agent_waits>>
        /\ Silent /\ answers' = answers
    BY <1>2, <1>11 DEF Asks, world, Silent
  <2>1. /\ DOMAIN capture_waits' = DOMAIN capture_waits \cup {c}
        /\ c \notin DOMAIN capture_waits => capture_waits'[c] = wait
        /\ \A d \in DOMAIN capture_waits : capture_waits'[d] = capture_waits[d]
    BY <1>11 DEF Joined, Single
  <2>2. /\ DOMAIN agent_waits \subseteq Keys /\ DOMAIN capture_waits \subseteq Headless
        /\ DOMAIN asked = Keys
    BY <1>0 DEF Types
  <2>3. DOMAIN asked' = Keys /\ asked'[key] = request /\ \A k \in Keys : k # key => asked'[k] = asked[k]
    BY <2>2, <1>3, <1>11 DEF Asking
  <2>4. conn[key[1]] = "open" /\ answers[key] = 0 /\ ~ Held(key)
    BY <1>2, <1>3, UnaskedFacts
  <2>5. c \notin DOMAIN capture_waits /\ key \notin DOMAIN agent_waits
    BY <2>4, <1>3 DEF Held
  <2>6. Types'
    BY <1>0, <2>1, <2>2, <2>3, <2>i DEF Types
  <2>7. Once'
    <3> SUFFICES ASSUME NEW k \in Keys
                 PROVE  OneKey(k, asked'[k], Held(k)', answers[k], conn[k[1]])
      BY <2>i DEF Once
    <3>1. CASE k = key
      BY <3>1, <2>1, <2>3, <2>4, <1>3, <1>4 DEF OneKey, Held
    <3>2. CASE k # key
      <4>1. Held(k)' <=> Held(k)
        BY <3>2, <2>1, <2>i, <1>k, KeyFacts DEF Held
      <4> QED
        BY <4>1, <3>2, <1>0, <2>3 DEF Once, OneKey
    <3> QED
      BY <3>1, <3>2
  <2>8. Agented'
    BY <1>0, <2>2, <2>3, <2>5, <2>i DEF Agented
  <2>9. Screened'
    <3> SUFFICES ASSUME NEW d \in DOMAIN capture_waits'
                 PROVE  /\ ScreenFits(capture_waits'[d], asked'[<<d, 0>>])
                        /\ capture_waits'[d].generation <= generations
                        /\ capture_waits'[d].cells <= drawn
                        /\ capture_waits'[d].changed_at <= now
                        /\ asked'[<<d, 0>>].mark <= drawn
                        /\ Watches(panes[capture_waits'[d].pane], capture_waits'[d], asked'[<<d, 0>>])
      BY <2>i DEF Screened
    <3>1. CASE d # c
      <4>1. d \in DOMAIN capture_waits /\ <<d, 0>> \in Keys /\ <<d, 0>> # key
        BY <3>1, <2>1, <2>2, <1>k, HeadlessKey
      <4>2. capture_waits'[d] = capture_waits[d] /\ asked'[<<d, 0>>] = asked[<<d, 0>>]
        BY <4>1, <2>1, <2>3
      <4> QED
        BY <4>1, <4>2, <1>0 DEF Screened
    <3>2. CASE d = c
      <4>1. capture_waits'[d] = wait /\ asked'[<<d, 0>>] = request
        BY <3>2, <2>1, <2>3, <2>5, <1>k
      <4>2. ScreenFits(wait, request)
        <5>1. wait.text /\ wait.settle = 0 => wait.matched_at = None
          BY <1>6, <1>8, <1>11, <2>0
        <5>2. (wait.baseline # None) = (request.kind = "send")
          BY <1>4, <1>6, <1>7, <2>0
        <5>3. wait.baseline # None =>
                wait.baseline.epoch = request.epoch /\ \A m \in wait.baseline.marks : m <= request.mark
          BY <1>4, <1>6, <1>7, <1>n, <2>0
        <5> QED
          BY <5>1, <5>2, <5>3, <1>4, <1>6, <1>7, <2>0 DEF ScreenFits
      <4>3. /\ wait.generation <= generations /\ wait.cells <= drawn /\ wait.changed_at <= now
            /\ request.mark <= drawn
        BY <1>1, <1>4, <1>6, <1>n, <2>0
      <4>4. Watches(panes[wait.pane], wait, request)
        <5>1. pane = panes[wait.pane]
          BY <1>6, <1>p
        <5>2. /\ wait.seen <= pane.content /\ wait.cells = pane.cells
              /\ pane.changed <= wait.changed_at
          BY <1>6, <1>n, <2>0
        <5>3. wait.matched_at = None => ~ shows(pane, wait.baseline)
          BY <1>6, <1>1, WaitsAssumption
        <5>4. wait.baseline # None => \A m \in pane.marks : m \in wait.baseline.marks
          BY <1>6, <1>7, <2>0
        <5> QED
          BY <5>1, <5>2, <5>3, <5>4 DEF Watches
      <4> QED
        BY <4>1, <4>2, <4>3, <4>4
    <3> QED
      BY <3>1, <3>2
  <2>10. Replied'
    BY <2>i, SilentReplies
  <2> QED
    BY <2>6, <2>7, <2>8, <2>9, <2>10 DEF Inv
<1> QED
  BY <1>2, <1>5, <1>10, <1>11

----------------------------------------------------------------------------
(* The end of a round                                                      *)

\* A screen wait after the look of a round at its pane.
LookAt(w, pane) == IF pane.content # w.seen THEN observe(w, pane) ELSE w

\* What a wait has seen when it has looked, and what it was before.
SawScreen(v, w, pane, q) ==
  /\ v \in CaptureWaits
  /\ v.pane = w.pane /\ v.generation = w.generation /\ v.text = w.text /\ v.settle = w.settle
  /\ v.deadline = w.deadline /\ v.baseline = w.baseline
  /\ v.seen = pane.content /\ v.cells = pane.cells
  /\ pane.changed <= v.changed_at /\ v.changed_at <= now
  /\ v.matched_at = None => ~ shows(pane, v.baseline)
  /\ v.matched_at # None => w.matched_at # None \/ (v.matched_at = now /\ shows(pane, v.baseline))
  /\ w.matched_at # None => v.matched_at = w.matched_at

LEMMA LookSees ==
  ASSUME Types, NEW w, NEW q, NEW pane, IsPane(pane, generations, drawn, now),
         ScreenFits(w, q), Watches(pane, w, q), w.changed_at <= now, pane.generation = w.generation
  PROVE  SawScreen(LookAt(w, pane), w, pane, q)
<1>1. /\ pane \in PaneStates /\ pane.changed <= now /\ now \in Nat /\ w \in CaptureWaits
      /\ pane # None
  BY WaitsAssumption DEF IsPane, Types, ScreenFits
<1>2. /\ pane.content \in Nat /\ pane.cells \in Nat /\ pane.changed \in Nat
      /\ w.changed_at \in Nat /\ w.matched_at \in Nat \cup {None}
  BY <1>1 DEF PaneStates, CaptureWaits
<1>3. CASE pane.content = w.seen
  <2>1. LookAt(w, pane) = w
    BY <1>3 DEF LookAt
  <2>2. w.cells = pane.cells /\ pane.changed <= w.changed_at
        /\ (w.matched_at = None => ~ shows(pane, w.baseline))
    BY <1>3, <1>1 DEF Watches
  <2> QED
    BY <1>1, <1>3, <2>1, <2>2 DEF SawScreen
<1>4. CASE pane.content # w.seen
  <2>1. PICK v : v = observe(w, pane)
    OBVIOUS
  <2>2. v = LookAt(w, pane)
    BY <1>4, <2>1 DEF LookAt
  <2>3. /\ v \in CaptureWaits
        /\ v.pane = w.pane /\ v.generation = w.generation /\ v.text = w.text /\ v.settle = w.settle
        /\ v.deadline = w.deadline /\ v.baseline = w.baseline
        /\ v.seen = pane.content /\ v.cells = pane.cells
        /\ v.changed_at = IF pane.cells # w.cells THEN now ELSE w.changed_at
        /\ v.matched_at = IF w.matched_at = None /\ shows(pane, w.baseline) THEN now ELSE w.matched_at
    BY <2>1, <1>1, <1>2 DEF observe, CaptureWaits
  <2>4. pane.changed <= v.changed_at /\ v.changed_at <= now
    BY <2>3, <1>1, <1>2 DEF Watches
  <2>5. now # None
    BY <1>1, WaitsAssumption
  <2> QED
    BY <2>2, <2>3, <2>4, <2>5 DEF SawScreen
<1> QED
  BY <1>3, <1>4

\* What status comes to, in terms of the times it compares.
LEMMA StatusFacts ==
  ASSUME NEW v \in CaptureWaits, now \in Nat
  PROVE  /\ status(v) \in {"ready", "timeout", "pending"}
         /\ status(v) = "pending" => now < v.deadline
         /\ status(v) = "ready" => v.matched_at # None
         /\ status(v) = "ready" /\ v.settle # 0 => now >= v.changed_at + v.settle
         /\ status(v) = "pending" /\ v.settle = 0 => v.matched_at # now
<1>1. /\ v.deadline \in Nat /\ v.settle \in Nat /\ v.changed_at \in Nat
      /\ v.matched_at \in Nat \cup {None} /\ now # None
  BY WaitsAssumption DEF CaptureWaits
<1>2. v.matched_at # None => /\ Max({v.changed_at, v.matched_at}) \in Nat
                             /\ Max({v.changed_at, v.matched_at}) >= v.changed_at
  BY <1>1 DEF Max
<1>3. status(v) \in {"ready", "timeout", "pending"}
  BY DEF status
<1>4. status(v) = "pending" => now < v.deadline
  BY <1>1 DEF status
<1>5. status(v) = "ready" => v.matched_at # None
  BY DEF status
<1>6. status(v) = "ready" /\ v.settle # 0 => now >= v.changed_at + v.settle
  <2> SUFFICES ASSUME status(v) = "ready", v.settle # 0 PROVE now >= v.changed_at + v.settle
    OBVIOUS
  <2>1. PICK m : m = Max({v.changed_at, v.matched_at})
    OBVIOUS
  <2>2. now >= m + v.settle
    BY <2>1 DEF status
  <2> QED
    BY <2>1, <2>2, <1>1, <1>2, <1>5
<1>7. status(v) = "pending" /\ v.settle = 0 => v.matched_at # now
  BY <1>1, <1>4 DEF status
<1> QED
  BY <1>3, <1>4, <1>5, <1>6, <1>7

\* What a round answers a screen wait is true of the screen.
LEMMA LookAnswers ==
  ASSUME Types, NEW w, NEW v, NEW q, NEW pane, IsPane(pane, generations, drawn, now),
         ScreenFits(w, q), Watches(pane, w, q), pane.generation = w.generation,
         SawScreen(v, w, pane, q)
  PROVE  ScreenAnswerFits(q, Captured(WaitEnd(v, pane), pane))
<1>0. PICK end : end = WaitEnd(v, pane)
  OBVIOUS
<1>1. /\ pane \in PaneStates /\ pane # None /\ pane.changed <= now /\ now \in Nat
      /\ q \in CaptureRequests /\ v \in CaptureWaits
  BY WaitsAssumption DEF IsPane, Types, ScreenFits, SawScreen
<1>2. /\ pane.changed \in Nat /\ v.changed_at \in Nat /\ q.settle \in Nat /\ q.mark \in Nat
      /\ v.settle = q.settle /\ v.text = q.text /\ pane.changed <= v.changed_at
      /\ v.settle \in Nat /\ pane.marks \subseteq Nat /\ v.text \in BOOLEAN
      /\ q.kind \in {"capture", "send"}
  BY <1>1 DEF PaneStates, CaptureWaits, CaptureRequests, SawScreen, ScreenFits
<1>3. PICK answer : answer = Captured(end, pane)
  OBVIOUS
<1>4. /\ answer.end = end /\ answer.marks = pane.marks /\ answer.epoch = pane.epoch
      /\ answer.quiet = now - pane.changed
  BY <1>1, <1>3 DEF Captured
<1>5. /\ end = "ready" => status(v) = "ready"
      /\ end = "exited" => status(v) = "pending"
  BY <1>0, <1>1, StatusFacts DEF WaitEnd
<1>6. end = "ready" => answer.quiet >= q.settle
  <2> SUFFICES ASSUME end = "ready" PROVE now - pane.changed >= q.settle
    BY <1>4
  <2>1. CASE q.settle = 0
    BY <2>1, <1>1, <1>2
  <2>2. CASE q.settle # 0
    <3>1. now >= v.changed_at + q.settle
      BY <2>2, <1>1, <1>2, <1>5, StatusFacts
    <3> QED
      BY <3>1, <1>1, <1>2
  <2> QED
    BY <2>1, <2>2
<1>7. q.text /\ q.settle = 0 => w.matched_at = None
  BY DEF ScreenFits
<1>8. ASSUME end = "exited", q.text, q.settle = 0
      PROVE  \A m \in pane.marks : ~ (q.kind = "capture" \/ m > q.mark)
  <2>1. v.matched_at # now
    BY <1>1, <1>2, <1>5, <1>8, StatusFacts
  <2>2. v.matched_at = None
    BY <2>1, <1>7, <1>8 DEF SawScreen
  <2>3. ~ shows(pane, w.baseline)
    BY <2>2 DEF SawScreen
  <2>4. CASE w.baseline = None
    BY <2>3, <2>4 DEF shows
  <2>5. CASE w.baseline # None /\ w.baseline.epoch # pane.epoch
    BY <2>3, <2>5 DEF shows
  <2>6. CASE w.baseline # None /\ w.baseline.epoch = pane.epoch
    <3>1. \A m \in pane.marks : m \in w.baseline.marks
      BY <2>3, <2>6 DEF shows
    <3>2. /\ \A m \in w.baseline.marks : m <= q.mark
          /\ q.kind = "send"
      BY <2>6 DEF ScreenFits
    <3> QED
      BY <3>1, <3>2, <1>2
  <2> QED
    BY <2>4, <2>5, <2>6
<1>9. ASSUME end = "ready", q.kind = "send", q.text, q.settle = 0
      PROVE  (\E m \in pane.marks : m > q.mark) \/ pane.epoch # q.epoch
  <2>1. v.matched_at # None
    BY <1>1, <1>5, <1>9, StatusFacts
  <2>2. shows(pane, w.baseline)
    BY <2>1, <1>7, <1>9 DEF SawScreen
  <2>3. w.baseline # None /\ w.baseline.epoch = q.epoch
    BY <1>9 DEF ScreenFits
  <2>4. CASE pane.epoch = q.epoch
    <3>1. PICK m \in pane.marks : m \notin w.baseline.marks
      BY <2>2, <2>3, <2>4 DEF shows
    <3>2. m > q.mark
      BY <3>1, <2>3, <1>1 DEF Watches
    <3> QED
      BY <3>2
  <2> QED
    BY <2>4
<1> QED
  BY <1>0, <1>3, <1>4, <1>6, <1>8, <1>9 DEF ScreenAnswerFits

\* What a round makes of the screen waits, one by one.
Settled(c, w, v, q, answer) ==
  /\ w = capture_waits[c] /\ q = asked[<<c, 0>>] /\ v = Looked(c)
  /\ answer.end # "pending" => ScreenAnswerFits(q, answer)
  /\ answer.end = "pending" =>
       /\ ScreenFits(v, q) /\ now < v.deadline
       /\ v.generation <= generations /\ v.cells <= drawn /\ v.changed_at <= now
       /\ q.mark <= drawn
       /\ Watches(panes[v.pane], v, q)

RoundVerdict(c) ==
  LET pane == panes[capture_waits[c].pane] IN
  IF pane = None \/ pane.generation # capture_waits[c].generation THEN Captured("closed", None)
  ELSE Captured(WaitEnd(Looked(c), pane), pane)

LEMMA RoundSettles ==
  ASSUME Types, Screened, NEW c \in DOMAIN capture_waits
  PROVE  Settled(c, capture_waits[c], Looked(c), asked[<<c, 0>>], RoundVerdict(c))
<1>w. PICK w : w = capture_waits[c]
  OBVIOUS
<1>q. PICK q : q = asked[<<c, 0>>]
  OBVIOUS
<1>p. PICK pane : pane = panes[w.pane]
  OBVIOUS
<1>v. PICK v : v = Looked(c)
  OBVIOUS
<1>a. PICK answer : answer = RoundVerdict(c)
  OBVIOUS
<1>1. /\ ScreenFits(w, q)
      /\ w.generation <= generations /\ w.cells <= drawn /\ w.changed_at <= now /\ q.mark <= drawn
      /\ Watches(pane, w, q)
  BY <1>w, <1>q, <1>p DEF Screened
<1>2. w \in CaptureWaits /\ q \in CaptureRequests /\ w.pane \in Panes /\ now \in Nat
  BY <1>1 DEF ScreenFits, CaptureWaits, Types
<1>3. CASE pane = None \/ pane.generation # w.generation
  <2>1. answer = Captured("closed", None)
    BY <1>3, <1>w, <1>p, <1>a DEF RoundVerdict
  <2>2. answer.end = "closed"
    BY <2>1 DEF Captured
  <2>3. ScreenAnswerFits(q, answer)
    BY <2>2 DEF ScreenAnswerFits
  <2> QED
    BY <2>2, <2>3, <1>w, <1>q, <1>v, <1>a DEF Settled
<1>4. CASE pane # None /\ pane.generation = w.generation
  <2>1. IsPane(pane, generations, drawn, now)
    BY <1>2, <1>4, <1>p, TypesFacts
  <2>2. v = LookAt(w, pane)
    BY <1>4, <1>w, <1>p, <1>v DEF Looked, LookAt
  <2>3. answer = Captured(WaitEnd(v, pane), pane)
    BY <1>4, <1>w, <1>p, <1>v, <1>a DEF RoundVerdict
  <2>4. SawScreen(v, w, pane, q)
    BY <1>1, <1>4, <2>1, <2>2, LookSees
  <2>5. ScreenAnswerFits(q, answer)
    BY <1>1, <1>4, <2>1, <2>3, <2>4, LookAnswers
  <2>6. ASSUME answer.end = "pending"
        PROVE  /\ ScreenFits(v, q) /\ now < v.deadline
               /\ v.generation <= generations /\ v.cells <= drawn /\ v.changed_at <= now
               /\ q.mark <= drawn
               /\ Watches(panes[v.pane], v, q)
    <3>0. v \in CaptureWaits
      BY <2>4 DEF SawScreen
    <3>1. status(v) = "pending"
      BY <2>3, <2>6 DEF Captured, WaitEnd
    <3>2. now < v.deadline /\ (v.settle = 0 => v.matched_at # now)
      BY <3>0, <3>1, <1>2, StatusFacts
    <3>3. ScreenFits(v, q)
      <4>1. v.text /\ v.settle = 0 => v.matched_at = None
        BY <3>2, <2>4, <1>1 DEF SawScreen, ScreenFits
      <4> QED
        BY <4>1, <2>4, <1>1 DEF SawScreen, ScreenFits
    <3>4. v.generation <= generations /\ v.cells <= drawn /\ v.changed_at <= now
      BY <2>1, <2>4, <1>1 DEF SawScreen, IsPane
    <3>5. Watches(pane, v, q)
      <4>1. pane.content \in Nat
        BY <2>1 DEF IsPane, PaneStates
      <4> QED
        BY <4>1, <2>4, <1>1, <1>4 DEF SawScreen, Watches
    <3>6. panes[v.pane] = pane
      BY <2>4, <1>p DEF SawScreen
    <3> QED
      BY <3>2, <3>3, <3>4, <3>5, <3>6, <1>1
  <2> QED
    BY <2>5, <2>6, <1>w, <1>q, <1>v, <1>a DEF Settled
<1> QED
  BY <1>3, <1>4

\* The end of a round, as the invariant and the deadlines need it.
RoundEnded ==
  /\ Inv'
  /\ \A k \in DOMAIN agent_waits' :
       agent_waits'[k].deadline # None => now < agent_waits'[k].deadline
  /\ \A c \in DOMAIN capture_waits' : now < capture_waits'[c].deadline

LEMMA EndRoundKeeps ==
  ASSUME Inv, EndRound
  PROVE  RoundEnded
<1>0. Types /\ Once /\ Agented /\ Screened
  BY DEF Inv
<1>i. UNCHANGED <<panes, generations, drawn, issued, overlooked, now>>
  BY DEF EndRound, world
<1>x. PICK expired : expired = expire_agent_waits
  OBVIOUS
<1>c. PICK seen : seen = resolve_capture_waits
  OBVIOUS
<1>d. PICK done : done = Joined(expired, seen)
  OBVIOUS
<1>l. PICK looked : looked = [c \in DOMAIN capture_waits |-> Looked(c)]
  OBVIOUS
<1>1. answer_held(asked, done, agent_waits, looked)
  BY <1>x, <1>c, <1>d, <1>l DEF EndRound
<1>2. /\ DOMAIN expired = {k \in DOMAIN agent_waits : /\ agent_waits[k].deadline # None
                                                     /\ now >= agent_waits[k].deadline}
      /\ \A k \in DOMAIN expired : expired[k] = Error("timeout")
  BY <1>x DEF expire_agent_waits
<1>3. /\ DOMAIN seen = {c \in DOMAIN capture_waits : RoundVerdict(c).end # "pending"} \X {0}
      /\ \A k \in DOMAIN seen : seen[k] = RoundVerdict(k[1])
  <2>1. PICK verdict : verdict = [c \in DOMAIN capture_waits |-> RoundVerdict(c)]
    OBVIOUS
  <2>2. PICK over : over = {c \in DOMAIN capture_waits : verdict[c].end # "pending"}
    OBVIOUS
  <2>3. seen = [k \in over \X {0} |-> verdict[k[1]]]
    BY <1>c, <2>1, <2>2, Zenon DEF resolve_capture_waits, RoundVerdict
  <2>4. over = {c \in DOMAIN capture_waits : RoundVerdict(c).end # "pending"}
    BY <2>1, <2>2
  <2>5. \A k \in over \X {0} : k[1] \in DOMAIN capture_waits
    BY <2>2
  <2> QED
    BY <2>1, <2>3, <2>4, <2>5
<1>4. /\ DOMAIN done = DOMAIN expired \cup DOMAIN seen
      /\ \A k \in DOMAIN expired : done[k] = expired[k]
      /\ \A k \in DOMAIN seen : k \notin DOMAIN expired => done[k] = seen[k]
  BY <1>d DEF Joined
<1>5. /\ DOMAIN agent_waits \subseteq Keys /\ DOMAIN capture_waits \subseteq Headless
      /\ DOMAIN looked = DOMAIN capture_waits /\ now \in Nat
      /\ \A c \in DOMAIN capture_waits : looked[c] = Looked(c)
  BY <1>0, <1>l DEF Types
<1>6. ASSUME NEW k \in DOMAIN seen
      PROVE  /\ k[1] \in DOMAIN capture_waits /\ k = <<k[1], 0>> /\ k[2] = 0 /\ k \in Keys
             /\ RoundVerdict(k[1]).end # "pending"
  <2>1. PICK c \in DOMAIN capture_waits : k = <<c, 0>> /\ RoundVerdict(c).end # "pending"
    BY <1>3
  <2> QED
    BY <2>1, <1>5, HeadlessKey
<1>7. ASSUME NEW k \in DOMAIN done
      PROVE  k \in Keys /\ Held(k) /\ ReplyFits(asked[k], done[k], panes) /\ asked[k] # None
  <2>1. CASE k \in DOMAIN expired
    <3>1. k \in DOMAIN agent_waits /\ asked[k] \in AgentRequests
      BY <2>1, <1>0, <1>2 DEF Agented, WaitFits
    <3>2. done[k].end = "timeout"
      BY <2>1, <1>2, <1>4 DEF Error
    <3>3. AnswerFits(asked[k], done[k], panes)
      BY <3>2 DEF AnswerFits
    <3> QED
      BY <3>1, <3>3, <1>5, WaitsAssumption DEF Held, ReplyFits
  <2>2. CASE k \notin DOMAIN expired
    <3>1. k \in DOMAIN seen
      BY <2>2, <1>4
    <3>2. /\ k[1] \in DOMAIN capture_waits /\ k = <<k[1], 0>> /\ k[2] = 0 /\ k \in Keys
          /\ RoundVerdict(k[1]).end # "pending"
      BY <3>1, <1>6
    <3>3. done[k] = RoundVerdict(k[1])
      BY <3>1, <2>2, <1>3, <1>4
    <3>4. Settled(k[1], capture_waits[k[1]], Looked(k[1]), asked[<<k[1], 0>>], RoundVerdict(k[1]))
      BY <3>2, <1>0, RoundSettles
    <3>5. ScreenAnswerFits(asked[k], done[k])
      BY <3>2, <3>3, <3>4 DEF Settled
    <3>6. asked[k] \in CaptureRequests
      BY <3>2, <1>0 DEF Screened, ScreenFits
    <3> QED
      BY <3>2, <3>5, <3>6, WaitsAssumption DEF Held, ReplyFits
  <2> QED
    BY <2>1, <2>2
<1>8. \A k \in Keys : OneKey(k, asked[k], Held(k), answers[k], conn[k[1]])
  BY <1>0 DEF Once
<1>9. \A k \in DOMAIN done : asked[k] # None /\ conn[k[1]] = "open" /\ answers[k] = 0
  BY <1>7, <1>8 DEF OneKey
<1>10. \A k \in Keys \ DOMAIN done :
         OneKey(k, asked[k], HeldIn(k, agent_waits, looked), answers[k], conn[k[1]])
  BY <1>5, <1>8 DEF HeldIn, Held
<1>11. DOMAIN done \subseteq Keys
  BY <1>7
<1>12. DOMAIN looked \subseteq Headless
  BY <1>5
<1>14. /\ Once'
       /\ conn' \in [Clients -> {"open", "closing", "gone"}]
       /\ DOMAIN answers' = Keys
       /\ DOMAIN asked' = Keys
       /\ DOMAIN agent_waits' \subseteq Keys
       /\ DOMAIN capture_waits' \subseteq Headless
       /\ \A k \in DOMAIN agent_waits' :
            /\ k \in DOMAIN agent_waits \ DOMAIN done /\ agent_waits'[k] = agent_waits[k]
            /\ asked'[k] = asked[k]
       /\ \A c \in DOMAIN capture_waits' :
            /\ c \in DOMAIN looked /\ <<c, 0>> \notin DOMAIN done
            /\ capture_waits'[c] = looked[c] /\ asked'[<<c, 0>>] = asked[<<c, 0>>]
  BY <1>0, <1>1, <1>5, <1>9, <1>10, <1>11, <1>12, OnceAnswered
<1>15. Types'
  BY <1>14, <1>0, <1>i DEF Types
<1>16. Agented'
  BY <1>0, <1>14, <1>i DEF Agented
<1>17. ASSUME NEW c \in DOMAIN capture_waits'
       PROVE  /\ Settled(c, capture_waits[c], capture_waits'[c], asked'[<<c, 0>>], RoundVerdict(c))
              /\ RoundVerdict(c).end = "pending"
  <2>1. /\ c \in DOMAIN capture_waits /\ <<c, 0>> \notin DOMAIN done
        /\ capture_waits'[c] = Looked(c) /\ asked'[<<c, 0>>] = asked[<<c, 0>>]
    BY <1>5, <1>14
  <2>2. <<c, 0>> \notin DOMAIN seen
    BY <2>1, <1>4
  <2>3. RoundVerdict(c).end = "pending"
    BY <2>1, <2>2, <1>3
  <2>4. Settled(c, capture_waits[c], Looked(c), asked[<<c, 0>>], RoundVerdict(c))
    BY <2>1, <1>0, RoundSettles
  <2> QED
    BY <2>1, <2>3, <2>4
<1>18. Screened'
  BY <1>17, <1>i DEF Settled, Screened
<1>19. Replied'
  BY <1>1, <1>7, <1>i, AnswerReplies
<1>20. ASSUME NEW k \in DOMAIN agent_waits', agent_waits'[k].deadline # None
       PROVE  now < agent_waits'[k].deadline
  <2>1. k \in DOMAIN agent_waits /\ k \notin DOMAIN expired /\ agent_waits'[k] = agent_waits[k]
    BY <1>4, <1>14
  <2>2. agent_waits[k].deadline \in Nat \cup {None}
    BY <2>1, <1>0 DEF Agented, WaitFits, AgentWaits
  <2> QED
    BY <2>1, <2>2, <1>2, <1>5, <1>20
<1>21. \A c \in DOMAIN capture_waits' : now < capture_waits'[c].deadline
  BY <1>17 DEF Settled
<1> QED
  BY <1>14, <1>15, <1>16, <1>18, <1>19, <1>20, <1>21 DEF Inv, RoundEnded

----------------------------------------------------------------------------
(* The invariant holds                                                     *)

LEMMA InitInv == Init => Inv
<1> SUFFICES ASSUME Init PROVE Inv
  OBVIOUS
<1>0. PICK staffed \in SUBSET Panes, heirs \in [Panes -> 0 .. 2] :
       /\ panes = [p \in Panes |-> IF p \in staffed
                     THEN [Fresh(1, 0, 0, heirs[p]) EXCEPT !.agent = FirstAgent, !.incarnations = 1]
                     ELSE Fresh(1, 0, 0, heirs[p])]
       /\ issued = {[pane |-> p, generation |-> 1, incarnation |-> 1] : p \in staffed}
  BY DEF Init
<1>1. /\ generations = 1 /\ drawn = 0 /\ now = 0
      /\ conn = [c \in Clients |-> "open"]
      /\ DOMAIN agent_waits = {} /\ DOMAIN capture_waits = {} /\ DOMAIN reply = {}
      /\ asked = [k \in Keys |-> None] /\ answers = [k \in Keys |-> 0]
  BY DEF Init, NoAgentWaits, NoCaptureWaits, NoReply
<1>2. FirstAgent \in Agents /\ FirstAgent.incarnation = 1 /\ FirstAgent.generation = 1
  BY WaitsAssumption DEF FirstAgent, Agents
<1>3. ASSUME NEW n \in 0 .. 2
      PROVE  /\ Fresh(1, 0, 0, n) \in PaneStates
             /\ [Fresh(1, 0, 0, n) EXCEPT !.agent = FirstAgent, !.incarnations = 1] \in PaneStates
  BY <1>2 DEF Fresh, PaneStates
<1>4. Types
  <2>1. \A p \in Panes : IsPane(panes[p], 1, 0, 0)
    <3> SUFFICES ASSUME NEW p \in Panes PROVE IsPane(panes[p], 1, 0, 0)
      OBVIOUS
    <3>1. CASE p \in staffed
      <4>1. panes[p] = [generation |-> 1, exited |-> FALSE, agent |-> FirstAgent, incarnations |-> 1,
                        content |-> 0, cells |-> 0, marks |-> {}, epoch |-> 0, changed |-> 0, heirs |-> heirs[p]]
        BY <3>1, <1>0 DEF Fresh
      <4>2. panes[p] \in PaneStates
        BY <3>1, <1>0, <1>3
      <4> QED
        BY <4>1, <4>2, <1>2 DEF IsPane
    <3>2. CASE p \notin staffed
      <4>1. panes[p] = Fresh(1, 0, 0, heirs[p]) /\ panes[p] \in PaneStates
        BY <3>2, <1>0, <1>3
      <4> QED
        BY <4>1 DEF IsPane, Fresh
    <3> QED
      BY <3>1, <3>2
  <2>2. \A ref \in issued : ref \in Subjects /\ ref.incarnation # 0
    <3> SUFFICES ASSUME NEW p \in staffed, NEW ref, ref = [pane |-> p, generation |-> 1, incarnation |-> 1]
                 PROVE  ref \in Subjects /\ ref.incarnation # 0
      BY <1>0
    <3> QED
      BY DEF Subjects
  <2>3. DOMAIN panes = Panes
    BY <1>0
  <2> QED
    BY <2>1, <2>2, <2>3, <1>1 DEF Types
<1>5. Once
  <2> SUFFICES ASSUME NEW k \in Keys PROVE OneKey(k, asked[k], Held(k), answers[k], conn[k[1]])
    BY DEF Once
  <2>1. asked[k] = None /\ answers[k] = 0 /\ conn[k[1]] = "open" /\ ~ Held(k)
    BY <1>1, KeyFacts DEF Held
  <2> QED
    BY <2>1 DEF OneKey
<1>6. Agented /\ Screened
  BY <1>1 DEF Agented, Screened
<1>7. Replied
  BY <1>1, RepliesSound DEF RepliesFit
<1> QED
  BY <1>4, <1>5, <1>6, <1>7 DEF Inv

LEMMA NextInv == Inv /\ [Next]_vars => Inv'
<1> SUFFICES ASSUME Inv, [Next]_vars PROVE Inv'
  OBVIOUS
<1>1. ASSUME NEW key \in Keys, NEW target \in Targets, NEW until \in Conditions, NEW timeout \in Timeouts,
             register_agent_wait(key, target, until, timeout)
      PROVE  Inv'
  BY <1>1, RegisterAgentWaitKeeps
<1>2. ASSUME NEW key \in Keys, NEW target \in Targets, NEW until \in Conditions, NEW timeout \in Timeouts,
             NEW allow_working \in BOOLEAN, NEW writable \in BOOLEAN,
             AgentPrompt(key, target, until, timeout, allow_working, writable)
      PROVE  Inv'
  BY <1>2, AgentPromptKeeps
<1>3. ASSUME NEW c \in Headless, NEW p \in Panes, NEW text \in BOOLEAN, NEW after_input \in BOOLEAN,
             NEW writable \in BOOLEAN, NEW settle \in Settles, NEW timeout \in Timeouts \ {None},
             register_capture_wait(c, p, text, settle, after_input, timeout, writable)
      PROVE  Inv'
  BY <1>3, RegisterCaptureWaitKeeps
<1>4. ASSUME NEW p \in Panes,
             \/ Spawn(p) \/ AgentChanges(p) \/ AgentLeaves(p) \/ Exit(p) \/ Kill(p)
             \/ Output(p) \/ replace_with_keep_open_shell(p)
      PROVE  Inv'
  BY <1>4, SpawnKeeps, AgentChangesKeeps, AgentLeavesKeeps, ExitKeeps, KillKeeps, OutputKeeps,
     KeepOpenKeeps
<1>5. ASSUME NEW c \in Clients, remove_client(c) \/ Stall(c)
      PROVE  Inv'
  BY <1>5, RemoveClientKeeps, StallKeeps
<1>6. CASE EndRound
  BY <1>6, EndRoundKeeps DEF RoundEnded
<1>7. CASE Tick
  BY <1>7, TickKeeps
<1>8. CASE UNCHANGED vars
  BY <1>8, StutterKeeps
<1>9. CASE apply_agent_definitions
  BY <1>9, ApplyAgentDefinitionsKeeps
<1> QED
  BY <1>1, <1>2, <1>3, <1>4, <1>5, <1>6, <1>7, <1>8, <1>9 DEF Next

LEMMA Invariance == Spec => []Inv
<1>1. Init => Inv
  BY InitInv
<1>2. Inv /\ [Next]_vars => Inv'
  BY NextInv
<1> QED
  BY <1>1, <1>2, PTL DEF Spec

----------------------------------------------------------------------------
(* Theorems                                                                *)

\* Every request is answered once or leaves with its client, whatever the
\* panes, agents, clients and the clock do (answer_held, finish_agent_waits,
\* resolve_capture_waits, remove_client).
THEOREM AnswersSafe == Spec => []AnsweredOnce
<1>1. Inv => AnsweredOnce
  <2> SUFFICES ASSUME Inv PROVE AnsweredOnce
    OBVIOUS
  <2>0. Types /\ \A k \in Keys : OneKey(k, asked[k], Held(k), answers[k], conn[k[1]])
    BY DEF Inv, Once
  <2>1. TypeOK
    <3>1. ASSUME NEW p \in Panes, panes[p] # None
          PROVE  /\ panes[p].generation \in 1 .. generations
                 /\ panes[p].agent # None => panes[p].agent.state \in States
                 /\ panes[p].marks \subseteq 1 .. drawn
      <4>1. IsPane(panes[p], generations, drawn, now) /\ generations \in Nat /\ drawn \in Nat
        BY <3>1, <2>0 DEF Types
      <4>2. panes[p] \in PaneStates
        BY <4>1 DEF IsPane
      <4>3. panes[p].generation \in Nat /\ panes[p].marks \subseteq Nat
        BY <4>2 DEF PaneStates
      <4>4. panes[p].agent # None => panes[p].agent.state \in States
        BY <4>2 DEF PaneStates, Agents
      <4> QED
        BY <4>1, <4>3, <4>4 DEF IsPane
    <3> QED
      BY <2>0, <3>1 DEF TypeOK, Types, OneKey
  <2>2. OneAnswer
    <3> SUFFICES ASSUME NEW k \in Keys
                 PROVE  /\ answers[k] <= 1
                        /\ asked[k] # None /\ conn[k[1]] # "gone" => Held(k) # (answers[k] = 1)
                        /\ k[2] = 0 => (conn[k[1]] = "closing" => answers[k] = 1)
      BY DEF OneAnswer
    <3>1. OneKey(k, asked[k], Held(k), answers[k], conn[k[1]])
      BY <2>0
    <3>2. Held(k) \in BOOLEAN
      BY DEF Held
    <3> QED
      BY <3>1, <3>2 DEF OneKey
  <2> QED
    BY <2>1, <2>2 DEF AnsweredOnce
<1> QED
  BY <1>1, Invariance, PTL

\* No agent wait sleeps through its condition, nor through the end of its agent or
\* pane unless that end was a quiet one and nothing has changed since
\* (resolve_agent_waits, register_agent_wait, register_agent_prompt,
\* sync_pane_runtime_inner).
THEOREM StatesNoticed == Spec => []NoMissedState
<1>1. Inv => NoMissedState
  BY DEF Inv, Agented, Awake, Missed, NoMissedState, RightlyHeld, MissedTheEnd, Verdict
<1> QED
  BY <1>1, Invariance, PTL

\* A prompt is answered by the turn it started (needs_departure).
THEOREM PromptsFresh == Spec => []PromptAnswerFresh
<1>1. Inv => PromptAnswerFresh
  BY DEF Inv, Replied
<1> QED
  BY <1>1, Invariance, PTL

\* An answer about a reference is about that very agent (evaluate_agent_wait).
THEOREM AgentsExact == Spec => []ExactAgent
<1>1. Inv => ExactAgent
  BY DEF Inv, Replied
<1> QED
  BY <1>1, Invariance, PTL

\* The answer of a screen wait is true of the screen (ScreenWait::observe,
\* status, resolve_capture_waits).
THEOREM ScreensTrue == Spec => []ScreenAnswers
<1>1. Inv => ScreenAnswers
  BY DEF Inv, Replied
<1> QED
  BY <1>1, Invariance, PTL

\* No request outlives its deadline by more than a round (expire_agent_waits,
\* ScreenWait::status).
THEOREM DeadlinesSafe == Spec => DeadlinesKept
<1>1. Inv /\ [Next]_vars =>
        [\/ \A k \in Keys : (Held(k)' /\ Deadlines(k)' # None) => now < Deadlines(k)'
         \/ ~EndRound]_vars
  <2> SUFFICES ASSUME Inv, EndRound, NEW k \in Keys, Held(k)', Deadlines(k)' # None
               PROVE  now < Deadlines(k)'
    BY Zenon
  <2>1. RoundEnded
    BY EndRoundKeeps
  <2>2. CASE k \in DOMAIN agent_waits'
    BY <2>1, <2>2 DEF RoundEnded, Deadlines
  <2>3. CASE k \notin DOMAIN agent_waits'
    <3>1. k[1] \in DOMAIN capture_waits' /\ Deadlines(k)' = capture_waits'[k[1]].deadline
      BY <2>3 DEF Held, Deadlines
    <3> QED
      BY <3>1, <2>1 DEF RoundEnded
  <2> QED
    BY <2>2, <2>3
<1> QED
  BY <1>1, Invariance, PTL DEF Spec, DeadlinesKept
=============================================================================
