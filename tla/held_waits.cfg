SPECIFICATION Spec
CONSTANTS
  Panes = {p}
  Headless = {h}
  Attached = {u}
  RequestIds = {1}
  States = {"working", "idle"}
  Conditions = {"idle", "turn", "gone"}
  Timeouts = {2}
  Settles = {0, 1}
  MaxTime = 2
  MaxEvents = 2
  None = None
INVARIANT AnsweredOnce
INVARIANT ScreenAnswers
INVARIANT NoMissedState
INVARIANT PromptAnswerFresh
INVARIANT ExactAgent
PROPERTY DeadlinesKept
CHECK_DEADLOCK FALSE
