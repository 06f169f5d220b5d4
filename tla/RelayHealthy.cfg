SPECIFICATION Spec
CONSTANTS
  NumRelays = 2
  Backend = "Tca9554"
  ActiveLevel = 0
  Outcomes = {"ok"}
  QueueLength = 2
  PollTicks = 1
  WriteTicks = 1
  ReplyTicks = 7
  Nobody = Nobody
  policy = policy
  console = console
  Clients = {policy, console}
  Repertoire <- MCRepertoire
INVARIANTS
  TypeOK
  TimerDeadline
  OutputFollowsIntent
  ReplyQueueAlive
  ReplyAnswersTheQuery
PROPERTIES
  HoldEndsOnlyWhenDue
  HoldNeverShortened
  ImplementsContract
