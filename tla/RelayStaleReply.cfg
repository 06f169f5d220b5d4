SPECIFICATION Spec
CONSTANTS
  NumRelays = 2
  Backend = "Tca9554"
  ActiveLevel = 0
  Outcomes = {"ok", "lost"}
  QueueLength = 16
  PollTicks = 3
  WriteTicks = 1
  ReplyTicks = 10
  Nobody = Nobody
  policy = policy
  Clients = {policy}
  Repertoire <- MCRepertoire
INVARIANT ReplyAnswersTheQuery
