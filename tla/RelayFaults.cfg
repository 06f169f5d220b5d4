SPECIFICATION FairSpec
CONSTANTS
  NumRelays = 2
  Backend = "Tca9554"
  ActiveLevel = 1
  Outcomes = {"ok", "lost", "unacked"}
  QueueLength = 1
  PollTicks = 1
  WriteTicks = 1
  ReplyTicks = 1
  Nobody = Nobody
  policy = policy
  console = console
  Clients = {policy, console}
  Repertoire <- MCRepertoire
INVARIANTS
  TimerDeadline
  OneRelayStale
PROPERTIES
  AcknowledgedWriteRepairs
  EveryCallReturns
