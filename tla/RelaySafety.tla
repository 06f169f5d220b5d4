----------------------------- MODULE RelaySafety -----------------------------
(***************************************************************************)
(* The properties of RelayManager.  Those that speak of the output under   *)
(* a healthy bus hold when Outcomes = {"ok"}.                              *)
(***************************************************************************)
EXTENDS RelayManager

RelaysTyped ==
  /\ timer_active \in [Relays -> BOOLEAN]
  /\ force \in [Relays -> Forces]
  /\ output_on \in [Relays -> BOOLEAN]
  /\ off_in \in [Relays -> Int]

HardwareTyped ==
  /\ shadow \in [Relays -> {0, 1}]
  /\ latch \in [Relays -> {0, 1}]

TaskTyped ==
  /\ boot \in {"down", "running", "failed"}
  /\ pc \in {"receive", "expire", "scan"}
  /\ cursor \in Relays
  /\ scan_age \in Nat
  /\ busy \in 0 .. WriteTicks
  /\ polled \in 0 .. PollTicks

CallsTyped ==
  /\ call \in [Clients -> [pc : {"idle", "blocked", "awaiting"},
                           msg : Message \cup {Nobody}, waited : 0 .. ReplyTicks]]
  /\ \A c \in Clients : call[c].pc # "idle" => call[c].msg \in Message
  /\ slot \in [Clients -> Relays \cup {NoReply}]

TypeOK ==
  /\ RelaysTyped
  /\ HardwareTyped
  /\ TaskTyped
  /\ CallsTyped
  /\ queue \in Seq(QueueEntry)

(* Longest time the writes of k relays take.                               *)
WritesOf(k) == k * WriteTicks

(* How far past its off time a hold can run, at most: a pass over all the *)
(* relays that just missed it, the wait for a message, and the pass that   *)
(* ends it.                                                                *)
Slack == 2 * WritesOf(NumRelays) + PollTicks

(* A hold is dead-man: its timer never survives its off time by Slack or   *)
(* more, whatever the traffic on the queue and whatever the writes return. *)
(* expire_timers runs after every message, not only when the queue is      *)
(* quiet, so a flood of messages cannot keep a relay on.                   *)
TimerDeadline == \A r \in Relays : timer_active[r] => off_in[r] > - Slack

(* What makes TimerDeadline inductive: how far past its off time a timer   *)
(* can be, from where the task is and how long it has been there.          *)
DeadlineInv ==
  /\ pc # "receive" \/ busy > 0 => polled = 0
  /\ pc = "receive" =>
       \A r \in Relays : timer_active[r] => off_in[r] > busy - polled - WritesOf(NumRelays)
  /\ pc = "expire" =>
       \A r \in Relays : timer_active[r] =>
         off_in[r] > busy - WriteTicks - WritesOf(NumRelays) - PollTicks
  /\ pc = "scan" =>
       /\ scan_age + busy <= WritesOf(cursor - 1)
       /\ \A r \in Relays : timer_active[r] =>
            off_in[r] + scan_age > IF r < cursor THEN 0
                                   ELSE - WriteTicks - WritesOf(NumRelays) - PollTicks

(* On a healthy bus, the output stage drives each relay as its force and   *)
(* timer ask, between any two steps: forced off is off, forced on is on,   *)
(* and an unforced relay is on just while its timer runs.                  *)
OutputFollowsIntent ==
  boot = "running" /\ Outcomes = {"ok"} =>
    \A r \in Relays : Energized(r) <=> Desired(timer_active[r], force[r])

(* The expander, its shadow and output_on.  Even when writes are lost or   *)
(* reach the device unacknowledged, the shadow agrees with output_on, and  *)
(* the device differs from the shadow in one relay at most: the failed     *)
(* write of another relay takes back what an earlier one left behind.      *)
OneRelayStale ==
  boot = "running" /\ Backend = "Tca9554" =>
    /\ \A r \in Relays : shadow[r] = OutputLevel(output_on[r])
    /\ \E stale \in Relays : \A r \in Relays \ {stale} : latch[r] = shadow[r]

(* What makes the two properties above inductive: until the task runs no   *)
(* relay has a force, a timer or an output recorded as on; on a healthy    *)
(* bus the device, the shadow and output_on agree with the intent.         *)
NothingAsked ==
  boot # "running" =>
    \A r \in Relays : ~timer_active[r] /\ force[r] = "None" /\ ~output_on[r]

AllAgree ==
  boot = "running" =>
    \A r \in Relays : /\ output_on[r] <=> Desired(timer_active[r], force[r])
                      /\ latch[r] = OutputLevel(output_on[r])
                      /\ Backend = "Tca9554" => shadow[r] = latch[r]

(* A relay whose contact state and recorded state disagree is driven right *)
(* again by the next write that is acknowledged, whichever relay it is for.*)
AcknowledgedWriteRepairs ==
  [][boot = "running" /\ boot' = "running" /\ output_on' # output_on
       => \A r \in Relays : latch'[r] = OutputLevel(output_on'[r])]_vars

(* A hold ends only because its time is up, because someone set it to      *)
(* zero, or with a restart: forcing the relay and releasing it, or a       *)
(* failing write, leave the hold as it was.                                *)
HoldEndsOnlyWhenDue ==
  [][\A r \in Relays :
       timer_active[r] /\ ~timer_active'[r] /\ boot' = "running" =>
         \/ off_in[r] <= 0
         \/ Head(queue).type = "OnFor" /\ Head(queue).relay = r /\ Head(queue).hold = 0
    ]_vars

(* While a hold lasts, its off time never moves to an earlier moment: the  *)
(* short hold of one caller cannot cut the long hold of another.           *)
HoldNeverShortened ==
  [][\A r \in Relays : timer_active[r] /\ timer_active'[r] =>
       Tick \/ off_in'[r] >= off_in[r]]_vars

(* Every message in the queue that asks for a reply has a caller waiting   *)
(* for it: the task never answers into a reply queue that is gone.         *)
ReplyQueueAlive ==
  \A i \in 1 .. Len(queue) : queue[i].reply # Nobody =>
    LET c == queue[i].reply IN
    /\ call[c].pc = "awaiting" /\ slot[c] = NoReply
    /\ \A j \in 1 .. Len(queue) : queue[j].reply = c => j = i

(* A caller that asked for the state of one relay never gets another's:    *)
(* relay_state(r) in the policy returns the state of relay r.              *)
ReplyAnswersTheQuery ==
  \A c \in Clients :
    call[c].pc = "awaiting" /\ slot[c] # NoReply => slot[c] = call[c].msg.relay

(* Longest time from one xQueueReceive of the task to the next: the write  *)
(* of the message it took and a pass over all the relays.                  *)
Turn == WritesOf(NumRelays) + WriteTicks

TurnsOf(k) == k * Turn

(* Longest time until the task is back in xQueueReceive.                   *)
Backlog ==
  busy + (IF pc = "receive" THEN 0
          ELSE IF pc = "expire" THEN WritesOf(NumRelays)
          ELSE WritesOf(NumRelays - cursor + 1))

(* Entry e asks for no reply, or its caller has the time to wait for it.   *)
Awaited(e, left) ==
  e.reply # Nobody =>
    /\ call[e.reply].pc = "awaiting"
    /\ call[e.reply].msg.relay = e.relay
    /\ call[e.reply].waited + left <= TurnsOf(QueueLength)
    /\ slot[e.reply] = NoReply

(* What makes the two properties above inductive while the callers are     *)
(* patient: the task comes to every queued query before its caller gives   *)
(* up, and a reply that has arrived is the one its caller asked for.       *)
QueriesWait ==
  /\ Len(queue) <= QueueLength
  /\ \A i \in 1 .. Len(queue) : Awaited(queue[i], Backlog + TurnsOf(i - 1))
  /\ \A i, j \in 1 .. Len(queue) :
       queue[i].reply # Nobody /\ queue[i].reply = queue[j].reply => i = j
  /\ \A c \in Clients : slot[c] # NoReply =>
       call[c].pc = "awaiting" /\ slot[c] = call[c].msg.relay

(* A caller waits longer than a full queue of messages can take: 16 turns  *)
(* of nine writes of a millisecond against a second, on a bus that works.  *)
Patient == TurnsOf(QueueLength) < ReplyTicks

(* Force-off wins over everything: a running system that has a relay       *)
(* forced off has it open, if not at once then eventually.                 *)
ForceOffWins ==
  \A r \in Relays :
    boot = "running" /\ force[r] = "Off"
      ~> boot # "running" \/ force[r] # "Off" \/ ~Energized(r)

(* No caller waits for ever, for room in the queue or for an answer.       *)
EveryCallReturns == \A c \in Clients : call[c].pc # "idle" ~> call[c].pc = "idle"

-----------------------------------------------------------------------------
Contract == INSTANCE RelayContract WITH
  Relay <- Relays,
  Grace <- Slack,
  on_duty <- boot = "running",
  contact <- [r \in Relays |-> Energized(r)],
  lease <- [r \in Relays |-> IF timer_active[r] THEN off_in[r] + Slack ELSE 0]

(* Relays whose hold the message at the head of the queue sets to zero.    *)
Revoking ==
  {r \in Relays : queue # <<>> /\ Head(queue).type = "OnFor"
                    /\ Head(queue).relay = r /\ Head(queue).hold = 0}

(* On a healthy bus the relay manager implements its contract.             *)
ImplementsContract ==
  Contract!CInit /\ [][Contract!CNext(Revoking)]_(Contract!cvars)
=============================================================================
