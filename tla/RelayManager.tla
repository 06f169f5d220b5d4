---------------------------- MODULE RelayManager ----------------------------
(***************************************************************************)
(* The relay task of src/main/relay_manager.cpp, its request queue, the    *)
(* tasks that call the relay_manager_* functions, and the output hardware. *)
(*                                                                         *)
(* Time is relative and discrete.  off_in[r] is off_at_us minus the        *)
(* current time; Tick is the passing of one unit.  The relay task is       *)
(* urgent: no time passes while it has something to do, except in an       *)
(* output write, which takes up to WriteTicks.                             *)
(***************************************************************************)
EXTENDS Integers, Sequences, FiniteSets

CONSTANTS
  NumRelays,    \* g_hardware.count
  Backend,      \* g_hardware.kind: "Gpio" or "Tca9554"
  ActiveLevel,  \* g_hardware.active_level
  Outcomes,     \* outcomes an output write can have, see HardwareSetOutput
  QueueLength,  \* kQueueLength
  PollTicks,    \* the 250 ms receive timeout of relay_task
  WriteTicks,   \* longest output write (kI2cTimeoutMs)
  ReplyTicks,   \* kRequestTimeout
  Clients,      \* the calling tasks: policy, console, NimBLE host
  Repertoire,   \* Repertoire[c]: the messages client c may send
  Nobody        \* no client, no message

Relays == 1 .. NumRelays
Forces == {"None", "On", "Off"}
NoReply == 0

(* A RelayMessage.  hold is `seconds` in ticks, read for OnFor only.       *)
Message == [type : {"OnFor", "ForceOn", "ForceOff", "ClearForce", "Query"},
            relay : Relays, hold : Nat]

(* What g_queue holds: a message and the client to answer, if any.         *)
QueueEntry == [type : {"OnFor", "ForceOn", "ForceOff", "ClearForce", "Query"},
               relay : Relays, hold : Nat, reply : Clients \cup {Nobody}]

(* GPIO writes cannot fail (the board loader checks the pins); an I2C      *)
(* write can be lost or reach the device and still be reported as failed.  *)
ASSUME ConstantsAssumption ==
  /\ NumRelays \in Nat \ {0}
  /\ Backend \in {"Gpio", "Tca9554"}
  /\ ActiveLevel \in {0, 1}
  /\ Outcomes \subseteq {"ok", "lost", "unacked"}
  /\ "ok" \in Outcomes
  /\ Backend = "Gpio" => Outcomes = {"ok"}
  /\ QueueLength \in Nat \ {0}
  /\ PollTicks \in Nat \ {0}
  /\ WriteTicks \in Nat
  /\ ReplyTicks \in Nat
  /\ Repertoire \in [Clients -> SUBSET Message]
  /\ Nobody \notin Clients

VARIABLES
  boot,          \* "down", "running" or "failed": how far relay_manager_start got
  timer_active, force, output_on, off_in,   \* the RelayState array g_relays
  shadow,        \* shadow[r]: relay r's bit of g_tca_output
  latch,         \* latch[r]: the level the output stage drives for relay r
  queue,         \* g_queue
  pc,            \* where relay_task is
  cursor,        \* loop variable of expire_timers
  scan_age,      \* time since the `now` that expire_timers works with
  busy,          \* longest time the current output write may still take
  polled,        \* time spent in xQueueReceive
  call,          \* what each client is doing
  slot           \* slot[c]: the relay described in c's reply queue, or NoReply

ram == <<timer_active, force, output_on, off_in>>
hw == <<shadow, latch>>
task == <<pc, cursor, scan_age, busy, polled>>
clients == <<call, slot>>
vars == <<boot, ram, hw, queue, task, clients>>

Idle == [pc |-> "idle", msg |-> Nobody, waited |-> 0]

-----------------------------------------------------------------------------
(* The hardware.                                                           *)

OutputLevel(on) == IF on THEN ActiveLevel ELSE 1 - ActiveLevel

Energized(r) == latch[r] = OutputLevel(TRUE)

AllInactive == [r \in Relays |-> OutputLevel(FALSE)]

(* Mutant: the shadow is updated before the write is known to have worked. *)
HardwareSetOutputEager(r, on, outcome) ==
  LET next == [shadow EXCEPT ![r] = OutputLevel(on)] IN
  /\ shadow' = next
  /\ latch' = IF outcome = "lost" THEN latch ELSE next

(* The TCA9554 register is written whole, from the shadow, so a write of   *)
(* one relay also carries the shadow's bits of all the others.             *)
HardwareSetOutput(r, on, outcome) ==
  IF Backend = "Gpio"
    THEN /\ latch' = [latch EXCEPT ![r] = OutputLevel(on)]
         /\ UNCHANGED shadow
    ELSE LET next == [shadow EXCEPT ![r] = OutputLevel(on)] IN
         /\ shadow' = IF outcome = "ok" THEN next ELSE shadow
         /\ latch' = IF outcome = "lost" THEN latch ELSE next

-----------------------------------------------------------------------------
(* The relay task.                                                         *)

Desired(active, f) ==
  \/ f = "On"
  \/ f = "None" /\ active

(* Mutant: the cached output state is updated even if the write failed.    *)
ApplyOutputOptimistic(r, active, f, outcome) ==
  LET desired == Desired(active, f) IN
  IF output_on[r] = desired
    THEN /\ UNCHANGED <<output_on, hw>>
         /\ busy' = 0
    ELSE /\ HardwareSetOutput(r, desired, outcome)
         /\ output_on' = [output_on EXCEPT ![r] = desired]
         /\ busy' \in 0 .. WriteTicks

(* apply_output for relay r with timer flag `active` and force f.          *)
ApplyOutput(r, active, f, outcome) ==
  LET desired == Desired(active, f) IN
  IF output_on[r] = desired
    THEN /\ UNCHANGED <<output_on, hw>>
         /\ busy' = 0
    ELSE /\ HardwareSetOutput(r, desired, outcome)
         /\ output_on' = [output_on EXCEPT ![r] = IF outcome = "ok" THEN desired ELSE @]
         /\ busy' \in 0 .. WriteTicks

(* Mutant: timers are only looked at when the queue is quiet.              *)
ReceiveSkipsExpiry ==
  /\ boot = "running" /\ pc = "receive" /\ busy = 0 /\ queue # <<>>
  /\ queue' = Tail(queue)
  /\ pc' = "receive"
  /\ polled' = 0
  /\ UNCHANGED <<boot, cursor, scan_age, call>>

(* The task has a message in hand: xQueueReceive returned pdTRUE.          *)
Receive ==
  /\ boot = "running" /\ pc = "receive" /\ busy = 0 /\ queue # <<>>
  /\ queue' = Tail(queue)
  /\ pc' = "expire"
  /\ polled' = 0
  /\ UNCHANGED <<boot, cursor, scan_age, call>>

Longer(a, b) == IF a > b THEN a ELSE b

(* Mutant: a shorter request replaces a longer hold.                       *)
NewOffInReplaces(m) == m.hold

NewOffIn(m) ==
  IF timer_active[m.relay] THEN Longer(off_in[m.relay], m.hold) ELSE m.hold

HandleOnFor ==
  /\ Receive
  /\ LET m == Head(queue)
         active == m.hold > 0
     IN /\ m.type = "OnFor"
        /\ timer_active' = [timer_active EXCEPT ![m.relay] = active]
        /\ off_in' = [off_in EXCEPT ![m.relay] = IF active THEN NewOffIn(m) ELSE 0]
        /\ \E outcome \in Outcomes : ApplyOutput(m.relay, active, force[m.relay], outcome)
  /\ UNCHANGED <<force, slot>>

ForceOf(type) ==
  IF type = "ForceOn" THEN "On" ELSE IF type = "ForceOff" THEN "Off" ELSE "None"

(* Mutant: a force also cancels the hold.                                  *)
HandleForceCancelsHold ==
  /\ Receive
  /\ LET m == Head(queue) IN
     /\ m.type \in {"ForceOn", "ForceOff", "ClearForce"}
     /\ force' = [force EXCEPT ![m.relay] = ForceOf(m.type)]
     /\ timer_active' = [timer_active EXCEPT ![m.relay] = FALSE]
     /\ off_in' = [off_in EXCEPT ![m.relay] = 0]
     /\ \E outcome \in Outcomes : ApplyOutput(m.relay, FALSE, ForceOf(m.type), outcome)
  /\ UNCHANGED slot

(* Mutant: releasing a relay leaves its output as it is.                   *)
HandleForceReleasesLate ==
  /\ Receive
  /\ LET m == Head(queue) IN
     /\ m.type \in {"ForceOn", "ForceOff", "ClearForce"}
     /\ force' = [force EXCEPT ![m.relay] = ForceOf(m.type)]
     /\ IF m.type = "ClearForce"
          THEN /\ UNCHANGED <<output_on, hw>>
               /\ busy' = 0
          ELSE \E outcome \in Outcomes :
                 ApplyOutput(m.relay, timer_active[m.relay], ForceOf(m.type), outcome)
  /\ UNCHANGED <<timer_active, off_in, slot>>

HandleForce ==
  /\ Receive
  /\ LET m == Head(queue) IN
     /\ m.type \in {"ForceOn", "ForceOff", "ClearForce"}
     /\ force' = [force EXCEPT ![m.relay] = ForceOf(m.type)]
     /\ \E outcome \in Outcomes :
          ApplyOutput(m.relay, timer_active[m.relay], ForceOf(m.type), outcome)
  /\ UNCHANGED <<timer_active, off_in, slot>>

(* c is inside relay_manager_query: its reply queue exists.                *)
Asking(c) ==
  /\ call[c].pc # "idle"
  /\ call[c].msg.type = "Query"

(* The reply queue is a local of relay_manager_query, at the same place of *)
(* the stack for calls from the same place in the caller.  A reply to a    *)
(* query that gave up meanwhile is undefined behaviour: it lands in the    *)
(* queue that a later query of that task has put there, or in memory       *)
(* outside this model.                                                     *)
HandleQuery ==
  /\ Receive
  /\ LET m == Head(queue) IN
     /\ m.type = "Query"
     /\ slot' = IF Asking(m.reply) /\ slot[m.reply] = NoReply
                  THEN [slot EXCEPT ![m.reply] = m.relay]
                  ELSE slot
  /\ busy' = 0
  /\ UNCHANGED <<ram, hw>>

(* xQueueReceive returned after 250 ms without a message.                  *)
PollExpires ==
  /\ boot = "running" /\ pc = "receive" /\ busy = 0
  /\ queue = <<>> /\ polled >= PollTicks
  /\ pc' = "expire"
  /\ polled' = 0
  /\ UNCHANGED <<boot, ram, hw, queue, cursor, scan_age, busy, clients>>

(* expire_timers is called with the time of the call...                    *)
BeginExpire ==
  /\ boot = "running" /\ pc = "expire" /\ busy = 0
  /\ pc' = "scan"
  /\ cursor' = 1
  /\ scan_age' = 0
  /\ UNCHANGED <<boot, ram, hw, queue, busy, polled, clients>>

(* Mutant: the loop variable is not reset.                                 *)
ScanAdvancesPastEnd ==
  /\ cursor' = cursor + 1
  /\ pc' = IF cursor = NumRelays THEN "receive" ELSE "scan"
  /\ UNCHANGED <<boot, force, queue, scan_age, polled, clients>>

ScanAdvances ==
  /\ cursor' = IF cursor = NumRelays THEN 1 ELSE cursor + 1
  /\ pc' = IF cursor = NumRelays THEN "receive" ELSE "scan"
  /\ UNCHANGED <<boot, force, queue, scan_age, polled, clients>>

Expired(r) == timer_active[r] /\ off_in[r] + scan_age <= 0

(* Mutant: a timer is kept until its write is acknowledged.                *)
ExpireRelayKeepsTimer ==
  /\ boot = "running" /\ pc = "scan" /\ busy = 0
  /\ Expired(cursor)
  /\ \E outcome \in Outcomes :
       /\ ApplyOutput(cursor, FALSE, force[cursor], outcome)
       /\ timer_active' = [timer_active EXCEPT ![cursor] = outcome # "ok"]
       /\ off_in' = [off_in EXCEPT ![cursor] = IF outcome = "ok" THEN 0 ELSE @]
  /\ ScanAdvances

(* ... and its loop body, once per relay.                                  *)
ExpireRelay ==
  /\ boot = "running" /\ pc = "scan" /\ busy = 0
  /\ Expired(cursor)
  /\ timer_active' = [timer_active EXCEPT ![cursor] = FALSE]
  /\ off_in' = [off_in EXCEPT ![cursor] = 0]
  /\ \E outcome \in Outcomes : ApplyOutput(cursor, FALSE, force[cursor], outcome)
  /\ ScanAdvances

KeepRelay ==
  /\ boot = "running" /\ pc = "scan" /\ busy = 0
  /\ ~Expired(cursor)
  /\ busy' = 0
  /\ UNCHANGED <<timer_active, off_in, output_on, hw>>
  /\ ScanAdvances

RelayTask ==
  \/ HandleOnFor
  \/ HandleForce
  \/ HandleQuery
  \/ PollExpires
  \/ BeginExpire
  \/ ExpireRelay
  \/ KeepRelay

-----------------------------------------------------------------------------
(* The callers.  relay_manager_on_for, _force_on, _force_off, _clear_force *)
(* and _query return at once with an error when the relay number is bad or *)
(* relay_manager_start did not get as far as the queue: no state changes.  *)

Room == Len(queue) < QueueLength

(* A query asks for a reply; a command does not.                           *)
Entry(c, m) ==
  [type |-> m.type, relay |-> m.relay, hold |-> m.hold,
   reply |-> IF m.type = "Query" THEN c ELSE Nobody]

(* Once queued, a command returns and a query waits for its answer.        *)
Sent(c, m) ==
  /\ queue' = Append(queue, Entry(c, m))
  /\ call' = [call EXCEPT ![c] =
                IF m.type = "Query" THEN [pc |-> "awaiting", msg |-> m, waited |-> 0]
                                    ELSE Idle]
  /\ UNCHANGED <<boot, ram, hw, task, slot>>

Send(c) ==
  /\ boot = "running" /\ call[c] = Idle /\ Room
  /\ \E m \in Repertoire[c] : Sent(c, m)

Block(c) ==
  /\ boot = "running" /\ call[c] = Idle /\ ~Room
  /\ \E m \in Repertoire[c] :
       call' = [call EXCEPT ![c] = [pc |-> "blocked", msg |-> m, waited |-> 0]]
  /\ UNCHANGED <<boot, ram, hw, queue, task, slot>>

Unblock(c) ==
  /\ call[c].pc = "blocked" /\ Room
  /\ Sent(c, call[c].msg)

(* ESP_ERR_TIMEOUT from send_message: the message is not queued.           *)
SendTimeout(c) ==
  /\ call[c].pc = "blocked" /\ call[c].waited = ReplyTicks /\ ~Room
  /\ call' = [call EXCEPT ![c] = Idle]
  /\ slot' = [slot EXCEPT ![c] = NoReply]
  /\ UNCHANGED <<boot, ram, hw, queue, task>>

(* Mutant: a query goes on waiting for a reply that matches.               *)
AnswerMatching(c) ==
  /\ call[c].pc = "awaiting" /\ slot[c] = call[c].msg.relay
  /\ call' = [call EXCEPT ![c] = Idle]
  /\ slot' = [slot EXCEPT ![c] = NoReply]
  /\ UNCHANGED <<boot, ram, hw, queue, task>>

Answer(c) ==
  /\ call[c].pc = "awaiting" /\ slot[c] # NoReply
  /\ call' = [call EXCEPT ![c] = Idle]
  /\ slot' = [slot EXCEPT ![c] = NoReply]
  /\ UNCHANGED <<boot, ram, hw, queue, task>>

(* Mutant: a query does not wait for its whole second.                     *)
ReplyTimeoutHasty(c) ==
  /\ call[c].pc = "awaiting" /\ slot[c] = NoReply
  /\ call' = [call EXCEPT ![c] = Idle]
  /\ UNCHANGED <<boot, ram, hw, queue, task, slot>>

(* The reply queue is deleted; the message that refers to it stays queued. *)
ReplyTimeout(c) ==
  /\ call[c].pc = "awaiting" /\ slot[c] = NoReply
  /\ call[c].waited = ReplyTicks
  /\ call' = [call EXCEPT ![c] = Idle]
  /\ UNCHANGED <<boot, ram, hw, queue, task, slot>>

Client(c) ==
  \/ Send(c)
  \/ Block(c)
  \/ Unblock(c)
  \/ SendTimeout(c)
  \/ Answer(c)
  \/ ReplyTimeout(c)

-----------------------------------------------------------------------------
(* Start, reset and time.                                                  *)

(* Mutant: the output stage is trusted to come up inactive.                *)
StartTrustsReset ==
  /\ boot = "down"
  /\ shadow' = AllInactive
  /\ \E outcome \in Outcomes : boot' = IF outcome = "ok" THEN "running" ELSE "failed"
  /\ latch' = latch
  /\ UNCHANGED <<ram, queue, task, clients>>

(* relay_manager_start: drive every relay inactive, then make the pins     *)
(* outputs (o2: the TCA9554 configuration register), then create the queue *)
(* and the task.  main does not try again when it fails.                   *)
Start ==
  /\ boot = "down"
  /\ shadow' = AllInactive
  /\ \E o1 \in Outcomes, o2 \in Outcomes :
       /\ boot' = IF o1 = "ok" /\ o2 = "ok" THEN "running" ELSE "failed"
       /\ latch' = IF o1 = "lost" THEN latch ELSE AllInactive
  /\ UNCHANGED <<ram, queue, task, clients>>

(* Everything in RAM is lost.  The TCA9554 is not reset with the processor *)
(* and keeps its register; GPIO pins become inputs and drive nothing.      *)
Reboot ==
  /\ boot' = "down"
  /\ timer_active' = [r \in Relays |-> FALSE]
  /\ force' = [r \in Relays |-> "None"]
  /\ output_on' = [r \in Relays |-> FALSE]
  /\ off_in' = [r \in Relays |-> 0]
  /\ shadow' = AllInactive
  /\ latch' = IF Backend = "Gpio" THEN AllInactive ELSE latch
  /\ queue' = <<>>
  /\ pc' = "receive" /\ cursor' = 1 /\ scan_age' = 0 /\ busy' = 0 /\ polled' = 0
  /\ call' = [c \in Clients |-> Idle]
  /\ slot' = [c \in Clients |-> NoReply]

(* The task is waiting: for a write to end, or for a message.              *)
TaskWaits ==
  \/ busy > 0
  \/ pc = "receive" /\ queue = <<>> /\ polled < PollTicks

Tick ==
  /\ boot = "running" /\ TaskWaits
  /\ off_in' = [r \in Relays |-> IF timer_active[r] THEN off_in[r] - 1 ELSE off_in[r]]
  /\ IF busy > 0 THEN /\ busy' = busy - 1
                      /\ UNCHANGED polled
                 ELSE /\ polled' = polled + 1
                      /\ UNCHANGED busy
  /\ scan_age' = IF pc = "scan" THEN scan_age + 1 ELSE scan_age
  /\ call' = [c \in Clients |->
                IF call[c].pc # "idle" /\ call[c].waited < ReplyTicks
                  THEN [call[c] EXCEPT !.waited = @ + 1] ELSE call[c]]
  /\ UNCHANGED <<boot, timer_active, force, output_on, hw, queue, pc, cursor, slot>>

Init ==
  /\ boot = "down"
  /\ timer_active = [r \in Relays |-> FALSE]
  /\ force = [r \in Relays |-> "None"]
  /\ output_on = [r \in Relays |-> FALSE]
  /\ off_in = [r \in Relays |-> 0]
  /\ shadow = AllInactive
  /\ latch \in [Relays -> {0, 1}]
  /\ Backend = "Gpio" => latch = AllInactive
  /\ queue = <<>>
  /\ pc = "receive" /\ cursor = 1 /\ scan_age = 0 /\ busy = 0 /\ polled = 0
  /\ call = [c \in Clients |-> Idle]
  /\ slot = [c \in Clients |-> NoReply]

Next ==
  \/ RelayTask
  \/ \E c \in Clients : Client(c)
  \/ Start
  \/ Reboot
  \/ Tick

(* The relay task and the callers are FreeRTOS tasks that run when they    *)
(* are ready, and time passes.  A blocked sender is woken by the queue     *)
(* when room appears, however often others use it: strong fairness.        *)
Fairness ==
  /\ WF_vars(RelayTask)
  /\ WF_vars(Tick)
  /\ \A c \in Clients :
       /\ WF_vars(Answer(c) \/ ReplyTimeout(c) \/ SendTimeout(c))
       /\ SF_vars(Unblock(c))

Spec == Init /\ [][Next]_vars

FairSpec == Spec /\ Fairness
=============================================================================
