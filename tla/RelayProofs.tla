----------------------------- MODULE RelayProofs -----------------------------
(***************************************************************************)
(* Theorems about RelayManager, for every number of relays, queue length,  *)
(* set of clients and timing.                                              *)
(***************************************************************************)
EXTENDS RelaySafety, TLAPS

(* The head of a non-empty queue is one of its messages, and its tail is a *)
(* queue again.                                                            *)
LEMMA HeadTail ==
  ASSUME NEW S, NEW q \in Seq(S), q # <<>>
  PROVE  Head(q) \in S /\ Tail(q) \in Seq(S)
  OBVIOUS

(* apply_output leaves the output state, the hardware and the duration of  *)
(* the write typed, whatever the outcome.                                  *)
LEMMA ApplyTyped ==
  ASSUME RelaysTyped, HardwareTyped, NEW r \in Relays, NEW active, NEW f,
         NEW outcome \in Outcomes, ApplyOutput(r, active, f, outcome)
  PROVE  /\ output_on' \in [Relays -> BOOLEAN]
         /\ HardwareTyped'
         /\ busy' \in 0 .. WriteTicks
<1> USE ConstantsAssumption DEF RelaysTyped, HardwareTyped
<1> DEFINE desired == Desired(active, f)
<1>1. desired \in BOOLEAN
  BY DEF Desired
<1>2. OutputLevel(desired) \in {0, 1}
  BY DEF OutputLevel
<1> HIDE DEF desired
<1>3. CASE output_on[r] = desired
  BY <1>3 DEF ApplyOutput, hw, desired
<1>4. CASE output_on[r] # desired
  <2>1. /\ HardwareSetOutput(r, desired, outcome)
        /\ output_on' = [output_on EXCEPT ![r] = IF outcome = "ok" THEN desired ELSE @]
        /\ busy' \in 0 .. WriteTicks
    BY <1>4 DEF ApplyOutput, desired
  <2>2. HardwareTyped'
    BY <2>1, <1>2 DEF HardwareSetOutput
  <2>3. QED
    BY <2>1, <2>2, <1>1
<1>5. QED
  BY <1>3, <1>4

(* The head of a non-empty queue is one of its messages, and its tail is a *)
(* queue again.                                                            *)
LEMMA QueueParts ==
  ASSUME queue \in Seq(QueueEntry), queue # <<>>
  PROVE  /\ Head(queue) \in QueueEntry
         /\ Head(queue).relay \in Relays
         /\ Head(queue).hold \in Nat
         /\ Tail(queue) \in Seq(QueueEntry)
<1>1. Head(queue) \in QueueEntry /\ Tail(queue) \in Seq(QueueEntry)
  OBVIOUS
<1>2. QED
  BY <1>1 DEF QueueEntry

(* Every variable keeps its type.  In particular the queue only ever holds *)
(* messages for relays that exist, so handle_message's check of the relay  *)
(* number never fails.                                                     *)
THEOREM TypeCorrect == Spec => []TypeOK
<1> USE ConstantsAssumption
<1>1. Init => TypeOK
  <2> SUFFICES ASSUME Init PROVE TypeOK
    OBVIOUS
  <2>1. RelaysTyped /\ HardwareTyped /\ TaskTyped
    BY DEF Init, RelaysTyped, HardwareTyped, TaskTyped, AllInactive, OutputLevel,
           Relays, Forces
  <2>2. CallsTyped
    BY DEF Init, CallsTyped, Idle, NoReply
  <2>3. queue \in Seq(QueueEntry)
    BY DEF Init
  <2>4. QED
    BY <2>1, <2>2, <2>3 DEF TypeOK
<1>2. TypeOK /\ [Next]_vars => TypeOK'
  <2> SUFFICES ASSUME TypeOK, [Next]_vars PROVE TypeOK'
    OBVIOUS
  <2>t. RelaysTyped /\ HardwareTyped /\ TaskTyped /\ CallsTyped /\ queue \in Seq(QueueEntry)
    BY DEF TypeOK
  <2>r. ASSUME Receive
        PROVE  /\ queue' \in Seq(QueueEntry)
               /\ busy' \in 0 .. WriteTicks => TaskTyped'
    <3>1. queue' \in Seq(QueueEntry)
      BY <2>r, <2>t, QueueParts DEF Receive
    <3>2. ASSUME busy' \in 0 .. WriteTicks PROVE TaskTyped'
      BY <2>r, <2>t, <3>2 DEF Receive, TaskTyped
    <3>3. QED
      BY <3>1, <3>2
  <2>1. CASE HandleOnFor
    <3> DEFINE m == Head(queue)
    <3>0. m.relay \in Relays /\ m.hold \in Nat
      BY <2>1, <2>t, QueueParts DEF HandleOnFor, Receive
    <3> HIDE DEF m
    <3>1. PICK outcome \in Outcomes : ApplyOutput(m.relay, m.hold > 0, force[m.relay], outcome)
      BY <2>1 DEF HandleOnFor, m
    <3>2. output_on' \in [Relays -> BOOLEAN] /\ HardwareTyped' /\ busy' \in 0 .. WriteTicks
      BY <3>0, <3>1, <2>t, ApplyTyped
    <3>3. NewOffIn(m) \in Int
      BY <3>0, <2>t DEF NewOffIn, Longer, RelaysTyped
    <3>4. RelaysTyped'
      BY <2>1, <2>t, <3>0, <3>2, <3>3 DEF HandleOnFor, RelaysTyped, m
    <3>5. CallsTyped'
      BY <2>1, <2>t DEF HandleOnFor, Receive, CallsTyped
    <3>6. QED
      BY <2>1, <2>r, <3>2, <3>4, <3>5 DEF HandleOnFor, TypeOK
  <2>2. CASE HandleForce
    <3> DEFINE m == Head(queue)
    <3>0. m.relay \in Relays
      BY <2>2, <2>t, QueueParts DEF HandleForce, Receive
    <3> HIDE DEF m
    <3>1. PICK outcome \in Outcomes :
            ApplyOutput(m.relay, timer_active[m.relay], ForceOf(m.type), outcome)
      BY <2>2 DEF HandleForce, m
    <3>2. output_on' \in [Relays -> BOOLEAN] /\ HardwareTyped' /\ busy' \in 0 .. WriteTicks
      BY <3>0, <3>1, <2>t, ApplyTyped
    <3>3. ForceOf(m.type) \in Forces
      BY DEF ForceOf, Forces
    <3>4. RelaysTyped'
      BY <2>2, <2>t, <3>0, <3>2, <3>3 DEF HandleForce, RelaysTyped, m
    <3>5. CallsTyped'
      BY <2>2, <2>t DEF HandleForce, Receive, CallsTyped
    <3>6. QED
      BY <2>2, <2>r, <3>2, <3>4, <3>5 DEF HandleForce, TypeOK
  <2>3. CASE HandleQuery
    <3>1. RelaysTyped' /\ HardwareTyped'
      BY <2>3, <2>t DEF HandleQuery, RelaysTyped, HardwareTyped, ram, hw
    <3>2. Head(queue).relay \in Relays
      BY <2>3, <2>t, QueueParts DEF HandleQuery, Receive
    <3>3. CallsTyped'
      BY <2>3, <2>t, <3>2 DEF HandleQuery, Receive, CallsTyped
    <3>4. busy' \in 0 .. WriteTicks
      BY <2>3 DEF HandleQuery
    <3>5. QED
      BY <2>3, <2>r, <3>1, <3>3, <3>4 DEF HandleQuery, TypeOK
  <2>4. CASE PollExpires
    BY <2>4, <2>t DEF PollExpires, TypeOK, RelaysTyped, HardwareTyped, TaskTyped, CallsTyped,
                      ram, hw, clients
  <2>5. CASE BeginExpire
    <3>1. TaskTyped'
      BY <2>5, <2>t DEF BeginExpire, TaskTyped, Relays
    <3>2. QED
      BY <2>5, <2>t, <3>1 DEF BeginExpire, TypeOK, RelaysTyped, HardwareTyped, CallsTyped,
                              ram, hw, clients
  <2>6. CASE ExpireRelay
    <3>1. PICK outcome \in Outcomes : ApplyOutput(cursor, FALSE, force[cursor], outcome)
      BY <2>6 DEF ExpireRelay
    <3>2. cursor \in Relays
      BY <2>t DEF TaskTyped
    <3>3. output_on' \in [Relays -> BOOLEAN] /\ HardwareTyped' /\ busy' \in 0 .. WriteTicks
      BY <3>1, <3>2, <2>t, ApplyTyped
    <3>4. RelaysTyped'
      BY <2>6, <2>t, <3>2, <3>3 DEF ExpireRelay, ScanAdvances, RelaysTyped
    <3>5. TaskTyped'
      BY <2>6, <2>t, <3>3 DEF ExpireRelay, ScanAdvances, TaskTyped, Relays
    <3>6. QED
      BY <2>6, <2>t, <3>3, <3>4, <3>5 DEF ExpireRelay, ScanAdvances, TypeOK, CallsTyped, clients
  <2>7. CASE KeepRelay
    <3>1. TaskTyped'
      BY <2>7, <2>t DEF KeepRelay, ScanAdvances, TaskTyped, Relays
    <3>2. QED
      BY <2>7, <2>t, <3>1 DEF KeepRelay, ScanAdvances, TypeOK, RelaysTyped, HardwareTyped,
                              CallsTyped, clients, hw
  <2>8. ASSUME NEW c \in Clients, Client(c) PROVE TypeOK'
    <3>1. UNCHANGED <<boot, ram, hw, task>>
      BY <2>8 DEF Client, Send, Block, Unblock, SendTimeout, Answer, ReplyTimeout, Sent
    <3>2. RelaysTyped' /\ HardwareTyped' /\ TaskTyped'
      BY <3>1, <2>t DEF RelaysTyped, HardwareTyped, TaskTyped, ram, hw, task
    <3>i. /\ Idle \in [pc : {"idle", "blocked", "awaiting"},
                       msg : Message \cup {Nobody}, waited : 0 .. ReplyTicks]
          /\ Idle.pc = "idle"
      BY DEF Idle
    <3>s. ASSUME NEW m \in Message, Sent(c, m)
          PROVE  CallsTyped' /\ queue' \in Seq(QueueEntry)
      <4>1. Entry(c, m) \in QueueEntry
        BY DEF Entry, QueueEntry, Message
      <4>2. queue' \in Seq(QueueEntry)
        BY <3>s, <4>1, <2>t DEF Sent
      <4> DEFINE new == IF m.type = "Query" THEN [pc |-> "awaiting", msg |-> m, waited |-> 0]
                                            ELSE Idle
      <4>3. /\ new \in [pc : {"idle", "blocked", "awaiting"},
                        msg : Message \cup {Nobody}, waited : 0 .. ReplyTicks]
            /\ new.pc # "idle" => new.msg \in Message
        BY <3>i
      <4>4. call' = [call EXCEPT ![c] = new] /\ slot' = slot
        BY <3>s DEF Sent
      <4> HIDE DEF new
      <4>5. CallsTyped'
        BY <4>3, <4>4, <2>t DEF CallsTyped
      <4>6. QED
        BY <4>2, <4>5
    <3>3. CASE Send(c)
      <4>1. PICK m \in Repertoire[c] : Sent(c, m)
        BY <3>3 DEF Send
      <4>2. QED
        BY <4>1, <3>s, <3>2 DEF TypeOK
    <3>4. CASE Block(c)
      <4>1. PICK m \in Repertoire[c] :
              call' = [call EXCEPT ![c] = [pc |-> "blocked", msg |-> m, waited |-> 0]]
        BY <3>4 DEF Block
      <4>2. m \in Message
        OBVIOUS
      <4>3. CallsTyped'
        BY <3>4, <4>1, <4>2, <2>t DEF Block, CallsTyped
      <4>4. QED
        BY <3>4, <4>3, <3>2, <2>t DEF Block, TypeOK
    <3>5. CASE Unblock(c)
      <4>1. call[c].msg \in Message /\ Sent(c, call[c].msg)
        BY <3>5, <2>t DEF Unblock, CallsTyped
      <4>2. QED
        BY <4>1, <3>s, <3>2 DEF TypeOK
    <3>6. CASE SendTimeout(c) \/ Answer(c) \/ ReplyTimeout(c)
      <4>1. /\ call' = [call EXCEPT ![c] = Idle]
            /\ slot' = slot \/ slot' = [slot EXCEPT ![c] = NoReply]
            /\ queue' = queue
        BY <3>6 DEF SendTimeout, Answer, ReplyTimeout
      <4>2. CallsTyped'
        BY <4>1, <3>i, <2>t DEF CallsTyped
      <4>3. QED
        BY <4>1, <4>2, <3>2, <2>t DEF TypeOK
    <3>7. QED
      BY <2>8, <3>3, <3>4, <3>5, <3>6 DEF Client
  <2>9. CASE Start
    <3>1. HardwareTyped'
      BY <2>9, <2>t DEF Start, HardwareTyped, AllInactive, OutputLevel
    <3>2. QED
      BY <2>9, <2>t, <3>1 DEF Start, TypeOK, RelaysTyped, TaskTyped, CallsTyped, ram, task, clients
  <2>10. CASE Reboot
    <3>1. RelaysTyped' /\ HardwareTyped' /\ TaskTyped'
      BY <2>10, <2>t DEF Reboot, RelaysTyped, HardwareTyped, TaskTyped, AllInactive,
                         OutputLevel, Relays, Forces
    <3>2. CallsTyped'
      BY <2>10 DEF Reboot, CallsTyped, Idle, NoReply
    <3>3. QED
      BY <2>10, <3>1, <3>2 DEF Reboot, TypeOK
  <2>11. CASE Tick
    <3>1. RelaysTyped'
      BY <2>11, <2>t DEF Tick, RelaysTyped
    <3>2. TaskTyped'
      BY <2>11, <2>t DEF Tick, TaskWaits, TaskTyped
    <3>3. CallsTyped'
      <4>1. ASSUME NEW c \in Clients
            PROVE  /\ call'[c] \in [pc : {"idle", "blocked", "awaiting"},
                                   msg : Message \cup {Nobody}, waited : 0 .. ReplyTicks]
                   /\ call'[c].pc # "idle" => call'[c].msg \in Message
        <5>1. CASE call[c].pc # "idle" /\ call[c].waited < ReplyTicks
          <6>1. call'[c] = [call[c] EXCEPT !.waited = call[c].waited + 1]
            BY <5>1, <2>11 DEF Tick
          <6>2. call[c].waited + 1 \in 0 .. ReplyTicks
            BY <5>1, <2>t DEF CallsTyped
          <6>3. QED
            BY <6>1, <6>2, <2>t DEF CallsTyped
        <5>2. CASE ~(call[c].pc # "idle" /\ call[c].waited < ReplyTicks)
          BY <5>2, <2>11, <2>t DEF Tick, CallsTyped
        <5>3. QED
          BY <5>1, <5>2
      <4>2. QED
        BY <4>1, <2>11, <2>t DEF Tick, CallsTyped
    <3>4. QED
      BY <2>11, <2>t, <3>1, <3>2, <3>3 DEF Tick, TypeOK, HardwareTyped, hw
  <2>12. CASE UNCHANGED vars
    BY <2>12, <2>t DEF TypeOK, RelaysTyped, HardwareTyped, TaskTyped, CallsTyped,
                       vars, ram, hw, task, clients
  <2>13. QED
    BY <2>1, <2>2, <2>3, <2>4, <2>5, <2>6, <2>7, <2>8, <2>9, <2>10, <2>11, <2>12
       DEF Next, RelayTask
<1>3. QED
  BY <1>1, <1>2, PTL DEF Spec

-----------------------------------------------------------------------------
(* Adding the write of one more relay, and the order of the totals.        *)
LEMMA WritesAddUp ==
  /\ WritesOf(0) = 0
  /\ \A k \in Relays : /\ WritesOf(k - 1) \in Nat
                       /\ WritesOf(k) \in Nat
                       /\ WritesOf(k - 1) + WriteTicks = WritesOf(k)
                       /\ WritesOf(k) <= WritesOf(NumRelays)
  /\ WritesOf(NumRelays) \in Nat
<1> USE ConstantsAssumption DEF WritesOf
<1>p. \A a, b \in Nat : a * b \in Nat
  OBVIOUS
<1>1. \A k \in Nat : WritesOf(k) \in Nat
  BY <1>p
<1>2. ASSUME NEW k \in Relays
      PROVE  /\ WritesOf(k - 1) \in Nat
             /\ WritesOf(k) \in Nat
             /\ WritesOf(k - 1) + WriteTicks = WritesOf(k)
             /\ WritesOf(k) <= WritesOf(NumRelays)
  <2>1. k \in Nat /\ k - 1 \in Nat /\ NumRelays - k \in Nat
    BY DEF Relays
  <2>2. (NumRelays - k) * WriteTicks \in Nat
    BY <2>1, <1>p
  <2>3. NumRelays * WriteTicks = k * WriteTicks + (NumRelays - k) * WriteTicks
    BY <2>1
  <2>4. (k - 1) * WriteTicks + WriteTicks = k * WriteTicks
    BY <2>1
  <2>5. QED
    BY <2>1, <2>2, <2>3, <2>4, <1>1
<1>3. QED
  BY <1>1, <1>2

(* Arithmetic of the end of a pass.                                        *)
LEMMA Shift ==
  ASSUME NEW left \in Int, NEW age \in Int, NEW wait \in Int, NEW pass \in Int,
         left + age > 0, age + wait <= pass
  PROVE  left > wait - 0 - pass
  OBVIOUS

(* A hold never outlives its off time by Slack or more: no traffic on the  *)
(* queue and no failing write can keep expire_timers from ending it.       *)
THEOREM DeadlineHolds == Spec => []TimerDeadline
<1> USE ConstantsAssumption
<1> DEFINE Pass == WritesOf(NumRelays)
<1>p. Pass \in Nat /\ WriteTicks \in Nat /\ WriteTicks <= Pass /\ PollTicks \in Nat
  <2>1. 1 \in Relays
    BY DEF Relays
  <2>2. QED
    BY <2>1, WritesAddUp DEF WritesOf
<1>1. Init => DeadlineInv
  BY <1>p DEF Init, DeadlineInv
<1>2. TypeOK /\ DeadlineInv /\ [Next]_vars => DeadlineInv'
  <2> SUFFICES ASSUME TypeOK, DeadlineInv, [Next]_vars PROVE DeadlineInv'
    OBVIOUS
  <2>t. /\ RelaysTyped /\ HardwareTyped /\ TaskTyped /\ queue \in Seq(QueueEntry)
        /\ \A r \in Relays : timer_active[r] \in BOOLEAN /\ off_in[r] \in Int
        /\ cursor \in Relays /\ cursor \in Int /\ NumRelays \in Int
        /\ scan_age \in Nat /\ busy \in Int /\ polled \in Int
        /\ 0 <= busy /\ busy <= WriteTicks /\ 0 <= polled /\ polled <= PollTicks
    BY DEF TypeOK, RelaysTyped, TaskTyped, Relays
  <2>w. ASSUME NEW r, NEW active, NEW f, NEW outcome, ApplyOutput(r, active, f, outcome)
        PROVE  busy' \in Int /\ 0 <= busy' /\ busy' <= WriteTicks
    BY <2>w, <1>p DEF ApplyOutput
  <2> HIDE DEF Pass
  <2>m. ASSUME Receive, busy' \in Int, 0 <= busy', busy' <= WriteTicks,
               \A r \in Relays : timer_active'[r] =>
                 /\ off_in'[r] \in Int
                 /\ off_in'[r] > 0 \/ (timer_active[r] /\ off_in'[r] >= off_in[r])
        PROVE  DeadlineInv'
    <3>1. /\ pc = "receive" /\ busy = 0 /\ pc' = "expire" /\ polled' = 0
          /\ \A r \in Relays : timer_active[r] => off_in[r] > 0 - polled - Pass
      BY <2>m DEF Receive, DeadlineInv, Pass
    <3>2. ASSUME NEW r \in Relays, timer_active'[r]
          PROVE  off_in'[r] > busy' - WriteTicks - Pass - PollTicks
      <4>1. /\ off_in'[r] \in Int /\ off_in[r] \in Int
            /\ off_in'[r] > 0 \/ (off_in[r] > 0 - polled - Pass /\ off_in'[r] >= off_in[r])
        BY <3>1, <3>2, <2>m, <2>t
      <4>2. busy' \in Int /\ 0 <= busy' /\ busy' <= WriteTicks
        BY <2>m
      <4>3. polled \in Int /\ polled <= PollTicks
        BY <2>t
      <4>4. QED
        BY <4>1, <4>2, <4>3, <1>p
    <3>3. QED
      BY <3>1, <3>2 DEF DeadlineInv, Pass
  <2>1. CASE HandleOnFor
    <3> DEFINE m == Head(queue)
    <3>0. Receive /\ m.relay \in Relays /\ m.hold \in Nat
      BY <2>1, <2>t, QueueParts DEF HandleOnFor, Receive
    <3> HIDE DEF m
    <3>1. /\ timer_active' = [timer_active EXCEPT ![m.relay] = m.hold > 0]
          /\ off_in' = [off_in EXCEPT ![m.relay] = IF m.hold > 0 THEN NewOffIn(m) ELSE 0]
          /\ \E outcome \in Outcomes : ApplyOutput(m.relay, m.hold > 0, force[m.relay], outcome)
      BY <2>1 DEF HandleOnFor, m
    <3>2. busy' \in Int /\ 0 <= busy' /\ busy' <= WriteTicks
      BY <3>1, <2>w
    <3>3. NewOffIn(m) \in Int /\ NewOffIn(m) >= m.hold
      <4>1. off_in[m.relay] \in Int
        BY <3>0, <2>t
      <4>2. Longer(off_in[m.relay], m.hold) \in Int /\ Longer(off_in[m.relay], m.hold) >= m.hold
        BY <4>1, <3>0 DEF Longer
      <4>3. m.hold \in Int /\ m.hold >= m.hold
        BY <3>0
      <4>4. QED
        BY <4>2, <4>3 DEF NewOffIn
    <3>4. ASSUME NEW r \in Relays, timer_active'[r]
          PROVE  /\ off_in'[r] \in Int
                 /\ off_in'[r] > 0 \/ (timer_active[r] /\ off_in'[r] >= off_in[r])
      <4>1. CASE r = m.relay
        <5>1. m.hold > 0
          BY <4>1, <3>4, <3>1, <3>0, <2>t DEF RelaysTyped
        <5>2. off_in'[r] = NewOffIn(m)
          BY <4>1, <5>1, <3>1, <3>0, <2>t DEF RelaysTyped
        <5>3. QED
          BY <5>1, <5>2, <3>3, <3>0
      <4>2. CASE r # m.relay
        BY <4>2, <3>4, <3>1, <2>t DEF RelaysTyped
      <4>3. QED
        BY <4>1, <4>2
    <3>5. QED
      BY <3>0, <3>2, <3>4, <2>m
  <2>2. CASE HandleForce
    <3>1. busy' \in Int /\ 0 <= busy' /\ busy' <= WriteTicks
      BY <2>2, <2>w DEF HandleForce
    <3>2. Receive /\ UNCHANGED <<timer_active, off_in>>
      BY <2>2 DEF HandleForce
    <3>3. QED
      BY <3>1, <3>2, <2>m, <2>t
  <2>3. CASE HandleQuery
    <3>1. Receive /\ UNCHANGED <<timer_active, off_in>> /\ busy' = 0
      BY <2>3 DEF HandleQuery, ram
    <3>2. QED
      BY <3>1, <2>m, <2>t, <1>p
  <2>4. CASE PollExpires
    <3>1. /\ pc = "receive" /\ busy = 0 /\ pc' = "expire" /\ polled' = 0
          /\ UNCHANGED <<timer_active, off_in, busy>>
      BY <2>4 DEF PollExpires, ram
    <3>2. \A r \in Relays : timer_active[r] => off_in[r] > 0 - polled - Pass
      BY <3>1 DEF DeadlineInv, Pass
    <3>3. \A r \in Relays : timer_active[r] => off_in[r] > busy - WriteTicks - Pass - PollTicks
      BY <3>1, <3>2, <2>t, <1>p
    <3>4. QED
      BY <3>1, <3>3 DEF DeadlineInv, Pass
  <2>5. CASE BeginExpire
    <3>1. /\ pc = "expire" /\ busy = 0 /\ pc' = "scan" /\ cursor' = 1 /\ scan_age' = 0
          /\ UNCHANGED <<timer_active, off_in, busy, polled>> /\ polled = 0
      BY <2>5 DEF BeginExpire, ram, DeadlineInv
    <3>2. \A r \in Relays : timer_active[r] => off_in[r] > 0 - WriteTicks - Pass - PollTicks
      BY <3>1 DEF DeadlineInv, Pass
    <3>3. \A r \in Relays : ~(r < 1)
      BY DEF Relays
    <3>4. \A r \in Relays : timer_active[r] =>
            off_in[r] + 0 > IF r < 1 THEN 0 ELSE - WriteTicks - Pass - PollTicks
      BY <3>2, <3>3, <2>t, <1>p
    <3>5. WritesOf(1 - 1) = 0
      BY WritesAddUp
    <3>6. QED
      BY <3>1, <3>4, <3>5 DEF DeadlineInv, Pass
  <2>s. ASSUME pc = "scan", busy = 0, ScanAdvances,
               busy' \in Int, 0 <= busy', busy' <= WriteTicks,
               \A r \in Relays : timer_active'[r] =>
                 /\ timer_active[r] /\ off_in'[r] = off_in[r]
                 /\ r = cursor => off_in[r] + scan_age > 0
        PROVE  DeadlineInv'
    <3>1. /\ polled' = 0 /\ scan_age' = scan_age /\ polled = 0
          /\ scan_age + 0 <= WritesOf(cursor - 1)
          /\ \A r \in Relays : timer_active[r] =>
               off_in[r] + scan_age > IF r < cursor THEN 0 ELSE - WriteTicks - Pass - PollTicks
      BY <2>s DEF ScanAdvances, DeadlineInv, Pass
    <3>2. /\ WritesOf(cursor - 1) \in Nat /\ WritesOf(cursor) \in Nat
          /\ WritesOf(cursor - 1) + WriteTicks = WritesOf(cursor)
      BY <2>t, WritesAddUp
    <3>3. scan_age + busy' <= WritesOf(cursor)
      BY <3>1, <3>2, <2>s, <2>t, <1>p
    <3>4. CASE cursor = NumRelays
      <4>1. pc' = "receive"
        BY <3>4, <2>s DEF ScanAdvances
      <4>2. ASSUME NEW r \in Relays, timer_active'[r]
            PROVE  off_in'[r] > busy' - 0 - Pass
        <5>1. r < cursor \/ r = cursor
          BY <3>4 DEF Relays
        <5>2. off_in[r] + scan_age > 0
          BY <5>1, <4>2, <3>1, <2>s
        <5>3. scan_age + busy' <= Pass
          BY <3>3, <3>4 DEF Pass
        <5>4. off_in'[r] = off_in[r] /\ off_in[r] \in Int
          BY <4>2, <2>s, <2>t
        <5>5. busy' \in Int /\ scan_age \in Nat
          BY <2>s, <2>t
        <5>6. off_in'[r] \in Int /\ off_in'[r] + scan_age > 0
          BY <5>2, <5>4
        <5>7. Pass \in Int
          BY <1>p
        <5>8. scan_age \in Int /\ busy' \in Int
          BY <5>5
        <5>9. QED
          BY <5>3, <5>6, <5>7, <5>8, Shift, Zenon
      <4>3. QED
        BY <4>1, <4>2, <3>1 DEF DeadlineInv, Pass
    <3>5. CASE cursor # NumRelays
      <4>1. pc' = "scan" /\ cursor' = cursor + 1
        BY <3>5, <2>s DEF ScanAdvances
      <4>2. ASSUME NEW r \in Relays, timer_active'[r]
            PROVE  off_in'[r] + scan_age > IF r < cursor + 1 THEN 0
                                           ELSE - WriteTicks - Pass - PollTicks
        <5>1. CASE r < cursor + 1
          <6>1. r < cursor \/ r = cursor
            BY <5>1, <2>t DEF Relays
          <6>2. QED
            BY <5>1, <6>1, <4>2, <3>1, <2>s
        <5>2. CASE ~(r < cursor + 1)
          <6>1. ~(r < cursor)
            BY <5>2, <2>t DEF Relays
          <6>2. QED
            BY <5>2, <6>1, <4>2, <3>1, <2>s
        <5>3. QED
          BY <5>1, <5>2
      <4>3. cursor' - 1 = cursor
        BY <4>1, <2>t
      <4>4. scan_age' + busy' <= WritesOf(cursor' - 1)
        BY <3>1, <3>3, <4>3
      <4>5. QED
        BY <4>1, <4>2, <4>4, <3>1 DEF DeadlineInv, Pass
    <3>6. QED
      BY <3>4, <3>5
  <2>6. CASE ExpireRelay
    <3>1. /\ pc = "scan" /\ busy = 0 /\ ScanAdvances
          /\ timer_active' = [timer_active EXCEPT ![cursor] = FALSE]
          /\ off_in' = [off_in EXCEPT ![cursor] = 0]
          /\ \E outcome \in Outcomes : ApplyOutput(cursor, FALSE, force[cursor], outcome)
      BY <2>6 DEF ExpireRelay
    <3>2. busy' \in Int /\ 0 <= busy' /\ busy' <= WriteTicks
      BY <3>1, <2>w
    <3>3. ASSUME NEW r \in Relays, timer_active'[r]
          PROVE  r # cursor /\ timer_active[r] /\ off_in'[r] = off_in[r]
      BY <3>1, <3>3, <2>t DEF RelaysTyped
    <3>4. QED
      BY <3>1, <3>2, <3>3, <2>s
  <2>7. CASE KeepRelay
    <3>1. /\ pc = "scan" /\ busy = 0 /\ busy' = 0 /\ ScanAdvances
          /\ ~Expired(cursor) /\ UNCHANGED <<timer_active, off_in>>
      BY <2>7 DEF KeepRelay
    <3>2. timer_active[cursor] => off_in[cursor] + scan_age > 0
      BY <3>1, <2>t DEF Expired
    <3>3. QED
      BY <3>1, <3>2, <2>s, <1>p
  <2>8. CASE Tick
    <3>1. /\ off_in' = [r \in Relays |-> IF timer_active[r] THEN off_in[r] - 1 ELSE off_in[r]]
          /\ UNCHANGED <<timer_active, pc, cursor>>
          /\ \A r \in Relays : timer_active[r] => off_in'[r] = off_in[r] - 1
      BY <2>8 DEF Tick
    <3>2. CASE pc = "receive"
      <4>1. /\ busy' \in Int /\ polled' \in Int
            /\ busy' - polled' = busy - polled - 1
            /\ busy' > 0 => polled' = 0
        BY <3>2, <2>8, <2>t DEF Tick, DeadlineInv
      <4>2. ASSUME NEW r \in Relays, timer_active[r]
            PROVE  off_in'[r] > busy' - polled' - Pass
        <5>1. off_in[r] > busy - polled - Pass
          BY <3>2, <4>2 DEF DeadlineInv, Pass
        <5>2. off_in'[r] = off_in[r] - 1 /\ off_in[r] \in Int
          BY <4>2, <3>1, <2>t
        <5>3. busy \in Int /\ polled \in Int
          BY <2>t
        <5>4. Pass \in Int
          BY <1>p
        <5>5. off_in'[r] \in Int /\ off_in'[r] > (busy - polled - 1) - Pass
          BY <5>1, <5>2, <5>3, <5>4
        <5>6. QED
          BY <5>4, <5>5, <4>1
      <4>3. QED
        BY <3>1, <3>2, <4>1, <4>2 DEF DeadlineInv, Pass
    <3>3. CASE pc # "receive"
      <4>1. busy' = busy - 1 /\ polled' = polled /\ polled = 0
        BY <3>3, <2>8 DEF Tick, TaskWaits, DeadlineInv
      <4>2. CASE pc = "expire"
        <5>1. ASSUME NEW r \in Relays, timer_active[r]
              PROVE  off_in'[r] > busy' - WriteTicks - Pass - PollTicks
          <6>1. off_in[r] > busy - WriteTicks - Pass - PollTicks
            BY <4>2, <5>1 DEF DeadlineInv, Pass
          <6>2. QED
            BY <6>1, <4>1, <5>1, <3>1, <2>t, <1>p
        <5>2. QED
          BY <5>1, <4>1, <4>2, <3>1 DEF DeadlineInv, Pass
      <4>3. CASE pc = "scan"
        <5>1. scan_age' = scan_age + 1
          BY <4>3, <2>8 DEF Tick
        <5>2. ASSUME NEW r \in Relays, timer_active[r]
              PROVE  off_in'[r] + scan_age' = off_in[r] + scan_age
          <6>1. off_in'[r] = off_in[r] - 1 /\ off_in[r] \in Int /\ scan_age \in Nat
            BY <5>2, <3>1, <2>t
          <6>2. QED
            BY <6>1, <5>1
        <5>3. scan_age' + busy' = scan_age + busy
          BY <5>1, <4>1, <2>t
        <5>4. QED
          BY <5>2, <5>3, <4>1, <4>3, <3>1 DEF DeadlineInv
      <4>4. QED
        BY <3>3, <4>2, <4>3, <2>t DEF TaskTyped
    <3>4. QED
      BY <3>2, <3>3
  <2>9. CASE Reboot
    <3>1. /\ timer_active' = [r \in Relays |-> FALSE]
          /\ pc' = "receive" /\ polled' = 0
      BY <2>9 DEF Reboot
    <3>2. QED
      BY <3>1 DEF DeadlineInv
  <2>10. ASSUME UNCHANGED <<timer_active, off_in, task>> PROVE DeadlineInv'
    BY <2>10 DEF DeadlineInv, task
  <2>11. ASSUME NEW c \in Clients, Client(c) PROVE DeadlineInv'
    BY <2>10, <2>11 DEF Client, Send, Block, Unblock, SendTimeout, Answer, ReplyTimeout, Sent, ram
  <2>12. CASE Start \/ UNCHANGED vars
    BY <2>10, <2>12 DEF Start, vars, ram
  <2>13. QED
    BY <2>1, <2>2, <2>3, <2>4, <2>5, <2>6, <2>7, <2>8, <2>9, <2>11, <2>12 DEF Next, RelayTask
<1>3. TypeOK /\ DeadlineInv => TimerDeadline
  <2> SUFFICES ASSUME TypeOK, DeadlineInv, NEW r \in Relays, timer_active[r]
               PROVE  off_in[r] > - Slack
    BY DEF TimerDeadline
  <2>t. /\ off_in[r] \in Int /\ cursor \in Relays /\ scan_age \in Nat
        /\ busy \in Int /\ 0 <= busy /\ polled \in Int /\ polled <= PollTicks
        /\ pc \in {"receive", "expire", "scan"}
    BY DEF TypeOK, RelaysTyped, TaskTyped
  <2>s. Slack = 2 * Pass + PollTicks
    BY DEF Slack
  <2> HIDE DEF Pass
  <2>1. CASE pc = "receive"
    <3>1. off_in[r] > busy - polled - Pass
      BY <2>1 DEF DeadlineInv, Pass
    <3>2. QED
      BY <3>1, <2>t, <2>s, <1>p
  <2>2. CASE pc = "expire"
    <3>1. off_in[r] > busy - WriteTicks - Pass - PollTicks
      BY <2>2 DEF DeadlineInv, Pass
    <3>2. QED
      BY <3>1, <2>t, <2>s, <1>p
  <2>3. CASE pc = "scan"
    <3>1. /\ scan_age + busy <= WritesOf(cursor - 1)
          /\ off_in[r] + scan_age > IF r < cursor THEN 0 ELSE - WriteTicks - Pass - PollTicks
      BY <2>3 DEF DeadlineInv, Pass
    <3>2. /\ WritesOf(cursor - 1) \in Nat
          /\ WritesOf(cursor - 1) + WriteTicks <= Pass
      BY <2>t, WritesAddUp DEF Pass
    <3>3. off_in[r] + scan_age > - WriteTicks - Pass - PollTicks
      BY <3>1, <2>t, <1>p
    <3>4. QED
      BY <3>1, <3>2, <3>3, <2>t, <2>s, <1>p
  <2>4. QED
    BY <2>1, <2>2, <2>3, <2>t
<1>4. QED
  BY <1>1, <1>2, <1>3, TypeCorrect, PTL DEF Spec

-----------------------------------------------------------------------------
(* Until the relay task runs, nobody has asked anything of a relay.        *)
LEMMA NothingAskedHolds == Spec => []NothingAsked
<1>1. Init => NothingAsked
  BY DEF Init, NothingAsked
<1>2. NothingAsked /\ [Next]_vars => NothingAsked'
  <2> SUFFICES ASSUME NothingAsked, [Next]_vars PROVE NothingAsked'
    OBVIOUS
  <2>1. CASE RelayTask
    <3>1. boot' = "running"
      BY <2>1 DEF RelayTask, HandleOnFor, HandleForce, HandleQuery, Receive, PollExpires,
                  BeginExpire, ExpireRelay, KeepRelay, ScanAdvances
    <3>2. QED
      BY <3>1 DEF NothingAsked
  <2>2. CASE Reboot
    BY <2>2 DEF Reboot, NothingAsked
  <2>3. CASE Tick
    BY <2>3 DEF Tick, NothingAsked
  <2>4. CASE Start
    <3>1. boot # "running" /\ UNCHANGED <<timer_active, force, output_on>>
      BY <2>4 DEF Start, ram
    <3>2. QED
      BY <3>1 DEF NothingAsked
  <2>5. CASE (\E c \in Clients : Client(c)) \/ UNCHANGED vars
    <3>1. UNCHANGED <<boot, timer_active, force, output_on>>
      BY <2>5 DEF Client, Send, Block, Unblock, SendTimeout, Answer, ReplyTimeout, Sent, ram, vars
    <3>2. QED
      BY <3>1 DEF NothingAsked
  <2>6. QED
    BY <2>1, <2>2, <2>3, <2>4, <2>5 DEF Next
<1>3. QED
  BY <1>1, <1>2, PTL DEF Spec

(* A write that the hardware acknowledges sets relay r and no other.       *)
LEMMA HealthyWrite ==
  ASSUME TypeOK, NEW r \in Relays, NEW on \in BOOLEAN, HardwareSetOutput(r, on, "ok"),
         \A q \in Relays : Backend = "Tca9554" => shadow[q] = latch[q]
  PROVE  /\ latch' = [latch EXCEPT ![r] = OutputLevel(on)]
         /\ Backend = "Tca9554" => shadow' = latch'
<1> USE ConstantsAssumption DEF TypeOK, HardwareTyped
<1>1. CASE Backend = "Gpio"
  BY <1>1 DEF HardwareSetOutput
<1>2. CASE Backend = "Tca9554"
  <2>1. shadow = latch
    BY <1>2
  <2>2. QED
    BY <1>2, <2>1 DEF HardwareSetOutput
<1>3. QED
  BY <1>1, <1>2

(* On a healthy bus apply_output brings relay r to what its new timer flag *)
(* and force ask, and leaves the agreement of the other relays alone.      *)
LEMMA HealthyApply ==
  ASSUME TypeOK, AllAgree, boot = "running", boot' = "running",
         NEW r \in Relays, NEW active \in BOOLEAN, NEW f \in Forces,
         ApplyOutput(r, active, f, "ok"),
         timer_active'[r] = active, force'[r] = f,
         \A q \in Relays \ {r} : timer_active'[q] = timer_active[q] /\ force'[q] = force[q]
  PROVE  AllAgree'
<1> DEFINE desired == Desired(active, f)
<1>t. desired \in BOOLEAN /\ output_on \in [Relays -> BOOLEAN]
  BY DEF Desired, TypeOK, RelaysTyped
<1>a. \A q \in Relays : /\ output_on[q] <=> Desired(timer_active[q], force[q])
                        /\ latch[q] = OutputLevel(output_on[q])
                        /\ Backend = "Tca9554" => shadow[q] = latch[q]
  BY DEF AllAgree
<1>d. Desired(timer_active'[r], force'[r]) <=> desired
  OBVIOUS
<1> HIDE DEF desired
<1>1. CASE output_on[r] = desired
  <2>1. UNCHANGED <<output_on, shadow, latch>>
    BY <1>1 DEF ApplyOutput, hw, desired
  <2>2. ASSUME NEW q \in Relays
        PROVE  output_on[q] <=> Desired(timer_active'[q], force'[q])
    <3>1. CASE q = r
      BY <3>1, <1>1, <1>d, <1>t
    <3>2. CASE q # r
      BY <3>2, <1>a
    <3>3. QED
      BY <3>1, <3>2
  <2>3. QED
    BY <2>1, <2>2, <1>a DEF AllAgree, OutputLevel
<1>2. CASE output_on[r] # desired
  <2>1. HardwareSetOutput(r, desired, "ok") /\ output_on' = [output_on EXCEPT ![r] = desired]
    BY <1>2 DEF ApplyOutput, desired
  <2>2. /\ latch' = [latch EXCEPT ![r] = OutputLevel(desired)]
        /\ Backend = "Tca9554" => shadow' = latch'
    BY <2>1, <1>a, <1>t, HealthyWrite
  <2>3. /\ output_on'[r] = desired
        /\ \A q \in Relays \ {r} : output_on'[q] = output_on[q]
    BY <2>1, <1>t
  <2>4. /\ latch'[r] = OutputLevel(desired)
        /\ \A q \in Relays \ {r} : latch'[q] = latch[q]
    BY <2>2 DEF TypeOK, HardwareTyped
  <2>5. ASSUME NEW q \in Relays
        PROVE  /\ output_on'[q] <=> Desired(timer_active'[q], force'[q])
               /\ latch'[q] = OutputLevel(output_on'[q])
    <3>1. CASE q = r
      BY <3>1, <2>3, <2>4, <1>d
    <3>2. CASE q # r
      BY <3>2, <2>3, <2>4, <1>a
    <3>3. QED
      BY <3>1, <3>2
  <2>6. QED
    BY <2>2, <2>5 DEF AllAgree, OutputLevel
<1>3. QED
  BY <1>1, <1>2

(* With a bus that acknowledges every write, the device, its shadow and    *)
(* output_on agree with what force and timer ask.                          *)
HealthyAgree == Outcomes = {"ok"} => AllAgree

(* No handler, restart or passing of time breaks that agreement.           *)
LEMMA AgreementHolds == Spec => []HealthyAgree
<1>1. Init => HealthyAgree
  BY DEF Init, AllAgree, HealthyAgree
<1>2. TypeOK /\ NothingAsked /\ HealthyAgree /\ [Next]_vars => HealthyAgree'
  <2> SUFFICES ASSUME Outcomes = {"ok"}, TypeOK, NothingAsked, AllAgree, [Next]_vars
               PROVE  AllAgree'
    BY DEF HealthyAgree
  <2>t. /\ RelaysTyped /\ cursor \in Relays /\ queue \in Seq(QueueEntry)
        /\ \A r \in Relays : timer_active[r] \in BOOLEAN /\ force[r] \in Forces
    BY DEF TypeOK, TaskTyped, RelaysTyped
  <2>1. CASE HandleOnFor
    <3> DEFINE m == Head(queue)
    <3>0. Receive /\ m.relay \in Relays
      BY <2>1, <2>t, QueueParts DEF HandleOnFor, Receive
    <3>1. boot = "running" /\ boot' = "running"
      BY <3>0 DEF Receive
    <3> HIDE DEF m
    <3>2. /\ ApplyOutput(m.relay, m.hold > 0, force[m.relay], "ok")
          /\ timer_active' = [timer_active EXCEPT ![m.relay] = m.hold > 0]
          /\ force' = force
      BY <2>1 DEF HandleOnFor, m
    <3>3. (m.hold > 0) \in BOOLEAN
      OBVIOUS
    <3>4. /\ timer_active'[m.relay] = (m.hold > 0)
          /\ \A q \in Relays \ {m.relay} : timer_active'[q] = timer_active[q]
      BY <3>0, <3>2, <2>t DEF RelaysTyped
    <3>5. QED
      BY <3>0, <3>1, <3>2, <3>3, <3>4, <2>t, HealthyApply
  <2>2. CASE HandleForce
    <3> DEFINE m == Head(queue)
    <3>0. Receive /\ m.relay \in Relays
      BY <2>2, <2>t, QueueParts DEF HandleForce, Receive
    <3>1. boot = "running" /\ boot' = "running"
      BY <3>0 DEF Receive
    <3> HIDE DEF m
    <3>2. /\ ApplyOutput(m.relay, timer_active[m.relay], ForceOf(m.type), "ok")
          /\ force' = [force EXCEPT ![m.relay] = ForceOf(m.type)]
          /\ timer_active' = timer_active
      BY <2>2 DEF HandleForce, m
    <3>3. ForceOf(m.type) \in Forces
      BY DEF ForceOf, Forces
    <3>4. /\ force'[m.relay] = ForceOf(m.type)
          /\ \A q \in Relays \ {m.relay} : force'[q] = force[q]
      BY <3>0, <3>2, <2>t DEF RelaysTyped
    <3>5. QED
      BY <3>0, <3>1, <3>2, <3>3, <3>4, <2>t, HealthyApply
  <2>3. CASE ExpireRelay
    <3>1. boot = "running" /\ boot' = "running"
      BY <2>3 DEF ExpireRelay, ScanAdvances
    <3>2. /\ ApplyOutput(cursor, FALSE, force[cursor], "ok")
          /\ timer_active' = [timer_active EXCEPT ![cursor] = FALSE]
          /\ force' = force
      BY <2>3 DEF ExpireRelay, ScanAdvances
    <3>3. /\ timer_active'[cursor] = FALSE
          /\ \A q \in Relays \ {cursor} : timer_active'[q] = timer_active[q]
      BY <3>2, <2>t DEF RelaysTyped
    <3>4. QED
      BY <3>1, <3>2, <3>3, <2>t, HealthyApply
  <2>4. CASE Start
    <3>1. \A r \in Relays : ~timer_active'[r] /\ force'[r] = "None" /\ ~output_on'[r]
      BY <2>4 DEF Start, NothingAsked, ram
    <3>2. shadow' = AllInactive /\ latch' = AllInactive
      BY <2>4 DEF Start
    <3>3. \A r \in Relays : latch'[r] = OutputLevel(output_on'[r])
      BY <3>1, <3>2 DEF AllInactive, OutputLevel
    <3>4. QED
      BY <3>1, <3>2, <3>3 DEF AllAgree, Desired, OutputLevel
  <2>5. CASE Reboot
    BY <2>5 DEF Reboot, AllAgree
  <2>6. ASSUME UNCHANGED <<boot, timer_active, force, output_on, shadow, latch>>
        PROVE  AllAgree'
    BY <2>6 DEF AllAgree, OutputLevel, Desired
  <2>7. CASE HandleQuery \/ PollExpires \/ BeginExpire \/ KeepRelay \/ Tick
    BY <2>6, <2>7 DEF HandleQuery, Receive, PollExpires, BeginExpire, KeepRelay, ScanAdvances,
                      Tick, ram, hw
  <2>8. ASSUME NEW c \in Clients, Client(c) PROVE AllAgree'
    BY <2>6, <2>8 DEF Client, Send, Block, Unblock, SendTimeout, Answer, ReplyTimeout, Sent,
                      ram, hw
  <2>9. CASE UNCHANGED vars
    BY <2>6, <2>9 DEF vars, ram, hw
  <2>10. QED
    BY <2>1, <2>2, <2>3, <2>4, <2>5, <2>7, <2>8, <2>9 DEF Next, RelayTask
<1>3. QED
  BY <1>1, <1>2, TypeCorrect, NothingAskedHolds, PTL DEF Spec

(* On a healthy bus the output stage follows force and timer between any   *)
(* two steps: forced off is off, whatever the policy asks.                 *)
THEOREM OutputCorrect == Spec => []OutputFollowsIntent
<1>1. HealthyAgree => OutputFollowsIntent
  BY ConstantsAssumption
     DEF HealthyAgree, AllAgree, OutputFollowsIntent, Energized, OutputLevel, Desired
<1>2. QED
  BY <1>1, AgreementHolds, PTL

(* Whatever a write of the expander returns, the shadow keeps step with    *)
(* output_on, and only the relay written can differ from the device.       *)
LEMMA ApplyStale ==
  ASSUME TypeOK, OneRelayStale, boot = "running", Backend = "Tca9554",
         NEW r \in Relays, NEW active \in BOOLEAN, NEW f \in Forces, NEW outcome \in Outcomes,
         ApplyOutput(r, active, f, outcome)
  PROVE  /\ \A q \in Relays : shadow'[q] = OutputLevel(output_on'[q])
         /\ \E stale \in Relays : \A q \in Relays \ {stale} : latch'[q] = shadow'[q]
<1> DEFINE desired == Desired(active, f)
           next == [shadow EXCEPT ![r] = OutputLevel(desired)]
<1>t. /\ desired \in BOOLEAN /\ output_on \in [Relays -> BOOLEAN]
      /\ shadow \in [Relays -> {0, 1}] /\ latch \in [Relays -> {0, 1}]
  BY DEF Desired, TypeOK, RelaysTyped, HardwareTyped
<1>a. \A q \in Relays : shadow[q] = OutputLevel(output_on[q])
  BY DEF OneRelayStale
<1>s. PICK stale \in Relays : \A q \in Relays \ {stale} : latch[q] = shadow[q]
  BY DEF OneRelayStale
<1>0. CASE UNCHANGED <<output_on, shadow, latch>>
  BY <1>0, <1>a, <1>s DEF OutputLevel
<1>1. CASE output_on[r] = desired
  BY <1>0, <1>1 DEF ApplyOutput, hw
<1>2. CASE output_on[r] # desired
  <2> HIDE DEF desired
  <2>1. /\ output_on' = [output_on EXCEPT ![r] = IF outcome = "ok" THEN desired ELSE @]
        /\ shadow' = IF outcome = "ok" THEN next ELSE shadow
        /\ latch' = IF outcome = "lost" THEN latch ELSE next
    BY <1>2 DEF ApplyOutput, HardwareSetOutput, desired
  <2>2. /\ next[r] = OutputLevel(desired)
        /\ \A q \in Relays \ {r} : next[q] = shadow[q]
    BY <1>t
  <2> HIDE DEF next
  <2>3. CASE outcome = "ok"
    <3>1. shadow' = next /\ latch' = next
      BY <2>1, <2>3
    <3>2. output_on'[r] = desired /\ \A q \in Relays \ {r} : output_on'[q] = output_on[q]
      BY <2>1, <2>3, <1>t
    <3>3. ASSUME NEW q \in Relays PROVE shadow'[q] = OutputLevel(output_on'[q])
      <4>1. CASE q = r
        BY <4>1, <3>1, <3>2, <2>2
      <4>2. CASE q # r
        BY <4>2, <3>1, <3>2, <2>2, <1>a DEF OutputLevel
      <4>3. QED
        BY <4>1, <4>2
    <3>4. QED
      BY <3>1, <3>3
  <2>4. CASE outcome # "ok"
    <3>1. shadow' = shadow /\ output_on' = output_on
      BY <2>1, <2>4, <1>t
    <3>2. CASE outcome = "lost"
      BY <1>0, <2>1, <3>1, <3>2
    <3>3. CASE outcome # "lost"
      <4>1. \A q \in Relays \ {r} : latch'[q] = shadow'[q]
        BY <2>1, <2>2, <3>1, <3>3
      <4>2. QED
        BY <4>1, <3>1, <1>a DEF OutputLevel
    <3>4. QED
      BY <3>2, <3>3
  <2>5. QED
    BY <2>3, <2>4
<1>3. QED
  BY <1>1, <1>2

(* Writes that are lost or not acknowledged leave one relay's contact at   *)
(* most different from what the relay manager believes.                    *)
THEOREM StaleBound == Spec => []OneRelayStale
<1>1. Init => OneRelayStale
  BY DEF Init, OneRelayStale
<1>2. TypeOK /\ NothingAsked /\ OneRelayStale /\ [Next]_vars => OneRelayStale'
  <2> SUFFICES ASSUME TypeOK, NothingAsked, OneRelayStale, [Next]_vars,
                      boot' = "running", Backend = "Tca9554"
               PROVE  OneRelayStale'
    BY DEF OneRelayStale
  <2>t. /\ RelaysTyped /\ cursor \in Relays /\ queue \in Seq(QueueEntry)
        /\ \A r \in Relays : timer_active[r] \in BOOLEAN /\ force[r] \in Forces
    BY DEF TypeOK, TaskTyped, RelaysTyped
  <2>1. ASSUME boot = "running",
               NEW r \in Relays, NEW active \in BOOLEAN, NEW f \in Forces,
               NEW outcome \in Outcomes, ApplyOutput(r, active, f, outcome)
        PROVE  OneRelayStale'
    BY <2>1, ApplyStale DEF OneRelayStale, OutputLevel
  <2>2. CASE HandleOnFor
    <3> DEFINE m == Head(queue)
    <3>1. Receive /\ m.relay \in Relays /\ boot = "running"
      BY <2>2, <2>t, QueueParts DEF HandleOnFor, Receive
    <3> HIDE DEF m
    <3>2. \E outcome \in Outcomes : ApplyOutput(m.relay, m.hold > 0, force[m.relay], outcome)
      BY <2>2 DEF HandleOnFor, m
    <3>3. (m.hold > 0) \in BOOLEAN
      OBVIOUS
    <3>4. QED
      BY <3>1, <3>2, <3>3, <2>1, <2>t
  <2>3. CASE HandleForce
    <3> DEFINE m == Head(queue)
    <3>1. Receive /\ m.relay \in Relays /\ boot = "running"
      BY <2>3, <2>t, QueueParts DEF HandleForce, Receive
    <3> HIDE DEF m
    <3>2. \E outcome \in Outcomes :
            ApplyOutput(m.relay, timer_active[m.relay], ForceOf(m.type), outcome)
      BY <2>3 DEF HandleForce, m
    <3>3. ForceOf(m.type) \in Forces
      BY DEF ForceOf, Forces
    <3>4. QED
      BY <3>1, <3>2, <3>3, <2>1, <2>t
  <2>4. CASE ExpireRelay
    <3>1. boot = "running"
      BY <2>4 DEF ExpireRelay
    <3>2. \E outcome \in Outcomes : ApplyOutput(cursor, FALSE, force[cursor], outcome)
      BY <2>4 DEF ExpireRelay
    <3>3. QED
      BY <3>1, <3>2, <2>1, <2>t
  <2>5. CASE Start
    <3>1. \A r \in Relays : ~output_on'[r]
      BY <2>5 DEF Start, NothingAsked, ram
    <3>2. shadow' = AllInactive /\ latch' = AllInactive
      BY <2>5 DEF Start
    <3>3. 1 \in Relays
      BY ConstantsAssumption DEF Relays
    <3>4. QED
      BY <3>1, <3>2, <3>3 DEF OneRelayStale, AllInactive, OutputLevel
  <2>6. ASSUME UNCHANGED <<boot, output_on, shadow, latch>>
        PROVE  OneRelayStale'
    BY <2>6 DEF OneRelayStale, OutputLevel
  <2>7. CASE HandleQuery \/ PollExpires \/ BeginExpire \/ KeepRelay \/ Tick
    BY <2>6, <2>7 DEF HandleQuery, Receive, PollExpires, BeginExpire, KeepRelay, ScanAdvances,
                      Tick, ram, hw
  <2>8. ASSUME NEW c \in Clients, Client(c) PROVE OneRelayStale'
    BY <2>6, <2>8 DEF Client, Send, Block, Unblock, SendTimeout, Answer, ReplyTimeout, Sent,
                      ram, hw
  <2>9. CASE UNCHANGED vars
    BY <2>6, <2>9 DEF vars, ram, hw
  <2>10. QED
    BY <2>2, <2>3, <2>4, <2>5, <2>7, <2>8, <2>9 DEF Next, RelayTask, Reboot
<1>3. QED
  BY <1>1, <1>2, TypeCorrect, NothingAskedHolds, PTL DEF Spec

(* A hold ends only when its time is up, on a request to end it, or with a *)
(* restart.                                                                *)
THEOREM HoldsKept == Spec => HoldEndsOnlyWhenDue
<1> DEFINE Due(r) ==
      \/ off_in[r] <= 0
      \/ Head(queue).type = "OnFor" /\ Head(queue).relay = r /\ Head(queue).hold = 0
<1>1. TypeOK /\ [Next]_vars =>
        \A r \in Relays : timer_active[r] /\ ~timer_active'[r] /\ boot' = "running" => Due(r)
  <2> SUFFICES ASSUME TypeOK, [Next]_vars, NEW r \in Relays,
                      timer_active[r], ~timer_active'[r], boot' = "running"
               PROVE  Due(r)
    OBVIOUS
  <2>t. /\ timer_active \in [Relays -> BOOLEAN] /\ off_in[r] \in Int /\ scan_age \in Nat
        /\ cursor \in Relays /\ queue \in Seq(QueueEntry)
    BY DEF TypeOK, RelaysTyped, TaskTyped
  <2>1. CASE HandleOnFor
    <3> DEFINE m == Head(queue)
    <3>1. m.relay \in Relays /\ m.hold \in Nat
      BY <2>1, <2>t, QueueParts DEF HandleOnFor, Receive
    <3>2. m.type = "OnFor"
      BY <2>1 DEF HandleOnFor
    <3>3. timer_active' = [timer_active EXCEPT ![m.relay] = m.hold > 0]
      BY <2>1 DEF HandleOnFor
    <3> HIDE DEF m
    <3>4. m.relay = r /\ ~(m.hold > 0)
      BY <3>1, <3>3, <2>t
    <3>5. m.hold = 0
      BY <3>1, <3>4
    <3>6. QED
      BY <3>2, <3>4, <3>5 DEF m
  <2>2. CASE ExpireRelay
    <3>1. cursor = r
      BY <2>2, <2>t DEF ExpireRelay
    <3>2. off_in[r] + scan_age <= 0
      BY <2>2, <3>1 DEF ExpireRelay, Expired
    <3>3. off_in[r] <= 0
      BY <3>2, <2>t
    <3>4. QED
      BY <3>3
  <2>3. CASE UNCHANGED timer_active
    BY <2>3
  <2>4. CASE HandleForce \/ HandleQuery \/ PollExpires \/ BeginExpire \/ KeepRelay \/ Tick
             \/ Start \/ UNCHANGED vars
    BY <2>3, <2>4 DEF HandleForce, HandleQuery, PollExpires, BeginExpire, KeepRelay, Tick, Start,
                      ram, vars
  <2>5. ASSUME NEW c \in Clients, Client(c) PROVE Due(r)
    BY <2>3, <2>5 DEF Client, Send, Block, Unblock, SendTimeout, Answer, ReplyTimeout, Sent, ram
  <2>6. QED
    BY <2>1, <2>2, <2>4, <2>5 DEF Next, RelayTask, Reboot
<1>2. QED
  BY <1>1, TypeCorrect, PTL DEF Spec, HoldEndsOnlyWhenDue

(* While a hold lasts, nothing but the passing of time brings its end      *)
(* nearer: on_for takes the later of the two ends, and a force, a release, *)
(* a failing write or the scan leave the off time where it was.            *)
THEOREM HoldsOnlyGrow == Spec => HoldNeverShortened
<1> DEFINE Grows(r) == timer_active[r] /\ timer_active'[r] => Tick \/ off_in'[r] >= off_in[r]
<1>1. TypeOK /\ [Next]_vars => \A r \in Relays : Grows(r)
  <2> SUFFICES ASSUME TypeOK, [Next]_vars, NEW r \in Relays,
                      timer_active[r], timer_active'[r], ~Tick
               PROVE  off_in'[r] >= off_in[r]
    OBVIOUS
  <2>t. /\ timer_active \in [Relays -> BOOLEAN] /\ off_in \in [Relays -> Int]
        /\ off_in[r] \in Int /\ cursor \in Relays /\ queue \in Seq(QueueEntry)
    BY DEF TypeOK, RelaysTyped, TaskTyped
  <2>1. CASE HandleOnFor
    <3> DEFINE m == Head(queue)
    <3>1. m.relay \in Relays /\ m.hold \in Nat
      BY <2>1, <2>t, QueueParts DEF HandleOnFor, Receive
    <3>2. /\ timer_active' = [timer_active EXCEPT ![m.relay] = m.hold > 0]
          /\ off_in' = [off_in EXCEPT ![m.relay] = IF m.hold > 0 THEN NewOffIn(m) ELSE 0]
      BY <2>1 DEF HandleOnFor
    <3> HIDE DEF m
    <3>3. CASE m.relay = r
      <4>1. off_in'[r] = Longer(off_in[r], m.hold)
        BY <3>1, <3>2, <3>3, <2>t DEF NewOffIn
      <4>2. QED
        BY <4>1, <3>1, <2>t DEF Longer
    <3>4. CASE m.relay # r
      BY <3>2, <3>4, <2>t
    <3>5. QED
      BY <3>3, <3>4
  <2>2. CASE ExpireRelay
    <3>1. /\ timer_active' = [timer_active EXCEPT ![cursor] = FALSE]
          /\ off_in' = [off_in EXCEPT ![cursor] = 0]
      BY <2>2 DEF ExpireRelay
    <3>2. r # cursor
      BY <3>1, <2>t
    <3>3. QED
      BY <3>1, <3>2, <2>t
  <2>3. CASE UNCHANGED off_in
    BY <2>3, <2>t
  <2>4. CASE HandleForce \/ HandleQuery \/ PollExpires \/ BeginExpire \/ KeepRelay
             \/ Start \/ UNCHANGED vars
    BY <2>3, <2>4 DEF HandleForce, HandleQuery, PollExpires, BeginExpire, KeepRelay, Start,
                      ram, vars
  <2>5. ASSUME NEW c \in Clients, Client(c) PROVE UNCHANGED off_in
    BY <2>5 DEF Client, Send, Block, Unblock, SendTimeout, Answer, ReplyTimeout, Sent, ram
  <2>6. CASE Reboot
    BY <2>6 DEF Reboot
  <2>7. QED
    BY <2>1, <2>2, <2>3, <2>4, <2>5, <2>6 DEF Next, RelayTask
<1>2. QED
  BY <1>1, TypeCorrect, PTL DEF Spec, HoldNeverShortened

(* A write of the expander that is acknowledged leaves every relay as the  *)
(* relay manager records it; so does a GPIO write.                         *)
LEMMA ApplyRepairs ==
  ASSUME TypeOK, boot = "running", NEW r \in Relays, NEW active \in BOOLEAN,
         NEW f \in Forces, NEW outcome \in Outcomes,
         ApplyOutput(r, active, f, outcome), output_on' # output_on,
         Backend = "Tca9554" => OneRelayStale,
         Backend = "Gpio" => \A q \in Relays : latch[q] = OutputLevel(output_on[q])
  PROVE  \A q \in Relays : latch'[q] = OutputLevel(output_on'[q])
<1> DEFINE desired == Desired(active, f)
<1>t. /\ output_on \in [Relays -> BOOLEAN] /\ desired \in BOOLEAN
      /\ shadow \in [Relays -> {0, 1}] /\ latch \in [Relays -> {0, 1}]
  BY DEF TypeOK, RelaysTyped, HardwareTyped, Desired
<1>1. /\ output_on[r] # desired
      /\ HardwareSetOutput(r, desired, outcome)
      /\ output_on' = [output_on EXCEPT ![r] = IF outcome = "ok" THEN desired ELSE @]
  BY DEF ApplyOutput
<1> HIDE DEF desired
<1>2. outcome = "ok"
  BY <1>1, <1>t
<1>3. output_on'[r] = desired /\ \A q \in Relays \ {r} : output_on'[q] = output_on[q]
  BY <1>1, <1>2, <1>t
<1>4. CASE Backend = "Gpio"
  <2>1. latch' = [latch EXCEPT ![r] = OutputLevel(desired)]
    BY <1>1, <1>4 DEF HardwareSetOutput
  <2>2. latch'[r] = OutputLevel(desired) /\ \A q \in Relays \ {r} : latch'[q] = latch[q]
    BY <2>1, <1>t
  <2>3. ASSUME NEW q \in Relays PROVE latch'[q] = OutputLevel(output_on'[q])
    <3>1. CASE q = r
      BY <3>1, <2>2, <1>3
    <3>2. CASE q # r
      BY <3>2, <2>2, <1>3, <1>4
    <3>3. QED
      BY <3>1, <3>2
  <2>4. QED
    BY <2>3
<1>5. CASE Backend = "Tca9554"
  <2>1. latch' = [shadow EXCEPT ![r] = OutputLevel(desired)]
    BY <1>1, <1>2, <1>5 DEF HardwareSetOutput
  <2>2. latch'[r] = OutputLevel(desired) /\ \A q \in Relays \ {r} : latch'[q] = shadow[q]
    BY <2>1, <1>t
  <2>3. \A q \in Relays : shadow[q] = OutputLevel(output_on[q])
    BY <1>5 DEF OneRelayStale
  <2>4. ASSUME NEW q \in Relays PROVE latch'[q] = OutputLevel(output_on'[q])
    <3>1. CASE q = r
      BY <3>1, <2>2, <1>3
    <3>2. CASE q # r
      BY <3>2, <2>2, <2>3, <1>3
    <3>3. QED
      BY <3>1, <3>2
  <2>5. QED
    BY <2>4
<1>6. QED
  BY <1>4, <1>5, ConstantsAssumption

(* A write that lost or unacknowledged ones left behind is made good by    *)
(* the next acknowledged one, whichever relay it was meant for.            *)
THEOREM WriteRepairs == Spec => AcknowledgedWriteRepairs
<1> DEFINE Repaired == \A r \in Relays : latch'[r] = OutputLevel(output_on'[r])
<1>1. TypeOK /\ HealthyAgree /\ OneRelayStale /\ [Next]_vars =>
        (boot = "running" /\ boot' = "running" /\ output_on' # output_on => Repaired)
  <2> SUFFICES ASSUME TypeOK, HealthyAgree, OneRelayStale, [Next]_vars,
                      boot = "running", boot' = "running", output_on' # output_on
               PROVE  Repaired
    OBVIOUS
  <2>t. /\ cursor \in Relays /\ queue \in Seq(QueueEntry)
        /\ \A r \in Relays : timer_active[r] \in BOOLEAN /\ force[r] \in Forces
    BY DEF TypeOK, TaskTyped, RelaysTyped
  <2>g. Backend = "Gpio" => \A q \in Relays : latch[q] = OutputLevel(output_on[q])
    BY ConstantsAssumption DEF HealthyAgree, AllAgree
  <2>a. ASSUME NEW r \in Relays, NEW active \in BOOLEAN, NEW f \in Forces,
               NEW outcome \in Outcomes, ApplyOutput(r, active, f, outcome)
        PROVE  Repaired
    BY <2>a, <2>g, ApplyRepairs
  <2>1. CASE HandleOnFor
    <3> DEFINE m == Head(queue)
    <3>1. m.relay \in Relays
      BY <2>1, <2>t, QueueParts DEF HandleOnFor, Receive
    <3> HIDE DEF m
    <3>2. \E outcome \in Outcomes : ApplyOutput(m.relay, m.hold > 0, force[m.relay], outcome)
      BY <2>1 DEF HandleOnFor, m
    <3>3. (m.hold > 0) \in BOOLEAN
      OBVIOUS
    <3>4. QED
      BY <3>1, <3>2, <3>3, <2>a, <2>t
  <2>2. CASE HandleForce
    <3> DEFINE m == Head(queue)
    <3>1. m.relay \in Relays
      BY <2>2, <2>t, QueueParts DEF HandleForce, Receive
    <3> HIDE DEF m
    <3>2. \E outcome \in Outcomes :
            ApplyOutput(m.relay, timer_active[m.relay], ForceOf(m.type), outcome)
      BY <2>2 DEF HandleForce, m
    <3>3. ForceOf(m.type) \in Forces
      BY DEF ForceOf, Forces
    <3>4. QED
      BY <3>1, <3>2, <3>3, <2>a, <2>t
  <2>3. CASE ExpireRelay
    <3>1. \E outcome \in Outcomes : ApplyOutput(cursor, FALSE, force[cursor], outcome)
      BY <2>3 DEF ExpireRelay
    <3>2. QED
      BY <3>1, <2>a, <2>t
  <2>4. UNCHANGED output_on => FALSE
    OBVIOUS
  <2>5. CASE HandleQuery \/ PollExpires \/ BeginExpire \/ KeepRelay \/ Tick \/ Start
             \/ UNCHANGED vars
    BY <2>4, <2>5 DEF HandleQuery, PollExpires, BeginExpire, KeepRelay, Tick, Start, ram, vars
  <2>6. ASSUME NEW c \in Clients, Client(c) PROVE Repaired
    BY <2>4, <2>6 DEF Client, Send, Block, Unblock, SendTimeout, Answer, ReplyTimeout, Sent, ram
  <2>7. QED
    BY <2>1, <2>2, <2>3, <2>5, <2>6 DEF Next, RelayTask, Reboot
<1>2. QED
  BY <1>1, TypeCorrect, AgreementHolds, StaleBound, PTL DEF Spec, AcknowledgedWriteRepairs

-----------------------------------------------------------------------------
(* The contract's view of the relay manager, named as in its INSTANCE.     *)
Contact == [r \in Relays |-> Energized(r)]
Lease == [r \in Relays |-> IF timer_active[r] THEN off_in[r] + Slack ELSE 0]

(* A function that differs from another one in one place is that one with  *)
(* one value replaced.                                                     *)
LEMMA ReplaceOne ==
  ASSUME NEW S, NEW f, NEW g, NEW r \in S,
         f = [x \in S |-> f[x]], g = [x \in S |-> g[x]],
         \A q \in S \ {r} : g[q] = f[q]
  PROVE  g = [f EXCEPT ![r] = g[r]]
<1>1. DOMAIN f = S /\ DOMAIN g = S
  OBVIOUS
<1> DEFINE h == [f EXCEPT ![r] = g[r]]
<1>2. h = [x \in S |-> h[x]]
  BY <1>1
<1>3. \A q \in S : h[q] = g[q]
  BY <1>1
<1> HIDE DEF h
<1>4. h = g
  BY <1>2, <1>3
<1>5. QED
  BY <1>4 DEF h

(* A lease is in force while the timer runs, and a relay conducts as its   *)
(* force and lease say.                                                    *)
LeasesStand ==
  /\ Slack \in Nat
  /\ \A r \in Relays :
       /\ Lease[r] \in Int
       /\ timer_active[r] => Lease[r] > 0 /\ Lease[r] = off_in[r] + Slack
       /\ ~timer_active[r] => Lease[r] = 0
  /\ boot = "running" =>
       \A r \in Relays : Energized(r) <=> Contract!Conducts(force[r], Lease[r])

(* The slack of a hold is a natural number of ticks.                      *)
LEMMA SlackIsNatural == Slack \in Nat
<1>1. \A a, b \in Nat : 2 * a + b \in Nat
  OBVIOUS
<1>2. QED
  BY <1>1, WritesAddUp, ConstantsAssumption DEF Slack

(* ... which is what the deadline and a healthy bus give.                  *)
LEMMA LeasesHold ==
  ASSUME Outcomes = {"ok"}, TypeOK, HealthyAgree, TimerDeadline
  PROVE  LeasesStand
<1>1. ASSUME NEW r \in Relays
      PROVE  /\ Lease[r] \in Int
             /\ timer_active[r] => Lease[r] > 0 /\ Lease[r] = off_in[r] + Slack
             /\ ~timer_active[r] => Lease[r] = 0
  <2>1. Slack \in Int /\ off_in[r] \in Int /\ timer_active[r] \in BOOLEAN
    BY SlackIsNatural DEF TypeOK, RelaysTyped
  <2>2. Lease[r] = IF timer_active[r] THEN off_in[r] + Slack ELSE 0
    BY DEF Lease
  <2>3. timer_active[r] => off_in[r] > - Slack
    BY DEF TimerDeadline
  <2>4. QED
    BY <2>1, <2>2, <2>3
<1>2. ASSUME boot = "running", NEW r \in Relays
      PROVE  Energized(r) <=> Contract!Conducts(force[r], Lease[r])
  <2>1. Energized(r) <=> Desired(timer_active[r], force[r])
    BY <1>2, ConstantsAssumption DEF HealthyAgree, AllAgree, Energized, OutputLevel
  <2>2. timer_active[r] <=> Lease[r] > 0
    BY <1>1
  <2>3. QED
    BY <2>1, <2>2 DEF Desired, Contract!Conducts
<1>3. QED
  BY <1>1, <1>2, SlackIsNatural DEF LeasesStand

(* When a step changes the force and the lease of relay r alone, its       *)
(* contact follows them and the other contacts stay.                       *)
LEMMA ContactSettles ==
  ASSUME LeasesStand, LeasesStand', boot = "running", boot' = "running", NEW r \in Relays,
         \A q \in Relays \ {r} : /\ timer_active'[q] = timer_active[q]
                                 /\ off_in'[q] = off_in[q]
                                 /\ force'[q] = force[q]
  PROVE  /\ Lease' = [Lease EXCEPT ![r] = Lease'[r]]
         /\ Contact' = [Contact EXCEPT ![r] = Contract!Conducts(force'[r], Lease'[r])]
<1>1. ASSUME NEW q \in Relays \ {r}
      PROVE  Lease'[q] = Lease[q] /\ Contact'[q] = Contact[q]
  <2>1. Lease'[q] = Lease[q]
    BY DEF Lease
  <2>2. Contract!Conducts(force'[q], Lease'[q]) <=> Contract!Conducts(force[q], Lease[q])
    BY <2>1
  <2>3. Energized(q)' <=> Energized(q)
    BY <2>2 DEF LeasesStand
  <2>4. QED
    BY <2>1, <2>3 DEF Contact, Energized
<1>2. /\ Lease = [q \in Relays |-> Lease[q]] /\ Lease' = [q \in Relays |-> Lease'[q]]
      /\ Contact = [q \in Relays |-> Contact[q]] /\ Contact' = [q \in Relays |-> Contact'[q]]
  BY DEF Lease, Contact
<1>3. Contact'[r] = Contract!Conducts(force'[r], Lease'[r])
  <2>1. Energized(r)' <=> Contract!Conducts(force'[r], Lease'[r])
    BY DEF LeasesStand
  <2>2. Contact'[r] = Energized(r)'
    BY DEF Contact
  <2>3. QED
    BY <2>1, <2>2 DEF Energized, Contract!Conducts
<1>4. QED
  BY <1>1, <1>2, <1>3, ReplaceOne

(* With a bus that acknowledges every write, the relay manager does only   *)
(* what RelayContract allows: each of its handlers, an expired hold, a     *)
(* restart and the passing of time is one step of the contract, and the    *)
(* rest changes nothing that the contract speaks of.                       *)
THEOREM ContractKept ==
  ASSUME Outcomes = {"ok"}
  PROVE  Spec => ImplementsContract
<1>1. Init => Contract!CInit
  <2> SUFFICES ASSUME Init PROVE Contract!CInit
    OBVIOUS
  <2>1. boot = "down" /\ force = [r \in Relays |-> "None"]
    BY DEF Init
  <2>2. [r \in Relays |-> Energized(r)] \in [Relays -> BOOLEAN]
    BY DEF Energized
  <2>3. \A r \in Relays : ~timer_active[r]
    BY DEF Init
  <2>4. QED
    BY <2>1, <2>2, <2>3 DEF Contract!CInit
<1>2. /\ TypeOK /\ NothingAsked /\ LeasesStand /\ LeasesStand' /\ [Next]_vars
      => [Contract!CNext(Revoking)]_(Contract!cvars)
  <2> SUFFICES ASSUME TypeOK, NothingAsked, LeasesStand, LeasesStand', [Next]_vars
               PROVE  Contract!CNext(Revoking) \/ UNCHANGED Contract!cvars
    OBVIOUS
  <2>t. /\ timer_active \in [Relays -> BOOLEAN] /\ off_in \in [Relays -> Int]
        /\ force \in [Relays -> Forces] /\ cursor \in Relays /\ scan_age \in Nat
        /\ queue \in Seq(QueueEntry)
    BY DEF TypeOK, RelaysTyped, TaskTyped
  <2>s. Slack \in Nat
    BY SlackIsNatural
  <2>1. CASE HandleOnFor
    <3> DEFINE m == Head(queue)
               r == m.relay
    <3>1. /\ r \in Relays /\ m.hold \in Nat /\ queue # <<>> /\ m.type = "OnFor"
          /\ boot = "running" /\ boot' = "running" /\ force' = force
          /\ timer_active' = [timer_active EXCEPT ![r] = m.hold > 0]
          /\ off_in' = [off_in EXCEPT ![r] = IF m.hold > 0 THEN NewOffIn(m) ELSE 0]
      BY <2>1, <2>t, QueueParts DEF HandleOnFor, Receive
    <3>2. m.hold = 0 => r \in Revoking
      BY <3>1 DEF Revoking
    <3> HIDE DEF m, r
    <3>3. \A q \in Relays \ {r} : /\ timer_active'[q] = timer_active[q]
                                  /\ off_in'[q] = off_in[q] /\ force'[q] = force[q]
      BY <3>1, <2>t
    <3>4. /\ Lease' = [Lease EXCEPT ![r] = Lease'[r]]
          /\ Contact' = [Contact EXCEPT ![r] = Contract!Conducts(force'[r], Lease'[r])]
      BY <3>1, <3>3, ContactSettles
    <3>5. CASE m.hold > 0
      <4>1. timer_active'[r] /\ off_in'[r] = NewOffIn(m)
        BY <3>1, <3>5, <2>t
      <4>2. Lease'[r] > 0 /\ Lease'[r] = off_in'[r] + Slack
        BY <4>1, <3>1 DEF LeasesStand
      <4>3. Lease'[r] >= Lease[r]
        <5>1. CASE timer_active[r]
          <6>1. Lease[r] = off_in[r] + Slack
            BY <5>1, <3>1 DEF LeasesStand
          <6>2. off_in'[r] = Longer(off_in[r], m.hold)
            BY <4>1, <5>1 DEF NewOffIn, r
          <6>3. QED
            BY <6>1, <6>2, <4>2, <3>1, <2>t, <2>s DEF Longer
        <5>2. CASE ~timer_active[r]
          <6>1. Lease[r] = 0 /\ Lease'[r] \in Int
            BY <5>2, <3>1 DEF LeasesStand
          <6>2. QED
            BY <6>1, <4>2
        <5>3. QED
          BY <5>1, <5>2
      <4>4. QED
        BY <3>1, <3>4, <4>2, <4>3
           DEF Contract!CNext, Contract!Extend, Contract!Settle, Lease, Contact
    <3>6. CASE m.hold = 0
      <4>0. (m.hold > 0) = FALSE
        BY <3>6
      <4>1. ~timer_active'[r]
        BY <3>1, <4>0, <2>t
      <4>2. Lease'[r] = 0
        BY <4>1, <3>1 DEF LeasesStand
      <4>3. QED
        BY <3>1, <3>2, <3>4, <3>6, <4>2
           DEF Contract!CNext, Contract!Revoke, Contract!Settle, Lease, Contact
    <3>7. QED
      BY <3>1, <3>5, <3>6
  <2>2. CASE HandleForce
    <3> DEFINE m == Head(queue)
               r == m.relay
               f == ForceOf(m.type)
    <3>1. /\ r \in Relays /\ boot = "running" /\ boot' = "running"
          /\ force' = [force EXCEPT ![r] = f]
          /\ timer_active' = timer_active /\ off_in' = off_in
      BY <2>2, <2>t, QueueParts DEF HandleForce, Receive
    <3>2. f \in {"None", "On", "Off"}
      BY DEF ForceOf
    <3> HIDE DEF m, r, f
    <3>3. \A q \in Relays \ {r} : /\ timer_active'[q] = timer_active[q]
                                  /\ off_in'[q] = off_in[q] /\ force'[q] = force[q]
      BY <3>1, <2>t
    <3>4. Contact' = [Contact EXCEPT ![r] = Contract!Conducts(force'[r], Lease'[r])]
      BY <3>1, <3>3, ContactSettles
    <3>5. Lease' = Lease
      BY <3>1 DEF Lease
    <3>6. QED
      BY <3>1, <3>2, <3>4, <3>5
         DEF Contract!CNext, Contract!SetForce, Contract!Settle, Lease, Contact
  <2>3. CASE ExpireRelay
    <3> DEFINE r == cursor
    <3>1. /\ r \in Relays /\ boot = "running" /\ boot' = "running" /\ force' = force
          /\ timer_active' = [timer_active EXCEPT ![r] = FALSE]
          /\ off_in' = [off_in EXCEPT ![r] = 0]
          /\ timer_active[r] /\ off_in[r] + scan_age <= 0
      BY <2>3, <2>t DEF ExpireRelay, ScanAdvances, Expired
    <3> HIDE DEF r
    <3>2. \A q \in Relays \ {r} : /\ timer_active'[q] = timer_active[q]
                                  /\ off_in'[q] = off_in[q] /\ force'[q] = force[q]
      BY <3>1, <2>t
    <3>3. /\ Lease' = [Lease EXCEPT ![r] = Lease'[r]]
          /\ Contact' = [Contact EXCEPT ![r] = Contract!Conducts(force'[r], Lease'[r])]
      BY <3>1, <3>2, ContactSettles
    <3>4. ~timer_active'[r]
      BY <3>1, <2>t
    <3>5. Lease'[r] = 0
      BY <3>4, <3>1 DEF LeasesStand
    <3>6. Lease[r] <= Slack
      <4>1. Lease[r] = off_in[r] + Slack
        BY <3>1 DEF LeasesStand
      <4>2. QED
        BY <4>1, <3>1, <2>t, <2>s
    <3>7. QED
      BY <3>1, <3>3, <3>5, <3>6
         DEF Contract!CNext, Contract!Lapse, Contract!Revoke, Contract!Settle, Lease, Contact
  <2>4. CASE Tick
    <3>1. /\ boot = "running" /\ boot' = boot /\ force' = force /\ latch' = latch
          /\ timer_active' = timer_active
          /\ off_in' = [r \in Relays |-> IF timer_active[r] THEN off_in[r] - 1 ELSE off_in[r]]
      BY <2>4 DEF Tick, hw
    <3>2. Contact' = Contact
      BY <3>1 DEF Contact, Energized
    <3>3. ASSUME NEW r \in Relays
          PROVE  /\ Lease'[r] = IF Lease[r] > 0 THEN Lease[r] - 1 ELSE Lease[r]
                 /\ Lease[r] > 0 => Lease'[r] > 0
      <4>1. CASE timer_active[r]
        <5>1. Lease[r] > 0 /\ Lease[r] = off_in[r] + Slack
          BY <4>1 DEF LeasesStand
        <5>2. Lease'[r] > 0 /\ Lease'[r] = off_in'[r] + Slack
          BY <4>1, <3>1 DEF LeasesStand
        <5>3. off_in'[r] = off_in[r] - 1
          BY <4>1, <3>1
        <5>4. QED
          BY <5>1, <5>2, <5>3, <2>t, <2>s
      <4>2. CASE ~timer_active[r]
        <5>1. Lease[r] = 0 /\ Lease'[r] = 0
          BY <4>2, <3>1 DEF LeasesStand
        <5>2. QED
          BY <5>1
      <4>3. QED
        BY <4>1, <4>2
    <3>4. Lease' = [r \in Relays |-> IF Lease[r] > 0 THEN Lease[r] - 1 ELSE Lease[r]]
      <4>1. Lease' = [r \in Relays |-> Lease'[r]]
        BY DEF Lease
      <4>2. QED
        BY <4>1, <3>3
    <3>5. Contract!Elapse
      BY <3>1, <3>2, <3>3, <3>4 DEF Contract!Elapse, Lease, Contact
    <3>6. QED
      BY <3>5 DEF Contract!CNext
  <2>5. CASE Start
    <3>1. /\ boot = "down" /\ boot' = "running" /\ latch' = AllInactive
          /\ timer_active' = timer_active /\ off_in' = off_in /\ force' = force
      BY <2>5 DEF Start, ram
    <3>2. \A r \in Relays : ~Energized(r)'
      BY <3>1, ConstantsAssumption DEF Energized, AllInactive, OutputLevel
    <3>3. Contact' = [r \in Relays |-> FALSE]
      BY <3>2 DEF Contact, Energized
    <3>4. Lease' = Lease
      BY <3>1 DEF Lease
    <3>5. Contract!TakeDuty
      BY <3>1, <3>3, <3>4 DEF Contract!TakeDuty, Lease, Contact
    <3>6. QED
      BY <3>5 DEF Contract!CNext
  <2>6. CASE Reboot
    <3>1. /\ boot' = "down" /\ force' = [r \in Relays |-> "None"]
          /\ \A r \in Relays : ~timer_active'[r]
          /\ latch' = AllInactive \/ latch' = latch
      BY <2>6 DEF Reboot
    <3>2. Lease' = [r \in Relays |-> 0]
      BY <3>1 DEF Lease
    <3>3. \A r \in Relays : Energized(r)' => Energized(r)
      BY <3>1, ConstantsAssumption DEF Energized, AllInactive, OutputLevel
    <3>4. \A r \in Relays : Contact'[r] => Contact[r]
      BY <3>3 DEF Contact, Energized
    <3>5. Contract!Outage
      BY <3>1, <3>2, <3>4 DEF Contract!Outage, Lease, Contact
    <3>6. QED
      BY <3>5 DEF Contract!CNext
  <2>7. ASSUME UNCHANGED <<boot, timer_active, off_in, force, latch>>
        PROVE  UNCHANGED Contract!cvars
    BY <2>7 DEF Contract!cvars, Energized
  <2>8. CASE HandleQuery \/ PollExpires \/ BeginExpire \/ KeepRelay \/ UNCHANGED vars
    BY <2>7, <2>8 DEF HandleQuery, Receive, PollExpires, BeginExpire, KeepRelay, ScanAdvances,
                      ram, hw, vars
  <2>9. ASSUME NEW c \in Clients, Client(c) PROVE UNCHANGED Contract!cvars
    BY <2>7, <2>9 DEF Client, Send, Block, Unblock, SendTimeout, Answer, ReplyTimeout, Sent,
                      ram, hw
  <2>10. QED
    BY <2>1, <2>2, <2>3, <2>4, <2>5, <2>6, <2>8, <2>9 DEF Next, RelayTask
<1>3. TypeOK /\ HealthyAgree /\ TimerDeadline => LeasesStand
  BY LeasesHold
<1>4. QED
  BY <1>1, <1>2, <1>3, TypeCorrect, NothingAskedHolds, AgreementHolds, DeadlineHolds, PTL
     DEF Spec, ImplementsContract

-----------------------------------------------------------------------------
(* A turn is a natural number of ticks, and turns add up.                  *)
LEMMA TurnsAddUp ==
  /\ Turn \in Nat
  /\ \A k \in Nat : TurnsOf(k) \in Nat /\ TurnsOf(k + 1) = TurnsOf(k) + Turn
  /\ \A k, n \in Nat : k <= n => TurnsOf(k) <= TurnsOf(n)
<1>1. Turn \in Nat
  BY WritesAddUp, ConstantsAssumption DEF Turn
<1>2. \A a, b \in Nat : a * b \in Nat
  OBVIOUS
<1>3. \A k \in Nat : TurnsOf(k) \in Nat /\ TurnsOf(k + 1) = TurnsOf(k) + Turn
  BY <1>1, <1>2 DEF TurnsOf
<1>4. ASSUME NEW k \in Nat, NEW n \in Nat, k <= n PROVE TurnsOf(k) <= TurnsOf(n)
  <2>1. n - k \in Nat
    BY <1>4
  <2>2. (n - k) * Turn \in Nat
    BY <2>1, <1>1, <1>2
  <2>3. n * Turn = k * Turn + (n - k) * Turn
    BY <1>1
  <2>4. QED
    BY <2>2, <2>3, <1>1, <1>2 DEF TurnsOf
<1>5. QED
  BY <1>1, <1>3, <1>4

(* The task is never further than a turn from its next message.            *)
LEMMA BacklogBounded ==
  ASSUME TypeOK
  PROVE  Backlog \in Nat /\ Backlog <= Turn
<1>t. /\ busy \in Nat /\ busy <= WriteTicks /\ WriteTicks \in Nat
      /\ cursor \in Relays /\ pc \in {"receive", "expire", "scan"}
  BY ConstantsAssumption DEF TypeOK, TaskTyped
<1>w. WritesOf(NumRelays) \in Nat
  BY WritesAddUp
<1>1. NumRelays - cursor + 1 \in Relays
  BY <1>t, ConstantsAssumption DEF Relays
<1>2. /\ WritesOf(NumRelays - cursor + 1) \in Nat
      /\ WritesOf(NumRelays - cursor + 1) <= WritesOf(NumRelays)
  BY <1>1, WritesAddUp
<1>3. QED
  BY <1>t, <1>w, <1>2 DEF Backlog, Turn

(* A step of the task other than taking a message brings it no further     *)
(* from its next one.                                                      *)
LEMMA BacklogShrinks ==
  ASSUME TypeOK, BeginExpire \/ ExpireRelay \/ KeepRelay
  PROVE  Backlog' <= Backlog
<1>t. /\ busy \in Nat /\ WriteTicks \in Nat /\ cursor \in Relays /\ NumRelays \in Nat
      /\ cursor \in Nat /\ 1 <= cursor /\ cursor <= NumRelays
  BY ConstantsAssumption DEF TypeOK, TaskTyped, Relays
<1>w. WritesOf(NumRelays) \in Nat /\ WritesOf(0) = 0
  BY WritesAddUp
<1>1. CASE BeginExpire
  <2>1. /\ pc = "expire" /\ busy = 0 /\ pc' = "scan" /\ busy' = 0 /\ cursor' = 1
    BY <1>1 DEF BeginExpire
  <2>2. NumRelays - 1 + 1 = NumRelays
    BY <1>t
  <2>3. Backlog = 0 + WritesOf(NumRelays) /\ Backlog' = 0 + WritesOf(NumRelays - 1 + 1)
    BY <2>1 DEF Backlog
  <2>4. QED
    BY <2>2, <2>3, <1>w
<1>2. CASE ExpireRelay \/ KeepRelay
  <2>0. busy' = 0 \/ busy' \in 0 .. WriteTicks
    BY <1>2 DEF ExpireRelay, KeepRelay, ApplyOutput
  <2>1. pc = "scan" /\ busy = 0 /\ ScanAdvances /\ busy' \in Nat /\ busy' <= WriteTicks
    <3>1. pc = "scan" /\ busy = 0 /\ ScanAdvances
      BY <1>2 DEF ExpireRelay, KeepRelay
    <3>2. QED
      BY <2>0, <3>1, <1>t
  <2> DEFINE left == NumRelays - cursor + 1
  <2>2. left \in Relays /\ left - 1 = NumRelays - cursor
    BY <1>t DEF Relays
  <2>3. /\ WritesOf(left - 1) \in Nat /\ WritesOf(left) \in Nat
        /\ WritesOf(left - 1) + WriteTicks = WritesOf(left)
    BY <2>2, WritesAddUp
  <2>4. Backlog = 0 + WritesOf(left)
    BY <2>1 DEF Backlog
  <2>5. Backlog' <= WriteTicks + WritesOf(left - 1)
    <3>1. CASE cursor = NumRelays
      <4>1. pc' = "receive"
        BY <3>1, <2>1 DEF ScanAdvances
      <4>2. Backlog' = busy' + 0
        BY <4>1 DEF Backlog
      <4> HIDE DEF left
      <4>3. QED
        BY <4>2, <2>1, <2>3, <1>t
    <3>2. CASE cursor # NumRelays
      <4>1. pc' = "scan" /\ cursor' = cursor + 1
        BY <3>2, <2>1 DEF ScanAdvances
      <4>2. NumRelays - cursor' + 1 = left - 1
        BY <4>1, <1>t
      <4>3. Backlog' = busy' + WritesOf(NumRelays - cursor' + 1)
        BY <4>1 DEF Backlog
      <4>4. Backlog' = busy' + WritesOf(left - 1)
        BY <4>2, <4>3
      <4> HIDE DEF left
      <4>5. QED
        BY <4>4, <2>1, <2>3, <1>t
    <3>3. QED
      BY <3>1, <3>2
  <2> HIDE DEF left
  <2>6. QED
    BY <2>3, <2>4, <2>5, <1>t
<1>3. QED
  BY <1>1, <1>2

(* Awaited, of the callers after the step.                                 *)
AwaitedNext(e, left) ==
  e.reply # Nobody =>
    /\ call'[e.reply].pc = "awaiting"
    /\ call'[e.reply].msg.relay = e.relay
    /\ call'[e.reply].waited + left <= TurnsOf(QueueLength)
    /\ slot'[e.reply] = NoReply

(* An entry stays awaited when less is left and its caller did not move.   *)
LEMMA StillAwaited ==
  ASSUME TypeOK, NEW e \in QueueEntry, NEW left \in Int, NEW less \in Int,
         less <= left, Awaited(e, left),
         e.reply # Nobody => /\ call'[e.reply] = call[e.reply]
                             /\ slot'[e.reply] = slot[e.reply]
  PROVE  AwaitedNext(e, less)
<1> SUFFICES ASSUME e.reply # Nobody
             PROVE  /\ call'[e.reply].pc = "awaiting"
                    /\ call'[e.reply].msg.relay = e.relay
                    /\ call'[e.reply].waited + less <= TurnsOf(QueueLength)
                    /\ slot'[e.reply] = NoReply
  BY DEF AwaitedNext
<1>1. e.reply \in Clients
  BY DEF QueueEntry
<1>2. call[e.reply].waited \in Int
  BY <1>1 DEF TypeOK, CallsTyped
<1>3. TurnsOf(QueueLength) \in Int
  BY TurnsAddUp, ConstantsAssumption
<1>4. QED
  BY <1>2, <1>3 DEF Awaited

(* While the callers are patient, no query gives up before its reply.      *)
LEMMA QueriesAreServed == ASSUME Patient PROVE Spec => []QueriesWait
<1> USE ConstantsAssumption
<1>l. QueueLength \in Nat /\ TurnsOf(QueueLength) \in Nat /\ TurnsOf(QueueLength) < ReplyTicks
      /\ ReplyTicks \in Nat
  BY TurnsAddUp DEF Patient
<1>1. Init => QueriesWait
  <2> SUFFICES ASSUME Init PROVE QueriesWait
    OBVIOUS
  <2>1. Len(queue) = 0
    BY DEF Init
  <2>2. \A c \in Clients : slot[c] = NoReply
    BY DEF Init
  <2>3. QED
    BY <2>1, <2>2, <1>l DEF QueriesWait
<1>2. TypeOK /\ TypeOK' /\ QueriesWait /\ [Next]_vars => QueriesWait'
  <2> SUFFICES ASSUME TypeOK, TypeOK', QueriesWait, [Next]_vars PROVE QueriesWait'
    OBVIOUS
  <2>t. /\ queue \in Seq(QueueEntry) /\ queue' \in Seq(QueueEntry)
        /\ Len(queue) \in Nat /\ Len(queue) <= QueueLength
        /\ \A i \in 1 .. Len(queue) : queue[i] \in QueueEntry
        /\ slot \in [Clients -> Relays \cup {NoReply}]
        /\ \A c \in Clients : call[c].waited \in 0 .. ReplyTicks
    BY DEF TypeOK, CallsTyped, QueriesWait
  <2>b. Backlog \in Nat /\ Backlog <= Turn /\ Backlog' \in Nat /\ Backlog' <= Turn'
    <3>1. TypeOK => Backlog \in Nat /\ Backlog <= Turn
      BY BacklogBounded
    <3>2. (TypeOK => Backlog \in Nat /\ Backlog <= Turn)'
      BY BacklogBounded, PTL
    <3>3. QED
      BY <3>1, <3>2
  <2> DEFINE Left(i) == Backlog + TurnsOf(i - 1)
  <2>l. ASSUME NEW i \in Nat, 1 <= i
        PROVE  Left(i) \in Int /\ Left(i)' \in Int /\ 0 <= Left(i)
    <3>1. i - 1 \in Nat
      BY <2>l
    <3>2. TurnsOf(i - 1) \in Nat /\ TurnsOf(i - 1)' = TurnsOf(i - 1)
      BY <3>1, TurnsAddUp DEF TurnsOf, Turn, WritesOf
    <3>3. QED
      BY <3>2, <2>b
  <2>a. \A i \in 1 .. Len(queue) : Awaited(queue[i], Left(i))
    BY DEF QueriesWait
  <2>u. \A i, j \in 1 .. Len(queue) :
          queue[i].reply # Nobody /\ queue[i].reply = queue[j].reply => i = j
    BY DEF QueriesWait
  <2>r. \A c \in Clients : slot[c] # NoReply =>
          call[c].pc = "awaiting" /\ slot[c] = call[c].msg.relay
    BY DEF QueriesWait
  (* What there is to show of the queue after the step.                    *)
  <2>g. ASSUME Len(queue') <= QueueLength,
               \A i \in 1 .. Len(queue') : AwaitedNext(queue'[i], Left(i)'),
               \A i, j \in 1 .. Len(queue') :
                 queue'[i].reply # Nobody /\ queue'[i].reply = queue'[j].reply => i = j,
               \A c \in Clients : slot'[c] # NoReply =>
                 call'[c].pc = "awaiting" /\ slot'[c] = call'[c].msg.relay
        PROVE  QueriesWait'
    BY <2>g, Zenon DEF QueriesWait, Awaited, AwaitedNext, TurnsOf, Turn, WritesOf
  (* Nobody's place in the queue, call or answer changes, and the task is  *)
  (* no further from its next message.                                     *)
  <2>k. ASSUME UNCHANGED <<queue, call, slot>>, queue # <<>> => Backlog' <= Backlog
        PROVE  QueriesWait'
    <3>1. ASSUME NEW i \in 1 .. Len(queue) PROVE AwaitedNext(queue'[i], Left(i)')
      <4>1. queue[i] \in QueueEntry /\ Awaited(queue[i], Left(i)) /\ queue' = queue
        BY <2>t, <2>a, <2>k
      <4>2. Left(i) \in Int /\ Left(i)' \in Int /\ Left(i)' <= Left(i)
        <5>1. i \in Nat /\ 1 <= i /\ queue # <<>>
          BY <2>t
        <5>2. TurnsOf(i - 1) \in Nat /\ TurnsOf(i - 1)' = TurnsOf(i - 1)
          BY <5>1, TurnsAddUp DEF TurnsOf, Turn, WritesOf
        <5>3. QED
          BY <5>1, <5>2, <2>k, <2>b
      <4> HIDE DEF Left
      <4>3. QED
        BY <4>1, <4>2, <2>k, StillAwaited
    <3>2. QED
      BY <3>1, <2>k, <2>t, <2>u, <2>r, <2>g
  (* The task takes a message.                                             *)
  <2>m. ASSUME Receive, slot' = slot \/ HandleQuery PROVE QueriesWait'
    <3> DEFINE m == Head(queue)
    <3>1. /\ pc = "receive" /\ busy = 0 /\ queue # <<>> /\ queue' = Tail(queue)
          /\ UNCHANGED call
      BY <2>m DEF Receive
    <3>2. /\ 1 \in 1 .. Len(queue) /\ m = queue[1] /\ m \in QueueEntry
          /\ Len(queue') = Len(queue) - 1
          /\ \A i \in 1 .. Len(queue') : i + 1 \in 1 .. Len(queue) /\ queue'[i] = queue[i + 1]
      BY <3>1, <2>t
    <3>3. Backlog = 0
      BY <3>1 DEF Backlog
    <3>4. \A d \in Clients : d # m.reply => slot'[d] = slot[d]
      BY <2>m, <2>t DEF HandleQuery, m
    <3> HIDE DEF m
    <3>5. ASSUME NEW i \in 1 .. Len(queue') PROVE AwaitedNext(queue'[i], Left(i)')
      <4> DEFINE e == queue[i + 1]
      <4>1. i \in Nat /\ 1 <= i /\ i + 1 \in 1 .. Len(queue) /\ queue'[i] = e
        BY <3>2, <2>t
      <4>2. e \in QueueEntry /\ Awaited(e, Left(i + 1))
        BY <4>1, <2>t, <2>a
      <4>3. Left(i)' <= Left(i + 1)
        <5>1. i \in Nat /\ i - 1 \in Nat /\ (i - 1) + 1 = i /\ (i + 1) - 1 = i
          BY <4>1
        <5>2. TurnsOf(i - 1) \in Nat /\ TurnsOf(i) \in Nat /\ TurnsOf(i) = TurnsOf(i - 1) + Turn
          BY <5>1, TurnsAddUp
        <5>3. TurnsOf(i - 1)' = TurnsOf(i - 1) /\ Turn' = Turn /\ Turn \in Nat
          BY TurnsAddUp DEF TurnsOf, Turn, WritesOf
        <5>4. Left(i + 1) = 0 + TurnsOf(i)
          BY <5>1, <3>3
        <5>5. Left(i)' = Backlog' + TurnsOf(i - 1)
          BY <5>3
        <5>6. Left(i)' <= Turn + TurnsOf(i - 1)
          BY <5>2, <5>3, <5>5, <2>b
        <5>7. QED
          BY <5>2, <5>3, <5>4, <5>6, <2>b
      <4>4. Left(i)' \in Int /\ Left(i + 1) \in Int
        BY <4>1, <2>l
      <4>5. e.reply # Nobody => slot'[e.reply] = slot[e.reply]
        <5>1. SUFFICES ASSUME e.reply # Nobody PROVE slot'[e.reply] = slot[e.reply]
          OBVIOUS
        <5>2. e.reply # m.reply
          <6>1. i + 1 # 1
            BY <4>1
          <6>2. QED
            BY <6>1, <5>1, <4>1, <3>2, <2>u
        <5>3. e.reply \in Clients
          BY <4>2, <5>1 DEF QueueEntry
        <5>4. QED
          BY <5>2, <5>3, <3>4
      <4> HIDE DEF e, Left
      <4>6. QED
        BY <4>1, <4>2, <4>3, <4>4, <4>5, <3>1, StillAwaited
    <3>6. ASSUME NEW d \in Clients, slot'[d] # NoReply
          PROVE  call'[d].pc = "awaiting" /\ slot'[d] = call'[d].msg.relay
      <4>1. CASE slot'[d] = slot[d]
        BY <4>1, <3>1, <3>6, <2>r
      <4>2. CASE slot'[d] # slot[d]
        <5>1. d = m.reply /\ m.reply # Nobody
          BY <4>2, <3>4
        <5>2. slot'[d] = m.relay
          BY <5>1, <4>2, <2>m, <2>t DEF HandleQuery, m
        <5>3. Awaited(m, Left(1))
          BY <3>2, <2>a
        <5>4. call[d].pc = "awaiting" /\ call[d].msg.relay = m.relay
          BY <5>1, <5>3 DEF Awaited
        <5>5. QED
          BY <5>2, <5>4, <3>1
      <4>3. QED
        BY <4>1, <4>2
    <3>7. \A i, j \in 1 .. Len(queue') :
            queue'[i].reply # Nobody /\ queue'[i].reply = queue'[j].reply => i = j
      <4>1. SUFFICES ASSUME NEW i \in 1 .. Len(queue'), NEW j \in 1 .. Len(queue'),
                            queue'[i].reply # Nobody, queue'[i].reply = queue'[j].reply
                     PROVE  i = j
        OBVIOUS
      <4>2. i + 1 = j + 1
        BY <4>1, <3>2, <2>u
      <4>3. QED
        BY <4>2, <3>2, <2>t
    <3>8. Len(queue') <= QueueLength
      BY <3>2, <2>t, <1>l
    <3>9. QED
      BY <3>5, <3>6, <3>7, <3>8, <2>g
  <2>1. CASE HandleOnFor \/ HandleForce \/ HandleQuery
    BY <2>1, <2>m DEF HandleOnFor, HandleForce, HandleQuery
  <2>2. CASE PollExpires
    BY <2>2, <2>k DEF PollExpires, clients
  <2>3. CASE BeginExpire \/ ExpireRelay \/ KeepRelay
    <3>1. UNCHANGED <<queue, call, slot>>
      BY <2>3 DEF BeginExpire, ExpireRelay, KeepRelay, ScanAdvances, clients
    <3>2. Backlog' <= Backlog
      BY <2>3, BacklogShrinks
    <3>3. QED
      BY <3>1, <3>2, <2>k
  <2>4. CASE Tick
    <3>1. /\ TaskWaits /\ UNCHANGED <<queue, slot, pc, cursor>>
          /\ busy > 0 => busy' = busy - 1
          /\ \A c \in Clients : call'[c] =
               IF call[c].pc # "idle" /\ call[c].waited < ReplyTicks
                 THEN [call[c] EXCEPT !.waited = call[c].waited + 1] ELSE call[c]
      BY <2>4 DEF Tick
    <3>2. ASSUME NEW c \in Clients
          PROVE  /\ call'[c].pc = call[c].pc /\ call'[c].msg = call[c].msg
                 /\ call'[c].waited \in Int /\ call[c].waited \in Int
                 /\ call'[c].waited <= call[c].waited + 1
      <4>1. /\ call[c] \in [pc : {"idle", "blocked", "awaiting"},
                            msg : Message \cup {Nobody}, waited : 0 .. ReplyTicks]
            /\ call[c].waited \in Int
        BY DEF TypeOK, CallsTyped
      <4>2. CASE call[c].pc # "idle" /\ call[c].waited < ReplyTicks
        <5>1. call'[c] = [call[c] EXCEPT !.waited = call[c].waited + 1]
          BY <4>2, <3>1
        <5>2. QED
          BY <5>1, <4>1
      <4>3. CASE ~(call[c].pc # "idle" /\ call[c].waited < ReplyTicks)
        <5>1. call'[c] = call[c]
          BY <4>3, <3>1
        <5>2. QED
          BY <5>1, <4>1
      <4>4. QED
        BY <4>2, <4>3
    <3>3. ASSUME NEW i \in 1 .. Len(queue') PROVE AwaitedNext(queue'[i], Left(i)')
      <4> DEFINE e == queue[i]
      <4>1. i \in Nat /\ 1 <= i /\ i \in 1 .. Len(queue) /\ queue'[i] = e /\ queue # <<>>
        BY <3>1, <2>t
      <4>2. e \in QueueEntry /\ Awaited(e, Left(i))
        BY <4>1, <2>t, <2>a
      <4>3. Left(i)' = Left(i) - 1
        <5>1. busy > 0 /\ busy' = busy - 1 /\ busy \in Nat
          BY <3>1, <4>1 DEF TaskWaits, TypeOK, TaskTyped
        <5> DEFINE pass == IF pc = "receive" THEN 0
                           ELSE IF pc = "expire" THEN WritesOf(NumRelays)
                           ELSE WritesOf(NumRelays - cursor + 1)
        <5>2. Backlog = busy + pass /\ Backlog' = busy' + pass
          BY <3>1 DEF Backlog, WritesOf
        <5>3. pass \in Nat
          <6>1. cursor \in Relays /\ pc \in {"receive", "expire", "scan"}
            BY DEF TypeOK, TaskTyped
          <6>2. NumRelays - cursor + 1 \in Relays
            BY <6>1 DEF Relays
          <6>3. QED
            BY <6>1, <6>2, WritesAddUp
        <5> HIDE DEF pass
        <5>4. Backlog' = Backlog - 1
          BY <5>1, <5>2, <5>3
        <5>5. i - 1 \in Nat
          BY <4>1
        <5>6. TurnsOf(i - 1) \in Nat /\ TurnsOf(i - 1)' = TurnsOf(i - 1)
          BY <5>5, TurnsAddUp DEF TurnsOf, Turn, WritesOf
        <5>7. QED
          BY <5>4, <5>6, <2>b
      <4>4. Left(i) \in Int
        BY <4>1, <2>l
      <4> HIDE DEF e, Left
      <4>5. SUFFICES ASSUME e.reply # Nobody
                     PROVE  /\ call'[e.reply].pc = "awaiting"
                            /\ call'[e.reply].msg.relay = e.relay
                            /\ call'[e.reply].waited + (Left(i) - 1) <= TurnsOf(QueueLength)
                            /\ slot'[e.reply] = NoReply
        BY <4>1, <4>3 DEF AwaitedNext
      <4>6. e.reply \in Clients
        BY <4>2, <4>5 DEF QueueEntry
      <4>7. /\ call[e.reply].pc = "awaiting" /\ call[e.reply].msg.relay = e.relay
            /\ call[e.reply].waited + Left(i) <= TurnsOf(QueueLength)
            /\ slot[e.reply] = NoReply
        BY <4>2, <4>5 DEF Awaited
      <4>8. /\ call'[e.reply].pc = call[e.reply].pc /\ call'[e.reply].msg = call[e.reply].msg
            /\ call'[e.reply].waited \in Int /\ call[e.reply].waited \in Int
            /\ call'[e.reply].waited <= call[e.reply].waited + 1
        BY <4>6, <3>2
      <4>9. call'[e.reply].waited + (Left(i) - 1) <= TurnsOf(QueueLength)
        <5> DEFINE w == call[e.reply].waited
                   v == call'[e.reply].waited
        <5>1. v \in Int /\ w \in Int /\ v <= w + 1 /\ w + Left(i) <= TurnsOf(QueueLength)
          BY <4>7, <4>8
        <5> HIDE DEF w, v
        <5>2. v + (Left(i) - 1) <= TurnsOf(QueueLength)
          BY <5>1, <4>4, <1>l
        <5>3. QED
          BY <5>2 DEF v
      <4>10. QED
        BY <4>7, <4>8, <4>9, <3>1
    <3>4. QED
      BY <3>1, <3>2, <3>3, <2>t, <2>u, <2>r, <2>g
  <2>5. ASSUME NEW c \in Clients, Client(c) PROVE QueriesWait'
    <3>1. UNCHANGED task
      BY <2>5 DEF Client, Send, Block, Unblock, SendTimeout, Answer, ReplyTimeout, Sent
    <3>2. Backlog' = Backlog
      BY <3>1 DEF Backlog, task
    <3>i. Idle.pc = "idle"
      BY DEF Idle
    <3>3. ASSUME NEW i \in 1 .. Len(queue), queue[i].reply = c PROVE FALSE
      <4>1. c # Nobody
        OBVIOUS
      <4>2. Awaited(queue[i], Left(i))
        BY <2>a
      <4>3. /\ call[c].pc = "awaiting" /\ slot[c] = NoReply
            /\ call[c].waited + Left(i) <= TurnsOf(QueueLength)
        BY <4>1, <4>2, <3>3 DEF Awaited
      <4>4. ReplyTimeout(c)
        BY <4>3, <3>i, <2>5 DEF Client, Send, Block, Unblock, SendTimeout, Answer
      <4>5. call[c].waited = ReplyTicks
        BY <4>4 DEF ReplyTimeout
      <4>6. i \in Nat /\ 1 <= i
        BY <2>t
      <4>7. Left(i) \in Int /\ 0 <= Left(i)
        BY <4>6, <2>l
      <4> HIDE DEF Left
      <4>8. QED
        BY <4>3, <4>5, <4>7, <1>l
    <3>4. /\ slot'[c] = NoReply
          /\ \A d \in Clients \ {c} : call'[d] = call[d] /\ slot'[d] = slot[d]
      <4>1. call \in [Clients -> [pc : {"idle", "blocked", "awaiting"},
                                 msg : Message \cup {Nobody}, waited : 0 .. ReplyTicks]]
        BY DEF TypeOK, CallsTyped
      <4>2. CASE Send(c) \/ Block(c) \/ Unblock(c)
        <5>1. call[c].pc # "awaiting" /\ slot' = slot
          BY <4>2, <3>i DEF Send, Block, Unblock, Sent
        <5>2. \A d \in Clients \ {c} : call'[d] = call[d]
          BY <4>1, <4>2 DEF Send, Block, Unblock, Sent
        <5>3. QED
          BY <5>1, <5>2, <2>r
      <4>3. CASE SendTimeout(c) \/ Answer(c) \/ ReplyTimeout(c)
        BY <4>1, <4>3, <2>t DEF SendTimeout, Answer, ReplyTimeout
      <4>4. QED
        BY <4>2, <4>3, <2>5 DEF Client
    <3>5. \A d \in Clients : slot'[d] # NoReply =>
            call'[d].pc = "awaiting" /\ slot'[d] = call'[d].msg.relay
      BY <3>4, <2>r
    (* What was queued before c's step is another's, and stays awaited.    *)
    <3>6. ASSUME NEW i \in 1 .. Len(queue), queue'[i] = queue[i]
          PROVE  AwaitedNext(queue'[i], Left(i)')
      <4>1. i \in Nat /\ 1 <= i /\ queue[i] \in QueueEntry /\ Awaited(queue[i], Left(i))
        BY <2>t, <2>a
      <4>2. Left(i)' = Left(i)
        BY <3>2 DEF TurnsOf, Turn, WritesOf
      <4>3. Left(i) \in Int /\ Left(i) <= Left(i)
        BY <4>1, <2>l
      <4>4. queue[i].reply # Nobody => queue[i].reply \in Clients \ {c}
        BY <4>1, <3>3 DEF QueueEntry
      <4> HIDE DEF Left
      <4>5. QED
        BY <4>1, <4>2, <4>3, <4>4, <3>4, <3>6, StillAwaited
    <3>7. CASE UNCHANGED queue
      BY <3>5, <3>6, <3>7, <2>t, <2>u, <2>g
    <3>8. ASSUME NEW m \in Message, Sent(c, m), Room PROVE QueriesWait'
      <4> DEFINE n == Len(queue)
      <4>1. queue' = Append(queue, Entry(c, m)) /\ n \in Nat /\ n < QueueLength
        BY <3>8, <2>t DEF Sent, Room
      <4>2. Len(queue') = n + 1 /\ queue'[n + 1] = Entry(c, m)
        BY <4>1, <2>t
      <4>3. \A i \in 1 .. n : queue'[i] = queue[i]
        BY <4>1, <2>t
      <4> HIDE DEF n
      <4>4. ASSUME NEW i \in 1 .. Len(queue'), i = n + 1
            PROVE  AwaitedNext(queue'[i], Left(i)')
        <5>1. CASE m.type = "Query"
          <6>1. Entry(c, m).reply = c /\ Entry(c, m).relay = m.relay
            BY <5>1 DEF Entry
          <6>2. call'[c] = [pc |-> "awaiting", msg |-> m, waited |-> 0]
            BY <5>1, <3>8 DEF Sent, TypeOK, CallsTyped
          <6>3. 0 + Left(i)' <= TurnsOf(QueueLength)
            <7>1. i - 1 \in Nat /\ (i - 1) + 1 = i /\ i \in Nat /\ i <= QueueLength
              BY <4>1, <4>4, <1>l
            <7>2. /\ TurnsOf(i - 1) \in Nat /\ TurnsOf(i) = TurnsOf(i - 1) + Turn
                  /\ TurnsOf(i) <= TurnsOf(QueueLength) /\ Turn \in Nat
              BY <7>1, <1>l, TurnsAddUp
            <7>3. Left(i)' = Backlog + TurnsOf(i - 1)
              BY <3>2 DEF TurnsOf, Turn, WritesOf
            <7> HIDE DEF Left
            <7>4. QED
              BY <7>2, <7>3, <2>b, <1>l
          <6> HIDE DEF Left
          <6>4. QED
            BY <6>1, <6>2, <6>3, <3>4, <4>2, <4>4 DEF AwaitedNext
        <5>2. CASE m.type # "Query"
          <6>1. Entry(c, m).reply = Nobody
            BY <5>2 DEF Entry
          <6>2. QED
            BY <6>1, <4>2, <4>4 DEF AwaitedNext
        <5>3. QED
          BY <5>1, <5>2
      <4>5. \A i \in 1 .. Len(queue') : i \in 1 .. n \/ i = n + 1
        BY <4>1, <4>2
      <4>6. ASSUME NEW i \in 1 .. Len(queue') PROVE AwaitedNext(queue'[i], Left(i)')
        <5>1. CASE i = n + 1
          BY <5>1, <4>4
        <5>2. CASE i \in 1 .. n
          BY <5>2, <4>3, <3>6 DEF n
        <5>3. QED
          BY <5>1, <5>2, <4>5
      <4>7. Entry(c, m).reply = c \/ Entry(c, m).reply = Nobody
        BY DEF Entry
      <4>8. \A i, j \in 1 .. Len(queue') :
              queue'[i].reply # Nobody /\ queue'[i].reply = queue'[j].reply => i = j
        <5>1. \A i \in 1 .. n : queue'[i].reply # c
          BY <4>3, <3>3 DEF n
        <5>2. \A i, j \in 1 .. n :
                queue'[i].reply # Nobody /\ queue'[i].reply = queue'[j].reply => i = j
          BY <4>3, <2>u DEF n
        <5>3. QED
          BY <5>1, <5>2, <4>2, <4>5, <4>7
      <4>9. Len(queue') <= QueueLength
        BY <4>1, <4>2, <1>l
      <4>10. QED
        BY <4>6, <4>8, <4>9, <3>5, <2>g
    <3>9. CASE Send(c)
      <4>1. PICK m \in Repertoire[c] : Sent(c, m)
        BY <3>9 DEF Send
      <4>2. m \in Message /\ Room
        BY <3>9 DEF Send
      <4>3. QED
        BY <4>1, <4>2, <3>8
    <3>10. CASE Unblock(c)
      <4>1. Sent(c, call[c].msg) /\ Room /\ call[c].msg \in Message
        BY <3>10 DEF Unblock, TypeOK, CallsTyped
      <4>2. QED
        BY <4>1, <3>8
    <3>11. QED
      BY <2>5, <3>7, <3>9, <3>10 DEF Client, Block, SendTimeout, Answer, ReplyTimeout
  <2>6. CASE Reboot
    <3>1. Len(queue') = 0 /\ \A c \in Clients : slot'[c] = NoReply
      BY <2>6 DEF Reboot
    <3>2. QED
      BY <3>1, <1>l DEF QueriesWait
  <2>7. CASE Start \/ UNCHANGED vars
    <3>1. UNCHANGED <<queue, call, slot, task>>
      BY <2>7 DEF Start, vars, clients
    <3>2. Backlog' = Backlog
      BY <3>1 DEF Backlog, task
    <3>3. QED
      BY <3>1, <3>2, <2>b, <2>k
  <2>8. QED
    BY <2>1, <2>2, <2>3, <2>4, <2>5, <2>6, <2>7 DEF Next, RelayTask
<1>3. QED
  BY <1>1, <1>2, TypeCorrect, PTL DEF Spec

(* A caller that waits longer than a full queue of messages can take never *)
(* leaves a message behind that refers to its reply queue.                 *)
THEOREM RepliesReachTheirCaller == ASSUME Patient PROVE Spec => []ReplyQueueAlive
<1>1. QueriesWait => ReplyQueueAlive
  <2> SUFFICES ASSUME QueriesWait, NEW i \in 1 .. Len(queue), queue[i].reply # Nobody
               PROVE  LET c == queue[i].reply IN
                      /\ call[c].pc = "awaiting" /\ slot[c] = NoReply
                      /\ \A j \in 1 .. Len(queue) : queue[j].reply = c => j = i
    BY DEF ReplyQueueAlive
  <2>1. Awaited(queue[i], Backlog + TurnsOf(i - 1))
    BY DEF QueriesWait
  <2>2. \A j \in 1 .. Len(queue) : queue[j].reply = queue[i].reply => j = i
    BY DEF QueriesWait
  <2>3. QED
    BY <2>1, <2>2 DEF Awaited
<1>2. QED
  BY <1>1, QueriesAreServed, PTL

(* ... and the state it reads is that of the relay it asked about: what    *)
(* the run relay_stale_reply shows to go wrong needs writes so slow that a *)
(* full queue outlasts the caller.                                         *)
THEOREM RepliesMatch == ASSUME Patient PROVE Spec => []ReplyAnswersTheQuery
<1>1. TypeOK /\ QueriesWait => ReplyAnswersTheQuery
  BY DEF QueriesWait, ReplyAnswersTheQuery
<1>2. QED
  BY <1>1, TypeCorrect, QueriesAreServed, PTL
=============================================================================
