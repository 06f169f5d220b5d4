---------------------------- MODULE AnswerProofs ----------------------------
(***************************************************************************)
(* An answer is taken for that of the question it follows: by the scanner, *)
(* of a battery, for any batteries and any buffer, and by a host tool, of  *)
(* a device, for any reports, sessions and log lines.                      *)
(***************************************************************************)
EXTENDS Probe, ToolSession, WellFoundedInduction, TLAPS

(* A set of natural numbers has a least element...                         *)
LEMMA LeastOf ==
  ASSUME NEW S \in SUBSET Nat, S # {}
  PROVE  \E i \in S : \A j \in S : i <= j
<1> DEFINE R == {p \in Nat \X Nat : p[1] < p[2]}
<1>1. IsWellFoundedOn(R, Nat)
  BY NatLessThanWellFounded DEF OpToRel
<1> HIDE DEF R
<1>2. PICK i \in S : \A j \in S : ~(<<j, i>> \in R)
  BY <1>1, WFMin, Zenon
<1>3. \A j \in S : ~(j < i)
  BY <1>2 DEF R
<1>4. QED
  BY <1>3

(* ... so that what is found in a stream is one of its frames.             *)
LEMMA FoundInStream ==
  ASSUME NEW F, NEW stream \in Seq([frame : F, half : {1, 2}]), NEW command
  PROVE  FindPacket(stream, command) \in F \cup {NoPacket}
<1> DEFINE complete == {i \in 1..Len(stream) - 1 :
                          /\ stream[i].half = 1 /\ stream[i + 1].half = 2
                          /\ stream[i].frame = stream[i + 1].frame
                          /\ stream[i].frame.command = command}
           first == CHOOSE i \in complete : \A j \in complete : i <= j
<1>1. FindPacket(stream, command) = IF complete = {} THEN NoPacket ELSE stream[first].frame
  BY DEF FindPacket
<1>2. complete \in SUBSET Nat /\ complete \subseteq DOMAIN stream
  OBVIOUS
<1> HIDE DEF complete
<1>3. complete # {} => first \in complete
  BY <1>2, LeastOf
<1> HIDE DEF first
<1>4. ASSUME complete # {} PROVE stream[first].frame \in F
  <2>1. first \in DOMAIN stream
    BY <1>2, <1>3, <1>4
  <2>2. stream[first] \in [frame : F, half : {1, 2}]
    <3> DEFINE H == [frame : F, half : {1, 2}]
    <3>1. stream \in Seq(H)
      OBVIOUS
    <3> HIDE DEF H
    <3>2. stream[first] \in H
      BY <2>1, <3>1
    <3>3. QED
      BY <3>2 DEF H
  <2>3. QED
    BY <2>2
<1>5. QED
  BY <1>1, <1>4, Zenon

(* The strings that are told apart.                                        *)
LEMMA Procedural ==
  /\ ToSet(Procedures) = {"service", "characteristics", "descriptors", "subscribe"}
  /\ Procedures \in Seq(ToSet(Procedures))
BY DEF Procedures, ToSet

(* Links, bits and what is heard stay in order, whatever a probe meets.    *)
LEMMA ProbesAreOrderly == ProbeSpec => []ProbeInv
<1>1. ProbeInit => ProbeInv
  <2> SUFFICES ASSUME ProbeInit PROVE ProbeInv
    OBVIOUS
  <2>1. ProbeTyped
    BY DEF ProbeInit, ProbeTyped, Codes
  <2>2. OneLink /\ DisconnectIsOwn
    BY DEF ProbeInit, OneLink, DisconnectIsOwn
  <2>3. HeardIsOwn /\ BasicIsOwn
    BY DEF ProbeInit, HeardIsOwn, BasicIsOwn
  <2>4. QED
    BY <2>1, <2>2, <2>3 DEF ProbeInv
<1>2. ProbeInv /\ [ProbeNext]_probeVars => ProbeInv'
  <2> SUFFICES ASSUME ProbeInv, [ProbeNext]_probeVars PROVE ProbeInv'
    OBVIOUS
  <2>t. ProbeTyped /\ OneLink /\ DisconnectIsOwn /\ HeardIsOwn /\ BasicIsOwn
    BY DEF ProbeInv
  <2>1. CASE BeginProbe \/ ProbeRefused
    <3>1. ProbeTyped'
      BY <2>1, <2>t DEF BeginProbe, ProbeRefused, Steps, askVars, airVars, ProbeTyped, Codes
    <3>2. OneLink'
      BY <2>1, <2>t DEF BeginProbe, ProbeRefused, Steps, airVars, OneLink
    <3>3. DisconnectIsOwn'
      BY <2>1, <2>t DEF BeginProbe, ProbeRefused, Steps, airVars, OneLink, DisconnectIsOwn
    <3>4. HeardIsOwn'
      <4>1. rx' = << >> /\ notifications' = << >> /\ packet' = NoPacket
        BY <2>1, <2>t DEF BeginProbe, ProbeRefused, Steps, airVars, OneLink
      <4>2. QED
        BY <4>1 DEF HeardIsOwn
    <3>5. BasicIsOwn'
      BY <2>1 DEF BeginProbe, ProbeRefused, Steps, BasicIsOwn
    <3>6. QED
      BY <3>1, <3>2, <3>3, <3>4, <3>5 DEF ProbeInv
  <2>2. ASSUME UNCHANGED <<target, probes, rxVars, airVars, handle, todoProcedures>>,
               probeBits' \subseteq probeBits, step' \notin {"idle", "procedure_started"}, BasicIsOwn'
        PROVE  ProbeInv'
    BY <2>2, <2>t DEF ProbeInv, rxVars, airVars, ProbeTyped, OneLink, DisconnectIsOwn, HeardIsOwn,
                      OwnFrames, Halves
  <2>3. CASE Connected \/ StartProcedure \/ ProcedureDone
    <3>1. ProbeTyped'
      <4>1. CASE Connected
        BY <4>1, <2>t, Procedural DEF Connected, Steps, airVars, rxVars, ProbeTyped
      <4>2. CASE StartProcedure
        <5>1. Head(todoProcedures) \in ToSet(Procedures)
          BY <4>2, <2>t DEF StartProcedure, ProbeTyped
        <5>2. QED
          BY <4>2, <5>1, <2>t DEF StartProcedure, Steps, askVars, rxVars, ProbeTyped
      <4>3. CASE ProcedureDone
        BY <4>3, <2>t DEF ProcedureDone, Steps, airVars, rxVars, ProbeTyped
      <4>4. QED
        BY <2>3, <4>1, <4>2, <4>3
    <3>2. OneLink'
      BY <2>3, <2>t DEF Connected, StartProcedure, ProcedureDone, Steps, airVars, OneLink
    <3>3. DisconnectIsOwn'
      BY <2>3, <2>t DEF Connected, StartProcedure, ProcedureDone, WaitSucceeds, Ends, airVars,
                        DisconnectIsOwn
    <3>4. HeardIsOwn'
      BY <2>3, <2>t DEF Connected, StartProcedure, ProcedureDone, rxVars, airVars, probeHistory,
                        HeardIsOwn, OwnFrames, Halves
    <3>5. BasicIsOwn'
      BY <2>3 DEF Connected, StartProcedure, ProcedureDone, Steps, BasicIsOwn
    <3>6. QED
      BY <3>1, <3>2, <3>3, <3>4, <3>5 DEF ProbeInv
  <2>4. CASE AskBasic \/ AskCells
    <3>1. ProbeTyped'
      BY <2>4, <2>t DEF AskBasic, AskCells, Steps, airVars, ProbeTyped, Codes
    <3>2. OneLink' /\ DisconnectIsOwn'
      BY <2>4, <2>t DEF AskBasic, AskCells, Steps, airVars, OneLink, DisconnectIsOwn
    <3>3. HeardIsOwn'
      BY <2>4, <2>t DEF AskBasic, AskCells, airVars, probeHistory, HeardIsOwn, OwnFrames, Halves
    <3>4. BasicIsOwn'
      BY <2>4, <2>t DEF AskBasic, AskCells, Steps, probeHistory, BasicIsOwn, OwnFrames, Basic, CellInfo
    <3>5. QED
      BY <3>1, <3>2, <3>3, <3>4 DEF ProbeInv
  <2>5. CASE EmptyBuffer
    <3>1. ProbeTyped' /\ OneLink' /\ DisconnectIsOwn'
      BY <2>5, <2>t DEF EmptyBuffer, Steps, askVars, airVars, ProbeTyped, OneLink, DisconnectIsOwn
    <3>2. HeardIsOwn'
      BY <2>5, <2>t DEF EmptyBuffer, airVars, probeHistory, HeardIsOwn, OwnFrames, Halves
    <3>3. BasicIsOwn'
      BY <2>5, <2>t DEF EmptyBuffer, Steps, askVars, probeHistory, BasicIsOwn, OwnFrames
    <3>4. QED
      BY <3>1, <3>2, <3>3 DEF ProbeInv
  <2>6. CASE ClearPacketBit \/ AskAgain
    <3>1. BasicIsOwn'
      BY <2>6, <2>t DEF ClearPacketBit, AskAgain, Steps, askVars, rxVars, probeHistory, BasicIsOwn, OwnFrames
    <3>2. QED
      BY <2>2, <2>6, <3>1
         DEF ClearPacketBit, AskAgain, Steps, WaitFails, askVars, probeHistory
  <2>7. CASE WriteRequest
    <3>1. ProbeTyped'
      BY <2>7, <2>t DEF WriteRequest, Steps, askVars, rxVars, ProbeTyped
    <3>2. OneLink' /\ DisconnectIsOwn'
      BY <2>7, <2>t DEF WriteRequest, Steps, OneLink, DisconnectIsOwn
    <3>3. HeardIsOwn'
      BY <2>7, <2>t DEF WriteRequest, rxVars, probeHistory, HeardIsOwn, OwnFrames, Halves
    <3>4. BasicIsOwn'
      BY <2>7, <2>t DEF WriteRequest, Steps, askVars, rxVars, probeHistory, BasicIsOwn, OwnFrames
    <3>5. QED
      BY <3>1, <3>2, <3>3, <3>4 DEF ProbeInv
  <2>8. CASE TakeBasic
    <3>1. BasicIsOwn'
      BY <2>8, <2>t
         DEF TakeBasic, Steps, Parses, probeHistory, HeardIsOwn, BasicIsOwn, NoPacket, OwnFrames, None, Basic
    <3>2. QED
      BY <2>2, <2>8, <3>1 DEF TakeBasic, Steps, WaitSucceeds, Ends, probeHistory
  <2>9. CASE RecordWithCells \/ RecordWithoutCells
    <3>1. step' = "cleanup" /\ probeBits' \subseteq probeBits
      BY <2>9 DEF RecordWithCells, RecordWithoutCells, Steps, WaitSucceeds, WaitFails
    <3>2. QED
      BY <2>2, <2>9, <3>1 DEF RecordWithCells, RecordWithoutCells, Record, BasicIsOwn
  <2>10. CASE ProbeFails
    <3>1. step' = "cleanup" /\ probeBits' \subseteq probeBits
      BY <2>10 DEF ProbeFails, Steps, WaitSucceeds, WaitFails
    <3>2. QED
      BY <2>2, <2>10, <3>1 DEF ProbeFails, askVars, probeHistory, BasicIsOwn
  <2>11. CASE CleanedUp
    <3>1. ProbeTyped' /\ OneLink' /\ DisconnectIsOwn'
      BY <2>11, <2>t DEF CleanedUp, Steps, askVars, rxVars, airVars, ProbeTyped, OneLink, DisconnectIsOwn
    <3>2. HeardIsOwn' /\ BasicIsOwn'
      BY <2>11, <2>t DEF CleanedUp, Steps, rxVars, airVars, probeHistory, HeardIsOwn, BasicIsOwn, OwnFrames, Halves
    <3>3. QED
      BY <3>1, <3>2 DEF ProbeInv
  <2>12. CASE Callbacks
    <3>0. UNCHANGED <<step, askVars, target, expected, probeHistory>>
      BY <2>12 DEF Callbacks, Connects, Disconnects, SayGoodbye, ProcedureEnds, BatteryAnswers, Notify, rxVars
    <3>1. BasicIsOwn'
      BY <3>0, <2>t DEF askVars, probeHistory, BasicIsOwn, OwnFrames
    <3>2. OwnFrames' = OwnFrames /\ Halves' = Halves
      BY <3>0 DEF probeHistory, OwnFrames, Halves
    <3>3. ProbeTyped'
      <4>1. questions' \in Seq(Codes)
        <5>1. \/ questions' = questions \/ questions' = << >>
              \/ questions # << >> /\ questions' = Tail(questions)
          BY <2>12 DEF Callbacks, Connects, Disconnects, SayGoodbye, ProcedureEnds, BatteryAnswers, Notify
        <5>2. questions \in Seq(Codes)
          BY <2>t DEF ProbeTyped
        <5>3. questions # << >> => Tail(questions) \in Seq(Codes)
          BY <5>2
        <5>4. << >> \in Seq(Codes)
          OBVIOUS
        <5>5. QED
          BY <5>1, <5>2, <5>3, <5>4, Zenon
      <4>2. procedure' \in {procedure, None}
        BY <2>12 DEF Callbacks, Connects, Disconnects, SayGoodbye, ProcedureEnds, BatteryAnswers, Notify
      <4>3. handle' \in {handle, "handle", None} /\ goodbye' \in {goodbye, "handle", None}
        BY <2>12 DEF Callbacks, Connects, Disconnects, SayGoodbye, ProcedureEnds, BatteryAnswers, Notify
      <4>4. QED
        BY <3>0, <4>1, <4>2, <4>3, <2>t DEF askVars, ProbeTyped
    <3>4. OneLink'
      BY <2>12, <3>0, <2>t DEF Callbacks, Connects, Disconnects, SayGoodbye, ProcedureEnds,
                               BatteryAnswers, Notify, rxVars, OneLink
    <3>5. DisconnectIsOwn'
      <4>1. CASE Connects
        BY <4>1, <2>t DEF Connects, OneLink, DisconnectIsOwn, None
      <4>2. CASE Disconnects
        BY <4>2, <2>t DEF Disconnects, OneLink, DisconnectIsOwn, None
      <4>3. CASE SayGoodbye
        BY <4>3, <2>t DEF SayGoodbye, ProbeTyped, OneLink, DisconnectIsOwn, None
      <4>4. CASE ProcedureEnds
        BY <4>4, <2>t, Procedural DEF ProcedureEnds, ProbeTyped, DisconnectIsOwn
      <4>5. CASE BatteryAnswers \/ Notify
        BY <4>5, <2>t DEF BatteryAnswers, Notify, DisconnectIsOwn
      <4>6. QED
        BY <2>12, <4>1, <4>2, <4>3, <4>4, <4>5 DEF Callbacks
    <3>6. HeardIsOwn'
      <4>1. CASE Connects \/ SayGoodbye \/ ProcedureEnds
        BY <4>1, <3>2, <2>t DEF Connects, SayGoodbye, ProcedureEnds, rxVars, HeardIsOwn
      <4>2. CASE Disconnects
        BY <4>2, <3>2, <2>t DEF Disconnects, rxVars, HeardIsOwn
      <4>3. CASE BatteryAnswers
        <5>1. rx' = rx /\ packet' = packet
          BY <4>3 DEF BatteryAnswers, rxVars
        <5>2. connection = target /\ target \in Peers /\ Head(questions) \in Codes
          BY <4>3, <2>t DEF BatteryAnswers, OneLink, ProbeTyped
        <5>3. ASSUME NEW k \in {Cells[connection], MaxCells}
              PROVE  [command |-> Head(questions), of |-> connection, cells |-> k, probe |-> probes] \in OwnFrames
          BY <5>2, <5>3 DEF OwnFrames
        <5>4. notifications' \in Seq(Halves)
          <6>1. CASE notifications' = notifications
            BY <6>1, <2>t DEF HeardIsOwn
          <6>2. ASSUME NEW a \in OwnFrames,
                       notifications' = notifications \o <<[frame |-> a, half |-> 1], [frame |-> a, half |-> 2]>>
                PROVE  notifications' \in Seq(Halves)
            BY <6>2, <2>t DEF HeardIsOwn, Halves
          <6>3. QED
            BY <4>3, <5>3, <6>1, <6>2 DEF BatteryAnswers
        <5>5. QED
          BY <5>1, <5>4, <3>2, <2>t DEF HeardIsOwn
      <4>4. CASE Notify
        <5>1. notifications' \in Seq(Halves) /\ Head(notifications) \in Halves
          BY <4>4, <2>t DEF Notify, HeardIsOwn
        <5>2. Append(rx, Head(notifications)) \in Seq(Halves)
          BY <5>1, <2>t DEF HeardIsOwn
        <5>3. FindPacket(Append(rx, Head(notifications)), expected) \in OwnFrames \cup {NoPacket}
          BY <5>2, FoundInStream DEF Halves
        <5>4. /\ rx' = << >> \/ rx' = Append(rx, Head(notifications))
              /\ packet' = packet \/ packet' = FindPacket(Append(rx, Head(notifications)), expected)
          BY <4>4 DEF Notify
        <5>5. QED
          <6>1. rx' \in Seq(Halves)
            <7>1. rx' = << >> => rx' \in Seq(Halves)
              OBVIOUS
            <7>2. QED
              BY <7>1, <5>2, <5>4
          <6>2. packet' \in OwnFrames \cup {NoPacket}
            BY <5>3, <5>4, <2>t DEF HeardIsOwn
          <6>3. QED
            BY <5>1, <6>1, <6>2, <3>2 DEF HeardIsOwn
      <4>5. QED
        BY <2>12, <4>1, <4>2, <4>3, <4>4 DEF Callbacks
    <3>7. QED
      BY <3>1, <3>3, <3>4, <3>5, <3>6 DEF ProbeInv
  <2>13. CASE UNCHANGED probeVars
    <3>1. ProbeTyped' /\ OneLink' /\ DisconnectIsOwn'
      BY <2>13, <2>t DEF probeVars, askVars, rxVars, airVars, ProbeTyped, OneLink, DisconnectIsOwn
    <3>2. HeardIsOwn' /\ BasicIsOwn'
      BY <2>13, <2>t DEF probeVars, askVars, rxVars, airVars, probeHistory, HeardIsOwn, BasicIsOwn, OwnFrames, Halves
    <3>3. QED
      BY <3>1, <3>2 DEF ProbeInv
  <2>14. QED
    BY <2>1, <2>3, <2>4, <2>5, <2>6, <2>7, <2>8, <2>9, <2>10, <2>11, <2>12, <2>13 DEF ProbeNext, Prober
<1>3. QED
  BY <1>1, <1>2, PTL DEF ProbeSpec

(* The callback of an old link does not end a probe, and a probe that is   *)
(* connected learns when its link is gone.                                 *)
THEOREM DisconnectsAreOwn == ProbeSpec => []DisconnectIsOwn
BY ProbesAreOrderly, PTL DEF ProbeInv

(* What is recorded for a battery is what it answered in this probe.       *)
THEOREM ObservationsAreOwn == ProbeSpec => ObservationIsItsOwn
<1>1. ProbeInv /\ [ProbeNext]_probeVars =>
        [recorded' # recorded =>
           LET o == recorded'
               own(f, command) == f.of = o.of /\ f.command = command /\ f.probe = probes
           IN own(o.basic, Basic)
              /\ (o.cells # NoPacket => own(o.cells, CellInfo) /\ o.cells.cells = o.basic.cells)]_probeVars
  <2> SUFFICES ASSUME ProbeInv, ProbeNext, recorded' # recorded
               PROVE  LET o == recorded'
                          own(f, command) == f.of = o.of /\ f.command = command /\ f.probe = probes
                      IN own(o.basic, Basic)
                         /\ (o.cells # NoPacket => own(o.cells, CellInfo) /\ o.cells.cells = o.basic.cells)
    OBVIOUS
  <2>1. RecordWithCells \/ RecordWithoutCells
    <3>1. CASE Prober
      BY <3>1 DEF Prober, BeginProbe, ProbeRefused, Connected, StartProcedure, ProcedureDone, AskBasic,
                  EmptyBuffer, ClearPacketBit, WriteRequest, AskAgain, TakeBasic, AskCells, ProbeFails,
                  CleanedUp, probeHistory
    <3>2. CASE Callbacks
      BY <3>2 DEF Callbacks, Connects, Disconnects, SayGoodbye, ProcedureEnds, BatteryAnswers, Notify,
                  probeHistory
    <3>3. QED
      BY <3>1, <3>2 DEF ProbeNext
  <2>2. basic \in OwnFrames /\ basic.command = Basic
    BY <2>1 DEF RecordWithCells, RecordWithoutCells, Steps, ProbeInv, BasicIsOwn
  <2>3. CASE RecordWithoutCells
    BY <2>2, <2>3 DEF RecordWithoutCells, Record, OwnFrames
  <2>4. CASE RecordWithCells
    <3>1. packet \in OwnFrames /\ packet.command = CellInfo /\ packet.cells = basic.cells
      BY <2>4 DEF RecordWithCells, Parses, ProbeInv, HeardIsOwn, NoPacket, None, CellInfo
    <3>2. QED
      BY <2>2, <2>4, <3>1 DEF RecordWithCells, Record, OwnFrames
  <2>5. QED
    BY <2>1, <2>3, <2>4
<1>2. QED
  BY <1>1, ProbesAreOrderly, PTL DEF ProbeSpec, ObservationIsItsOwn

-----------------------------------------------------------------------------
(* Sessions of the host tools.  First, streams: the first in one.          *)
LEMMA FirstIn ==
  ASSUME NEW s, NEW I \in SUBSET (1..Len(s)), I # {}, Len(s) \in Nat
  PROVE  Min(I) \in I /\ \A i \in I : Min(I) <= i
<1>1. \E i \in I : \A j \in I : i <= j
  BY LeastOf
<1>2. QED
  BY <1>1 DEF Min

(* What is left of a stream after its first k.                             *)
LEMMA Rest ==
  ASSUME NEW S, NEW s \in Seq(S), NEW k \in 0..Len(s)
  PROVE  LET t == SubSeq(s, k + 1, Len(s))
         IN  t \in Seq(S) /\ Len(t) = Len(s) - k /\ \A i \in DOMAIN t : i + k \in DOMAIN s /\ t[i] = s[i + k]
OBVIOUS

(* It is as quiet as the stream was, and wholly quiet once the first line  *)
(* of the kind is gone.                                                    *)
LEMMA RestIsQuiet ==
  ASSUME NEW S, NEW s \in Seq(S), NEW k \in 0..Len(s), NEW f \in Nat, NEW kind
  PROVE  LET t == SubSeq(s, k + 1, Len(s))
         IN  /\ QuietAfter(s, kind) => QuietAfter(t, kind)
             /\ (\A i \in DOMAIN s : Quiet(s[i])) => \A i \in DOMAIN t : Quiet(t[i])
             /\ f \in 1..k /\ s[f].kind = kind /\ QuietAfter(s, kind) => \A i \in DOMAIN t : Quiet(t[i])
<1> DEFINE t == SubSeq(s, k + 1, Len(s))
<1>1. \A i \in DOMAIN t : i \in Nat \ {0} /\ i + k \in DOMAIN s /\ t[i] = s[i + k]
  OBVIOUS
<1> HIDE DEF t
<1>2. QuietAfter(s, kind) => QuietAfter(t, kind)
  BY <1>1 DEF QuietAfter
<1>3. (\A i \in DOMAIN s : Quiet(s[i])) => \A i \in DOMAIN t : Quiet(t[i])
  BY <1>1
<1>4. f \in 1..k /\ s[f].kind = kind /\ QuietAfter(s, kind) => \A i \in DOMAIN t : Quiet(t[i])
  BY <1>1 DEF QuietAfter
<1>5. QED
  BY <1>2, <1>3, <1>4 DEF t

(* More is written to a stream.                                            *)
LEMMA Longer ==
  ASSUME NEW S, NEW s \in Seq(S), NEW e \in Seq(S)
  PROVE  /\ s \o e \in Seq(S)
         /\ \A i \in DOMAIN (s \o e) :
              \/ i \in DOMAIN s /\ (s \o e)[i] = s[i]
              \/ i - Len(s) \in DOMAIN e /\ (s \o e)[i] = e[i - Len(s)]
OBVIOUS

(* A quiet line leaves it as quiet as it was.                              *)
LEMMA LongerIsQuiet ==
  ASSUME NEW S, NEW s \in Seq(S), NEW e \in Seq(S), NEW kind,
         \A i \in DOMAIN e : Quiet(e[i])
  PROVE  /\ QuietAfter(s, kind) => QuietAfter(s \o e, kind)
         /\ (\A i \in DOMAIN s : Quiet(s[i])) => \A i \in DOMAIN (s \o e) : Quiet((s \o e)[i])
<1> DEFINE t == s \o e
<1>1. \A i \in DOMAIN t : \/ i \in DOMAIN s /\ t[i] = s[i]
                          \/ i \notin DOMAIN s /\ Quiet(t[i])
  BY Longer
<1>2. DOMAIN s = 1..Len(s) /\ DOMAIN t = 1..Len(t) /\ Len(s) \in Nat /\ Len(t) \in Nat
  BY Longer
<1> HIDE DEF t
<1>4. QuietAfter(s, kind) => QuietAfter(t, kind)
  BY <1>1, <1>2 DEF QuietAfter
<1>5. (\A i \in DOMAIN s : Quiet(s[i])) => \A i \in DOMAIN t : Quiet(t[i])
  BY <1>1
<1>6. QED
  BY <1>4, <1>5 DEF t

(* An answer: its body, its end, and the prompt.                           *)
LEMMA AnswerIsLast ==
  ASSUME NEW S, NEW s \in Seq(S), NEW body \in S, NEW end \in S, Prompt \in S
  PROVE  LET t == s \o <<body, end>> \o <<Prompt>>
         IN  /\ t \in Seq(S)
             /\ body.kind # "prompt" /\ end.kind # "prompt" /\ (\A i \in DOMAIN s : s[i].kind # "prompt")
                  => QuietAfter(t, "prompt")
             /\ body.kind # "dot" /\ (\A i \in DOMAIN s : Quiet(s[i])) => QuietAfter(t, "dot")
             /\ \A i \in DOMAIN t : \/ i \in DOMAIN s /\ t[i] = s[i]
                                    \/ t[i] \in {body, end, Prompt}
<1> DEFINE t == s \o <<body, end>> \o <<Prompt>>
<1>1. t \in Seq(S) /\ Len(t) = Len(s) + 3 /\ Len(s) \in Nat
  OBVIOUS
<1>2. /\ \A i \in 1..Len(s) : t[i] = s[i]
      /\ t[Len(s) + 1] = body /\ t[Len(s) + 2] = end /\ t[Len(s) + 3] = Prompt
  OBVIOUS
<1>3. \A i \in DOMAIN t : i \in 1..Len(s) \/ i \in {Len(s) + 1, Len(s) + 2, Len(s) + 3}
  BY <1>1
<1>4. Prompt.kind = "prompt" /\ Quiet(Prompt)
  BY DEF Prompt, Quiet
<1>5. DOMAIN s = 1..Len(s) /\ DOMAIN t = 1..Len(t)
  OBVIOUS
<1> HIDE DEF t
<1>6. body.kind # "prompt" /\ end.kind # "prompt" /\ (\A i \in DOMAIN s : s[i].kind # "prompt")
        => QuietAfter(t, "prompt")
  BY <1>1, <1>2, <1>3, <1>5 DEF QuietAfter
<1>7. body.kind # "dot" /\ (\A i \in DOMAIN s : Quiet(s[i])) => QuietAfter(t, "dot")
  BY <1>1, <1>2, <1>3, <1>4, <1>5 DEF QuietAfter, Quiet
<1>8. QED
  BY <1>1, <1>2, <1>3, <1>5, <1>6, <1>7 DEF t

(* What is in a stream.                                                    *)
LEMMA ToSets ==
  ASSUME NEW S, NEW s \in Seq(S), NEW e \in Seq(S), NEW v \in S
  PROVE  /\ ToSet(<< >>) = {}
         /\ ToSet(Append(s, v)) = ToSet(s) \cup {v}
         /\ ToSet(s \o e) \subseteq ToSet(s) \cup ToSet(e)
         /\ s # << >> => ToSet(Tail(s)) \subseteq ToSet(s) /\ Head(s) \in ToSet(s)
<1>1. ToSet(<< >>) = {}
  BY DEF ToSet
<1>2. ToSet(Append(s, v)) = ToSet(s) \cup {v}
  <2>1. /\ Append(s, v) \in Seq(S) /\ Len(Append(s, v)) = Len(s) + 1
        /\ Append(s, v)[Len(s) + 1] = v /\ \A i \in 1..Len(s) : Append(s, v)[i] = s[i]
        /\ Len(s) \in Nat
    OBVIOUS
  <2>2. QED
    BY <2>1 DEF ToSet
<1>3. ToSet(s \o e) \subseteq ToSet(s) \cup ToSet(e)
  BY Longer DEF ToSet
<1>4. s # << >> => ToSet(Tail(s)) \subseteq ToSet(s) /\ Head(s) \in ToSet(s)
  BY DEF ToSet
<1>5. QED
  BY <1>1, <1>2, <1>3, <1>4

(* The next line, and where it is.                                         *)
LEMMA LineRead ==
  ASSUME toTool \in Seq(Shown), LineEnd # 0
  PROVE  /\ LineEnd \in 1..Len(toTool) /\ Line \in Shown
         /\ Line.kind \in {"frame", "bad_frame", "dot"} => LineEnd = 1 /\ Line = toTool[1]
<1> DEFINE I == {i \in 1..Len(toTool) : toTool[i] # Prompt}
<1>1. LineEnd = IF I # {} THEN Min(I) ELSE 0
  BY DEF LineEnd, SelectInSeq
<1>2. Len(toTool) \in Nat /\ I \in SUBSET (1..Len(toTool))
  OBVIOUS
<1> HIDE DEF I
<1>3. LineEnd \in I
  BY <1>1, <1>2, FirstIn
<1>4. LineEnd \in 1..Len(toTool)
  BY <1>2, <1>3
<1>5. CASE LineEnd = 1
  <2>1. Line = toTool[1] /\ toTool[1] \in Shown
    BY <1>4, <1>5 DEF Line
  <2>2. QED
    BY <1>4, <1>5, <2>1
<1>6. CASE LineEnd # 1
  <2>1. Line = Noise
    BY <1>6 DEF Line
  <2>2. QED
    BY <1>4, <2>1 DEF Noise, Shown
<1>7. QED
  BY <1>5, <1>6

(* The first prompt is skipped, and what is before it.                     *)
LEMMA PromptSeen ==
  ASSUME toTool \in Seq(Shown), SeePrompt
  PROVE  \E first, last \in 1..Len(toTool) :
           first <= last /\ toTool[first] = Prompt /\ toTool' = SubSeq(toTool, last + 1, Len(toTool))
<1> DEFINE I == {i \in 1..Len(toTool) : toTool[i] = Prompt}
           first == SelectInSeq(toTool, LAMBDA t : t = Prompt)
<1>1. Len(toTool) \in Nat /\ I \in SUBSET (1..Len(toTool)) /\ I # {}
  BY DEF SeePrompt, ToSet
<1>2. first = Min(I)
  BY <1>1 DEF SelectInSeq
<1>3. \E last \in Min(I)..Len(toTool) : toTool' = SubSeq(toTool, last + 1, Len(toTool))
  BY <1>1 DEF SeePrompt, SelectInSeq
<1>4. Min(I) \in 1..Len(toTool) /\ toTool[Min(I)] = Prompt
  <2>1. Min(I) \in I
    BY <1>1, FirstIn
  <2>2. QED
    BY <2>1
<1> HIDE DEF I, first
<1>5. QED
  BY <1>1, <1>3, <1>4

(* The kinds of what is written.                                           *)
LEMMA Kinds ==
  /\ Return.kind = "return" /\ Base64.kind = "base64" /\ Stage.kind = "stage"
  /\ NoCommand.kind = "none" /\ NoPayload.kind = "no_payload"
  /\ \A r, k : Report(r, k).kind = "report" /\ Report(r, k).of = r /\ Report(r, k).session = k
  /\ Prompt.kind = "prompt" /\ Dot.kind = "dot" /\ Noise.kind = "noise"
  /\ BadFrame.kind = "bad_frame" /\ Staged.kind = "staged" /\ Failed.kind = "failed"
  /\ \A r, k : Frame(r, k).kind = "frame" /\ Frame(r, k).of = r /\ Frame(r, k).session = k
  /\ \A c : Echo(c).kind = "echo"
BY DEF Return, Base64, Stage, NoCommand, NoPayload, Report, Prompt, Dot, Noise, BadFrame, Staged,
       Failed, Frame, Echo

(* A line or two, of which neither is a frame or a dot.                    *)
LEMMA Said ==
  ASSUME NEW S, NEW v \in S, NEW w \in S, Quiet(v), Quiet(w)
  PROVE  /\ << >> \in Seq(S) /\ \A i \in DOMAIN << >> : Quiet(<< >>[i]) /\ << >>[i].kind # "prompt"
         /\ <<v>> \in Seq(S) /\ \A i \in DOMAIN <<v>> : Quiet(<<v>>[i]) /\ <<v>>[i] = v
         /\ <<v, w>> \in Seq(S) /\ \A i \in DOMAIN <<v, w>> : Quiet(<<v, w>>[i])
OBVIOUS

(* A tool reads its own answer, whatever was left behind by others.        *)
LEMMA SessionsAreOrderly == ToolSpec => []ToolInv
<1> USE ToolAssumption
<1>1. ToolInit => ToolInv
  <2> SUFFICES ASSUME ToolInit PROVE ToolInv
    OBVIOUS
  <2>1. ToolTyped
    BY DEF ToolInit, ToolTyped
  <2>2. SkipsTheOld /\ ReadsItsAnswer /\ PayloadIsAsked
    BY DEF ToolInit, SkipsTheOld, ReadsItsAnswer, PayloadIsAsked
  <2>3. QED
    BY <2>1, <2>2 DEF ToolInv
<1>2. ToolInv /\ [ToolNext]_toolSessionVars => ToolInv'
  <2> SUFFICES ASSUME ToolInv, [ToolNext]_toolSessionVars PROVE ToolInv'
    OBVIOUS
  <2>t. ToolTyped /\ SkipsTheOld /\ ReadsItsAnswer /\ PayloadIsAsked
    BY DEF ToolInv
  <2>s. /\ toDevice \in Seq(Tasks \cup {Return, Base64}) /\ toTool \in Seq(Shown)
        /\ running \in Tasks \cup {Base64, NoCommand}
        /\ {Prompt, Dot, Noise, BadFrame, Staged, Failed} \cup Frames \subseteq Shown
    BY <2>t DEF ToolTyped, Shown
  <2>a. phase # "closed" => Asked \in Tasks /\ (Asked = Stage \/ \E r \in ToSet(Reports) : Asked = Report(r, session))
    <3> SUFFICES ASSUME phase # "closed"
                 PROVE  Asked \in Tasks /\ (Asked = Stage \/ \E r \in ToSet(Reports) : Asked = Report(r, session))
      OBVIOUS
    <3>1. Asked \in {Report(r, session) : r \in ToSet(Reports)} \cup {Stage}
      BY <2>t DEF ToolTyped, Asked
    <3>2. session \in 1..MaxSessions
      BY <2>t DEF ToolTyped
    <3>3. QED
      BY <3>1, <3>2 DEF Tasks
  (* The session opens.                                                    *)
  <2>1. CASE Open
    <3>1. /\ phase = "closed" /\ phase' = "prompt" /\ session' = session + 1
          /\ session' \in 1..MaxSessions /\ payload' = payload /\ output' = output
      BY <2>1, <2>t DEF Open, responseVars, ToolTyped
    <3>2. todo' \in Seq({Report(r, session') : r \in ToSet(Reports)} \cup {Stage}) /\ todo' # << >>
      <4>1. CASE todo' = [i \in DOMAIN Reports |-> Report(Reports[i], session')]
        <5>1. \A i \in DOMAIN Reports : Reports[i] \in ToSet(Reports)
          BY DEF ToSet
        <5>2. DOMAIN Reports = 1..Len(Reports) /\ Len(Reports) \in Nat \ {0}
          OBVIOUS
        <5>3. QED
          BY <4>1, <5>1, <5>2
      <4>2. CASE todo' = <<Stage>>
        BY <4>2
      <4>4. CASE \E r \in ToSet(Reports) : todo' = <<Report(r, session')>>
        <5>1. PICK r \in ToSet(Reports) : todo' = <<Report(r, session')>>
          BY <4>4
        <5> DEFINE c == Report(r, session')
        <5>2. c \in {Report(q, session') : q \in ToSet(Reports)} \cup {Stage}
          OBVIOUS
        <5> HIDE DEF c
        <5>3. <<c>> \in Seq({Report(q, session') : q \in ToSet(Reports)} \cup {Stage}) /\ <<c>> # << >>
          BY <5>2
        <5>4. QED
          BY <5>1, <5>3 DEF c
      <4>3. QED
        BY <2>1, <4>1, <4>2, <4>4 DEF Open
    <3>3. /\ toDevice' \in Seq(Tasks \cup {Return, Base64}) /\ ToSet(toDevice') \subseteq {Return, Base64}
          /\ toTool' \in Seq(Shown) /\ running' \in Tasks \cup {Base64, NoCommand}
          /\ toTool' = << >> \/ (toTool' = <<Prompt>> /\ running' = NoCommand)
      <4>1. CASE serial
        <5>1. /\ \A c \in ToSet(toDevice) : c \in {Return, Base64}
              /\ toDevice' = Append(toDevice, Return) /\ toTool' = << >> /\ running' = running
          BY <2>1, <4>1 DEF Open
        <5>2. ToSet(toDevice') = ToSet(toDevice) \cup {Return}
          BY <5>1, <2>s, ToSets
        <5>3. toDevice' \in Seq(Tasks \cup {Return, Base64})
          BY <5>1, <2>s
        <5>4. QED
          BY <5>1, <5>2, <5>3, <2>s
      <4>2. CASE ~serial
        <5>1. toDevice' = << >> /\ toTool' = <<Prompt>> /\ running' = NoCommand
          BY <2>1, <4>2 DEF Open
        <5>2. ToSet(toDevice') = {}
          BY <5>1 DEF ToSet
        <5>3. toTool' \in Seq(Shown)
          BY <5>1, <2>s
        <5>4. QED
          BY <5>1, <5>2, <5>3
      <4>3. QED
        BY <4>1, <4>2
    <3>4. ToolTyped'
      BY <3>1, <3>2, <3>3, <2>t DEF ToolTyped
    <3>5. SkipsTheOld'
      BY <3>1, <3>3 DEF SkipsTheOld, QuietAfter
    <3>6. ReadsItsAnswer' /\ PayloadIsAsked'
      BY <3>1, <2>t DEF ReadsItsAnswer, PayloadIsAsked
    <3>7. QED
      BY <3>4, <3>5, <3>6 DEF ToolInv
  <2>2. CASE AskForPrompt
    <3>1. /\ phase = "prompt" /\ toDevice' = Append(toDevice, Return)
          /\ UNCHANGED <<phase, session, todo, toTool, running, output, payload>>
      BY <2>2 DEF AskForPrompt, toolVars, responseVars
    <3>2. toDevice' \in Seq(Tasks \cup {Return, Base64}) /\ ToSet(toDevice') = ToSet(toDevice) \cup {Return}
      BY <3>1, <2>s, ToSets
    <3>3. ToolTyped'
      BY <3>1, <3>2, <2>t DEF ToolTyped
    <3>4. SkipsTheOld'
      BY <3>1, <3>2, <2>t DEF SkipsTheOld
    <3>5. ReadsItsAnswer' /\ PayloadIsAsked'
      BY <3>1, <2>t DEF ReadsItsAnswer, PayloadIsAsked
    <3>6. QED
      BY <3>3, <3>4, <3>5 DEF ToolInv
  (* The command is written, after a prompt.                               *)
  <2>3. CASE SeePrompt
    <3>1. /\ phase = "prompt" /\ phase' = "response" /\ payload' = NoPayload
          /\ toDevice' = toDevice \o Written(Asked)
          /\ UNCHANGED <<session, todo, running, output>> /\ Asked' = Asked
      BY <2>3 DEF SeePrompt, toolVars, Asked
    <3>2. PICK first, last \in 1..Len(toTool) :
            first <= last /\ toTool[first] = Prompt /\ toTool' = SubSeq(toTool, last + 1, Len(toTool))
      BY <2>3, <2>s, PromptSeen
    <3>3. toTool' \in Seq(Shown) /\ \A i \in DOMAIN toTool' : Quiet(toTool'[i])
      <4>1. last \in 0..Len(toTool) /\ first \in 1..last /\ first \in Nat /\ toTool[first].kind = "prompt"
        BY <3>2, Kinds
      <4>2. QuietAfter(toTool, "prompt")
        BY <3>1, <2>t DEF SkipsTheOld
      <4>3. QED
        BY <3>2, <4>1, <4>2, <2>s, Rest, RestIsQuiet
    <3>4. running \in {NoCommand, Base64}
      BY <3>1, <3>2, <2>t, Kinds DEF SkipsTheOld
    <3>5. Asked \in Tasks /\ Asked \notin {Return, Base64, NoCommand}
      BY <3>1, <2>a, Kinds
    <3>6. /\ toDevice' \in Seq(Tasks \cup {Return, Base64})
          /\ ToSet(toDevice') \subseteq {Return, Base64, Asked}
          /\ \A i, j \in DOMAIN toDevice' : toDevice'[i] = Asked /\ toDevice'[j] = Asked => i = j
      <4>1. /\ Written(Asked) \in Seq(Tasks \cup {Return, Base64})
            /\ Written(Asked)[1] = Asked /\ Written(Asked) # << >>
            /\ \A i \in DOMAIN Written(Asked) : i # 1 => Written(Asked)[i] \in {Return, Base64}
        <5>1. CASE Asked = Stage
          <6>1. Written(Asked) = <<Stage, Base64, Return>>
            BY <5>1 DEF Written
          <6>2. QED
            BY <6>1, <5>1, <3>5
        <5>2. CASE Asked # Stage
          <6>1. Written(Asked) = <<Asked>>
            BY <5>2 DEF Written
          <6>2. QED
            BY <6>1, <3>5
        <5>3. QED
          BY <5>1, <5>2
      <4>2. \A i \in DOMAIN toDevice : toDevice[i] \in {Return, Base64}
        BY <3>1, <2>t DEF SkipsTheOld, ToSet
      <4> DEFINE w == Written(Asked)
      <4> HIDE DEF w
      <4>3. /\ toDevice' \in Seq(Tasks \cup {Return, Base64})
            /\ \A i \in DOMAIN toDevice' :
                 \/ i \in DOMAIN toDevice /\ toDevice'[i] = toDevice[i]
                 \/ i - Len(toDevice) \in DOMAIN w /\ toDevice'[i] = w[i - Len(toDevice)]
        BY <3>1, <4>1, <2>s, Longer DEF w
      <4>4. \A i \in DOMAIN toDevice' : toDevice'[i] \in {Return, Base64, Asked}
        BY <4>1, <4>2, <4>3 DEF w
      <4>5. \A i \in DOMAIN toDevice' : i \in Nat /\ (toDevice'[i] = Asked => i - Len(toDevice) = 1)
        BY <4>1, <4>2, <4>3, <3>5 DEF w
      <4>6. ToSet(toDevice') \subseteq {Return, Base64, Asked}
        BY <4>4 DEF ToSet
      <4>7. ASSUME NEW i \in DOMAIN toDevice', NEW j \in DOMAIN toDevice',
                   toDevice'[i] = Asked, toDevice'[j] = Asked
            PROVE  i = j
        <5>1. i \in Nat /\ j \in Nat /\ Len(toDevice) \in Nat
          BY <4>5, <2>s
        <5>2. i - Len(toDevice) = 1 /\ j - Len(toDevice) = 1
          BY <4>5, <4>7
        <5>3. QED
          BY <5>1, <5>2
      <4>8. QED
        BY <4>3, <4>6, <4>7
    <3>7. ToolTyped'
      BY <3>1, <3>3, <3>6, <2>t DEF ToolTyped
    <3>8. ReadsItsAnswer'
      <4>1. \A i \in DOMAIN toTool' : toTool'[i].kind # "frame" /\ toTool'[i].kind # "dot"
        BY <3>3 DEF Quiet
      <4>2. QuietAfter(toTool', "dot")
        BY <4>1 DEF QuietAfter
      <4>3. running' # Asked'
        BY <3>1, <3>4, <3>5
      <4>4. QED
        BY <3>1, <3>3, <3>4, <3>6, <4>1, <4>2, <4>3 DEF ReadsItsAnswer
    <3>9. SkipsTheOld' /\ PayloadIsAsked'
      BY <3>1 DEF SkipsTheOld, PayloadIsAsked
    <3>10. QED
      BY <3>7, <3>8, <3>9 DEF ToolInv
  (* A line is read.                                                       *)
  <2>r. ASSUME ReadLine
        PROVE  /\ phase = "response" /\ toTool' \in Seq(Shown) /\ Line \in Shown
               /\ UNCHANGED <<session, toDevice, running>>
               /\ \A i \in DOMAIN toTool' : \E j \in DOMAIN toTool : toTool'[i] = toTool[j]
               /\ QuietAfter(toTool', "dot")
               /\ Awaiting => \A i \in DOMAIN toTool' : Quiet(toTool'[i])
               /\ Line.kind = "frame" => Asked # Stage /\ Line = Frame(Asked.of, session)
               /\ Line.kind = "dot" => ~Awaiting /\ \A i \in DOMAIN toTool' : Quiet(toTool'[i])
    <3>1. /\ phase = "response" /\ LineEnd # 0 /\ toTool' = SubSeq(toTool, LineEnd + 1, Len(toTool))
          /\ UNCHANGED <<session, toDevice, running>>
      BY <2>r DEF ReadLine
    <3>2. /\ LineEnd \in 1..Len(toTool) /\ Line \in Shown
          /\ Line.kind \in {"frame", "bad_frame", "dot"} => LineEnd = 1 /\ Line = toTool[1]
      BY <3>1, <2>s, LineRead
    <3>3. LineEnd \in 0..Len(toTool) /\ 1 \in DOMAIN toTool /\ 1 \in 1..LineEnd /\ 1 \in Nat
      BY <3>2, <2>s
    <3>4. toTool' \in Seq(Shown) /\ \A i \in DOMAIN toTool' : \E j \in DOMAIN toTool : toTool'[i] = toTool[j]
      BY <3>1, <3>3, <2>s, Rest
    <3>5. QuietAfter(toTool, "dot") /\ (Awaiting => \A i \in DOMAIN toTool : Quiet(toTool[i]))
      BY <3>1, <2>t DEF ReadsItsAnswer
    <3>6. /\ QuietAfter(toTool', "dot")
          /\ Awaiting => \A i \in DOMAIN toTool' : Quiet(toTool'[i])
          /\ toTool[1].kind = "dot" => \A i \in DOMAIN toTool' : Quiet(toTool'[i])
      BY <3>1, <3>3, <3>5, <2>s, RestIsQuiet
    <3>7. Line.kind = "frame" => Asked # Stage /\ Line = Frame(Asked.of, session)
      BY <3>1, <3>2, <3>3, <2>t DEF ReadsItsAnswer
    <3>8. Line.kind = "dot" => ~Awaiting
      BY <3>2, <3>3, <3>5 DEF Quiet
    <3>9. QED
      BY <3>1, <3>2, <3>4, <3>6, <3>7, <3>8
  <2>4. CASE ReadText \/ ReadFrame \/ ReadBadFrame
    <3>0. ReadLine /\ UNCHANGED <<phase, todo>>
      BY <2>4 DEF ReadText, ReadFrame, ReadBadFrame
    <3>1. Asked' = Asked
      BY <3>0 DEF Asked
    <3>2. payload' = payload \/ (Line.kind = "frame" /\ payload' = Line)
      BY <2>4 DEF ReadText, ReadFrame, ReadBadFrame
    <3>3. PayloadIsAsked'
      BY <3>0, <3>1, <3>2, <2>r, <2>t DEF PayloadIsAsked
    <3>4. output' \in [ToSet(Reports) -> Frames \cup {NoPayload}]
      <4>1. CASE output' = output
        BY <4>1, <2>t DEF ToolTyped
      <4>2. CASE ReadFrame
        <5>1. Line \in Frames
          BY <4>2, <3>0, <2>r, Kinds DEF Shown, ReadFrame
        <5>2. QED
          BY <4>2, <5>1, <2>t DEF ReadFrame, ToolTyped
      <4>3. QED
        BY <2>4, <4>1, <4>2 DEF ReadText, ReadBadFrame
    <3>5. ToolTyped'
      BY <3>0, <3>4, <2>r, <2>t DEF ToolTyped
    <3>6. SkipsTheOld'
      BY <3>0, <2>r DEF SkipsTheOld
    <3>7. ReadsItsAnswer'
      <4>1. Awaiting' <=> Awaiting
        BY <3>0, <3>1, <2>r DEF Awaiting
      <4>2. \A i \in DOMAIN toTool' :
              toTool'[i].kind = "frame" => Asked # Stage /\ toTool'[i] = Frame(Asked.of, session)
        BY <3>0, <2>r, <2>t DEF ReadsItsAnswer
      <4>3. QED
        BY <3>0, <3>1, <4>1, <4>2, <2>r, <2>t DEF ReadsItsAnswer
    <3>8. QED
      BY <3>3, <3>5, <3>6, <3>7 DEF ToolInv
  (* An answer ends.                                                       *)
  <2>5. CASE ReadDot
    <3>0. ReadLine /\ Line.kind = "dot" /\ todo' = Tail(todo) /\ payload' = NoPayload
          /\ phase' = (IF Len(todo) = 1 THEN "closed" ELSE "prompt")
      BY <2>5 DEF ReadDot
    <3>1. output' \in [ToSet(Reports) -> Frames \cup {NoPayload}]
      <4>1. CASE output' = output
        BY <4>1, <2>t DEF ToolTyped
      <4>2. CASE payload # NoPayload /\ output' = [output EXCEPT ![Asked.of] = payload]
        <5>1. Asked # Stage /\ payload = Frame(Asked.of, session) /\ phase # "closed"
          BY <4>2, <2>t DEF PayloadIsAsked
        <5>2. Asked.of \in ToSet(Reports) /\ session \in 1..MaxSessions
          BY <5>1, <2>a, <2>t, Kinds DEF ToolTyped
        <5>3. payload \in Frames
          BY <5>1, <5>2 DEF Frames
        <5>4. QED
          BY <4>2, <5>3, <2>t DEF ToolTyped
      <4>3. QED
        BY <2>5, <4>1, <4>2 DEF ReadDot
    <3>2. ToolTyped'
      <4>1. todo # << >> /\ todo \in Seq({Report(r, session) : r \in ToSet(Reports)} \cup {Stage})
        BY <3>0, <2>r, <2>t DEF ToolTyped
      <4>2. /\ todo' \in Seq({Report(r, session) : r \in ToSet(Reports)} \cup {Stage})
            /\ Len(todo) # 1 => todo' # << >>
        <5>1. /\ Tail(todo) \in Seq({Report(r, session) : r \in ToSet(Reports)} \cup {Stage})
              /\ Len(Tail(todo)) = Len(todo) - 1
          BY <4>1
        <5>2. Len(todo) # 1 => Len(Tail(todo)) # 0
          BY <5>1, <4>1
        <5>3. QED
          BY <3>0, <5>1, <5>2
      <4>3. QED
        BY <3>0, <3>1, <4>2, <2>r, <2>t DEF ToolTyped
    <3>3. SkipsTheOld'
      <4>1. ~Awaiting /\ \A i \in DOMAIN toTool' : Quiet(toTool'[i])
        BY <3>0, <2>r
      <4>2. ToSet(toDevice) \subseteq {Return, Base64} /\ running \in {NoCommand, Base64}
        BY <3>0, <4>1, <2>r, <2>t DEF ReadsItsAnswer, Awaiting
      <4>3. QuietAfter(toTool', "prompt")
        BY <4>1 DEF QuietAfter
      <4>4. QED
        BY <3>0, <4>2, <4>3, <2>r DEF SkipsTheOld
    <3>4. ReadsItsAnswer' /\ PayloadIsAsked'
      BY <3>0 DEF ReadsItsAnswer, PayloadIsAsked
    <3>5. QED
      BY <3>2, <3>3, <3>4 DEF ToolInv
  <2>6. CASE GiveUp
    <3>1. /\ phase' = "closed" /\ todo' = << >> /\ payload' = NoPayload
          /\ UNCHANGED <<session, output, toDevice, toTool, running>>
      BY <2>6 DEF GiveUp, lineVars
    <3>2. ToolTyped'
      BY <3>1, <2>t DEF ToolTyped
    <3>3. QED
      BY <3>1, <3>2 DEF ToolInv, SkipsTheOld, ReadsItsAnswer, PayloadIsAsked
  (* What the device does leaves the session as it is.                     *)
  <2>7. ASSUME UNCHANGED sessionState, toTool' \in Seq(Shown),
               toDevice' \in Seq(Tasks \cup {Return, Base64}), running' \in Tasks \cup {Base64, NoCommand},
               SkipsTheOld', ReadsItsAnswer'
        PROVE  ToolInv'
    <3>1. UNCHANGED <<session, phase, todo, payload, output>> /\ Asked' = Asked
      BY <2>7 DEF sessionState, toolVars, responseVars, Asked
    <3>2. ToolTyped' /\ PayloadIsAsked'
      BY <2>7, <3>1, <2>t DEF ToolTyped, PayloadIsAsked
    <3>3. QED
      BY <2>7, <3>2 DEF ToolInv
  <2>u. ASSUME UNCHANGED sessionState
        PROVE  UNCHANGED <<session, phase, todo>> /\ Asked' = Asked
    BY <2>u DEF sessionState, toolVars, Asked
  (* A command is read: nothing that matters is written.                   *)
  <2>8. CASE ReadCommand
    <3>1. /\ running = NoCommand /\ toDevice # << >> /\ toDevice' = Tail(toDevice)
          /\ UNCHANGED sessionState
          /\ running' = (IF Head(toDevice) = Return THEN NoCommand ELSE Head(toDevice))
      BY <2>8, Kinds DEF ReadCommand
    <3>2. /\ Head(toDevice) \in Tasks \cup {Return, Base64} /\ Head(toDevice) = toDevice[1]
          /\ toDevice' \in Seq(Tasks \cup {Return, Base64})
          /\ \A i \in DOMAIN toDevice' : i \in Nat \ {0} /\ i + 1 \in DOMAIN toDevice /\ toDevice'[i] = toDevice[i + 1]
          /\ 1 \in DOMAIN toDevice
      BY <3>1, <2>s
    <3>3. ToSet(toDevice') \subseteq ToSet(toDevice) /\ Head(toDevice) \in ToSet(toDevice)
      BY <3>2 DEF ToSet
    <3> DEFINE c == Echo(Head(toDevice))
    <3>4. /\ c \in Shown \/ Head(toDevice) = Return
          /\ Noise \in Shown /\ Prompt \in Shown
          /\ Quiet(c) /\ c.kind # "prompt" /\ Quiet(Noise) /\ Quiet(Prompt)
      BY <3>2, <2>s, Kinds DEF Shown, Quiet
    <3>5. \E e \in Seq(Shown) :
            /\ toTool' = toTool \o e /\ \A i \in DOMAIN e : Quiet(e[i])
            /\ Head(toDevice) # Return => \A i \in DOMAIN e : e[i].kind # "prompt"
      <4>1. CASE Head(toDevice) = Return
        <5>1. toTool' = toTool \o <<Noise, Prompt>> \/ toTool' = toTool \o <<Prompt>>
          BY <2>8, <4>1 DEF ReadCommand
        <5>2. QED
          BY <5>1, <4>1, <3>4, Said
      <4>2. CASE Head(toDevice) # Return
        <5>1. toTool' = toTool \o <<c>> \/ toTool' = toTool \o <<Noise>> \/ toTool' = toTool \o << >>
          BY <2>8, <4>2 DEF ReadCommand
        <5>2. Noise.kind # "prompt" /\ c \in Shown
          BY <4>2, <3>4, Kinds
        <5> HIDE DEF c
        <5>3. CASE toTool' = toTool \o <<c>>
          <6> DEFINE d == <<c>>
          <6>1. d \in Seq(Shown) /\ \A i \in DOMAIN d : Quiet(d[i]) /\ d[i] = c
            BY <5>2, <3>4, Said
          <6>2. toTool' = toTool \o d
            BY <5>3
          <6> HIDE DEF d
          <6>3. QED
            BY <5>2, <6>1, <6>2, <3>4
        <5>4. CASE toTool' = toTool \o <<Noise>>
          <6> DEFINE d == <<Noise>>
          <6>1. d \in Seq(Shown) /\ \A i \in DOMAIN d : Quiet(d[i]) /\ d[i] = Noise
            BY <5>2, <3>4, Said
          <6>2. toTool' = toTool \o d
            BY <5>4
          <6> HIDE DEF d
          <6>3. QED
            BY <5>2, <6>1, <6>2, <3>4
        <5>5. CASE toTool' = toTool \o << >>
          BY <5>5, <4>2, <3>4, Said
        <5>6. QED
          BY <5>1, <5>3, <5>4, <5>5
      <4>3. QED
        BY <4>1, <4>2
    <3>7. PICK e \in Seq(Shown) :
            /\ toTool' = toTool \o e /\ \A i \in DOMAIN e : Quiet(e[i])
            /\ Head(toDevice) # Return => \A i \in DOMAIN e : e[i].kind # "prompt"
      BY <3>5
    <3>8. /\ toTool' \in Seq(Shown)
          /\ QuietAfter(toTool, "prompt") => QuietAfter(toTool', "prompt")
          /\ QuietAfter(toTool, "dot") => QuietAfter(toTool', "dot")
          /\ (\A i \in DOMAIN toTool : Quiet(toTool[i])) => \A i \in DOMAIN toTool' : Quiet(toTool'[i])
      BY <3>7, <2>s, Longer, LongerIsQuiet
    <3>9. running' \in Tasks \cup {Base64, NoCommand}
      BY <3>1, <3>2
    <3>10. SkipsTheOld'
      <4> SUFFICES ASSUME phase = "prompt"
                   PROVE  /\ ToSet(toDevice') \subseteq {Return, Base64}
                          /\ QuietAfter(toTool', "prompt") /\ running' \in {NoCommand, Base64}
        BY <3>1, <2>u DEF SkipsTheOld
      <4>1. ToSet(toDevice) \subseteq {Return, Base64} /\ QuietAfter(toTool, "prompt")
        BY <2>t DEF SkipsTheOld
      <4>2. QED
        BY <4>1, <3>1, <3>3, <3>8
    <3>11. ReadsItsAnswer'
      <4>0. UNCHANGED <<session, phase, todo>> /\ Asked' = Asked
        BY <3>1, <2>u
      <4> SUFFICES ASSUME phase = "response"
                   PROVE  ReadsItsAnswer'
        BY <4>0 DEF ReadsItsAnswer
      <4>1. /\ ToSet(toDevice) \subseteq {Return, Base64, Asked}
            /\ \A i, j \in DOMAIN toDevice : toDevice[i] = Asked /\ toDevice[j] = Asked => i = j
            /\ Awaiting => \A i \in DOMAIN toTool : Quiet(toTool[i])
            /\ QuietAfter(toTool, "dot")
            /\ \A i \in DOMAIN toTool :
                 toTool[i].kind = "frame" => Asked # Stage /\ toTool[i] = Frame(Asked.of, session)
        BY <2>t DEF ReadsItsAnswer
      <4>2. Asked \notin {Return, Base64, NoCommand}
        BY <2>a, Kinds
      <4>3. ToSet(toDevice') \subseteq {Return, Base64, Asked} /\ running' \in {NoCommand, Base64, Asked}
        BY <4>1, <3>1, <3>3
      <4>4. \A i, j \in DOMAIN toDevice' : toDevice'[i] = Asked /\ toDevice'[j] = Asked => i = j
        <5> TAKE i, j \in DOMAIN toDevice'
        <5>1. i \in Nat /\ j \in Nat
          BY <3>2
        <5>2. toDevice'[i] = Asked /\ toDevice'[j] = Asked => i + 1 = j + 1
          BY <3>2, <4>1
        <5>3. QED
          BY <5>1, <5>2
      <4>5. running' = Asked => Asked \notin ToSet(toDevice')
        <5> SUFFICES ASSUME running' = Asked, NEW i \in DOMAIN toDevice', toDevice'[i] = Asked
                     PROVE  FALSE
          BY DEF ToSet
        <5>1. toDevice[1] = Asked
          BY <3>1, <3>2, <4>2
        <5>2. i \in Nat \ {0} /\ i + 1 \in DOMAIN toDevice /\ toDevice[i + 1] = Asked
          BY <3>2
        <5>3. i + 1 = 1
          BY <5>1, <5>2, <4>1, <3>2
        <5>4. QED
          BY <5>2, <5>3
      <4>6. Awaiting' => Awaiting
        BY <4>0, <4>2, <3>1, <3>3 DEF Awaiting
      <4>7. ASSUME NEW i \in DOMAIN toTool', toTool'[i].kind = "frame"
            PROVE  Asked # Stage /\ toTool'[i] = Frame(Asked.of, session)
        <5>1. \/ i \in DOMAIN toTool /\ toTool'[i] = toTool[i]
              \/ i - Len(toTool) \in DOMAIN e /\ toTool'[i] = e[i - Len(toTool)]
          BY <3>7, <2>s, Longer
        <5>2. QED
          BY <5>1, <4>1, <4>7, <3>7 DEF Quiet
      <4>8. QED
        BY <4>0, <4>1, <4>3, <4>4, <4>5, <4>6, <4>7, <3>8 DEF ReadsItsAnswer
    <3>12. QED
      BY <3>1, <3>2, <3>8, <3>9, <3>10, <3>11, <2>7
  (* The answer to a tool's command: to that of an earlier session if the  *)
  (* tool is still asking for a prompt, and to its own if it reads.        *)
  <2>9. ASSUME running \in Tasks, UNCHANGED sessionState, running' = NoCommand,
               NEW body \in Shown, NEW end \in Shown, toTool' = toTool \o <<body, end>> \o <<Prompt>>,
               body.kind \notin {"prompt", "dot"}, end.kind \notin {"prompt", "frame"},
               body.kind = "frame" => running # Stage /\ body = Frame(running.of, running.session),
               toDevice' \in Seq(Tasks \cup {Return, Base64}), ToSet(toDevice') \subseteq ToSet(toDevice)
        PROVE  ToolInv'
    <3>1. /\ toTool' \in Seq(Shown)
          /\ (\A i \in DOMAIN toTool : toTool[i].kind # "prompt") => QuietAfter(toTool', "prompt")
          /\ (\A i \in DOMAIN toTool : Quiet(toTool[i])) => QuietAfter(toTool', "dot")
          /\ \A i \in DOMAIN toTool' : \/ i \in DOMAIN toTool /\ toTool'[i] = toTool[i]
                                       \/ toTool'[i] \in {body, end, Prompt}
      <4>1. toTool \in Seq(Shown) /\ Prompt \in Shown
        BY <2>s
      <4>2. QED
        BY <2>9, <4>1, AnswerIsLast
    <3>2. running \notin {NoCommand, Base64}
      BY <2>9, Kinds DEF Tasks
    <3>3. UNCHANGED <<session, phase, todo>> /\ Asked' = Asked
      BY <2>9, <2>u
    <3>4. SkipsTheOld'
      <4> SUFFICES ASSUME phase = "prompt"
                   PROVE  ToSet(toDevice') \subseteq {Return, Base64} /\ QuietAfter(toTool', "prompt")
        BY <2>9, <3>3 DEF SkipsTheOld
      <4>1. QED
        BY <2>9, <2>t, <3>1, <3>2 DEF SkipsTheOld
    <3>5. ReadsItsAnswer'
      <4> SUFFICES ASSUME phase = "response"
                   PROVE  ReadsItsAnswer'
        BY <3>3 DEF ReadsItsAnswer
      <4>1. running = Asked /\ Asked \notin ToSet(toDevice) /\ ToSet(toDevice) \subseteq {Return, Base64, Asked}
        BY <3>2, <2>t DEF ReadsItsAnswer
      <4>2. \A i \in DOMAIN toTool : Quiet(toTool[i])
        BY <4>1, <2>t DEF ReadsItsAnswer, Awaiting
      <4>3. /\ ToSet(toDevice') \subseteq {Return, Base64, Asked} /\ Asked \notin ToSet(toDevice')
            /\ \A i \in DOMAIN toDevice' : toDevice'[i] # Asked
        BY <4>1, <2>9 DEF ToSet
      <4>4. Asked # NoCommand
        BY <4>1, <3>2
      <4>5. ASSUME NEW i \in DOMAIN toTool', toTool'[i].kind = "frame"
            PROVE  Asked # Stage /\ toTool'[i] = Frame(Asked.of, session)
        <5>1. toTool'[i] = body
          BY <4>5, <4>2, <3>1, <2>9, Kinds DEF Quiet
        <5>2. Asked # Stage /\ body = Frame(Asked.of, Asked.session)
          BY <4>5, <5>1, <4>1, <2>9
        <5>3. Asked.session = session
          BY <5>2, <2>a, Kinds
        <5>4. QED
          BY <5>1, <5>2, <5>3
      <4>6. QED
        BY <2>9, <3>1, <3>3, <4>2, <4>3, <4>4, <4>5 DEF ReadsItsAnswer, Awaiting
    <3>6. QED
      BY <2>9, <2>7, <3>1, <3>4, <3>5
  (* Noise and a prompt, while no answer is due.                           *)
  <2>10. ASSUME UNCHANGED <<sessionState, toDevice>>, running \in {NoCommand, Base64}, running' = NoCommand,
                toTool' \in Seq(Shown),
                \A kind : QuietAfter(toTool, kind) => QuietAfter(toTool', kind),
                (\A i \in DOMAIN toTool : Quiet(toTool[i])) => \A i \in DOMAIN toTool' : Quiet(toTool'[i]),
                \A i \in DOMAIN toTool' : Quiet(toTool'[i]) \/ (i \in DOMAIN toTool /\ toTool'[i] = toTool[i])
         PROVE  ToolInv'
    <3>1. UNCHANGED <<session, phase, todo>> /\ Asked' = Asked
      BY <2>10, <2>u
    <3>2. SkipsTheOld'
      BY <2>10, <3>1, <2>t DEF SkipsTheOld
    <3>3. ReadsItsAnswer'
      <4> SUFFICES ASSUME phase = "response"
                   PROVE  ReadsItsAnswer'
        BY <3>1 DEF ReadsItsAnswer
      <4>1. Asked # NoCommand
        BY <2>a, Kinds DEF Tasks
      <4>2. Awaiting' => Awaiting
        BY <4>1, <2>10, <3>1 DEF Awaiting
      <4>3. \A i \in DOMAIN toTool' :
              toTool'[i].kind = "frame" => Asked # Stage /\ toTool'[i] = Frame(Asked.of, session)
        BY <2>10, <2>t DEF ReadsItsAnswer, Quiet
      <4>4. QED
        BY <2>10, <2>t, <3>1, <4>1, <4>2, <4>3 DEF ReadsItsAnswer
    <3>4. QED
      BY <2>10, <2>7, <2>s, <3>2, <3>3
  <2>11. CASE AnswerReport
    <3>1. running.kind = "report" /\ UNCHANGED <<sessionState, toDevice>>
      BY <2>11 DEF AnswerReport
    <3>2. PICK r \in ToSet(Reports), k \in 1..MaxSessions : running = Report(r, k)
      BY <3>1, <2>s, Kinds DEF Tasks
    <3>3. PICK body \in {Frame(r, k), Noise, BadFrame}, end \in {Dot, Noise} :
            toTool' = toTool \o <<body, end>> \o <<Prompt>> /\ running' = NoCommand
      <4>1. Frame(running.of, running.session) = Frame(r, k)
        BY <3>2, Kinds
      <4>2. \E body \in {Frame(running.of, running.session), Noise} \cup Garbled({BadFrame}),
               end \in {Dot} \cup Garbled({Noise}) :
              toTool' = toTool \o <<body, end>> \o <<Prompt>> /\ running' = NoCommand
        BY <2>11, Zenon DEF AnswerReport, Answer
      <4>3. /\ {Frame(running.of, running.session), Noise} \cup Garbled({BadFrame}) \subseteq {Frame(r, k), Noise, BadFrame}
            /\ {Dot} \cup Garbled({Noise}) \subseteq {Dot, Noise}
        BY <4>1 DEF Garbled
      <4>4. QED
        BY <4>2, <4>3, Zenon
    <3>4. running \in Tasks /\ Frame(r, k) \in Shown
      BY <3>2, <2>s DEF Tasks, Frames
    <3>5. /\ body \in Shown /\ body.kind \notin {"prompt", "dot"}
          /\ body.kind = "frame" => running # Stage /\ body = Frame(running.of, running.session)
      BY <3>1, <3>2, <3>4, <2>s, Kinds
    <3>6. end \in Shown /\ end.kind \notin {"prompt", "frame"}
      BY <2>s, Kinds
    <3>7. toDevice' \in Seq(Tasks \cup {Return, Base64}) /\ ToSet(toDevice') \subseteq ToSet(toDevice)
      BY <3>1, <2>s
    <3>8. QED
      BY <3>1, <3>3, <3>4, <3>5, <3>6, <3>7, <2>9
  <2>12. CASE AnswerStage
    <3>1. running = Stage /\ running \in Tasks /\ UNCHANGED sessionState
      BY <2>12 DEF AnswerStage, Tasks
    <3>2. PICK body \in {Staged, Failed, Noise}, end \in {Dot, Noise} :
            toTool' = toTool \o <<body, end>> \o <<Prompt>> /\ running' = NoCommand
      BY <2>12 DEF AnswerStage, Answer, Garbled
    <3>3. /\ body \in Shown /\ body.kind \notin {"prompt", "dot", "frame"}
          /\ end \in Shown /\ end.kind \notin {"prompt", "frame"}
      BY <2>s, Kinds
    <3>4. toDevice' \in Seq(Tasks \cup {Return, Base64}) /\ ToSet(toDevice') \subseteq ToSet(toDevice)
      <4>1. CASE toDevice' = toDevice
        BY <4>1, <2>s
      <4>2. CASE Len(toDevice) > 1 /\ toDevice' = Tail(Tail(toDevice))
        <5>1. /\ toDevice' \in Seq(Tasks \cup {Return, Base64})
              /\ \A i \in DOMAIN toDevice' : i + 2 \in DOMAIN toDevice /\ toDevice'[i] = toDevice[i + 2]
          BY <4>2, <2>s
        <5>2. QED
          BY <5>1 DEF ToSet
      <4>3. QED
        BY <2>12, <4>1, <4>2 DEF AnswerStage
    <3>5. QED
      BY <3>1, <3>2, <3>3, <3>4, <2>9
  <2>13. CASE AnswerUnknown
    <3> DEFINE t == toTool \o <<Noise>>
               e == <<Noise>>
               p == <<Prompt>>
    <3>1. /\ UNCHANGED <<sessionState, toDevice>> /\ running = Base64 /\ running' = NoCommand
          /\ toTool' = t \o p
      BY <2>13 DEF AnswerUnknown, Answer
    <3>2. Noise \in Shown /\ Prompt \in Shown /\ Quiet(Noise) /\ Quiet(Prompt)
      BY <2>s, Kinds DEF Quiet
    <3>3. e \in Seq(Shown) /\ \A i \in DOMAIN e : Quiet(e[i])
      BY <3>2, Said
    <3>4. p \in Seq(Shown) /\ \A i \in DOMAIN p : Quiet(p[i])
      BY <3>2, Said
    <3>5. t = toTool \o e
      OBVIOUS
    <3> HIDE DEF e, p, t
    <3>6. /\ t \in Seq(Shown) /\ \A kind : QuietAfter(toTool, kind) => QuietAfter(t, kind)
          /\ (\A i \in DOMAIN toTool : Quiet(toTool[i])) => \A i \in DOMAIN t : Quiet(t[i])
          /\ \A i \in DOMAIN t : Quiet(t[i]) \/ (i \in DOMAIN toTool /\ t[i] = toTool[i])
      BY <3>3, <3>5, <2>s, Longer, LongerIsQuiet
    <3>7. /\ toTool' \in Seq(Shown) /\ \A kind : QuietAfter(t, kind) => QuietAfter(toTool', kind)
          /\ (\A i \in DOMAIN t : Quiet(t[i])) => \A i \in DOMAIN toTool' : Quiet(toTool'[i])
          /\ \A i \in DOMAIN toTool' : Quiet(toTool'[i]) \/ (i \in DOMAIN t /\ toTool'[i] = t[i])
      BY <3>1, <3>4, <3>6, Longer, LongerIsQuiet
    <3>8. QED
      BY <3>1, <3>6, <3>7, <2>10
  <2>14. CASE LogLine
    <3> DEFINE e == <<Noise, Prompt>>
    <3>1. /\ UNCHANGED <<sessionState, toDevice>> /\ running = NoCommand /\ running' = NoCommand
          /\ toTool' = toTool \o e
      BY <2>14 DEF LogLine
    <3>2. Noise \in Shown /\ Prompt \in Shown /\ Quiet(Noise) /\ Quiet(Prompt)
      BY <2>s, Kinds DEF Quiet
    <3>3. e \in Seq(Shown) /\ \A i \in DOMAIN e : Quiet(e[i])
      BY <3>2, Said
    <3> HIDE DEF e
    <3>4. /\ toTool' \in Seq(Shown) /\ \A kind : QuietAfter(toTool, kind) => QuietAfter(toTool', kind)
          /\ (\A i \in DOMAIN toTool : Quiet(toTool[i])) => \A i \in DOMAIN toTool' : Quiet(toTool'[i])
          /\ \A i \in DOMAIN toTool' : Quiet(toTool'[i]) \/ (i \in DOMAIN toTool /\ toTool'[i] = toTool[i])
      BY <3>1, <3>3, <2>s, Longer, LongerIsQuiet
    <3>5. QED
      BY <3>1, <3>4, <2>10
  <2>15. CASE UNCHANGED toolSessionVars
    <3>1. UNCHANGED <<session, phase, todo, payload, output, toDevice, toTool, running>> /\ Asked' = Asked
      BY <2>15 DEF toolSessionVars, sessionState, toolVars, responseVars, lineVars, Asked
    <3>2. Awaiting' <=> Awaiting
      BY <3>1 DEF Awaiting
    <3>3. ToolTyped' /\ SkipsTheOld' /\ PayloadIsAsked'
      BY <3>1, <2>t DEF ToolTyped, SkipsTheOld, PayloadIsAsked
    <3>4. ReadsItsAnswer'
      BY <3>1, <3>2, <2>t DEF ReadsItsAnswer
    <3>5. QED
      BY <3>3, <3>4 DEF ToolInv
  <2>16. QED
    BY <2>1, <2>2, <2>3, <2>4, <2>5, <2>6, <2>8, <2>11, <2>12, <2>13, <2>14, <2>15 DEF ToolNext
<1>3. QED
  BY <1>1, <1>2, PTL DEF ToolSpec

(* What a tool writes for a report is the frame it asked for in this       *)
(* session, and what it does not write it leaves alone                     *)
(* (the json command of power4ctl.c, the ReportCollector of power4d).      *)
THEOREM OutputsAreTheirReports == ToolSpec => OutputIsItsReport
<1> DEFINE Kept == \A r \in ToSet(Reports) : output'[r] # output[r] => output'[r] = Frame(r, session)
<1>1. ToolInv /\ [ToolNext]_toolSessionVars => [Kept]_toolSessionVars
  <2> SUFFICES ASSUME ToolInv, [ToolNext]_toolSessionVars PROVE Kept
    OBVIOUS
  <2>t. ToolTyped /\ ReadsItsAnswer /\ PayloadIsAsked
    BY DEF ToolInv
  <2>1. CASE output' = output
    BY <2>1
  <2>2. CASE /\ payload # NoPayload /\ output' = [output EXCEPT ![Asked.of] = payload]
    BY <2>2, <2>t, Kinds DEF PayloadIsAsked, ToolTyped
  <2>3. CASE ReadFrame
    <3>1. CASE output' = output
      BY <3>1
    <3>2. CASE output' = [output EXCEPT ![Asked.of] = Line]
      <4>1. LineEnd # 0 /\ phase = "response" /\ Line.kind = "frame"
        BY <2>3 DEF ReadFrame, ReadLine
      <4>2. 1 \in DOMAIN toTool /\ Line = toTool[1]
        BY <4>1, <2>t, LineRead DEF ToolTyped
      <4>3. Line = Frame(Asked.of, session)
        BY <4>1, <4>2, <2>t DEF ReadsItsAnswer
      <4>4. QED
        BY <3>2, <4>3, <2>t DEF ToolTyped
    <3>3. QED
      BY <2>3, <3>1, <3>2 DEF ReadFrame
  <2>4. ASSUME ToolNext PROVE output' = output \/ ReadFrame \/ ReadDot
    BY <2>4 DEF ToolNext, Open, AskForPrompt, SeePrompt, ReadText, ReadBadFrame, GiveUp, ReadCommand,
               AnswerReport, AnswerStage, AnswerUnknown, LogLine, sessionState
  <2>5. ReadDot => output' = output \/ (payload # NoPayload /\ output' = [output EXCEPT ![Asked.of] = payload])
    BY DEF ReadDot
  <2>6. UNCHANGED toolSessionVars => output' = output
    BY DEF toolSessionVars, sessionState
  <2>7. QED
    BY <2>1, <2>2, <2>3, <2>4, <2>5, <2>6
<1>2. ToolSpec => [][Kept]_toolSessionVars
  BY <1>1, SessionsAreOrderly, PTL DEF ToolSpec
<1>3. QED
  BY <1>2 DEF OutputIsItsReport
=============================================================================
