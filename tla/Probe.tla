------------------------------- MODULE Probe -------------------------------
(***************************************************************************)
(* The probe of one battery after another in src/main/battery_scanner.cpp: *)
(* connect, discover, subscribe, ask for basic information and for cell    *)
(* voltages, record the observation, take the link down.  The scanner task *)
(* asks and waits for event bits; the callbacks of the NimBLE host fill    *)
(* g_probe and set them.  A question is repeated once, so that its answer  *)
(* may come twice, or during the next one.                                 *)
(*                                                                         *)
(* An answer arrives in two notifications; src/main/jbd_protocol.cpp finds *)
(* and checks it.  How a link is brought down is the subject of            *)
(* BleRecovery: here it is, unless the scanner stops probing.  NimBLE and  *)
(* the batteries are modelled from how they are used.                      *)
(***************************************************************************)
EXTENDS Integers, Sequences, FiniteSets, SequencesExt

CONSTANTS
  Cells,           \* [the batteries -> how many cells each says it has]
  MaxCells,        \* kBatteryCellMax
  Room,            \* of g_probe.rx, in notifications
  MaxProbes        \* bound

Peers == DOMAIN Cells
None == "none"
Basic == "basic_info"
CellInfo == "cell_info"

Procedures == <<"service", "characteristics", "descriptors", "subscribe">>

VARIABLES
  (* the scanner *)
  step,            \* where it is
  todoProcedures,  \* of discover_probe_handles and subscribe_probe_notifications
  tries,           \* of the question
  basic,           \* local of probe_battery: what was parsed
  (* g_probe and g_scanner_events *)
  target, handle, expected, rx, packet,
  probeBits,
  (* the host and the air *)
  connectingTo, connection,  \* ble_gap_conn_active(), and the peer of the link
  goodbye,         \* a link is gone, its callback is still to run
  procedure,       \* of NimBLE, under way
  questions, notifications,
  (* history *)
  probes, recorded \* probes begun, the last observation

askVars == <<todoProcedures, tries, basic>>
rxVars == <<expected, rx, packet>>
airVars == <<connectingTo, connection, goodbye, procedure, questions, notifications>>
probeHistory == <<probes, recorded>>
probeVars == <<step, askVars, target, handle, rxVars, probeBits, airVars, probeHistory>>

NoPacket == [command |-> None, of |-> None, cells |-> 0, probe |-> 0]
NoObservation == [of |-> None, basic |-> NoPacket, cells |-> NoPacket]

-----------------------------------------------------------------------------
(* The scanner task.                                                       *)

Steps(from, to) == step = from /\ step' = to

(* wait_for_probe_bits: what was waited for, or not; either way the bits   *)
(* are cleared.                                                            *)
Ends == {"failed", "disconnected"}
WaitSucceeds(bit) == bit \in probeBits /\ probeBits' = probeBits \ ({bit} \cup Ends)
WaitFails(bit) == bit \notin probeBits /\ probeBits' = probeBits \ Ends

(* probe_battery.  g_probe is made anew.                                   *)
BeginProbe ==
  /\ Steps("idle", "connect") /\ probes < MaxProbes
  /\ target' \in Peers \ {connection}
  /\ connectingTo = None /\ connectingTo' = target'
  /\ handle' = None /\ expected' = None /\ rx' = << >> /\ packet' = NoPacket
  /\ probeBits' = {}
  /\ probes' = probes + 1
  /\ UNCHANGED <<askVars, connection, goodbye, procedure, questions, notifications, recorded>>

(* NimBLE does not accept the connection.                                  *)
ProbeRefused ==
  /\ step = "idle" /\ probes < MaxProbes
  /\ target' \in Peers
  /\ handle' = None /\ expected' = None /\ rx' = << >> /\ packet' = NoPacket
  /\ probeBits' = {}
  /\ probes' = probes + 1
  /\ UNCHANGED <<step, askVars, airVars, recorded>>

Connected ==
  /\ Steps("connect", "procedure") /\ WaitSucceeds("connected")
  /\ todoProcedures' = Procedures
  /\ UNCHANGED <<tries, basic, target, handle, rxVars, airVars, probeHistory>>

StartProcedure ==
  /\ Steps("procedure", "procedure_started") /\ todoProcedures # << >>
  /\ procedure' = IF handle = None THEN None ELSE Head(todoProcedures)
  /\ UNCHANGED <<askVars, target, handle, rxVars, probeBits, connectingTo, connection, goodbye,
                 questions, notifications, probeHistory>>

ProcedureDone ==
  /\ Steps("procedure_started", "procedure") /\ WaitSucceeds(Head(todoProcedures))
  /\ todoProcedures' = Tail(todoProcedures)
  /\ UNCHANGED <<tries, basic, target, handle, rxVars, airVars, probeHistory>>

AskBasic ==
  /\ Steps("procedure", "send") /\ todoProcedures = << >>
  /\ expected' = Basic /\ tries' = 1
  /\ UNCHANGED <<todoProcedures, basic, target, handle, rx, packet, probeBits, airVars, probeHistory>>

(* send_jbd_request, after it has noted the command.                       *)
EmptyBuffer ==
  /\ Steps("send", "clear")
  /\ rx' = << >> /\ packet' = NoPacket
  /\ UNCHANGED <<askVars, target, handle, expected, probeBits, airVars, probeHistory>>

ClearPacketBit ==
  /\ Steps("clear", "write")
  /\ probeBits' = probeBits \ {"packet"}
  /\ UNCHANGED <<askVars, target, handle, rxVars, airVars, probeHistory>>

WriteRequest ==
  /\ Steps("write", "wait")
  /\ questions' = IF connection = None THEN questions ELSE Append(questions, expected)
  /\ UNCHANGED <<askVars, target, handle, rxVars, probeBits, connectingTo, connection, goodbye,
                 procedure, notifications, probeHistory>>

(* request_jbd_packet: one retry.                                          *)
AskAgain ==
  /\ Steps("wait", "send") /\ tries = 1 /\ WaitFails("packet")
  /\ tries' = 2
  /\ UNCHANGED <<todoProcedures, basic, target, handle, rxVars, airVars, probeHistory>>

(* jbd_parse_basic_info, jbd_parse_cell_info                               *)
Parses(command) == packet.command = command

TakeBasic ==
  /\ Steps("wait", "basic_known") /\ expected = Basic /\ WaitSucceeds("packet")
  /\ Parses(Basic)
  /\ basic' = packet
  /\ UNCHANGED <<todoProcedures, tries, target, handle, rxVars, airVars, probeHistory>>

AskCells ==
  /\ Steps("basic_known", "send") /\ basic.cells <= MaxCells
  /\ expected' = CellInfo /\ tries' = 1
  /\ UNCHANGED <<todoProcedures, basic, target, handle, rx, packet, probeBits, airVars, probeHistory>>

(* battery_store_record_observation                                        *)
Record(cells) ==
  /\ recorded' = [of |-> target, basic |-> basic, cells |-> cells]
  /\ UNCHANGED <<todoProcedures, tries, target, handle, rxVars, airVars, probes>>

(* Mutant: the voltages are taken however many they are.                   *)
RecordAnyCells ==
  /\ Steps("wait", "cleanup") /\ expected = CellInfo /\ WaitSucceeds("packet")
  /\ Parses(CellInfo)
  /\ Record(packet)
  /\ basic' = NoPacket

(* As many voltages as the battery says it has cells.                      *)
RecordWithCells ==
  /\ Steps("wait", "cleanup") /\ expected = CellInfo /\ WaitSucceeds("packet")
  /\ Parses(CellInfo) /\ packet.cells = basic.cells /\ basic.cells # 0
  /\ Record(packet)
  /\ basic' = NoPacket

(* Too many cells, no answer, or one that is of no use.                    *)
RecordWithoutCells ==
  /\ \/ Steps("basic_known", "cleanup") /\ basic.cells > MaxCells /\ UNCHANGED probeBits
     \/ Steps("wait", "cleanup") /\ expected = CellInfo /\ WaitFails("packet") /\ tries = 2
     \/ Steps("wait", "cleanup") /\ expected = CellInfo /\ WaitSucceeds("packet")
     \/ Steps("write", "cleanup") /\ expected = CellInfo /\ UNCHANGED probeBits
  /\ Record(NoPacket)
  /\ basic' = NoPacket

(* A wait, a call of NimBLE or the parsing of basic information fails.     *)
ProbeFails ==
  /\ \/ Steps("connect", "cleanup") /\ WaitFails("connected")
     \/ Steps("procedure_started", "cleanup") /\ WaitFails(Head(todoProcedures))
     \/ Steps("procedure", "cleanup") /\ UNCHANGED probeBits
     \/ Steps("write", "cleanup") /\ expected = Basic /\ UNCHANGED probeBits
     \/ Steps("wait", "cleanup") /\ expected = Basic /\ WaitFails("packet") /\ tries = 2
     \/ Steps("wait", "cleanup") /\ expected = Basic /\ WaitSucceeds("packet")
  /\ UNCHANGED <<askVars, target, handle, rxVars, airVars, probeHistory>>

(* disconnect_probe: no attempt and no link is left, or the scanner does   *)
(* not probe any more.                                                     *)
CleanedUp ==
  /\ Steps("cleanup", "idle") /\ connectingTo = None /\ connection = None
  /\ UNCHANGED <<askVars, target, handle, rxVars, probeBits, airVars, probeHistory>>

Prober ==
  \/ BeginProbe \/ ProbeRefused \/ Connected
  \/ StartProcedure \/ ProcedureDone
  \/ AskBasic \/ EmptyBuffer \/ ClearPacketBit \/ WriteRequest \/ AskAgain
  \/ TakeBasic \/ AskCells
  \/ RecordWithCells \/ RecordWithoutCells
  \/ ProbeFails \/ CleanedUp

-----------------------------------------------------------------------------
(* The callbacks, which run one after the other, and the batteries.        *)

(* probe_gap_event                                                         *)
Connects ==
  /\ connectingTo # None /\ goodbye = None
  /\ connectingTo' = None
  /\ \/ connection' = connectingTo /\ handle' = "handle" /\ probeBits' = probeBits \cup {"connected"}
     \/ UNCHANGED <<connection, handle>> /\ probeBits' = probeBits \cup {"failed"}
  /\ UNCHANGED <<step, askVars, target, rxVars, goodbye, procedure, questions, notifications, probeHistory>>

(* NimBLE forgets the link before it calls back.                           *)
Disconnects ==
  /\ connection # None /\ connection' = None /\ goodbye' = "handle"
  /\ procedure' = None /\ questions' = << >> /\ notifications' = << >>
  /\ probeBits' = IF procedure = None THEN probeBits ELSE probeBits \cup {"failed"}
  /\ UNCHANGED <<step, askVars, target, handle, rxVars, connectingTo, probeHistory>>

(* Mutant: whose link it was is not looked at.                             *)
SayGoodbyeToAny ==
  /\ goodbye # None /\ goodbye' = None
  /\ handle' = None /\ probeBits' = probeBits \cup {"disconnected"}
  /\ UNCHANGED <<step, askVars, target, rxVars, connectingTo, connection, procedure, questions, notifications, probeHistory>>

SayGoodbye ==
  /\ goodbye # None /\ goodbye' = None
  /\ IF goodbye = handle
       THEN handle' = None /\ probeBits' = probeBits \cup {"disconnected"}
       ELSE UNCHANGED <<handle, probeBits>>
  /\ UNCHANGED <<step, askVars, target, rxVars, connectingTo, connection, procedure, questions, notifications, probeHistory>>

(* service_discovered, characteristic_discovered, descriptor_discovered,   *)
(* write_complete                                                          *)
ProcedureEnds ==
  /\ procedure # None /\ procedure' = None
  /\ \E bit \in {procedure, "failed"} : probeBits' = probeBits \cup {bit}
  /\ UNCHANGED <<step, askVars, target, handle, rxVars, connectingTo, connection, goodbye, questions, notifications, probeHistory>>

(* A battery answers, or does not; it may be of two minds about its cells. *)
BatteryAnswers ==
  /\ questions # << >> /\ questions' = Tail(questions)
  /\ \/ UNCHANGED notifications
     \/ \E n \in {Cells[connection], MaxCells} :
          LET answer == [command |-> Head(questions), of |-> connection, cells |-> n, probe |-> probes]
          IN notifications' = notifications \o <<[frame |-> answer, half |-> 1], [frame |-> answer, half |-> 2]>>
  /\ UNCHANGED <<step, askVars, target, handle, rxVars, probeBits, connectingTo, connection, goodbye, procedure, probeHistory>>

(* jbd_find_packet: the first complete answer to the command.              *)
FindPacket(stream, command) ==
  LET complete == {i \in 1..Len(stream) - 1 :
                     /\ stream[i].half = 1 /\ stream[i + 1].half = 2
                     /\ stream[i].frame = stream[i + 1].frame
                     /\ stream[i].frame.command = command}
  IN IF complete = {} THEN NoPacket
     ELSE stream[CHOOSE i \in complete : \A j \in complete : i <= j].frame

(* consume_jbd_notification                                                *)
Notify ==
  /\ notifications # << >> /\ notifications' = Tail(notifications)
  /\ IF Len(rx) = Room
       THEN rx' = << >> /\ probeBits' = probeBits \cup {"failed"} /\ UNCHANGED packet
       ELSE LET stream == Append(rx, Head(notifications))
                found == FindPacket(stream, expected)
            IN /\ rx' = stream
               /\ IF found = NoPacket
                    THEN UNCHANGED <<packet, probeBits>>
                    ELSE packet' = found /\ probeBits' = probeBits \cup {"packet"}
  /\ UNCHANGED <<step, askVars, target, handle, expected, connectingTo, connection, goodbye, procedure, questions, probeHistory>>

Callbacks == Connects \/ Disconnects \/ SayGoodbye \/ ProcedureEnds \/ BatteryAnswers \/ Notify

-----------------------------------------------------------------------------
ProbeInit ==
  /\ step = "idle" /\ todoProcedures = << >> /\ tries = 0 /\ basic = NoPacket
  /\ target = None /\ handle = None /\ expected = None /\ rx = << >> /\ packet = NoPacket
  /\ probeBits = {}
  /\ connectingTo = None /\ connection = None /\ goodbye = None /\ procedure = None
  /\ questions = << >> /\ notifications = << >>
  /\ probes = 0 /\ recorded = NoObservation

ProbeNext == Prober \/ Callbacks

ProbeSpec == ProbeInit /\ [][ProbeNext]_probeVars

-----------------------------------------------------------------------------
(* What is recorded for a battery it said itself in this probe, and cell   *)
(* voltages are recorded only as many as it says it has, although answers  *)
(* may come late or twice and earlier links may not be gone yet            *)
(* (battery_scanner.cpp:682-733, 941-1006).                                *)
ObservationIsItsOwn ==
  [][recorded' # recorded =>
       LET o == recorded'
           own(f, command) == f.of = o.of /\ f.command = command /\ f.probe = probes
       IN own(o.basic, Basic) /\ (o.cells # NoPacket => own(o.cells, CellInfo) /\ o.cells.cells = o.basic.cells)]_probeVars

(* The callback of an old link does not end a probe, and a probe that is   *)
(* connected learns when its link is gone (battery_scanner.cpp:735-769).   *)
DisconnectIsOwn ==
  /\ "disconnected" \in probeBits => connectingTo = None /\ connection = None
  /\ goodbye = None => (handle = None) = (connection = None)

(* What makes both inductive.  Only the battery that is probed has a link  *)
(* or an attempt, so that a callback that is still to run is of an earlier *)
(* link if there is one; and what is on the air, in the buffer or taken    *)
(* from it is from this battery and this probe, since all of it is dropped *)
(* when there is no link or a probe begins.                                *)
Codes == {None, Basic, CellInfo}

OwnFrames ==
  [command : Codes, of : {target}, cells : {Cells[b] : b \in Peers} \cup {MaxCells},
   probe : {probes}]

Halves == [frame : OwnFrames, half : {1, 2}]

ProbeTyped ==
  /\ target \in Peers \cup {None}
  /\ expected \in Codes /\ questions \in Seq(Codes)
  /\ todoProcedures \in Seq(ToSet(Procedures)) /\ procedure \in ToSet(Procedures) \cup {None}
  /\ step = "procedure_started" => todoProcedures # << >>
  /\ goodbye \in {None, "handle"} /\ handle \in {None, "handle"}

OneLink ==
  /\ {connectingTo, connection} \subseteq {None, target}
  /\ step = "idle" => connectingTo = None /\ connection = None
  /\ connectingTo # None => handle = None /\ connection = None
  /\ goodbye # None => connection = None
  /\ connection = None => questions = << >> /\ notifications = << >>

HeardIsOwn ==
  /\ notifications \in Seq(Halves) /\ rx \in Seq(Halves)
  /\ packet \in OwnFrames \cup {NoPacket}

BasicIsOwn ==
  step = "basic_known" \/ (step \in {"send", "clear", "write", "wait"} /\ expected = CellInfo)
    => basic \in OwnFrames /\ basic.command = Basic

ProbeInv == ProbeTyped /\ OneLink /\ DisconnectIsOwn /\ HeardIsOwn /\ BasicIsOwn
=============================================================================
