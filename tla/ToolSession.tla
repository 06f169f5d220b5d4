---------------------------- MODULE ToolSession ----------------------------
(***************************************************************************)
(* A session of a host tool with the console of a device: power4d, which   *)
(* collects reports into files (src/power4d), or one command of power4ctl  *)
(* (src/power4ctl/power4ctl.c).  A report does not name itself: the tool   *)
(* takes the frame it reads to be the one it asked for.                    *)
(*                                                                         *)
(* On the serial line the tool asks for a prompt with carriage returns,    *)
(* commands are echoed, log lines interrupt the prompt, and what a session *)
(* left behind is still there for the next one.  On TCP none of that       *)
(* happens, and every session has a connection of its own.                 *)
(*                                                                         *)
(* The stream is one of lines and prompts; a line that got mixed with      *)
(* another is "noise", or a frame that fails its checksum.                 *)
(***************************************************************************)
EXTENDS Integers, Sequences, SequencesExt

CONSTANTS
  Reports,         \* a sequence: those power4d collects, in order
  MaxSessions, MaxWaiting  \* bounds: sessions, and lines and prompts that wait when a log line comes

ASSUME ToolAssumption ==
  /\ Reports \in Seq(ToSet(Reports)) /\ Reports # << >>
  /\ MaxSessions \in Nat

Attempts == 3      \* PROMPT_ATTEMPTS
Nobody == "nobody"
Tools == {"power4d", "power4ctl"}

(* What the tool writes.                                                   *)
Return == [kind |-> "return"]
Report(r, n) == [kind |-> "report", of |-> r, session |-> n]
Stage == [kind |-> "stage"]
Base64 == [kind |-> "base64"]

(* What the device writes.                                                 *)
Prompt == [kind |-> "prompt"]
Dot == [kind |-> "dot"]
Noise == [kind |-> "noise"]
BadFrame == [kind |-> "bad_frame"]
Frame(r, n) == [kind |-> "frame", of |-> r, session |-> n]
Echo(c) == [kind |-> "echo", of |-> c]
Staged == [kind |-> "staged"]
Failed == [kind |-> "failed"]

NoCommand == [kind |-> "none"]
NoPayload == [kind |-> "no_payload"]

VARIABLES
  serial,          \* is the device reached by its serial line?
  tool,            \* whose session it is
  session,         \* its number
  phase,           \* where it is
  attempt,         \* carriage returns sent for this prompt
  todo,            \* the commands still to be done
  echoPending, payload, bad,  \* of the response read: the last good frame, an invalid one
  toDevice, toTool,
  running,         \* the command the console runs
  output           \* the files of power4d and what power4ctl printed: the last frame of each report

responseVars == <<echoPending, payload, bad>>
toolVars == <<serial, tool, session, todo>>
sessionState == <<toolVars, phase, attempt, responseVars, output>>
lineVars == <<toDevice, toTool, running>>
toolSessionVars == <<sessionState, lineVars>>

-----------------------------------------------------------------------------
(* The tools.                                                              *)

Asked == Head(todo)

(* The port is locked, and what was received is discarded.  The console has*)
(* at least begun the last command of the session before: that session     *)
(* waited for its answer, and power4d for half an interval more.  That is  *)
(* assumed; nothing in the tools or the console enforces it.  On TCP the   *)
(* client is authenticated and prompted.                                   *)
Open ==
  /\ phase = "closed" /\ session < MaxSessions
  /\ phase' = "prompt" /\ session' = session + 1
  /\ \/ tool' = "power4d" /\ todo' = [i \in DOMAIN Reports |-> Report(Reports[i], session')]
     \/ tool' = "power4ctl" /\ todo' \in {<<Report(r, session')>> : r \in ToSet(Reports)} \cup {<<Stage>>}
  /\ IF serial
       THEN /\ \A c \in ToSet(toDevice) : c \in {Return, Base64}
            /\ toDevice' = Append(toDevice, Return)
            /\ toTool' = << >> /\ attempt' = 1
            /\ UNCHANGED running
       ELSE toDevice' = << >> /\ toTool' = <<Prompt>> /\ running' = NoCommand /\ attempt' = 0
  /\ UNCHANGED <<serial, responseVars, output>>

(* Another carriage return.                                                *)
AskForPrompt ==
  /\ phase = "prompt" /\ serial /\ attempt < Attempts
  /\ attempt' = attempt + 1 /\ toDevice' = Append(toDevice, Return)
  /\ UNCHANGED <<toolVars, phase, responseVars, output, toTool, running>>

Written(c) == IF c = Stage THEN <<Stage, Base64, Return>> ELSE <<c>>

(* Everything up to the prompt is skipped, and the command is written.     *)
(* power4ctl skips what else it received in the same read.                 *)
SeePrompt ==
  /\ phase = "prompt" /\ Prompt \in ToSet(toTool)
  /\ phase' = "response"
  /\ LET first == SelectInSeq(toTool, LAMBDA t : t = Prompt)
     IN \E last \in first..Len(toTool) :
          /\ tool = "power4d" => last = first
          /\ toTool' = SubSeq(toTool, last + 1, Len(toTool))
  /\ toDevice' = toDevice \o Written(Asked)
  /\ echoPending' = serial /\ payload' = NoPayload /\ bad' = FALSE
  /\ UNCHANGED <<toolVars, attempt, output, running>>

(* The next line: one that a prompt stands in front of is no frame, no dot *)
(* and no echo.                                                            *)
LineEnd == SelectInSeq(toTool, LAMBDA t : t # Prompt)
Line == IF LineEnd = 1 THEN Head(toTool) ELSE Noise

ReadLine ==
  /\ phase = "response" /\ LineEnd # 0
  /\ toTool' = SubSeq(toTool, LineEnd + 1, Len(toTool))
  /\ UNCHANGED <<serial, tool, session, toDevice, running>>

ReadText ==
  /\ ReadLine
  /\ Line.kind \in {"noise", "echo", "staged", "failed"}
  /\ echoPending' = FALSE
  /\ UNCHANGED <<phase, attempt, todo, payload, bad, output>>

(* P4J1.parse, parse_p4j1.  power4ctl prints the frame at once.            *)
ReadFrame ==
  /\ ReadLine /\ Line.kind = "frame"
  /\ payload' = Line /\ echoPending' = FALSE
  /\ output' = IF tool = "power4ctl" /\ Asked # Stage THEN [output EXCEPT ![Asked.of] = Line] ELSE output
  /\ UNCHANGED <<phase, attempt, todo, bad>>

ReadBadFrame ==
  /\ ReadLine /\ Line.kind = "bad_frame"
  /\ bad' = TRUE /\ echoPending' = FALSE
  /\ UNCHANGED <<phase, attempt, todo, payload, output>>

(* After its dot a response of power4d is written to its file, or is       *)
(* reported to have failed, and the next report follows.                   *)
ReadDot ==
  /\ ReadLine /\ Line.kind = "dot"
  /\ IF tool = "power4d" /\ payload # NoPayload /\ ~bad
       THEN output' \in {output, [output EXCEPT ![Asked.of] = payload]}
       ELSE UNCHANGED output
  /\ todo' = Tail(todo)
  /\ phase' = IF Len(todo) = 1 THEN "closed" ELSE "prompt"
  /\ attempt' = 0 /\ echoPending' = FALSE /\ payload' = NoPayload /\ bad' = FALSE

(* Mutant: a report that timed out is skipped.                             *)
GiveUpReport ==
  /\ phase # "closed" /\ phase' = IF Len(todo) = 1 THEN "closed" ELSE "prompt"
  /\ todo' = Tail(todo) /\ attempt' = 0
  /\ echoPending' = FALSE /\ payload' = NoPayload /\ bad' = FALSE
  /\ UNCHANGED <<serial, tool, session, output, lineVars>>

(* A time-out, a line that is too long, or a connection that is closed     *)
(* ends the session.                                                       *)
GiveUp ==
  /\ phase # "closed" /\ phase' = "closed"
  /\ todo' = << >> /\ attempt' = 0
  /\ echoPending' = FALSE /\ payload' = NoPayload /\ bad' = FALSE
  /\ UNCHANGED <<serial, tool, session, output, lineVars>>

-----------------------------------------------------------------------------
(* The console of the device.                                              *)

Garbled(kind) == IF serial THEN kind ELSE {}

(* A line is read and, on the serial line, echoed; an empty one is         *)
(* answered with a prompt.                                                 *)
ReadCommand ==
  /\ running = NoCommand /\ toDevice # << >>
  /\ toDevice' = Tail(toDevice)
  /\ LET line == Head(toDevice)
         shown == IF serial THEN {<<Echo(line)>>, <<Noise>>} ELSE {<< >>}
     IN IF line = Return
          THEN running' = NoCommand /\ toTool' = toTool \o (IF serial THEN <<Noise, Prompt>> ELSE <<Prompt>>)
          ELSE running' = line /\ \E e \in shown : toTool' = toTool \o e
  /\ UNCHANGED sessionState

Answer(lines) == toTool' = toTool \o lines \o <<Prompt>> /\ running' = NoCommand

(* The answer to a tool's command ends with a dot, which another task's    *)
(* log line may spoil, as it may the frame.                                *)
AnswerReport ==
  /\ running.kind = "report"
  /\ \E body \in {Frame(running.of, running.session), Noise} \cup Garbled({BadFrame}),
        end \in {Dot} \cup Garbled({Noise}) : Answer(<<body, end>>)
  /\ UNCHANGED <<sessionState, toDevice>>

(* The upload is read whole, or what is left of it is taken for commands.  *)
AnswerStage ==
  /\ running = Stage
  /\ \/ Len(toDevice) > 1 /\ toDevice' = Tail(Tail(toDevice))
     \/ UNCHANGED toDevice
  /\ \E body \in {Staged, Failed, Noise}, end \in {Dot} \cup Garbled({Noise}) :
       /\ body = Staged => toDevice' # toDevice
       /\ Answer(<<body, end>>)
  /\ UNCHANGED sessionState

AnswerUnknown ==
  /\ running = Base64
  /\ Answer(<<Noise>>)
  /\ UNCHANGED <<sessionState, toDevice>>

(* console_log_vprintf: a log line while the prompt is shown, and the      *)
(* prompt again.  Taken for one step: that a command is entered between    *)
(* its look at the prompt and its drawing it again is left out.            *)
LogLine ==
  /\ serial /\ running = NoCommand /\ Len(toTool) < MaxWaiting
  /\ toTool' = toTool \o <<Noise, Prompt>>
  /\ UNCHANGED <<sessionState, toDevice, running>>

-----------------------------------------------------------------------------
ToolInit ==
  /\ serial \in BOOLEAN
  /\ tool = Nobody /\ session = 0 /\ phase = "closed"
  /\ attempt = 0 /\ todo = << >>
  /\ echoPending = FALSE /\ payload = NoPayload /\ bad = FALSE
  /\ toDevice = << >> /\ toTool = << >> /\ running = NoCommand
  /\ output = [r \in ToSet(Reports) |-> NoPayload]

ToolNext ==
  \/ Open
  \/ AskForPrompt \/ SeePrompt
  \/ ReadText \/ ReadFrame \/ ReadBadFrame \/ ReadDot
  \/ GiveUp
  \/ ReadCommand \/ AnswerReport \/ AnswerStage \/ AnswerUnknown
  \/ LogLine

ToolSpec == ToolInit /\ [][ToolNext]_toolSessionVars

-----------------------------------------------------------------------------
(* What the tool writes for a report is that report, collected in this     *)
(* session, and an earlier one is left alone otherwise: "a failed or       *)
(* uncollected report leaves its prior file intact" (README.md:743-744).   *)
OutputIsItsReport ==
  [][\A r \in ToSet(Reports) : output'[r] # output[r] => output'[r] = Frame(r, session)]_toolSessionVars

(* What makes it inductive.  An answer of an earlier session that is still *)
(* to come is complete before the first prompt that this one sees: after a *)
(* prompt there is neither a frame nor the dot of an answer, and the tool  *)
(* skips what is before it.  From then on frame and dot can only be those  *)
(* of the command that was just written, and nothing follows its dot.      *)
Quiet(t) == t.kind \notin {"frame", "dot"}

QuietAfter(s, kind) == \A i, j \in DOMAIN s : i < j /\ s[i].kind = kind => Quiet(s[j])

Tasks == {Report(r, k) : r \in ToSet(Reports), k \in 1..MaxSessions} \cup {Stage}

Frames == {Frame(r, k) : r \in ToSet(Reports), k \in 1..MaxSessions}

Shown ==
  {Prompt, Dot, Noise, BadFrame, Staged, Failed} \cup Frames
    \cup {Echo(c) : c \in Tasks \cup {Base64}}

ToolTyped ==
  /\ session \in 0..MaxSessions
  /\ phase \in {"closed", "prompt", "response"}
  /\ todo \in Seq({Report(r, session) : r \in ToSet(Reports)} \cup {Stage})
  /\ phase # "closed" => todo # << >> /\ session > 0
  /\ toDevice \in Seq(Tasks \cup {Return, Base64}) /\ toTool \in Seq(Shown)
  /\ running \in Tasks \cup {Base64, NoCommand}
  /\ output \in [ToSet(Reports) -> Frames \cup {NoPayload}]

SkipsTheOld ==
  phase = "prompt" =>
    /\ ToSet(toDevice) \subseteq {Return, Base64}
    /\ QuietAfter(toTool, "prompt")
    /\ running \notin {NoCommand, Base64} => \A i \in DOMAIN toTool : toTool[i].kind # "prompt"

Awaiting == running = Asked \/ Asked \in ToSet(toDevice)

ReadsItsAnswer ==
  phase = "response" =>
    /\ ToSet(toDevice) \subseteq {Return, Base64, Asked} /\ running \in {NoCommand, Base64, Asked}
    /\ \A i, j \in DOMAIN toDevice : toDevice[i] = Asked /\ toDevice[j] = Asked => i = j
    /\ running = Asked => Asked \notin ToSet(toDevice)
    /\ Awaiting => \A i \in DOMAIN toTool : Quiet(toTool[i])
    /\ QuietAfter(toTool, "dot")
    /\ \A i \in DOMAIN toTool :
         toTool[i].kind = "frame" => Asked # Stage /\ toTool[i] = Frame(Asked.of, session)

PayloadIsAsked ==
  payload # NoPayload =>
    phase = "response" /\ Asked # Stage /\ payload = Frame(Asked.of, session)

ToolInv == ToolTyped /\ SkipsTheOld /\ ReadsItsAnswer /\ PayloadIsAsked
=============================================================================
