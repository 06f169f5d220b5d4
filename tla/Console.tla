------------------------------ MODULE Console ------------------------------
(***************************************************************************)
(* The two consoles: the serial one of src/main/console.cpp and the one on *)
(* TCP of src/main/network_console.cpp, which serves one client at a time. *)
(* Both run commands through power4_console_execute under one mutex.       *)
(*                                                                         *)
(* Modelled are the life of a session, the mutex with its time-out, the    *)
(* command source that decides what may be done, the deadline of a TCP     *)
(* command, and the commands that take several steps: policy upload and    *)
(* accept, set password, reboot.  Any other command is "other": it ends,   *)
(* and what it changes is the business of the module that models it.       *)
(***************************************************************************)
EXTENDS PolicyCycle

CONSTANTS
  Passwords, NoPassword,
  MayReset         \* bound: may the device be reset?

ASSUME ConsoleAssumption == NoPassword \notin Passwords /\ MayReset \in BOOLEAN

Sessions == {"serial", "tcp"}
Free == "free"
Commands == {"upload", "accept", "password", "reboot", "other"}

VARIABLES
  mutex,           \* g_command_mutex
  source,          \* g_command_source
  place,           \* where each session is
  command,         \* what it was asked to do
  text,            \* its decoded upload, or the staged program it read
  wanted,          \* the program whose digest was given to its upload
  expired,         \* has the deadline of the TCP command passed?
  broken,          \* ferror on the streams of the TCP client
  armed,           \* g_reboot_timer runs
  flashPassword, password,  \* in NVS, and g_password
  asked            \* history: the programs uploads were begun for

lock == <<mutex, source>>
uploads == <<text, wanted>>
sessionVars == <<place, command, uploads>>
clientVars == <<expired, broken>>
passwordVars == <<flashPassword, password>>
consoleVars == <<lock, sessionVars, clientVars, armed, passwordVars, asked>>
vars == <<policyVars, consoleVars>>

Idle == {"closed", "authenticating", "prompt"}

Goes(s, from, to) == place[s] = from /\ place' = [place EXCEPT ![s] = to]

(* A step that changes nothing but the place of a session.                 *)
Moves(s, from, to) ==
  /\ Goes(s, from, to)
  /\ UNCHANGED <<policyVars, lock, command, uploads, clientVars, armed, passwordVars, asked>>

-----------------------------------------------------------------------------
(* network_console_task and serve_client, up to the first command.         *)

(* A client is refused when no password is set.                            *)
ClientConnects ==
  /\ Moves("tcp", "closed", "authenticating") /\ password # NoPassword

Authenticated == Moves("tcp", "authenticating", "prompt")

(* Wrong answer, time-out, disconnect, or a minute without a command.      *)
ClientLeaves ==
  /\ place["tcp"] \in {"authenticating", "prompt"}
  /\ place' = [place EXCEPT !["tcp"] = "closed"]
  /\ UNCHANGED <<policyVars, lock, command, uploads, clientVars, armed, passwordVars, asked>>

(* Mutant: the source is noted before the mutex is taken.                  *)
EnterLineSource(s) ==
  /\ Goes(s, "prompt", "waiting")
  /\ \E c \in Commands : command' = [command EXCEPT ![s] = c]
  /\ source' = s
  /\ UNCHANGED <<policyVars, mutex, uploads, clientVars, armed, passwordVars, asked>>

(* A line is complete: power4_console_execute is called.  The deadline of  *)
(* a TCP command includes the wait for the mutex.                          *)
EnterLine(s) ==
  /\ Goes(s, "prompt", "waiting")
  /\ \E c \in Commands : command' = [command EXCEPT ![s] = c]
  /\ UNCHANGED <<policyVars, mutex, source, uploads, clientVars, armed, passwordVars, asked>>

-----------------------------------------------------------------------------
(* power4_console_execute.                                                 *)

(* Mutant: nobody waits.                                                   *)
TakeRegardless(s) ==
  /\ Goes(s, "waiting", command[s])
  /\ mutex' = s /\ source' = s
  /\ UNCHANGED <<policyVars, command, uploads, clientVars, armed, passwordVars, asked>>

TakeMutex(s) ==
  /\ Goes(s, "waiting", command[s]) /\ mutex = Free
  /\ mutex' = s /\ source' = s
  /\ UNCHANGED <<policyVars, command, uploads, clientVars, armed, passwordVars, asked>>

(* After two seconds, or when the output stream cannot be had.             *)
Busy(s) ==
  /\ Goes(s, "waiting", "prompt")
  /\ command' = [command EXCEPT ![s] = "none"]
  /\ expired' = (expired /\ s # "tcp")
  /\ UNCHANGED <<policyVars, lock, uploads, broken, armed, passwordVars, asked>>

(* The command is over; a TCP client that cannot be read from or written   *)
(* to is let go.                                                           *)
Finish(s) ==
  /\ place[s] = "done"
  /\ mutex' = Free /\ source' = "serial"
  /\ command' = [command EXCEPT ![s] = "none"]
  /\ text' = [text EXCEPT ![s] = NoProgram]
  /\ wanted' = [wanted EXCEPT ![s] = NoProgram]
  /\ IF s = "tcp"
       THEN /\ \E next \in {"prompt", "closed"} :
                 /\ broken => next = "closed"
                 /\ place' = [place EXCEPT !["tcp"] = next]
            /\ expired' = FALSE /\ broken' = FALSE
       ELSE place' = [place EXCEPT ![s] = "prompt"] /\ UNCHANGED clientVars
  /\ UNCHANGED <<policyVars, armed, passwordVars, asked>>

DeadlinePasses ==
  /\ place["tcp"] \notin Idle /\ ~expired /\ expired' = TRUE
  /\ UNCHANGED <<policyVars, lock, sessionVars, broken, armed, passwordVars, asked>>

-----------------------------------------------------------------------------
(* policy_upload_staged.  Input is read byte by byte: socket_stream_read   *)
(* looks at the deadline before each.                                      *)

StartUpload(s) ==
  /\ Goes(s, "upload", "check")
  /\ \E t \in Texts : wanted' = [wanted EXCEPT ![s] = t] /\ asked' = asked \cup {t}
  /\ UNCHANGED <<policyVars, lock, command, text, clientVars, armed, passwordVars>>

(* Mutant: only recv's own time-out counts.                                *)
CheckNoDeadline(s) == Moves(s, "check", "recv")

CheckDeadline(s) ==
  /\ IF s = "tcp" /\ expired
       THEN Goes(s, "check", "judge") /\ broken' = TRUE
       ELSE Goes(s, "check", "recv") /\ UNCHANGED broken
  /\ UNCHANGED <<policyVars, lock, command, uploads, expired, armed, passwordVars, asked>>

ReceiveByte(s) == Moves(s, "recv", "check")

(* A further line, or one too many.                                        *)
ReceiveLine(s) ==
  /\ \E l \in Lines :
       IF Append(text[s], l) \in Texts
         THEN Goes(s, "recv", "check") /\ text' = [text EXCEPT ![s] = Append(@, l)]
         ELSE Goes(s, "recv", "done") /\ UNCHANGED text
  /\ UNCHANGED <<policyVars, lock, command, wanted, clientVars, armed, passwordVars, asked>>

(* A blank or invalid line ends the input; so does a TCP client that is    *)
(* gone or silent for five seconds.                                        *)
InputEnds(s) ==
  /\ Goes(s, "recv", "judge")
  /\ broken' \in IF s = "tcp" THEN BOOLEAN ELSE {broken}
  /\ UNCHANGED <<policyVars, lock, command, uploads, expired, armed, passwordVars, asked>>

(* Mutant: what came is staged.                                            *)
StageUnchecked(s) ==
  /\ Goes(s, "judge", "done")
  /\ WriteStaged(text[s])
  /\ UNCHANGED <<policyState, cycleVars, kept, lock, command, uploads, clientVars, armed, passwordVars, asked>>

StageUpload(s) ==
  /\ Goes(s, "judge", "done") /\ text[s] = wanted[s]
  /\ WriteStaged(text[s])
  /\ UNCHANGED <<policyState, cycleVars, kept, lock, command, uploads, clientVars, armed, passwordVars, asked>>

(* The text is not base64, has another digest, or cannot be written.       *)
UploadFails(s) == Moves(s, "judge", "done")

-----------------------------------------------------------------------------
(* policy accept: the staged slot is read and compiled, then read again.   *)

ReadStaged(s) ==
  /\ Goes(s, "accept", "validate")
  /\ text' = [text EXCEPT ![s] = staged]
  /\ UNCHANGED <<policyVars, lock, command, wanted, clientVars, armed, passwordVars, asked>>

Validate(s) ==
  /\ Moves(s, "validate", "replace") /\ text[s] \in Compiles

Replace(s) ==
  /\ Goes(s, "replace", "done")
  /\ AcceptStaged
  /\ UNCHANGED <<policyState, cycleVars, kept, lock, command, uploads, clientVars, armed, passwordVars, asked>>

(* Flash cannot be read or written, or Lua refuses the program.            *)
AcceptFails(s) ==
  \E from \in {"accept", "validate", "replace"} : Moves(s, from, "done")

-----------------------------------------------------------------------------
(* The other commands.                                                     *)

(* set password, as show password and set ethernet, is for the serial      *)
(* console only.                                                           *)
MayConfigure(s) ==
  /\ place[s] = "password"
  /\ place' = [place EXCEPT ![s] = IF source = "tcp" THEN "done" ELSE "save"]
  /\ UNCHANGED <<policyVars, lock, command, uploads, clientVars, armed, passwordVars, asked>>

(* network_console_password_set: first in flash, then in RAM.              *)
SavePassword(s) ==
  /\ Goes(s, "save", "use")
  /\ flashPassword' \in Passwords
  /\ UNCHANGED <<policyVars, lock, command, uploads, clientVars, armed, password, asked>>

SaveFails(s) == Moves(s, "save", "done")

UsePassword(s) ==
  /\ Goes(s, "use", "done")
  /\ password' = flashPassword
  /\ UNCHANGED <<policyVars, lock, command, uploads, clientVars, armed, flashPassword, asked>>

(* reboot arms a timer, once.                                              *)
ArmReboot(s) ==
  /\ Goes(s, "reboot", "done")
  /\ armed' = TRUE
  /\ UNCHANGED <<policyVars, lock, command, uploads, clientVars, passwordVars, asked>>

OtherCommand(s) == Moves(s, "other", "done")

RunCommand(s) ==
  \/ StartUpload(s)
  \/ CheckDeadline(s)
  \/ ReceiveByte(s)
  \/ ReceiveLine(s)
  \/ InputEnds(s)
  \/ StageUpload(s)
  \/ UploadFails(s)
  \/ ReadStaged(s)
  \/ Validate(s)
  \/ Replace(s)
  \/ AcceptFails(s)
  \/ MayConfigure(s)
  \/ SavePassword(s)
  \/ SaveFails(s)
  \/ UsePassword(s)
  \/ ArmReboot(s)
  \/ OtherCommand(s)
  \/ Finish(s)

-----------------------------------------------------------------------------
ConsoleInit ==
  /\ mutex = Free /\ source = "serial"
  /\ place = [s \in Sessions |-> IF s = "serial" THEN "prompt" ELSE "closed"]
  /\ command = [s \in Sessions |-> "none"]
  /\ text = [s \in Sessions |-> NoProgram]
  /\ wanted = [s \in Sessions |-> NoProgram]
  /\ expired = FALSE /\ broken = FALSE
  /\ armed = FALSE
  /\ flashPassword \in Passwords \cup {NoPassword}
  /\ password = flashPassword
  /\ asked = {}

(* The power fails, or the reboot timer fires.  Everything in RAM is lost, *)
(* and the password is loaded again.                                       *)
Reset ==
  /\ MayReset
  /\ PolicyReset /\ UNCHANGED slots
  /\ mutex' = Free /\ source' = "serial"
  /\ place' = [s \in Sessions |-> IF s = "serial" THEN "prompt" ELSE "closed"]
  /\ command' = [s \in Sessions |-> "none"]
  /\ text' = [s \in Sessions |-> NoProgram]
  /\ wanted' = [s \in Sessions |-> NoProgram]
  /\ expired' = FALSE /\ broken' = FALSE /\ armed' = FALSE
  /\ password' = flashPassword
  /\ UNCHANGED <<flashPassword, asked>>

Next ==
  \/ PolicyTask /\ UNCHANGED consoleVars
  \/ ClientConnects \/ Authenticated \/ ClientLeaves
  \/ \E s \in Sessions : EnterLine(s) \/ TakeMutex(s) \/ Busy(s) \/ RunCommand(s)
  \/ DeadlinePasses
  \/ Reset

Init == PolicyInit /\ ConsoleInit

Spec == Init /\ [][Next]_vars

(* The TCP console's task runs, and so does the clock.  recv answers       *)
(* within five seconds, with a byte or without.                            *)
Fairness == WF_vars(TakeMutex("tcp") \/ Busy("tcp")) /\ WF_vars(RunCommand("tcp")) /\ WF_vars(DeadlinePasses)

FairSpec == Spec /\ Fairness
=============================================================================
