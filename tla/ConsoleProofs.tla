---------------------------- MODULE ConsoleProofs ----------------------------
(***************************************************************************)
(* Proofs about the consoles and the policy cycle, for any programs,       *)
(* booleans and passwords, any length of the table, and with or without    *)
(* resets.                                                                 *)
(***************************************************************************)
EXTENDS ConsoleSafety, FiniteSetTheorems, TLAPS

(* A table that has not reached its capacity has room for one name.        *)
LEMMA RoomForOne ==
  ASSUME PolicyTyped, NEW n \in Names, NEW v \in BOOLEAN, SetEntry(n, v)
  PROVE  memory' \in Entries /\ Cardinality(DOMAIN memory') <= Capacity
<1> USE PolicyAssumption
<1>1. PICK names \in SUBSET Names : memory \in [names -> BOOLEAN]
  BY DEF PolicyTyped, Entries
<1>2. DOMAIN memory = names /\ IsFiniteSet(names) /\ Cardinality(names) \in Nat /\ Cardinality(names) <= Capacity
  BY <1>1, FS_Subset, FS_CardinalityType DEF PolicyTyped
<1>3. CASE ~(n \in names \/ Cardinality(names) < Capacity)
  <2>1. memory' = memory
    BY <1>2, <1>3 DEF SetEntry
  <2>2. QED
    BY <2>1 DEF PolicyTyped
<1>4. CASE n \in names \/ Cardinality(names) < Capacity
  <2>1. memory' = [m \in names \cup {n} |-> IF m = n THEN v ELSE memory[m]]
    BY <1>2, <1>4 DEF SetEntry
  <2>2. memory' \in [names \cup {n} -> BOOLEAN] /\ DOMAIN memory' = names \cup {n}
    BY <1>1, <2>1
  <2>3. names \cup {n} \in SUBSET Names
    BY <1>1
  <2>4. memory' \in Entries
    BY <2>2, <2>3 DEF Entries
  <2>5. Cardinality(names \cup {n}) = IF n \in names THEN Cardinality(names) ELSE Cardinality(names) + 1
    BY <1>2, FS_AddElement
  <2>6. Cardinality(names \cup {n}) <= Capacity
    BY <2>5, <1>2, <1>4
  <2>7. QED
    BY <2>2, <2>4, <2>6
<1>5. QED
  BY <1>3, <1>4

(* An empty table fits.                                                    *)
LEMMA NothingFits == Nothing \in Entries /\ Cardinality(DOMAIN Nothing) <= Capacity
<1> USE PolicyAssumption
<1>1. Nothing \in [{} -> BOOLEAN] /\ DOMAIN Nothing = {}
  BY DEF Nothing
<1>2. {} \in SUBSET Names
  OBVIOUS
<1>3. Nothing \in Entries
  BY <1>1, <1>2, Zenon DEF Entries
<1>4. Cardinality({}) = 0
  BY FS_EmptySet
<1>5. QED
  BY <1>1, <1>3, <1>4

(* Every step of the policy task keeps its types.                          *)
LEMMA PolicyTaskTyped == ASSUME PolicyTyped, PolicyTask PROVE PolicyTyped'
<1> USE PolicyAssumption
<1>1. CASE MeasureActive
  <2>1. Len(active) \in Nat
    BY DEF PolicyTyped
  <2>2. QED
    BY <1>1, <2>1 DEF MeasureActive, slots, policyState, PolicyTyped
<1>2. CASE ReadFails
  BY <1>2, NothingFits DEF ReadFails, Clear, slots, PolicyTyped, NoDigest, NoProgram
<1>3. CASE BeginRun
  <2>1. program' \in Texts \cup {BuiltIn} /\ digest' = program'
    BY <1>3 DEF BeginRun, BeginCycle, PolicyTyped
  <2>2. memory' \in {memory, Nothing}
    BY <1>3 DEF BeginRun, BeginCycle
  <2>3. QED
    BY <1>3, <2>1, <2>2, NothingFits DEF BeginRun, slots, PolicyTyped
<1>4. CASE SetState
  <2>1. memory' \in Entries /\ Cardinality(DOMAIN memory') <= Capacity
    BY <1>4, RoomForOne DEF SetState
  <2>2. QED
    BY <1>4, <2>1 DEF SetState, slots, cycleVars, PolicyTyped
<1>5. CASE RunSucceeds
  BY <1>5 DEF RunSucceeds, slots, policyState, PolicyTyped, NoProgram
<1>6. CASE RunFails
  BY <1>6, NothingFits DEF RunFails, Clear, slots, PolicyTyped, NoDigest, NoProgram
<1>7. QED
  BY <1>1, <1>2, <1>3, <1>4, <1>5, <1>6 DEF PolicyTask

(* So does one that leaves program and booleans alone.                     *)
LEMMA PolicyUnchanged == ASSUME PolicyTyped, UNCHANGED policyVars PROVE PolicyTyped'
BY DEF PolicyTyped, policyVars, slots, policyState, cycleVars

(* A step that only moves a session keeps the types.                       *)
LEMMA MoveTyped ==
  ASSUME TypeOK, WaitersAsked, NEW s \in Sessions, NEW from, NEW to \in Places \ {"waiting"}, Moves(s, from, to)
  PROVE  TypeOK' /\ WaitersAsked'
<1>1. PolicyTyped'
  BY PolicyUnchanged DEF TypeOK, Moves
<1>2. SessionsTyped' /\ WaitersAsked'
  BY DEF TypeOK, SessionsTyped, WaitersAsked, Moves, Goes, lock, uploads, clientVars, passwordVars
<1>3. QED
  BY <1>1, <1>2 DEF TypeOK

(* A step of a command keeps the types, and never makes a session wait.    *)
LEMMA RunCommandTyped ==
  ASSUME TypeOK, WaitersAsked, NEW s \in Sessions, RunCommand(s)
  PROVE  TypeOK' /\ WaitersAsked'
<1> USE DEF Places, Idle, Commands
<1>1. CASE StartUpload(s)
  <2>1. PolicyTyped'
    BY <1>1, PolicyUnchanged DEF TypeOK, StartUpload
  <2>2. SessionsTyped' /\ WaitersAsked'
    BY <1>1 DEF TypeOK, SessionsTyped, WaitersAsked, StartUpload, Goes, lock, clientVars, passwordVars
  <2>3. QED
    BY <2>1, <2>2 DEF TypeOK
<1>2. CASE CheckDeadline(s)
  <2>1. PolicyTyped'
    BY <1>2, PolicyUnchanged DEF TypeOK, CheckDeadline
  <2>2. SessionsTyped' /\ WaitersAsked'
    BY <1>2 DEF TypeOK, SessionsTyped, WaitersAsked, CheckDeadline, Goes, lock, uploads, passwordVars
  <2>3. QED
    BY <2>1, <2>2 DEF TypeOK
<1>3. CASE ReceiveLine(s)
  <2>1. PolicyTyped'
    BY <1>3, PolicyUnchanged DEF TypeOK, ReceiveLine
  <2>2. SessionsTyped' /\ WaitersAsked'
    BY <1>3 DEF TypeOK, SessionsTyped, WaitersAsked, ReceiveLine, Goes, lock, clientVars, passwordVars
  <2>3. QED
    BY <2>1, <2>2 DEF TypeOK
<1>4. CASE InputEnds(s)
  <2>1. PolicyTyped'
    BY <1>4, PolicyUnchanged DEF TypeOK, InputEnds
  <2>2. SessionsTyped' /\ WaitersAsked'
    BY <1>4 DEF TypeOK, SessionsTyped, WaitersAsked, InputEnds, Goes, lock, uploads, passwordVars
  <2>3. QED
    BY <2>1, <2>2 DEF TypeOK
<1>5. CASE StageUpload(s)
  <2>1. PolicyTyped'
    BY <1>5 DEF TypeOK, PolicyTyped, SessionsTyped, StageUpload, WriteStaged, policyState, cycleVars
  <2>2. SessionsTyped' /\ WaitersAsked'
    BY <1>5 DEF TypeOK, SessionsTyped, WaitersAsked, StageUpload, Goes, lock, uploads, clientVars, passwordVars
  <2>3. QED
    BY <2>1, <2>2 DEF TypeOK
<1>6. CASE ReadStaged(s)
  <2>1. PolicyTyped'
    BY <1>6, PolicyUnchanged DEF TypeOK, ReadStaged
  <2>2. SessionsTyped' /\ WaitersAsked'
    BY <1>6 DEF TypeOK, PolicyTyped, SessionsTyped, WaitersAsked, ReadStaged, Goes, lock, clientVars, passwordVars
  <2>3. QED
    BY <2>1, <2>2 DEF TypeOK
<1>7. CASE Replace(s)
  <2>1. PolicyTyped'
    BY <1>7 DEF TypeOK, PolicyTyped, Replace, AcceptStaged, policyState, cycleVars
  <2>2. SessionsTyped' /\ WaitersAsked'
    BY <1>7 DEF TypeOK, SessionsTyped, WaitersAsked, Replace, Goes, lock, uploads, clientVars, passwordVars
  <2>3. QED
    BY <2>1, <2>2 DEF TypeOK
<1>8. CASE MayConfigure(s)
  <2>1. PolicyTyped'
    BY <1>8, PolicyUnchanged DEF TypeOK, MayConfigure
  <2>2. SessionsTyped' /\ WaitersAsked'
    BY <1>8 DEF TypeOK, SessionsTyped, WaitersAsked, MayConfigure, lock, uploads, clientVars, passwordVars
  <2>3. QED
    BY <2>1, <2>2 DEF TypeOK
<1>9. CASE SavePassword(s)
  <2>1. PolicyTyped'
    BY <1>9, PolicyUnchanged DEF TypeOK, SavePassword
  <2>2. SessionsTyped' /\ WaitersAsked'
    BY <1>9 DEF TypeOK, SessionsTyped, WaitersAsked, SavePassword, Goes, lock, uploads, clientVars
  <2>3. QED
    BY <2>1, <2>2 DEF TypeOK
<1>10. CASE UsePassword(s)
  <2>1. PolicyTyped'
    BY <1>10, PolicyUnchanged DEF TypeOK, UsePassword
  <2>2. SessionsTyped' /\ WaitersAsked'
    BY <1>10 DEF TypeOK, SessionsTyped, WaitersAsked, UsePassword, Goes, lock, uploads, clientVars
  <2>3. QED
    BY <2>1, <2>2 DEF TypeOK
<1>11. CASE ArmReboot(s)
  <2>1. PolicyTyped'
    BY <1>11, PolicyUnchanged DEF TypeOK, ArmReboot
  <2>2. SessionsTyped' /\ WaitersAsked'
    BY <1>11 DEF TypeOK, SessionsTyped, WaitersAsked, ArmReboot, Goes, lock, uploads, clientVars, passwordVars
  <2>3. QED
    BY <2>1, <2>2 DEF TypeOK
<1>12. CASE Finish(s)
  <2>1. PolicyTyped'
    BY <1>12, PolicyUnchanged DEF TypeOK, Finish
  <2>2. SessionsTyped' /\ WaitersAsked'
    BY <1>12, PolicyAssumption DEF TypeOK, SessionsTyped, WaitersAsked, Finish, Sessions, Free, clientVars, passwordVars
  <2>3. QED
    BY <2>1, <2>2 DEF TypeOK
<1>13. CASE ReceiveByte(s) \/ UploadFails(s) \/ Validate(s) \/ AcceptFails(s) \/ SaveFails(s) \/ OtherCommand(s)
  <2>1. \E from, to : to \in Places \ {"waiting"} /\ Moves(s, from, to)
    BY <1>13 DEF ReceiveByte, UploadFails, Validate, AcceptFails, SaveFails, OtherCommand
  <2>2. QED
    BY <2>1, MoveTyped
<1>14. QED
  BY <1>1, <1>2, <1>3, <1>4, <1>5, <1>6, <1>7, <1>8, <1>9, <1>10, <1>11, <1>12, <1>13 DEF RunCommand

(* Types are inductive once what a waiting session waits for is known.     *)
LEMMA StepTyped == ASSUME TypeOK, WaitersAsked, [Next]_vars PROVE TypeOK' /\ WaitersAsked'
<1> USE DEF Places, Idle, Commands
<1>1. CASE PolicyTask /\ UNCHANGED consoleVars
  <2>1. PolicyTyped'
    BY <1>1, PolicyTaskTyped DEF TypeOK
  <2>2. SessionsTyped' /\ WaitersAsked'
    BY <1>1 DEF TypeOK, SessionsTyped, WaitersAsked, consoleVars, lock, sessionVars, uploads, clientVars, passwordVars
  <2>3. QED
    BY <2>1, <2>2 DEF TypeOK
<1>2. CASE ClientConnects \/ Authenticated
  BY <1>2, MoveTyped DEF ClientConnects, Authenticated, Sessions
<1>3. CASE ClientLeaves
  <2>1. PolicyTyped'
    BY <1>3, PolicyUnchanged DEF TypeOK, ClientLeaves
  <2>2. SessionsTyped' /\ WaitersAsked'
    BY <1>3 DEF TypeOK, SessionsTyped, WaitersAsked, ClientLeaves, lock, uploads, clientVars, passwordVars
  <2>3. QED
    BY <2>1, <2>2 DEF TypeOK
<1>4. ASSUME NEW s \in Sessions, EnterLine(s) PROVE TypeOK' /\ WaitersAsked'
  <2>1. PolicyTyped'
    BY <1>4, PolicyUnchanged DEF TypeOK, EnterLine
  <2>2. SessionsTyped' /\ WaitersAsked'
    BY <1>4 DEF TypeOK, SessionsTyped, WaitersAsked, EnterLine, Goes, uploads, clientVars, passwordVars
  <2>3. QED
    BY <2>1, <2>2 DEF TypeOK
<1>5. ASSUME NEW s \in Sessions, TakeMutex(s) PROVE TypeOK' /\ WaitersAsked'
  <2>1. PolicyTyped'
    BY <1>5, PolicyUnchanged DEF TypeOK, TakeMutex
  <2>2. SessionsTyped' /\ WaitersAsked'
    BY <1>5 DEF TypeOK, SessionsTyped, WaitersAsked, TakeMutex, Goes, uploads, clientVars, passwordVars
  <2>3. QED
    BY <2>1, <2>2 DEF TypeOK
<1>6. ASSUME NEW s \in Sessions, Busy(s) PROVE TypeOK' /\ WaitersAsked'
  <2>1. PolicyTyped'
    BY <1>6, PolicyUnchanged DEF TypeOK, Busy
  <2>2. SessionsTyped' /\ WaitersAsked'
    BY <1>6 DEF TypeOK, SessionsTyped, WaitersAsked, Busy, Goes, lock, uploads, passwordVars
  <2>3. QED
    BY <2>1, <2>2 DEF TypeOK
<1>7. ASSUME NEW s \in Sessions, RunCommand(s) PROVE TypeOK' /\ WaitersAsked'
  BY <1>7, RunCommandTyped
<1>8. CASE DeadlinePasses
  <2>1. PolicyTyped'
    BY <1>8, PolicyUnchanged DEF TypeOK, DeadlinePasses
  <2>2. SessionsTyped' /\ WaitersAsked'
    BY <1>8 DEF TypeOK, SessionsTyped, WaitersAsked, DeadlinePasses, sessionVars, lock, uploads, passwordVars
  <2>3. QED
    BY <2>1, <2>2 DEF TypeOK
<1>9. CASE Reset
  <2>1. PolicyTyped'
    BY <1>9, NothingFits, PolicyAssumption DEF TypeOK, PolicyTyped, Reset, PolicyReset, slots, NoDigest, NoProgram
  <2>2. SessionsTyped' /\ WaitersAsked'
    BY <1>9, PolicyAssumption DEF TypeOK, SessionsTyped, WaitersAsked, Reset, Sessions, Free
  <2>3. QED
    BY <2>1, <2>2 DEF TypeOK
<1>10. CASE UNCHANGED vars
  <2>1. PolicyTyped'
    BY <1>10, PolicyUnchanged DEF TypeOK, vars
  <2>2. SessionsTyped' /\ WaitersAsked'
    BY <1>10 DEF TypeOK, SessionsTyped, WaitersAsked, vars, consoleVars, lock, sessionVars, uploads, clientVars, passwordVars
  <2>3. QED
    BY <2>1, <2>2 DEF TypeOK
<1>11. QED
  BY <1>1, <1>2, <1>3, <1>4, <1>5, <1>6, <1>7, <1>8, <1>9, <1>10 DEF Next

(* They hold at first.                                                     *)
LEMMA InitTyped == ASSUME Init PROVE TypeOK /\ WaitersAsked
<1>1. PolicyTyped
  BY NothingFits, PolicyAssumption DEF Init, PolicyInit, PolicyTyped, NoDigest, NoProgram
<1>2. SessionsTyped /\ WaitersAsked
  BY PolicyAssumption DEF Init, ConsoleInit, SessionsTyped, WaitersAsked, Sessions, Free, Places, Idle, Commands
<1>3. QED
  BY <1>1, <1>2 DEF TypeOK

(* The table of named booleans never outgrows its capacity                 *)
(* (PolicyState::set), and every variable keeps its type.                  *)
THEOREM ConsoleTypeCorrect == Spec => []TypeOK
<1>1. Init => TypeOK /\ WaitersAsked
  BY InitTyped
<1>2. (TypeOK /\ WaitersAsked) /\ [Next]_vars => (TypeOK /\ WaitersAsked)'
  BY StepTyped
<1>3. QED
  BY <1>1, <1>2, PTL DEF Spec

(* A step of a command is one of a session that runs; it leaves the other  *)
(* session alone, and the mutex unless it is the last.                     *)
LEMMA CommandIsItsOwn ==
  ASSUME TypeOK, NEW s \in Sessions, RunCommand(s)
  PROVE  /\ Running(s)
         /\ \A t \in Sessions : t # s => place'[t] = place[t] /\ text'[t] = text[t] /\ wanted'[t] = wanted[t]
         /\ Finish(s) \/ (Running(s)' /\ UNCHANGED lock)
         /\ asked \subseteq asked'
<1> USE DEF Idle, Running, TypeOK, SessionsTyped, Goes, Moves, uploads
<1>1. CASE StartUpload(s) \/ CheckDeadline(s) \/ ReceiveByte(s) \/ ReceiveLine(s) \/ InputEnds(s)
  BY <1>1 DEF StartUpload, CheckDeadline, ReceiveByte, ReceiveLine, InputEnds
<1>2. CASE StageUpload(s) \/ UploadFails(s) \/ ReadStaged(s) \/ Validate(s) \/ Replace(s) \/ AcceptFails(s)
  BY <1>2 DEF StageUpload, UploadFails, ReadStaged, Validate, Replace, AcceptFails
<1>3. CASE MayConfigure(s) \/ SavePassword(s) \/ SaveFails(s) \/ UsePassword(s) \/ ArmReboot(s) \/ OtherCommand(s)
  BY <1>3 DEF MayConfigure, SavePassword, SaveFails, UsePassword, ArmReboot, OtherCommand
<1>4. CASE Finish(s)
  BY <1>4 DEF Finish
<1>5. QED
  BY <1>1, <1>2, <1>3, <1>4 DEF RunCommand

(* Every other step of a session neither runs a command nor ends one,      *)
(* except that TakeMutex begins one.                                       *)
LEMMA SessionIsItsOwn ==
  ASSUME TypeOK, NEW s \in Sessions, EnterLine(s) \/ Busy(s) \/ TakeMutex(s)
  PROVE  /\ ~Running(s)
         /\ \A t \in Sessions : t # s => place'[t] = place[t]
         /\ UNCHANGED <<policyVars, text, wanted, asked>>
         /\ TakeMutex(s) \/ (UNCHANGED lock /\ ~Running(s)')
BY DEF Idle, Running, TypeOK, SessionsTyped, Goes, EnterLine, Busy, TakeMutex, uploads, lock

(* A client that comes, logs in or goes runs no command.                   *)
LEMMA ClientIsItsOwn ==
  ASSUME TypeOK, ClientConnects \/ Authenticated \/ ClientLeaves
  PROVE  /\ ~Running("tcp") /\ ~Running("tcp")'
         /\ place'["serial"] = place["serial"]
         /\ place'["tcp"] \in Idle
         /\ UNCHANGED <<policyVars, lock, text, wanted, asked>>
BY DEF Idle, Running, TypeOK, SessionsTyped, Goes, Moves, ClientConnects, Authenticated, ClientLeaves, Sessions, uploads

(* Policy task, deadline and stuttering do not touch the sessions.         *)
LEMMA SessionsLetAlone ==
  ASSUME (PolicyTask /\ UNCHANGED consoleVars) \/ DeadlinePasses \/ UNCHANGED vars
  PROVE  UNCHANGED <<lock, place, text, wanted, asked>>
BY DEF consoleVars, DeadlinePasses, vars, sessionVars, uploads

(* The inductive invariant.  A program that compiles and was asked for gets*)
(* into a slot because the one that was validated is still the one staged; *)
(* that is so because only one session runs, the one with the mutex.  What *)
(* a cycle finds follows from KeptIsHeld, which says where it is kept.     *)
ConsoleInv ==
  /\ TypeOK /\ WaitersAsked
  /\ OneRuns /\ OnlySerialConfigures
  /\ UploadsWereAskedFor /\ ActiveWasAskedFor
  /\ ValidatedIsStaged /\ ActiveCompiles
  /\ KeptIsHeld

(* A session runs only after it took the mutex, and returns it at the end. *)
LEMMA OneRunsKept == ASSUME ConsoleInv, [Next]_vars PROVE OneRuns'
<1> USE DEF ConsoleInv, OneRuns
<1>1. CASE (PolicyTask /\ UNCHANGED consoleVars) \/ DeadlinePasses \/ UNCHANGED vars
  BY <1>1, SessionsLetAlone DEF Running, lock
<1>2. CASE ClientConnects \/ Authenticated \/ ClientLeaves
  BY <1>2, ClientIsItsOwn DEF Running, lock, Sessions
<1>3. ASSUME NEW s \in Sessions, EnterLine(s) \/ Busy(s) PROVE OneRuns'
  <2>2. UNCHANGED lock /\ ~Running(s)'
    BY <1>3 DEF EnterLine, Busy, Goes, Running, Idle, TypeOK, SessionsTyped, lock
  <2>3. \A t \in Sessions : t # s => place'[t] = place[t]
    BY <1>3, SessionIsItsOwn
  <2>4. QED
    BY <2>2, <2>3 DEF Running, lock
<1>4. ASSUME NEW s \in Sessions, TakeMutex(s) PROVE OneRuns'
  <2>1. mutex = Free /\ mutex' = s /\ source' = s
    BY <1>4 DEF TakeMutex
  <2>2. \A t \in Sessions : ~Running(t)
    BY <2>1 DEF Free, Sessions
  <2>3. \A t \in Sessions : t # s => ~Running(t)'
    BY <1>4, <2>2, SessionIsItsOwn DEF Running
  <2>4. QED
    BY <2>1, <2>3
<1>5. ASSUME NEW s \in Sessions, RunCommand(s) PROVE OneRuns'
  <2>1. mutex = s /\ source = s /\ \A t \in Sessions : t # s => ~Running(t)
    BY <1>5, CommandIsItsOwn
  <2>2. \A t \in Sessions : t # s => ~Running(t)'
    BY <1>5, <2>1, CommandIsItsOwn DEF Running
  <2>3. Finish(s) => ~Running(s)'
    BY DEF Finish, Running, Idle, TypeOK, SessionsTyped
  <2>4. QED
    BY <1>5, <2>1, <2>2, <2>3, CommandIsItsOwn DEF lock
<1>6. CASE Reset
  BY <1>6 DEF Reset, Running, Idle
<1>7. QED
  BY <1>1, <1>2, <1>3, <1>4, <1>5, <1>6 DEF Next

(* The way to saving a password begins with the check of the source.       *)
LEMMA OnlySerialKept == ASSUME ConsoleInv, [Next]_vars PROVE OnlySerialConfigures'
<1> USE DEF ConsoleInv, OnlySerialConfigures
<1>1. CASE (PolicyTask /\ UNCHANGED consoleVars) \/ DeadlinePasses \/ UNCHANGED vars
  BY <1>1, SessionsLetAlone
<1>2. CASE ClientConnects \/ Authenticated \/ ClientLeaves
  BY <1>2, ClientIsItsOwn DEF Sessions, Idle
<1>3. ASSUME NEW s \in Sessions, EnterLine(s) \/ Busy(s) PROVE OnlySerialConfigures'
  BY <1>3 DEF EnterLine, Busy, Goes, TypeOK, SessionsTyped
<1>4. ASSUME NEW s \in Sessions, TakeMutex(s) PROVE OnlySerialConfigures'
  BY <1>4 DEF TakeMutex, Goes, WaitersAsked, Commands, TypeOK, SessionsTyped
<1>5. ASSUME NEW s \in Sessions, RunCommand(s) PROVE OnlySerialConfigures'
  <2>1. \A t \in Sessions : t # s => place'[t] = place[t]
    BY <1>5, CommandIsItsOwn
  <2>2. source = s
    BY <1>5, CommandIsItsOwn DEF OneRuns
  <2> USE DEF TypeOK, SessionsTyped, Goes, Moves
  <2>3. CASE MayConfigure(s)
    BY <2>1, <2>2, <2>3 DEF MayConfigure, Sessions
  <2>4. CASE SavePassword(s) \/ SaveFails(s) \/ UsePassword(s)
    BY <2>1, <2>4 DEF SavePassword, SaveFails, UsePassword
  <2>5. CASE StartUpload(s) \/ CheckDeadline(s) \/ ReceiveByte(s) \/ ReceiveLine(s) \/ InputEnds(s)
    BY <2>1, <2>5 DEF StartUpload, CheckDeadline, ReceiveByte, ReceiveLine, InputEnds
  <2>6. CASE StageUpload(s) \/ UploadFails(s) \/ ReadStaged(s) \/ Validate(s) \/ Replace(s) \/ AcceptFails(s)
    BY <2>1, <2>6 DEF StageUpload, UploadFails, ReadStaged, Validate, Replace, AcceptFails
  <2>7. CASE ArmReboot(s) \/ OtherCommand(s) \/ Finish(s)
    BY <2>1, <2>7 DEF ArmReboot, OtherCommand, Finish
  <2>8. QED
    BY <1>5, <2>3, <2>4, <2>5, <2>6, <2>7 DEF RunCommand
<1>6. CASE Reset
  BY <1>6 DEF Reset
<1>7. QED
  BY <1>1, <1>2, <1>3, <1>4, <1>5, <1>6 DEF Next
-----------------------------------------------------------------------------
(* What gets into the slots.                                               *)

(* The slots change only when an upload is staged or a program accepted.   *)
LEMMA SlotsChange ==
  ASSUME ConsoleInv, [Next]_vars, ~UNCHANGED slots
  PROVE  \E s \in Sessions : StageUpload(s) \/ Replace(s)
<1> USE DEF policyVars
<1>1. CASE PolicyTask
  BY <1>1 DEF PolicyTask, MeasureActive, ReadFails, BeginRun, SetState, RunSucceeds, RunFails
<1>2. CASE ClientConnects \/ Authenticated \/ ClientLeaves \/ DeadlinePasses \/ Reset \/ UNCHANGED vars
  BY <1>2 DEF ClientConnects, Authenticated, ClientLeaves, Moves, DeadlinePasses, Reset, vars
<1>3. ASSUME NEW s \in Sessions, EnterLine(s) \/ Busy(s) \/ TakeMutex(s) PROVE UNCHANGED slots
  BY <1>3 DEF EnterLine, Busy, TakeMutex
<1>4. ASSUME NEW s \in Sessions, RunCommand(s), ~StageUpload(s), ~Replace(s) PROVE UNCHANGED slots
  BY <1>4 DEF RunCommand, Moves, StartUpload, CheckDeadline, ReceiveByte, ReceiveLine, InputEnds, UploadFails,
              ReadStaged, Validate, AcceptFails, MayConfigure, SavePassword, SaveFails, UsePassword, ArmReboot,
              OtherCommand, Finish
<1>5. QED
  BY <1>1, <1>2, <1>3, <1>4 DEF Next

(* What a session wants to upload is a program somebody asked for.         *)
LEMMA UploadsKept == ASSUME ConsoleInv, [Next]_vars PROVE UploadsWereAskedFor' /\ asked \subseteq asked'
<1> USE DEF ConsoleInv, UploadsWereAskedFor
<1>1. CASE (PolicyTask /\ UNCHANGED consoleVars) \/ DeadlinePasses \/ UNCHANGED vars
  BY <1>1, SessionsLetAlone
<1>2. CASE ClientConnects \/ Authenticated \/ ClientLeaves
  BY <1>2, ClientIsItsOwn
<1>3. ASSUME NEW s \in Sessions, EnterLine(s) \/ Busy(s) \/ TakeMutex(s)
      PROVE  UploadsWereAskedFor' /\ asked \subseteq asked'
  BY <1>3, SessionIsItsOwn
<1>4. ASSUME NEW s \in Sessions, RunCommand(s) PROVE UploadsWereAskedFor' /\ asked \subseteq asked'
  <2>1. asked \subseteq asked' /\ \A t \in Sessions : t # s => wanted'[t] = wanted[t]
    BY <1>4, CommandIsItsOwn
  <2>2. wanted'[s] = wanted[s] \/ wanted'[s] \in asked' \cup {NoProgram}
    <3>1. CASE StartUpload(s)
      BY <3>1 DEF StartUpload, TypeOK, SessionsTyped
    <3>2. CASE Finish(s)
      BY <3>2 DEF Finish, TypeOK, SessionsTyped
    <3>3. CASE ~StartUpload(s) /\ ~Finish(s)
      BY <3>3, <1>4 DEF RunCommand, uploads, Moves, CheckDeadline, ReceiveByte, ReceiveLine, InputEnds, StageUpload,
                        UploadFails, ReadStaged, Validate, Replace, AcceptFails, MayConfigure, SavePassword, SaveFails,
                        UsePassword, ArmReboot, OtherCommand
    <3>4. QED
      BY <3>1, <3>2, <3>3
  <2>3. QED
    BY <2>1, <2>2
<1>5. CASE Reset
  BY <1>5 DEF Reset
<1>6. QED
  BY <1>1, <1>2, <1>3, <1>4, <1>5 DEF Next

(* A slot gets such a program, and the active slot one that compiles.      *)
LEMMA SlotsKept == ASSUME ConsoleInv, [Next]_vars PROVE ActiveWasAskedFor' /\ ActiveCompiles'
<1> USE DEF ConsoleInv, ActiveWasAskedFor, ActiveCompiles
<1>1. asked \subseteq asked'
  BY UploadsKept
<1>2. CASE UNCHANGED slots
  BY <1>1, <1>2 DEF slots
<1>3. ASSUME NEW s \in Sessions, StageUpload(s) PROVE ActiveWasAskedFor' /\ ActiveCompiles'
  <2>1. staged' = wanted[s] /\ active' = active
    BY <1>3 DEF StageUpload, WriteStaged
  <2>2. QED
    BY <1>1, <2>1 DEF UploadsWereAskedFor
<1>4. ASSUME NEW s \in Sessions, Replace(s) PROVE ActiveWasAskedFor' /\ ActiveCompiles'
  <2>1. staged' = staged /\ active' = staged /\ staged \in Compiles
    BY <1>4 DEF Replace, AcceptStaged, Goes, ValidatedIsStaged
  <2>2. QED
    BY <1>1, <2>1
<1>5. QED
  BY <1>2, <1>3, <1>4, SlotsChange

(* While accept has the mutex, nobody stages another program.              *)
LEMMA ValidatedKept == ASSUME ConsoleInv, [Next]_vars PROVE ValidatedIsStaged'
<1> USE DEF ConsoleInv, ValidatedIsStaged
<1>1. CASE (PolicyTask /\ UNCHANGED consoleVars) \/ DeadlinePasses \/ UNCHANGED vars
  <2>1. UNCHANGED slots
    BY <1>1 DEF PolicyTask, MeasureActive, ReadFails, BeginRun, SetState, RunSucceeds, RunFails,
                DeadlinePasses, vars, policyVars
  <2>2. QED
    BY <1>1, <2>1, SessionsLetAlone DEF slots
<1>2. CASE ClientConnects \/ Authenticated \/ ClientLeaves
  BY <1>2, ClientIsItsOwn DEF Sessions, Idle, policyVars, slots
<1>3. ASSUME NEW s \in Sessions, EnterLine(s) \/ Busy(s) PROVE ValidatedIsStaged'
  BY <1>3, SessionIsItsOwn DEF EnterLine, Busy, Goes, TypeOK, SessionsTyped, policyVars, slots
<1>4. ASSUME NEW s \in Sessions, TakeMutex(s) PROVE ValidatedIsStaged'
  <2>1. place'[s] \in Commands
    BY <1>4 DEF TakeMutex, Goes, WaitersAsked, TypeOK, SessionsTyped
  <2>2. QED
    BY <1>4, <2>1, SessionIsItsOwn DEF Commands, policyVars, slots
<1>5. ASSUME NEW s \in Sessions, RunCommand(s) PROVE ValidatedIsStaged'
  <2>1. \A t \in Sessions : t # s => ~Running(t)
    BY <1>5, CommandIsItsOwn DEF OneRuns
  <2>2. \A t \in Sessions : t # s => place'[t] \notin {"validate", "replace"}
    BY <1>5, <2>1, CommandIsItsOwn DEF Running, Idle
  <2> USE DEF TypeOK, SessionsTyped, Goes, Moves
  <2>3. CASE ReadStaged(s)
    BY <2>2, <2>3 DEF ReadStaged, policyVars, slots
  <2>4. CASE Validate(s)
    BY <2>2, <2>4 DEF Validate, policyVars, slots, uploads
  <2>5. CASE StartUpload(s) \/ CheckDeadline(s) \/ ReceiveByte(s) \/ ReceiveLine(s) \/ InputEnds(s)
    BY <2>2, <2>5 DEF StartUpload, CheckDeadline, ReceiveByte, ReceiveLine, InputEnds
  <2>6. CASE StageUpload(s) \/ UploadFails(s) \/ Replace(s) \/ AcceptFails(s)
    BY <2>2, <2>6 DEF StageUpload, UploadFails, Replace, AcceptFails
  <2>7. CASE MayConfigure(s) \/ SavePassword(s) \/ SaveFails(s) \/ UsePassword(s)
    BY <2>2, <2>7 DEF MayConfigure, SavePassword, SaveFails, UsePassword
  <2>8. CASE ArmReboot(s) \/ OtherCommand(s) \/ Finish(s)
    BY <2>2, <2>8 DEF ArmReboot, OtherCommand, Finish
  <2>9. QED
    BY <1>5, <2>3, <2>4, <2>5, <2>6, <2>7, <2>8 DEF RunCommand
<1>6. CASE Reset
  BY <1>6 DEF Reset
<1>7. QED
  BY <1>1, <1>2, <1>3, <1>4, <1>5, <1>6 DEF Next

-----------------------------------------------------------------------------
(* What a cycle finds.                                                     *)

(* Only the policy task and a reset touch the booleans.                    *)
LEMMA ConsolesLeaveTheCycle ==
  ASSUME [Next]_vars, ~PolicyTask, ~Reset
  PROVE  UNCHANGED <<policyState, cycleVars, kept>>
<1> USE DEF policyVars
<1>1. CASE ClientConnects \/ Authenticated \/ ClientLeaves \/ DeadlinePasses \/ UNCHANGED vars
  BY <1>1 DEF ClientConnects, Authenticated, ClientLeaves, Moves, DeadlinePasses, vars
<1>2. ASSUME NEW s \in Sessions, EnterLine(s) \/ Busy(s) \/ TakeMutex(s) PROVE UNCHANGED <<policyState, cycleVars, kept>>
  BY <1>2 DEF EnterLine, Busy, TakeMutex
<1>3. ASSUME NEW s \in Sessions, RunCommand(s) PROVE UNCHANGED <<policyState, cycleVars, kept>>
  BY <1>3 DEF RunCommand, Moves, StartUpload, CheckDeadline, ReceiveByte, ReceiveLine, InputEnds, StageUpload,
              UploadFails, ReadStaged, Validate, Replace, AcceptFails, MayConfigure, SavePassword, SaveFails,
              UsePassword, ArmReboot, OtherCommand, Finish
<1>4. QED
  BY <1>1, <1>2, <1>3 DEF Next

(* The booleans in RAM are those of the last cycle until the next starts.  *)
LEMMA KeptKept == ASSUME ConsoleInv, [Next]_vars PROVE KeptIsHeld'
<1> USE DEF ConsoleInv, KeptIsHeld
<1>1. CASE ~PolicyTask /\ ~Reset
  BY <1>1, ConsolesLeaveTheCycle DEF policyState, cycleVars
<1>2. CASE Reset
  BY <1>2 DEF Reset, PolicyReset, NothingKept, NoDigest, NoProgram
<1>3. CASE MeasureActive
  BY <1>3 DEF MeasureActive, policyState
<1>4. CASE ReadFails
  BY <1>4 DEF ReadFails, Clear, NothingKept, NoDigest, NoProgram
<1>5. CASE BeginRun
  BY <1>5 DEF BeginRun, BeginCycle
<1>6. CASE SetState
  BY <1>6 DEF SetState, cycleVars
<1>7. CASE RunSucceeds
  BY <1>7 DEF RunSucceeds, policyState
<1>8. CASE RunFails
  BY <1>8 DEF RunFails, Clear, NothingKept, NoDigest, NoProgram
<1>9. QED
  BY <1>1, <1>2, <1>3, <1>4, <1>5, <1>6, <1>7, <1>8 DEF PolicyTask

(* The invariant holds in every behavior of consoles and policy task.      *)
THEOREM ConsoleInvariant == Spec => []ConsoleInv
<1>1. Init => ConsoleInv
  <2> SUFFICES ASSUME Init PROVE ConsoleInv
    OBVIOUS
  <2>1. TypeOK /\ WaitersAsked
    BY InitTyped
  <2>2. OneRuns /\ OnlySerialConfigures /\ ValidatedIsStaged
    BY DEF Init, ConsoleInit, OneRuns, Running, Idle, OnlySerialConfigures, ValidatedIsStaged
  <2>3. UploadsWereAskedFor /\ ActiveWasAskedFor /\ ActiveCompiles
    BY PolicyAssumption DEF Init, PolicyInit, ConsoleInit, UploadsWereAskedFor, ActiveWasAskedFor, ActiveCompiles
  <2>4. KeptIsHeld
    BY DEF Init, PolicyInit, KeptIsHeld, NothingKept, NoDigest, NoProgram
  <2>5. QED
    BY <2>1, <2>2, <2>3, <2>4 DEF ConsoleInv
<1>2. ConsoleInv /\ [Next]_vars => ConsoleInv'
  <2> SUFFICES ASSUME ConsoleInv, [Next]_vars PROVE ConsoleInv'
    OBVIOUS
  <2>1. TypeOK' /\ WaitersAsked'
    BY StepTyped DEF ConsoleInv
  <2>2. QED
    BY <2>1, OneRunsKept, OnlySerialKept, UploadsKept, SlotsKept, ValidatedKept, KeptKept DEF ConsoleInv
<1>3. QED
  BY <1>1, <1>2, PTL DEF Spec

(* No cut, garbled or foreign upload and no reset gets a program into a    *)
(* slot that nobody asked for (policy_upload_staged).                      *)
THEOREM ProgramsWereAskedFor == Spec => []ActiveWasAskedFor
BY ConsoleInvariant, PTL DEF ConsoleInv

(* The active program compiles: what accept replaces it with is what it    *)
(* validated (policy_command).                                             *)
THEOREM ActiveProgramCompiles == Spec => []ActiveCompiles
BY ConsoleInvariant, PTL DEF ConsoleInv

(* No TCP command gets as far as saving a password (set_command).          *)
THEOREM TcpNeverConfigures == Spec => []OnlySerialConfigures
BY ConsoleInvariant, PTL DEF ConsoleInv

(* A cycle starts with the booleans of the last one if that succeeded and  *)
(* ran the same program, and with none otherwise (run_policy_cycle).       *)
THEOREM MemoryIsOfTheLastCycle == Spec => MemoryIsLastCycles
<1>1. ConsoleInv /\ [Next]_vars =>
        [cycle = "read" /\ cycle' = "run" =>
           memory' = IF kept.program = program' THEN kept.memory ELSE Nothing]_vars
  <2> SUFFICES ASSUME ConsoleInv, [Next]_vars, cycle = "read", cycle' = "run"
               PROVE  memory' = IF kept.program = program' THEN kept.memory ELSE Nothing
    OBVIOUS
  <2>1. BeginRun
    BY ConsolesLeaveTheCycle DEF cycleVars, PolicyTask, MeasureActive, ReadFails, SetState, RunSucceeds, RunFails,
                                 Reset, PolicyReset
  <2>2. digest = kept.program /\ memory = kept.memory
    BY DEF ConsoleInv, KeptIsHeld
  <2>3. QED
    BY <2>1, <2>2 DEF BeginRun, BeginCycle
<1>2. QED
  BY <1>1, ConsoleInvariant, PTL DEF Spec, MemoryIsLastCycles
=============================================================================
