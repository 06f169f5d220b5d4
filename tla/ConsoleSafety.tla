---------------------------- MODULE ConsoleSafety ----------------------------
(* What the consoles and the policy task promise.                          *)
EXTENDS Console

Places == Idle \cup Commands \cup {"waiting", "check", "recv", "judge", "validate", "replace", "save", "use", "done"}

Entries == UNION {[names -> BOOLEAN] : names \in SUBSET Names}

PolicyTyped ==
  /\ staged \in Texts /\ active \in Texts
  /\ memory \in Entries /\ Cardinality(DOMAIN memory) <= Capacity
  /\ digest \in Texts \cup {BuiltIn} /\ program \in Texts \cup {BuiltIn}
  /\ cycle \in {"idle", "read", "run"} /\ length \in Nat

SessionsTyped ==
  /\ mutex \in Sessions \cup {Free} /\ source \in Sessions
  /\ place \in [Sessions -> Places] /\ command \in [Sessions -> Commands \cup {"none"}]
  /\ text \in [Sessions -> Texts] /\ wanted \in [Sessions -> Texts]
  /\ expired \in BOOLEAN /\ broken \in BOOLEAN /\ armed \in BOOLEAN
  /\ flashPassword \in Passwords \cup {NoPassword} /\ password \in Passwords \cup {NoPassword}
  /\ asked \subseteq Texts

(* The table of named booleans is never longer than its eight entries, and *)
(* every variable keeps its type.                                          *)
TypeOK == PolicyTyped /\ SessionsTyped

(* A program gets into a slot only whole, and only if somebody asked for   *)
(* it: a cut or garbled upload, the wait of a second console, a deadline   *)
(* or a reset cannot make a beginning of a program the policy              *)
(* (console.cpp:2132-2235, policy_storage.cpp:120-180).                    *)
ActiveWasAskedFor == {staged, active} \subseteq asked \cup {NoProgram}

(* The active program compiles, although accept reads the staged slot a    *)
(* second time after validating what it read first (console.cpp:2288-2309).*)
ActiveCompiles == active \in Compiles

(* A program starts with the booleans its last cycle left, if that cycle   *)
(* succeeded and was of the same program, and with none otherwise          *)
(* (README.md:434-436).                                                    *)
MemoryIsLastCycles ==
  [][cycle = "read" /\ cycle' = "run" =>
       memory' = IF kept.program = program' THEN kept.memory ELSE Nothing]_vars

(* Only a command of the serial console gets as far as saving a password, *)
(* although permission is read from one variable for both and sessions     *)
(* come, wait and are refused meanwhile (console.cpp:1452, 2843).          *)
OnlySerialConfigures == \A s \in Sessions : place[s] \in {"save", "use"} => s = "serial"

(* "a failed network client cannot hold the command processor              *)
(* indefinitely" (README.md:284-287).                                      *)
NetworkLetsGo == mutex = "tcp" ~> mutex # "tcp"

-----------------------------------------------------------------------------
(* What the proofs of the above rest on.                                   *)

(* A session that waits was given a command.                               *)
WaitersAsked == \A s \in Sessions : place[s] = "waiting" => command[s] \in Commands

Running(s) == place[s] \notin Idle \cup {"waiting"}

(* A command runs alone, and under its own source.                         *)
OneRuns == \A s \in Sessions : Running(s) => mutex = s /\ source = s

(* An upload is for a program somebody asked for.                          *)
UploadsWereAskedFor == \A s \in Sessions : wanted[s] \in asked \cup {NoProgram}

(* What accept has validated is still what is staged.                      *)
ValidatedIsStaged ==
  \A s \in Sessions :
    /\ place[s] = "validate" => text[s] = staged
    /\ place[s] = "replace" => text[s] = staged /\ staged \in Compiles

(* Between cycles the entries are those kept.                              *)
KeptIsHeld ==
  /\ cycle # "run" => digest = kept.program /\ memory = kept.memory
  /\ cycle = "run" => digest = program
=============================================================================
