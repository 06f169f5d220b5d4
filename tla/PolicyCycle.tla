---------------------------- MODULE PolicyCycle ----------------------------
(***************************************************************************)
(* The policy task of src/main/policy_task.cpp, which runs the active Lua  *)
(* program once a minute; the named booleans src/main/policy_state.cpp     *)
(* keeps for it between cycles; and the two program slots in flash of      *)
(* src/main/policy_storage.cpp.                                            *)
(*                                                                         *)
(* A program is the sequence of its lines.  What it computes is left open: *)
(* in a cycle it may set any boolean any number of times, catch the error  *)
(* of a full table, end, fail, or be stopped at its deadline.              *)
(***************************************************************************)
EXTENDS Integers, Sequences, FiniteSets

CONSTANTS
  Lines,
  Texts,           \* what an upload may come to: whole, cut short or garbled
  Compiles,        \* the texts Lua accepts
  Names,           \* of booleans
  Capacity         \* kPolicyStateCapacity

NoProgram == << >>           \* an empty or absent slot
BuiltIn == <<"no policy">>   \* kEmptyPolicySource
NoDigest == << >>            \* have_digest_ is false
Nothing == [n \in {} |-> FALSE]  \* no entries

ASSUME PolicyAssumption ==
  /\ Texts \subseteq Seq(Lines) /\ NoProgram \in Texts
  /\ Compiles \subseteq Texts /\ NoProgram \in Compiles
  /\ BuiltIn \notin Texts
  /\ IsFiniteSet(Names) /\ Capacity \in Nat

VARIABLES
  staged, active,  \* the slots of the policy namespace
  memory, digest,  \* g_policy_state: the entries, and the program they belong to
  cycle,           \* where the policy task is
  length,          \* stored_length of read_blob_alloc
  program,         \* the program being run
  kept             \* history: what the last cycle left to the next one of its program

slots == <<staged, active>>
policyState == <<memory, digest>>
cycleVars == <<cycle, length, program>>
policyVars == <<slots, policyState, cycleVars, kept>>

-----------------------------------------------------------------------------
(* PolicyState.                                                            *)

NothingKept == [program |-> NoProgram, memory |-> Nothing]

Clear == memory' = Nothing /\ digest' = NoDigest

BeginCycle(p) ==
  /\ memory' = IF digest = p THEN memory ELSE Nothing
  /\ digest' = p

(* Mutant: a full table takes one name more.                               *)
SetOneMore(n, v) ==
  IF n \in DOMAIN memory \/ Cardinality(DOMAIN memory) <= Capacity
    THEN memory' = [m \in DOMAIN memory \cup {n} |-> IF m = n THEN v ELSE memory[m]]
    ELSE UNCHANGED memory

(* A full table refuses a new name; the program may catch the error.       *)
SetEntry(n, v) ==
  IF n \in DOMAIN memory \/ Cardinality(DOMAIN memory) < Capacity
    THEN memory' = [m \in DOMAIN memory \cup {n} |-> IF m = n THEN v ELSE memory[m]]
    ELSE UNCHANGED memory

-----------------------------------------------------------------------------
(* run_policy_cycle.                                                       *)

(* The slot is read in two calls, for its length and for its contents; the *)
(* console may write it in between.                                        *)
MeasureActive ==
  /\ cycle = "idle" /\ cycle' = "read"
  /\ length' = Len(active)
  /\ UNCHANGED <<slots, policyState, program, kept>>

(* Flash cannot be read, memory is short, or the contents do not fit into  *)
(* the buffer any more.                                                    *)
ReadFails ==
  /\ cycle \in {"idle", "read"} /\ cycle' = "idle"
  /\ Clear
  /\ kept' = NothingKept
  /\ length' = 0
  /\ UNCHANGED <<slots, program>>

Readable == length = 0 \/ Len(active) \in 1..length

(* The program is identified by its digest and compiled.                   *)
BeginRun ==
  /\ cycle = "read" /\ cycle' = "run"
  /\ Readable
  /\ program' = IF length = 0 THEN BuiltIn ELSE active
  /\ BeginCycle(program')
  /\ length' = 0
  /\ UNCHANGED <<slots, kept>>

SetState ==
  /\ cycle = "run"
  /\ \E n \in Names, v \in BOOLEAN : SetEntry(n, v)
  /\ UNCHANGED <<slots, digest, cycleVars, kept>>

RunSucceeds ==
  /\ cycle = "run" /\ cycle' = "idle"
  /\ kept' = [program |-> program, memory |-> memory]
  /\ program' = NoProgram
  /\ UNCHANGED <<slots, policyState, length>>

(* Mutant: a failed cycle leaves its booleans.                             *)
FailureKeeps ==
  /\ cycle = "run" /\ cycle' = "idle"
  /\ kept' = NothingKept
  /\ program' = NoProgram
  /\ UNCHANGED <<slots, policyState, length>>

(* An error, the deadline, or no memory for Lua.                           *)
RunFails ==
  /\ cycle = "run" /\ cycle' = "idle"
  /\ Clear
  /\ kept' = NothingKept
  /\ program' = NoProgram
  /\ UNCHANGED <<slots, length>>

PolicyTask == MeasureActive \/ ReadFails \/ BeginRun \/ SetState \/ RunSucceeds \/ RunFails

-----------------------------------------------------------------------------
(* The slots, as the console writes them.  A blob is replaced, and a key   *)
(* erased, at once.                                                        *)

(* policy_storage_write_staged                                             *)
WriteStaged(text) == staged' = text /\ UNCHANGED active

(* policy_storage_accept_staged reads the staged slot again.               *)
AcceptStaged == active' = staged /\ UNCHANGED staged

PolicyInit ==
  /\ staged = NoProgram /\ active = NoProgram
  /\ memory = Nothing /\ digest = NoDigest
  /\ cycle = "idle" /\ length = 0 /\ program = NoProgram
  /\ kept = NothingKept

(* A reset keeps the flash.                                                *)
PolicyReset ==
  /\ memory' = Nothing /\ digest' = NoDigest
  /\ cycle' = "idle" /\ length' = 0 /\ program' = NoProgram
  /\ kept' = NothingKept
=============================================================================
