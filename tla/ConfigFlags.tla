----------------------------- MODULE ConfigFlags -----------------------------
(***************************************************************************)
(* Policy parameters: src/main/config_flags.cpp, the tasks that call it    *)
(* and the NVS flash and RAM tables it keeps.                              *)
(*                                                                         *)
(* A parameter is a string under its name in the NVS namespace "config".   *)
(* Its lifetime, if it has one, is a number under the same name in the     *)
(* namespace "policy_ttl", and the countdown is an entry of a RAM table.   *)
(* A call works through them one store at a time; a reset can come between *)
(* any two, a write to flash can fail, and calls of different tasks may    *)
(* overlap.  Reads of flash do not fail here.  Calls are short: lifetimes  *)
(* are in seconds, and no second passes while a call runs.                 *)
(***************************************************************************)
EXTENDS Integers, Sequences, FiniteSets

CONSTANTS
  Names,       \* the parameter names in use
  ListMax,     \* kConfigFlagListMax
  Clients,     \* the tasks that define, remove and list parameters
  Policy,      \* the policy task, which expires them
  NoName,      \* no parameter
  Requests,    \* Requests[c]: the calls client c may make
  Overlap,     \* may calls of different tasks overlap?
  CanReset,    \* may the processor reset at any moment?
  CanFail      \* may writes to flash fail?

Callers == Clients \cup {Policy}

(* config_flags_set / _set_number with a lifetime (0: permanent),          *)
(* config_flags_unset, and what config_flags_list does for one name.       *)
Request == [op : {"define", "remove", "list"}, name : Names, life : Nat]

ASSUME ConstantsAssumption ==
  /\ ListMax \in Nat \ {0}
  /\ Policy \notin Clients
  /\ NoName \notin Names
  /\ Requests \in [Clients -> SUBSET Request]
  /\ {Overlap, CanReset, CanFail} \subseteq BOOLEAN

NoDeadline == -1

VARIABLES
  value,     \* NVS "config": what kind of define wrote the stored text, if any
  ttl,       \* NVS "policy_ttl": ttl[n] is the lifetime stored for n, or 0
  deadline,  \* g_deadlines: seconds left for n, or NoDeadline
  call,      \* what each task still has to do of its call
  cycle,     \* the policy task: "boot", "sleep", "expire", or "program"
  entries,   \* local of config_flags_expire: lifetimes collected, or 0
  promise,   \* history: the lifetime last asked for n, and what is left of it
  missed     \* history: names that, since last written or erased, met a flash
             \* write that failed or had no room in a table

nvs == <<value, ttl>>
history == <<promise, missed>>
vars == <<nvs, deadline, call, cycle, entries, history>>

Kinds == {"absent", "permanent", "lifetime"}

-----------------------------------------------------------------------------
(* A call is the list of the stores it still has to change, in order.      *)

Nothing == [life |-> 0, left |-> 0]

Idle == [todo |-> <<>>, name |-> NoName, life |-> 0]

Busy(c) == call[c].todo # <<>>

(* Mutant: the value is written before its lifetime is recorded.           *)
DefineStepsValueFirst(life) ==
  IF life > 0 THEN <<"refresh", "put", "put_ttl">> ELSE <<"clear_ttl", "drop", "put">>

(* record_lifetime, then the value.                                        *)
DefineSteps(life) ==
  IF life > 0 THEN <<"refresh", "put_ttl", "put">> ELSE <<"clear_ttl", "drop", "put">>

RemoveSteps == <<"erase", "clear_ttl", "drop">>

OrphanSteps == <<"clear_ttl", "drop">>

(* Mutant: a failed write of the lifetime leaves its countdown behind.     *)
AfterFailureLeavesDeadline(todo) ==
  IF Head(todo) = "clear_ttl" /\ todo = OrphanSteps THEN Tail(todo) ELSE <<>>

(* What is left to do when the flash write at the head of todo fails.      *)
(* config_flags_unset and config_flags_expire go on when the lifetime      *)
(* cannot be erased; record_lifetime takes its countdown back.             *)
AfterFailure(todo) ==
  IF Head(todo) = "put_ttl" THEN <<"drop">>
  ELSE IF todo = OrphanSteps THEN Tail(todo)
  ELSE <<>>

(* A task may start a call when nobody else is in one, or if calls may     *)
(* overlap.                                                                *)
MayStart(c) ==
  /\ ~Busy(c)
  /\ \/ Overlap
     \/ cycle # "expire" /\ \A d \in Callers : ~Busy(d)

Continue(c, todo) ==
  call' = [call EXCEPT ![c] = IF todo = <<>> THEN Idle ELSE [@ EXCEPT !.todo = todo]]

-----------------------------------------------------------------------------
(* The steps of a call.                                                    *)

At(c, step) == Busy(c) /\ Head(call[c].todo) = step

Tracked == {n \in Names : deadline[n] # NoDeadline}

HasRoom(n) == n \in Tracked \/ Cardinality(Tracked) < ListMax

(* deadline_refresh.  ESP_ERR_NO_MEM ends the call.                        *)
Refresh(c) ==
  LET n == call[c].name IN
  /\ At(c, "refresh")
  /\ IF HasRoom(n)
       THEN /\ deadline' = [deadline EXCEPT ![n] = call[c].life]
            /\ promise' = [promise EXCEPT ![n] = [life |-> call[c].life, left |-> call[c].life]]
            /\ Continue(c, Tail(call[c].todo))
       ELSE /\ Continue(c, <<>>)
            /\ UNCHANGED <<deadline, promise>>
  /\ UNCHANGED <<nvs, cycle, entries, missed>>

Drop(c) ==
  /\ At(c, "drop")
  /\ deadline' = [deadline EXCEPT ![call[c].name] = NoDeadline]
  /\ Continue(c, Tail(call[c].todo))
  /\ UNCHANGED <<nvs, cycle, entries, history>>

(* The writes to flash succeed...                                          *)
PutTtl(c) ==
  /\ At(c, "put_ttl")
  /\ ttl' = [ttl EXCEPT ![call[c].name] = call[c].life]
  /\ Continue(c, Tail(call[c].todo))
  /\ UNCHANGED <<value, deadline, cycle, entries, history>>

ClearTtl(c) ==
  /\ At(c, "clear_ttl")
  /\ ttl' = [ttl EXCEPT ![call[c].name] = 0]
  /\ Continue(c, Tail(call[c].todo))
  /\ UNCHANGED <<value, deadline, cycle, entries, history>>

Put(c) ==
  LET n == call[c].name
      lasting == call[c].life = 0
  IN
  /\ At(c, "put")
  /\ value' = [value EXCEPT ![n] = IF lasting THEN "permanent" ELSE "lifetime"]
  /\ promise' = IF lasting THEN [promise EXCEPT ![n] = Nothing] ELSE promise
  /\ missed' = missed \ {n}
  /\ Continue(c, Tail(call[c].todo))
  /\ UNCHANGED <<ttl, deadline, cycle, entries>>

Erase(c) ==
  /\ At(c, "erase")
  /\ value' = [value EXCEPT ![call[c].name] = "absent"]
  /\ missed' = missed \ {call[c].name}
  /\ Continue(c, Tail(call[c].todo))
  /\ UNCHANGED <<ttl, deadline, cycle, entries, promise>>

(* ... or fail and change nothing.                                         *)
WriteFails(c) ==
  /\ CanFail
  /\ \E step \in {"put_ttl", "clear_ttl", "put", "erase"} : At(c, step)
  /\ missed' = missed \cup {call[c].name}
  /\ Continue(c, AfterFailure(call[c].todo))
  /\ UNCHANGED <<nvs, deadline, cycle, entries, promise>>

(* Mutant: the countdown starts again each time it is looked at.           *)
QueryRestarts(c) ==
  LET n == call[c].name IN
  /\ At(c, "query")
  /\ IF HasRoom(n)
       THEN deadline' = [deadline EXCEPT ![n] = call[c].life]
       ELSE UNCHANGED deadline
  /\ Continue(c, Tail(call[c].todo))
  /\ UNCHANGED <<nvs, cycle, entries, history>>

(* Mutant: a countdown that is not in the table counts as run out.         *)
QueryAssumesExpired(c) ==
  LET n == call[c].name IN
  /\ At(c, "query")
  /\ deadline' = IF n \notin Tracked /\ HasRoom(n)
                   THEN [deadline EXCEPT ![n] = call[c].life] ELSE deadline
  /\ Continue(c, IF c = Policy /\ deadline[n] <= 0 THEN RemoveSteps ELSE <<>>)
  /\ UNCHANGED <<nvs, cycle, entries, history>>

(* deadline_query: the entry is made, with the full lifetime, at the first *)
(* look at a name since the reset.  config_flags_expire removes a value    *)
(* whose countdown has run out.                                            *)
Query(c) ==
  LET n == call[c].name IN
  /\ At(c, "query")
  /\ deadline' = IF n \notin Tracked /\ HasRoom(n)
                   THEN [deadline EXCEPT ![n] = call[c].life] ELSE deadline
  /\ Continue(c, IF c = Policy /\ deadline[n] = 0 THEN RemoveSteps ELSE <<>>)
  /\ missed' = IF HasRoom(n) THEN missed ELSE missed \cup {n}
  /\ UNCHANGED <<nvs, cycle, entries, promise>>

Step(c) ==
  \/ Refresh(c)
  \/ Drop(c)
  \/ PutTtl(c)
  \/ ClearTtl(c)
  \/ Put(c)
  \/ Erase(c)
  \/ WriteFails(c)
  \/ Query(c)

-----------------------------------------------------------------------------
(* The calls.                                                              *)

Begin(c, n, todo, life) ==
  /\ call' = [call EXCEPT ![c] = [todo |-> todo, name |-> n, life |-> life]]
  /\ UNCHANGED <<nvs, deadline, cycle, history>>

Define(c) ==
  /\ MayStart(c)
  /\ \E r \in Requests[c] : r.op = "define" /\ Begin(c, r.name, DefineSteps(r.life), r.life)
  /\ UNCHANGED entries

Remove(c) ==
  /\ MayStart(c)
  /\ \E r \in Requests[c] : r.op = "remove" /\ Begin(c, r.name, RemoveSteps, 0)
  /\ UNCHANGED entries

(* config_flags_list reads the lifetime of a stored name, and looks up its *)
(* countdown if it has one.                                                *)
List(c) ==
  /\ MayStart(c)
  /\ \E r \in Requests[c] :
       /\ r.op = "list" /\ value[r.name] # "absent" /\ ttl[r.name] > 0
       /\ Begin(c, r.name, <<"query">>, ttl[r.name])
  /\ UNCHANGED entries

(* run_policy_cycle starts with config_flags_expire, which collects up to  *)
(* ListMax of the lifetimes stored...                                      *)
BeginCycle ==
  LET stored == {n \in Names : ttl[n] > 0} IN
  /\ cycle \in {"boot", "sleep"} /\ MayStart(Policy)
  /\ \E S \in SUBSET stored :
       /\ Cardinality(S) <= ListMax
       /\ S # stored => Cardinality(S) = ListMax
       /\ entries' = [n \in Names |-> IF n \in S THEN ttl[n] ELSE 0]
       /\ missed' = missed \cup (stored \ S)
  /\ cycle' = "expire"
  /\ UNCHANGED <<nvs, deadline, call, promise>>

(* ... takes them one after the other, cleaning up those without a value...*)
CheckEntry ==
  /\ cycle = "expire" /\ ~Busy(Policy)
  /\ \E n \in Names :
       /\ entries[n] > 0
       /\ Begin(Policy, n, IF value[n] = "absent" THEN OrphanSteps ELSE <<"query">>, entries[n])
       /\ entries' = [entries EXCEPT ![n] = 0]

(* ... and then the policy program runs.                                   *)
RunProgram ==
  /\ cycle = "expire" /\ ~Busy(Policy)
  /\ \A n \in Names : entries[n] = 0
  /\ cycle' = "program"
  /\ UNCHANGED <<nvs, deadline, call, entries, history>>

EndCycle ==
  /\ cycle = "program"
  /\ cycle' = "sleep"
  /\ UNCHANGED <<nvs, deadline, call, entries, history>>

-----------------------------------------------------------------------------
(* Time and resets.                                                        *)

(* Mutant: unused entries of the table count down as well.                 *)
TickUnused ==
  /\ cycle \in {"sleep", "program"} /\ \A c \in Callers : ~Busy(c)
  /\ deadline' = [n \in Names |-> IF deadline[n] # 0 THEN deadline[n] - 1 ELSE 0]
  /\ promise' = [n \in Names |-> [promise[n] EXCEPT !.left = IF @ > 0 THEN @ - 1 ELSE 0]]
  /\ UNCHANGED <<nvs, call, cycle, entries, missed>>

(* A second.  The code keeps the moment of expiry, and computes what is    *)
(* left of it, or zero, when it is asked.                                  *)
Tick ==
  /\ cycle \in {"sleep", "program"} /\ \A c \in Callers : ~Busy(c)
  /\ deadline' = [n \in Names |-> IF deadline[n] > 0 THEN deadline[n] - 1 ELSE deadline[n]]
  /\ promise' = [n \in Names |-> [promise[n] EXCEPT !.left = IF @ > 0 THEN @ - 1 ELSE 0]]
  /\ UNCHANGED <<nvs, call, cycle, entries, missed>>

(* Flash keeps what was written.  Every countdown starts again, at the     *)
(* first policy cycle: it comes a tenth of a second after the task starts. *)
Reset ==
  /\ CanReset
  /\ deadline' = [n \in Names |-> NoDeadline]
  /\ call' = [c \in Callers |-> Idle]
  /\ cycle' = "boot"
  /\ entries' = [n \in Names |-> 0]
  /\ promise' = [n \in Names |-> [promise[n] EXCEPT !.left = promise[n].life]]
  /\ UNCHANGED <<nvs, missed>>

Init ==
  /\ value = [n \in Names |-> "absent"]
  /\ ttl = [n \in Names |-> 0]
  /\ deadline = [n \in Names |-> NoDeadline]
  /\ call = [c \in Callers |-> Idle]
  /\ cycle = "boot"
  /\ entries = [n \in Names |-> 0]
  /\ promise = [n \in Names |-> Nothing]
  /\ missed = {}

Next ==
  \/ \E c \in Callers : Step(c)
  \/ \E c \in Clients : Define(c) \/ Remove(c) \/ List(c)
  \/ BeginCycle
  \/ CheckEntry
  \/ RunProgram
  \/ EndCycle
  \/ Tick
  \/ Reset

Spec == Init /\ [][Next]_vars
=============================================================================
