----------------------------- MODULE BatteryBank -----------------------------
(***************************************************************************)
(* Battery banks: src/main/battery_bank.cpp, over the battery store.       *)
(*                                                                         *)
(* The definitions are one blob in NVS flash, changed by console commands, *)
(* which the command mutex keeps apart.  battery_bank_get_state loads the  *)
(* definition, notes the time, and reads the members from the store one    *)
(* after the other, while the scanner may record new observations.         *)
(***************************************************************************)
EXTENDS BatteryStore, FiniteSetsExt

CONSTANTS
  Banks,         \* the names of banks
  MaxBanks,      \* CONFIG_POWER4_MAX_BANKS
  Memberships,   \* the lists of batteries given to "define bank"
  Readers        \* the tasks that ask for the state of a bank

ASSUME BankAssumption ==
  /\ MaxBanks \in Nat \ {0}
  /\ Memberships \subseteq Seq(Names)
  /\ \A ms \in Memberships : ms # <<>> /\ \A i, j \in DOMAIN ms : ms[i] = ms[j] => i = j

VARIABLES
  banks,     \* NVS "banks": the members of each bank, <<>> if not defined
  query,     \* the call of battery_bank_get_state of each reader
  held       \* history: what the store held of each member until it was read

bankVars == <<slots, now, banks, query, held>>

Defined == {b \in Banks : banks[b] # <<>>}

NoCell == [mv |-> 0, battery |-> NoName]

(* BatteryBankState, before a member was read.                             *)
Computed ==
  [ready |-> TRUE, volts |-> 0, amps |-> 0, soc |-> 100, alarms |-> {},
   cellData |-> TRUE, lowest |-> NoCell, cellAge |-> 0, first |-> TRUE]

NotReady == [Computed EXCEPT !.ready = FALSE]

NoQuery == [phase |-> "idle", todo |-> <<>>, at |-> 0, state |-> NotReady]

NothingHeld == [n \in {} |-> {}]

-----------------------------------------------------------------------------
(* Mutant: the bank list may grow by one too many.                         *)
CreateBankNoLimit ==
  /\ \E b \in Banks, ms \in Memberships :
       /\ b \in Defined \/ Cardinality(Defined) <= MaxBanks
       /\ banks' = [banks EXCEPT ![b] = ms]
  /\ UNCHANGED <<slots, now, query, held>>

(* "define bank" and "remove bank".  A write of the blob that fails        *)
(* changes nothing.                                                        *)
CreateBank ==
  /\ \E b \in Banks, ms \in Memberships :
       /\ b \in Defined \/ Cardinality(Defined) < MaxBanks
       /\ banks' = [banks EXCEPT ![b] = ms]
  /\ UNCHANGED <<slots, now, query, held>>

RemoveBank ==
  /\ \E b \in Defined : banks' = [banks EXCEPT ![b] = <<>>]
  /\ UNCHANGED <<slots, now, query, held>>

-----------------------------------------------------------------------------
(* battery_record_cell_summary, battery_record_cell_age_s                  *)
LowestCell(r) ==
  [mv |-> CHOOSE mv \in {r.cells[i] : i \in DOMAIN r.cells} : \A i \in DOMAIN r.cells : mv <= r.cells[i],
   battery |-> r.name]

CellAge(r, at) == IF at > r.cellsAt THEN at - r.cellsAt ELSE 0

AddCells(state, r, at) ==
  IF r.cells = <<>> THEN [state EXCEPT !.cellData = FALSE]
  ELSE [state EXCEPT
          !.lowest = IF @.battery = NoName \/ LowestCell(r).mv < @.mv THEN LowestCell(r) ELSE @,
          !.cellAge = IF CellAge(r, at) > @ THEN CellAge(r, at) ELSE @]

(* Mutant: the current starts from zero.                                   *)
AddMemberFromZero(state, r, at) ==
  AddCells([state EXCEPT
              !.volts = @ + r.basic.volts,
              !.amps = IF r.basic.amps > @ THEN r.basic.amps ELSE @,
              !.soc = IF r.basic.soc < @ THEN r.basic.soc ELSE @,
              !.alarms = @ \cup r.basic.alarms,
              !.first = FALSE],
           r, at)

AddMember(state, r, at) ==
  AddCells([state EXCEPT
              !.volts = @ + r.basic.volts,
              !.amps = IF state.first \/ r.basic.amps > @ THEN r.basic.amps ELSE @,
              !.soc = IF r.basic.soc < @ THEN r.basic.soc ELSE @,
              !.alarms = @ \cup r.basic.alarms,
              !.first = FALSE],
           r, at)

(* Without the cells of every member there is no cell data.                *)
Finished(state) ==
  IF state.cellData THEN state ELSE [state EXCEPT !.lowest = NoCell, !.cellAge = 0]

BeginQuery(r) ==
  /\ query[r].phase = "idle"
  /\ \E b \in Defined :
       /\ query' = [query EXCEPT ![r] =
            [phase |-> "reading", todo |-> banks[b], at |-> now,
             state |-> Computed]]
       /\ held' = [held EXCEPT ![r] = [n \in {banks[b][i] : i \in DOMAIN banks[b]} |-> {RecordOf(n)}]]
  /\ UNCHANGED <<slots, now, banks>>

(* The next member is read; one that was never observed ends the query.    *)
ReadMember(r) ==
  LET q == query[r]
      record == RecordOf(Head(q.todo))
      state == AddMember(q.state, record, q.at)
  IN
  /\ q.phase = "reading"
  /\ query' = [query EXCEPT ![r] =
       IF record = NoRecord
         THEN [q EXCEPT !.phase = "done", !.todo = <<>>, !.state = NotReady]
       ELSE IF Len(q.todo) = 1
         THEN [q EXCEPT !.phase = "done", !.todo = <<>>, !.state = Finished(state)]
       ELSE [q EXCEPT !.todo = Tail(@), !.state = state]]
  /\ UNCHANGED <<slots, now, banks, held>>

Return(r) ==
  /\ query[r].phase = "done"
  /\ query' = [query EXCEPT ![r] = NoQuery]
  /\ held' = [held EXCEPT ![r] = NothingHeld]
  /\ UNCHANGED <<slots, now, banks>>

-----------------------------------------------------------------------------
(* The scanner records an observation, and the history notes it.           *)
Scan ==
  /\ Observe
  /\ held' = [r \in Readers |->
       [n \in DOMAIN held[r] |->
          IF \E i \in DOMAIN query[r].todo : query[r].todo[i] = n
            THEN held[r][n] \cup {RecordOf(n)'} ELSE held[r][n]]]
  /\ UNCHANGED <<banks, query>>

TimePasses == Tick /\ UNCHANGED <<banks, query, held>>

(* Flash keeps the definitions.                                            *)
Reset ==
  /\ ResetStore
  /\ query' = [r \in Readers |-> NoQuery]
  /\ held' = [r \in Readers |-> NothingHeld]
  /\ UNCHANGED banks

Init ==
  /\ InitStore
  /\ banks = [b \in Banks |-> <<>>]
  /\ query = [r \in Readers |-> NoQuery]
  /\ held = [r \in Readers |-> NothingHeld]

Next ==
  \/ CreateBank
  \/ RemoveBank
  \/ \E r \in Readers : BeginQuery(r) \/ ReadMember(r) \/ Return(r)
  \/ Scan
  \/ TimePasses
  \/ Reset

Spec == Init /\ [][Next]_bankVars

-----------------------------------------------------------------------------
Records == {r \in [name : Names \cup {NoName}, basic : Basic, cells : Seq(Nat),
                   cellsAt : 0..MaxTime, seen : 0..MaxTime] :
              r.cells # <<>> => Len(r.cells) = r.basic.count}

Phases == {"idle", "reading", "done"}

(* Every slot holds a record with as many cells as the battery says it     *)
(* has, and the blob of banks has room for those defined.                  *)
TypeOK ==
  /\ now \in 0..MaxTime
  /\ \A s \in Slots : slots[s] \in Records
  /\ \A b \in Banks : banks[b] \in Memberships \cup {<<>>}
  /\ Cardinality(Defined) <= MaxBanks
  /\ \A r \in Readers : /\ query[r].phase \in Phases
                        /\ query[r].phase = "reading" <=> query[r].todo # <<>>

Greatest(S) == CHOOSE x \in S : \A y \in S : y <= x
Least(S) == CHOOSE x \in S : \A y \in S : x <= y

(* The sum of v[x] for all x in S.                                         *)
Total(v, S) == MapThenSumSet(LAMBDA x : v[x], S)

(* The state of a bank, as documented, from one record f[n] per member n.  *)
Describes(state, f, at) ==
  LET ns == DOMAIN f
      volts == [n \in ns |-> f[n].basic.volts]
      lowest == [n \in ns |-> LowestCell(f[n]).mv]
  IN
  /\ state.volts = Total(volts, ns)
  /\ state.amps = Greatest({f[n].basic.amps : n \in ns})
  /\ state.soc = Least({f[n].basic.soc : n \in ns})
  /\ state.alarms = UNION {f[n].basic.alarms : n \in ns}
  /\ state.cellData <=> \A n \in ns : f[n].cells # <<>>
  /\ IF state.cellData
       THEN /\ state.lowest.battery \in ns
            /\ state.lowest.mv = lowest[state.lowest.battery]
            /\ state.lowest.mv = Least({lowest[n] : n \in ns})
            /\ state.cellAge = Greatest({CellAge(f[n], at) : n \in ns})
       ELSE state.lowest = NoCell /\ state.cellAge = 0

(* A query answers with the state that README.md:390-397 describes, of     *)
(* records the store held while the query ran, one for each member of the  *)
(* bank; it answers not-ready only if a member was not in the store.       *)
AnswersAreReadings ==
  \A r \in Readers : query[r].phase = "done" =>
    LET q == query[r]
        members == DOMAIN held[r]
    IN
    IF q.state.ready
      THEN \E f \in [members -> UNION {held[r][n] : n \in members}] :
             /\ \A n \in members : f[n] \in held[r][n] \ {NoRecord}
             /\ Describes(q.state, f, q.at)
      ELSE \E n \in members : NoRecord \in held[r][n]
=============================================================================
