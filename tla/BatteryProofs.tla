---------------------------- MODULE BatteryProofs ----------------------------
(***************************************************************************)
(* The battery store keeps its promise for any number of batteries, slots  *)
(* and observations; the variables of the store and of the banks keep their*)
(* types; and what a bank answers is its documented state, of records that *)
(* were held.                                                              *)
(***************************************************************************)
EXTENDS BatteryBank, FiniteSetTheorems, WellFoundedInduction, TLAPS

Shape == [name : Names \cup {NoName}, basic : Basic, cells : Seq(Nat), cellsAt : Int, seen : Int]

(* No two slots hold the same battery.                                     *)
Distinct(f) == \A s, t \in Slots : f[s].name = f[t].name /\ f[s].name # NoName => s = t

(* A slot without a name is blank.                                         *)
Blank(f) == \A s \in Slots : f[s].name = NoName => f[s] = NoRecord

SlotsInv(f) == f \in [Slots -> Shape] /\ Distinct(f) /\ Blank(f)

StoreInv == SlotsInv(slots) /\ now \in Int

-----------------------------------------------------------------------------
LEMMA ObservationShape ==
  ASSUME NEW n \in Names, NEW o \in Observations[n]
  PROVE  o.basic \in Basic /\ o.cells \in Seq(Nat)
  BY BatteryAssumption DEF Observation

LEMMA BlankShape == NoRecord \in Shape /\ NoRecord.name = NoName
  BY DEF NoRecord, Shape, Basic

(* A slot is found by the name in it.                                      *)
LEMMA FindByName ==
  ASSUME NEW f, Distinct(f), NEW s \in Slots, f[s].name # NoName
  PROVE  (CHOOSE t \in Slots : f[t].name = f[s].name) = s
  BY DEF Distinct

LEMMA WrittenShape ==
  ASSUME NEW n \in Names, NEW o \in Observations[n], NEW r \in Shape, now \in Int
  PROVE  /\ Written(r, n, o) \in Shape
         /\ Written(r, n, o).name = n
         /\ Written(r, n, o).basic = o.basic
  BY ObservationShape DEF Written, Shape

LEMMA PlaceIsASlot ==
  ASSUME NEW n, NEW s, Place(n, s)
  PROVE  /\ s \in Slots
         /\ \/ slots[s].name = n
            \/ /\ \A t \in Slots : slots[t].name # n
               /\ slots[s].name = NoName
            \/ /\ \A t \in Slots : slots[t].name # n /\ slots[t].name # NoName
               /\ \A t \in Slots : slots[s].seen <= slots[t].seen
  BY DEF Place, First, Occupied, LeastRecentlySeen

LEMMA InitInv == InitStore => StoreInv
  BY BlankShape DEF InitStore, StoreInv, SlotsInv, Distinct, Blank

LEMMA WriteInv ==
  ASSUME StoreInv, NEW n \in Names, NEW o \in Observations[n], NEW s \in Slots, Place(n, s),
         NEW g, g = [slots EXCEPT ![s] = Written(slots[s], n, o)]
  PROVE  SlotsInv(g)
<1>1. /\ g \in [Slots -> Shape]
      /\ g[s] = Written(slots[s], n, o)
      /\ \A t \in Slots \ {s} : g[t] = slots[t]
  BY WrittenShape DEF StoreInv, SlotsInv
<1>2. g[s].name = n /\ g[s].basic = o.basic
  BY <1>1, WrittenShape DEF StoreInv, SlotsInv
<1>3. n # NoName
  BY BatteryAssumption
<1>4. \A t \in Slots \ {s} : slots[t].name # n
  BY PlaceIsASlot, <1>3 DEF StoreInv, SlotsInv, Distinct
<1>5. Distinct(g)
  BY <1>1, <1>2, <1>4 DEF StoreInv, SlotsInv, Distinct
<1>6. Blank(g)
  BY <1>1, <1>2, <1>3 DEF StoreInv, SlotsInv, Blank
<1> QED
  BY <1>1, <1>5, <1>6 DEF SlotsInv

LEMMA NextInv == StoreInv /\ [NextStore]_storeVars => StoreInv'
<1> SUFFICES ASSUME StoreInv, [NextStore]_storeVars
             PROVE  StoreInv'
  OBVIOUS
<1>1. CASE Observe
  <2>1. PICK n \in Names : \E o \in Observations[n] : RecordObservation(n, o)
    BY <1>1 DEF Observe
  <2>2. PICK o \in Observations[n] : RecordObservation(n, o)
    BY <2>1
  <2>3. PICK s \in Slots : Place(n, s) /\ slots' = [slots EXCEPT ![s] = Written(slots[s], n, o)]
    BY <2>2 DEF RecordObservation
  <2>4. now' = now
    BY <2>2 DEF RecordObservation
  <2> QED
    BY <2>3, <2>4, WriteInv DEF StoreInv
<1>2. CASE Tick
  BY <1>2 DEF Tick, StoreInv
<1>3. CASE ResetStore
  BY <1>3, BlankShape DEF ResetStore, StoreInv, SlotsInv, Distinct, Blank
<1>4. CASE UNCHANGED storeVars
  BY <1>4 DEF storeVars, StoreInv
<1> QED
  BY <1>1, <1>2, <1>3, <1>4 DEF NextStore

LEMMA InvHolds == StoreSpec => []StoreInv
  BY InitInv, NextInv, PTL DEF StoreSpec
-----------------------------------------------------------------------------
(* The abstract memory, from the slots f.                                  *)
Holding(f, n) == \E s \in Slots : f[s].name = n

Recall(f, n) == IF Holding(f, n) THEN f[CHOOSE s \in Slots : f[s].name = n] ELSE NoRecord

LEMMA RecallSlot ==
  ASSUME NEW f, Distinct(f), NEW s \in Slots, f[s].name # NoName
  PROVE  Recall(f, f[s].name) = f[s]
  BY FindByName DEF Recall, Holding

LEMMA RecallNothing ==
  ASSUME NEW f, NEW n, ~ Holding(f, n)
  PROVE  Recall(f, n) = NoRecord
  BY DEF Recall

(* A battery is known when its name is in a slot.                          *)
LEMMA RecallKnown ==
  ASSUME NEW f, Distinct(f), NEW n \in Names
  PROVE  Recall(f, n) # NoRecord <=> Holding(f, n)
<1>1. CASE Holding(f, n)
  <2>1. PICK s \in Slots : f[s].name = n
    BY <1>1 DEF Holding
  <2>2. Recall(f, n) = f[s] /\ n # NoName
    BY <2>1, RecallSlot, BatteryAssumption
  <2> QED
    BY <1>1, <2>1, <2>2 DEF NoRecord
<1>2. CASE ~ Holding(f, n)
  BY <1>2, RecallNothing
<1> QED
  BY <1>1, <1>2

(* As many batteries are known as slots are occupied.                      *)
LEMMA KnownCount ==
  ASSUME NEW f \in [Slots -> Shape], Distinct(f)
  PROVE  LET known == {n \in Names : Holding(f, n)} IN
         /\ Cardinality(known) \in Nat
         /\ Cardinality(known) <= Capacity
         /\ (Cardinality(known) < Capacity) <=> \E s \in Slots : f[s].name = NoName
<1> DEFINE known == {n \in Names : Holding(f, n)}
           used == {s \in Slots : f[s].name # NoName}
           name == [s \in used |-> f[s].name]
<1>1. IsFiniteSet(Slots) /\ Cardinality(Slots) = Capacity
  BY FS_Interval, BatteryAssumption DEF Slots
<1>2. name \in Bijection(used, known)
  <2>1. name \in [used -> known]
    BY DEF Holding, Shape
  <2>2. \A s, t \in used : name[s] = name[t] => s = t
    BY DEF Distinct
  <2>3. \A n \in known : \E s \in used : name[s] = n
    BY BatteryAssumption DEF Holding
  <2> HIDE DEF known, used, name
  <2> QED
    BY <2>1, <2>2, <2>3 DEF Bijection, Injection, Surjection, IsInjective
<1>3. IsFiniteSet(used) /\ Cardinality(used) <= Capacity
      /\ (Cardinality(used) = Capacity => used = Slots)
  BY <1>1, FS_Subset
<1>4. Cardinality(known) = Cardinality(used)
  BY <1>2, <1>3, FS_Bijection DEF ExistsBijection
<1>5. Cardinality(used) \in Nat
  BY <1>3, FS_CardinalityType
<1>6. used = Slots => Cardinality(used) = Capacity
  BY <1>1
<1>7. used = Slots <=> ~ \E s \in Slots : f[s].name = NoName
  OBVIOUS
<1> HIDE DEF known, used, name
<1>8. /\ Cardinality(known) \in Nat
      /\ Cardinality(known) <= Capacity
      /\ (Cardinality(known) < Capacity) <=> \E s \in Slots : f[s].name = NoName
  BY <1>3, <1>4, <1>5, <1>6, <1>7, BatteryAssumption
<1> QED
  BY <1>8 DEF known

-----------------------------------------------------------------------------
(* What writing slot s does to the memory: n is remembered from it, the    *)
(* battery that was in it is forgotten, and no other changes.              *)
LEMMA WriteRecall ==
  ASSUME NEW f \in [Slots -> Shape], NEW g \in [Slots -> Shape], Distinct(f), Distinct(g),
         NEW s \in Slots, NEW n \in Names, g[s].name = n,
         \A t \in Slots \ {s} : g[t] = f[t]
  PROVE  /\ Recall(g, n) = g[s]
         /\ \A m \in Names : m # n /\ f[s].name # m => Recall(g, m) = Recall(f, m)
         /\ \A m \in Names : m # n /\ f[s].name = m => Recall(g, m) = NoRecord
<1>2. n # NoName
  BY BatteryAssumption
<1>3. Recall(g, n) = g[s]
  BY <1>2, RecallSlot
<1>4. ASSUME NEW m \in Names, m # n, f[s].name # m
      PROVE  Recall(g, m) = Recall(f, m)
  <2>1. CASE Holding(f, m)
    <3>1. PICK t \in Slots : f[t].name = m
      BY <2>1 DEF Holding
    <3>2. g[t] = f[t] /\ m # NoName
      BY <1>4, <3>1, BatteryAssumption
    <3> QED
      BY <3>1, <3>2, RecallSlot
  <2>2. CASE ~ Holding(f, m)
    <3>1. ~ Holding(g, m)
      BY <1>4, <2>2 DEF Holding
    <3> QED
      BY <2>2, <3>1, RecallNothing
  <2> QED
    BY <2>1, <2>2
<1>5. ASSUME NEW m \in Names, m # n, f[s].name = m
      PROVE  Recall(g, m) = NoRecord
  <2>1. ASSUME NEW t \in Slots, g[t].name = m PROVE FALSE
    <3>1. t # s
      BY <1>5, <2>1
    <3>2. f[t].name = m /\ m # NoName
      BY <2>1, <3>1, BatteryAssumption
    <3> QED
      BY <1>5, <3>1, <3>2 DEF Distinct
  <2> QED
    BY <2>1, RecallNothing DEF Holding
<1> QED
  BY <1>3, <1>4, <1>5

(* The record written over that of a slot is the one to remember after it. *)
LEMMA WrittenIsRemembered ==
  ASSUME StoreInv, NEW n \in Names, NEW o \in Observations[n], NEW s \in Slots
  PROVE  Written(slots[s], n, o) = Promise!Remembered(slots[s], n, o)
<1>1. slots[s].name # NoName <=> slots[s] # NoRecord
  BY BlankShape DEF StoreInv, SlotsInv, Blank
<1> QED
  BY <1>1 DEF Written, Promise!Remembered

LEMMA SameCardinality == \A S : Promise!Cardinality(S) = Cardinality(S)
  BY DEF Promise!Cardinality, Cardinality

LEMMA ObserveIsRemember ==
  ASSUME StoreInv, StoreInv',
         NEW n \in Names, NEW o \in Observations[n], RecordObservation(n, o)
  PROVE  Promise!Remember(n, o)
<1> DEFINE memory == [m \in Names |-> RecordOf(m)]
<1>1. PICK s \in Slots : Place(n, s) /\ slots' = [slots EXCEPT ![s] = Written(slots[s], n, o)]
  BY DEF RecordObservation
<1>2. now' = now
  BY DEF RecordObservation
<1> DEFINE w == Promise!Remembered(slots[s], n, o)
<1>3. w = Written(slots[s], n, o) /\ w.name = n
  BY WrittenIsRemembered, WrittenShape DEF StoreInv, SlotsInv
<1>4. \A m \in Names : RecordOf(m) = Recall(slots, m) /\ RecordOf(m)' = Recall(slots', m)
  BY DEF RecordOf, Stored, Recall, Holding
<1> HIDE DEF w
<1>a. /\ slots \in [Slots -> Shape] /\ Distinct(slots)
      /\ slots' \in [Slots -> Shape] /\ Distinct(slots')
  BY DEF StoreInv, SlotsInv
<1>b. /\ slots'[s] = w /\ slots'[s].name = n
      /\ \A t \in Slots \ {s} : slots'[t] = slots[t]
  BY <1>1, <1>3, <1>a
<1>c. /\ Recall(slots', n) = w
      /\ \A m \in Names : m # n /\ slots[s].name # m => Recall(slots', m) = Recall(slots, m)
      /\ \A m \in Names : m # n /\ slots[s].name = m => Recall(slots', m) = NoRecord
  BY <1>a, <1>b, WriteRecall
<1>5. /\ RecordOf(n)' = w
      /\ \A m \in Names : m # n /\ slots[s].name # m => RecordOf(m)' = RecordOf(m)
      /\ \A m \in Names : m # n /\ slots[s].name = m => RecordOf(m)' = NoRecord
  BY <1>4, <1>c
<1>6. Promise!Known = {m \in Names : Holding(slots, m)}
  BY <1>4, RecallKnown DEF Promise!Known, StoreInv, SlotsInv
<1>7. /\ Cardinality(Promise!Known) \in Nat
      /\ Cardinality(Promise!Known) <= Capacity
      /\ (Cardinality(Promise!Known) < Capacity) <=> \E t \in Slots : slots[t].name = NoName
  BY <1>6, KnownCount DEF StoreInv, SlotsInv
<1>8. CASE slots[s].name = n \/ slots[s].name = NoName
  <2>1. n \in Promise!Known \/ Cardinality(Promise!Known) < Capacity
    BY <1>6, <1>7, <1>8 DEF Holding
  <2>2. memory' = [memory EXCEPT ![n] = w]
    BY <1>5, <1>8, BatteryAssumption
  <2>3. memory[n] = slots[s]
    <3>1. CASE slots[s].name = n
      BY <1>4, <1>a, <3>1, RecallSlot, BatteryAssumption
    <3>2. CASE slots[s].name # n
      <4>1. slots[s] = NoRecord
        BY <1>8, <3>2 DEF StoreInv, SlotsInv, Blank
      <4>2. ~ Holding(slots, n)
        BY <1>1, <3>2, PlaceIsASlot DEF Holding
      <4> QED
        BY <1>4, <4>1, <4>2, RecallNothing
    <3> QED
      BY <3>1, <3>2
  <2>4. w = Promise!Remembered(memory[n], n, o)
    BY <2>3 DEF w
  <2> QED
    BY <1>2, <2>1, <2>2, <2>4, SameCardinality DEF Promise!Remember
<1>9. CASE slots[s].name # n /\ slots[s].name # NoName
  <2>1. /\ \A t \in Slots : slots[t].name # n /\ slots[t].name # NoName
        /\ \A t \in Slots : slots[s].seen <= slots[t].seen
    BY <1>1, <1>9, PlaceIsASlot
  <2>2. n \notin Promise!Known
    BY <1>6, <2>1 DEF Holding
  <2>3. Cardinality(Promise!Known) = Capacity
    BY <1>7, <2>1, BatteryAssumption
  <2>4. PICK old \in Names : old = slots[s].name
    BY <1>9 DEF StoreInv, SlotsInv, Shape
  <2>5. old \in Promise!Known /\ RecordOf(old) = slots[s]
    BY <1>4, <1>6, <1>9, <2>4, RecallSlot DEF Holding, StoreInv, SlotsInv
  <2>6. ASSUME NEW other \in Promise!Known
        PROVE  RecordOf(old).seen <= RecordOf(other).seen
    <3>1. other \in Names /\ Holding(slots, other)
      BY <1>6
    <3>2. PICK t \in Slots : slots[t].name = other
      BY <3>1 DEF Holding
    <3>3. RecordOf(other) = slots[t]
      BY <1>4, <2>1, <3>1, <3>2, RecallSlot DEF StoreInv, SlotsInv
    <3> QED
      BY <2>1, <2>5, <3>3
  <2>7. memory' = [memory EXCEPT ![old] = NoRecord, ![n] = w]
    BY <1>5, <1>9, <2>4
  <2>8. \A other \in Promise!Known : memory[old].seen <= memory[other].seen
    BY <2>6 DEF Promise!Known
  <2>9. w = Promise!Remembered(memory[old], n, o)
    BY <2>4, <2>5 DEF w
  <2> QED
    BY <1>2, <2>2, <2>3, <2>5, <2>7, <2>8, <2>9, SameCardinality DEF Promise!Remember
<1> QED
  BY <1>8, <1>9

-----------------------------------------------------------------------------
LEMMA InitIsInit == InitStore => Promise!Init
<1> SUFFICES ASSUME InitStore PROVE Promise!Init
  OBVIOUS
<1>1. \A n \in Names : RecordOf(n) = NoRecord
  BY BatteryAssumption, BlankShape DEF InitStore, RecordOf, Stored
<1> QED
  BY <1>1 DEF Promise!Init, InitStore

LEMMA StepIsStep ==
  ASSUME StoreInv, StoreInv', [NextStore]_storeVars
  PROVE  [Promise!Next]_<<[n \in Names |-> RecordOf(n)], now>>
<1>1. CASE Observe
  <2>1. PICK n \in Names : \E o \in Observations[n] : RecordObservation(n, o)
    BY <1>1 DEF Observe
  <2>2. PICK o \in Observations[n] : RecordObservation(n, o)
    BY <2>1
  <2>3. Promise!Remember(n, o)
    BY <2>2, ObserveIsRemember
  <2> QED
    BY <2>3 DEF Promise!Next
<1>2. CASE Tick
  <2>1. \A n \in Names : RecordOf(n)' = RecordOf(n)
    BY <1>2 DEF Tick, RecordOf, Stored
  <2>2. Promise!Pass
    BY <1>2, <2>1 DEF Tick, Promise!Pass
  <2> QED
    BY <2>2 DEF Promise!Next
<1>3. CASE ResetStore
  <2>1. \A n \in Names : RecordOf(n)' = NoRecord
    BY <1>3, BatteryAssumption, BlankShape DEF ResetStore, RecordOf, Stored
  <2>2. Promise!Forget
    BY <1>3, <2>1 DEF ResetStore, Promise!Forget
  <2> QED
    BY <2>2 DEF Promise!Next
<1>4. CASE UNCHANGED storeVars
  <2>1. \A n \in Names : RecordOf(n)' = RecordOf(n)
    BY <1>4 DEF storeVars, RecordOf, Stored
  <2> QED
    BY <1>4, <2>1 DEF storeVars
<1> QED
  BY <1>1, <1>2, <1>3, <1>4 DEF NextStore

(* The store implements its promise: it remembers by battery, and forgets  *)
(* only the batteries seen least recently (battery_store.cpp:24-93 and     *)
(* 136-166), for any numbers of batteries, alike or not, and of slots; the *)
(* cells it remembers of a battery are the last it reported, or those that *)
(* were remembered of the battery it displaced.                            *)
THEOREM StoreRemembers == StoreSpec => ImplementsMemory
<1>1. InitStore => Promise!Init
  BY InitIsInit
<1>2. StoreInv /\ StoreInv' /\ [NextStore]_storeVars
        => [Promise!Next]_<<[n \in Names |-> RecordOf(n)], now>>
  BY StepIsStep
<1> QED
  BY <1>1, <1>2, InvHolds, PTL DEF StoreSpec, ImplementsMemory, Promise!Spec

(* And so it does under the queries of banks, which only read the store.   *)
THEOREM BanksLeaveTheStore == Spec => ImplementsMemory
<1>1. Init => InitStore
  BY DEF Init
<1>2. [Next]_bankVars => [NextStore]_storeVars
  BY DEF Next, bankVars, storeVars, NextStore, CreateBank, RemoveBank, BeginQuery, ReadMember,
         Return, Scan, TimePasses, Reset
<1>3. Spec => StoreSpec
  BY <1>1, <1>2, PTL DEF Spec, StoreSpec
<1> QED
  BY <1>3, StoreRemembers
-----------------------------------------------------------------------------
(* TypeOK, with the shape of the variables it looks into: the members a    *)
(* query still has to read, and that the banks defined are finitely many.  *)
Shaped(q) ==
  /\ {"phase", "todo", "at", "state"} \subseteq DOMAIN q
  /\ q.phase \in Phases /\ q.todo \in Seq(Names)
  /\ q.phase = "reading" <=> q.todo # <<>>

BanksInv ==
  /\ banks \in [Banks -> Memberships \cup {<<>>}]
  /\ IsFiniteSet(Defined) /\ Cardinality(Defined) <= MaxBanks

QueriesInv ==
  /\ DOMAIN query = Readers
  /\ \A r \in Readers : Shaped(query[r])

BankInv ==
  /\ now \in 0..MaxTime
  /\ slots \in [Slots -> Records]
  /\ BanksInv
  /\ QueriesInv

(* A query is begun, ended or continued in this shape.                     *)
LEMMA ShapeOf ==
  ASSUME NEW p \in Phases, NEW ms \in Seq(Names), NEW at, NEW state, p = "reading" <=> ms # <<>>
  PROVE  Shaped([phase |-> p, todo |-> ms, at |-> at, state |-> state])
  BY DEF Shaped

LEMMA NoQueryShaped == Shaped(NoQuery)
<1>1. <<>> \in Seq(Names)
  OBVIOUS
<1>2. "idle" \in Phases /\ "idle" # "reading"
  BY DEF Phases
<1> QED
  BY <1>1, <1>2, ShapeOf DEF NoQuery

LEMMA QueryEnds ==
  ASSUME NEW q, Shaped(q), NEW new
  PROVE  Shaped([q EXCEPT !.phase = "done", !.todo = <<>>, !.state = new])
<1>1. <<>> \in Seq(Names)
  OBVIOUS
<1> QED
  BY <1>1 DEF Shaped, Phases

LEMMA QueryGoesOn ==
  ASSUME NEW q, Shaped(q), q.phase = "reading", Len(q.todo) # 1, NEW new
  PROVE  Shaped([q EXCEPT !.todo = Tail(q.todo), !.state = new])
<1>1. q.todo \in Seq(Names) /\ q.todo # <<>>
  BY DEF Shaped
<1>2. ASSUME NEW ms \in Seq(Names), ms # <<>>, Len(ms) # 1
      PROVE  Tail(ms) \in Seq(Names) /\ Tail(ms) # <<>>
  <2>1. Len(ms) \in Nat /\ Len(ms) # 0
    BY <1>2
  <2>2. Tail(ms) \in Seq(Names) /\ Len(Tail(ms)) = Len(ms) - 1
    BY <1>2
  <2>3. Len(Tail(ms)) # 0
    BY <1>2, <2>1, <2>2
  <2>4. Len(<<>>) = 0
    OBVIOUS
  <2> QED
    BY <2>2, <2>3, <2>4
<1>3. Tail(q.todo) \in Seq(Names) /\ Tail(q.todo) # <<>>
  BY <1>1, <1>2
<1> QED
  BY <1>1, <1>3 DEF Shaped

LEMMA BankInvIsEnough == BankInv => TypeOK
  BY DEF BankInv, BanksInv, QueriesInv, Shaped, TypeOK

LEMMA BlankIsARecord == NoRecord \in Records
<1>1. NoRecord \in [name : Names \cup {NoName}, basic : Basic, cells : Seq(Nat),
                    cellsAt : 0..MaxTime, seen : 0..MaxTime]
  BY BatteryAssumption DEF NoRecord, Basic
<1>2. NoRecord.cells = <<>>
  BY DEF NoRecord
<1> QED
  BY <1>1, <1>2 DEF Records

(* A slot holds a record again after an observation is written.            *)
LEMMA WrittenIsARecord ==
  ASSUME NEW n \in Names, NEW o \in Observations[n], NEW r \in Records, now \in 0..MaxTime
  PROVE  Written(r, n, o) \in Records
<1>1. /\ o.basic \in Basic /\ o.cells \in Seq(Nat)
      /\ o.cells # <<>> => Len(o.cells) = o.basic.count
  BY BatteryAssumption DEF Observation
<1>2. /\ r.cells \in Seq(Nat) /\ r.cellsAt \in 0..MaxTime
      /\ r.cells # <<>> => Len(r.cells) = r.basic.count
  BY DEF Records
<1>3. 0 \in 0..MaxTime /\ <<>> \in Seq(Nat)
  BY BatteryAssumption
<1> DEFINE w == Written(r, n, o)
<1>4. /\ w.cells \in Seq(Nat) /\ w.cellsAt \in 0..MaxTime
      /\ w.cells # <<>> => Len(w.cells) = w.basic.count
  BY <1>1, <1>2, <1>3 DEF Written
<1>5. w \in [name : Names \cup {NoName}, basic : Basic, cells : Seq(Nat),
             cellsAt : 0..MaxTime, seen : 0..MaxTime]
  BY <1>1, <1>4 DEF Written
<1> QED
  BY <1>4, <1>5 DEF Records

LEMMA InitBanks == Init => BankInv
<1> SUFFICES ASSUME Init PROVE BankInv
  OBVIOUS
<1>1. now \in 0..MaxTime /\ slots \in [Slots -> Records]
  BY BatteryAssumption, BlankIsARecord DEF Init, InitStore
<1>2. Defined = {}
  BY DEF Init, Defined
<1>3. BanksInv
  BY <1>2, FS_EmptySet, BankAssumption DEF Init, BanksInv
<1>4. QueriesInv
  BY NoQueryShaped DEF Init, QueriesInv
<1> QED
  BY <1>1, <1>3, <1>4 DEF BankInv

(* The bank list is full or has room for one more.                         *)
LEMMA CreateKeeps ==
  ASSUME BankInv, CreateBank
  PROVE  BanksInv'
<1>1. PICK b \in Banks, ms \in Memberships :
        /\ b \in Defined \/ Cardinality(Defined) < MaxBanks
        /\ banks' = [banks EXCEPT ![b] = ms]
  BY DEF CreateBank
<1>2. banks' \in [Banks -> Memberships \cup {<<>>}]
  BY <1>1 DEF BankInv, BanksInv
<1>3. Defined' = Defined \cup {b}
  BY <1>1, BankAssumption DEF BankInv, BanksInv, Defined
<1>4. IsFiniteSet(Defined) /\ Cardinality(Defined) \in Nat /\ Cardinality(Defined) <= MaxBanks
  BY FS_CardinalityType DEF BankInv, BanksInv
<1>5. CASE b \in Defined
  <2>1. Defined' = Defined
    BY <1>3, <1>5
  <2> QED
    BY <1>2, <1>4, <2>1 DEF BanksInv
<1>6. CASE b \notin Defined
  <2>1. IsFiniteSet(Defined \cup {b}) /\ Cardinality(Defined \cup {b}) = Cardinality(Defined) + 1
    BY <1>4, <1>6, FS_AddElement
  <2>2. Cardinality(Defined) < MaxBanks
    BY <1>1, <1>6
  <2>3. IsFiniteSet(Defined') /\ Cardinality(Defined') <= MaxBanks
    BY <1>3, <1>4, <2>1, <2>2, BankAssumption
  <2> QED
    BY <1>2, <2>3 DEF BanksInv
<1> QED
  BY <1>5, <1>6

LEMMA RemoveKeeps ==
  ASSUME BankInv, RemoveBank
  PROVE  BanksInv'
<1>1. PICK b \in Defined : banks' = [banks EXCEPT ![b] = <<>>]
  BY DEF RemoveBank
<1>2. banks' \in [Banks -> Memberships \cup {<<>>}]
  BY <1>1 DEF BankInv, BanksInv, Defined
<1>3. Defined' \subseteq Defined
  BY <1>1 DEF BankInv, BanksInv, Defined
<1>4. IsFiniteSet(Defined) /\ Cardinality(Defined) <= MaxBanks
  BY DEF BankInv, BanksInv
<1>5. IsFiniteSet(Defined') /\ Cardinality(Defined') <= Cardinality(Defined)
  BY <1>3, <1>4, FS_Subset
<1>6. Cardinality(Defined) \in Nat /\ Cardinality(Defined') \in Nat
  BY <1>4, <1>5, FS_CardinalityType
<1> QED
  BY <1>2, <1>4, <1>5, <1>6, BankAssumption DEF BanksInv

(* The store's part of a step.                                             *)
LEMMA StoreKeeps ==
  ASSUME now \in 0..MaxTime, slots \in [Slots -> Records], [NextStore]_storeVars
  PROVE  now' \in 0..MaxTime /\ slots' \in [Slots -> Records]
<1>1. CASE Observe
  <2>1. PICK n \in Names : \E o \in Observations[n] : RecordObservation(n, o)
    BY <1>1 DEF Observe
  <2>2. PICK o \in Observations[n] : RecordObservation(n, o)
    BY <2>1
  <2>3. PICK s \in Slots : slots' = [slots EXCEPT ![s] = Written(slots[s], n, o)]
    BY <2>2 DEF RecordObservation
  <2>4. Written(slots[s], n, o) \in Records
    BY WrittenIsARecord
  <2>5. now' = now
    BY <2>2 DEF RecordObservation
  <2> QED
    BY <2>3, <2>4, <2>5
<1>2. CASE Tick
  BY <1>2, BatteryAssumption DEF Tick
<1>3. CASE ResetStore
  BY <1>3, BlankIsARecord, BatteryAssumption DEF ResetStore
<1>4. CASE UNCHANGED storeVars
  BY <1>4 DEF storeVars
<1> QED
  BY <1>1, <1>2, <1>3, <1>4 DEF NextStore

(* A query begins with the members of a bank, and each read takes one off. *)
LEMMA QueriesKeep ==
  ASSUME BankInv, NEW r \in Readers, BeginQuery(r) \/ ReadMember(r) \/ Return(r)
  PROVE  QueriesInv'
<1>1. SUFFICES ASSUME NEW q, query' = [query EXCEPT ![r] = q], Shaped(q)
               PROVE  QueriesInv'
  <2>1. CASE BeginQuery(r)
    <3>1. PICK b \in Defined :
            query' = [query EXCEPT ![r] = [phase |-> "reading", todo |-> banks[b], at |-> now, state |-> Computed]]
      BY <2>1 DEF BeginQuery
    <3>2. banks[b] \in Seq(Names) /\ banks[b] # <<>>
      BY BankAssumption DEF BankInv, BanksInv, Defined
    <3>3. Shaped([phase |-> "reading", todo |-> banks[b], at |-> now, state |-> Computed])
      BY <3>2 DEF Shaped, Phases
    <3> QED
      BY <1>1, <3>1, <3>3
  <2>2. CASE ReadMember(r)
    <3> DEFINE state == AddMember(query[r].state, RecordOf(Head(query[r].todo)), query[r].at)
               last == Finished(state)
    <3>1. query[r].phase = "reading" /\ Shaped(query[r])
      BY <2>2 DEF ReadMember, BankInv, QueriesInv
    <3>2. \/ query' = [query EXCEPT ![r] = [query[r] EXCEPT !.phase = "done", !.todo = <<>>, !.state = NotReady]]
          \/ query' = [query EXCEPT ![r] = [query[r] EXCEPT !.phase = "done", !.todo = <<>>, !.state = last]]
          \/ /\ Len(query[r].todo) # 1
             /\ query' = [query EXCEPT ![r] = [query[r] EXCEPT !.todo = Tail(query[r].todo), !.state = state]]
      BY <2>2 DEF ReadMember
    <3> HIDE DEF state, last
    <3> QED
      BY <1>1, <3>1, <3>2, QueryEnds, QueryGoesOn
  <2>3. CASE Return(r)
    <3>1. query' = [query EXCEPT ![r] = NoQuery]
      BY <2>3 DEF Return
    <3> QED
      BY <1>1, <3>1, NoQueryShaped
  <2> QED
    BY <2>1, <2>2, <2>3
<1>2. \A other \in Readers : query'[other] = IF other = r THEN q ELSE query[other]
  BY <1>1 DEF BankInv, QueriesInv
<1> QED
  BY <1>1, <1>2 DEF BankInv, QueriesInv

LEMMA NextBanks == BankInv /\ [Next]_bankVars => BankInv'
<1> SUFFICES ASSUME BankInv, [Next]_bankVars
             PROVE  BankInv'
  OBVIOUS
<1>1. now' \in 0..MaxTime /\ slots' \in [Slots -> Records]
  <2>1. [NextStore]_storeVars
    BY DEF Next, bankVars, storeVars, NextStore, CreateBank, RemoveBank, BeginQuery, ReadMember,
           Return, Scan, TimePasses, Reset
  <2> QED
    BY <2>1, StoreKeeps DEF BankInv
<1>2. BanksInv'
  <2>1. CASE CreateBank
    BY <2>1, CreateKeeps
  <2>2. CASE RemoveBank
    BY <2>2, RemoveKeeps
  <2>3. CASE banks' = banks
    BY <2>3 DEF BankInv, BanksInv, Defined
  <2> QED
    BY <2>1, <2>2, <2>3 DEF Next, bankVars, BeginQuery, ReadMember, Return, Scan, TimePasses, Reset
<1>3. QueriesInv'
  <2>1. CASE \E r \in Readers : BeginQuery(r) \/ ReadMember(r) \/ Return(r)
    BY <2>1, QueriesKeep
  <2>2. CASE Reset
    BY <2>2, NoQueryShaped DEF Reset, QueriesInv
  <2>3. CASE query' = query
    BY <2>3 DEF BankInv, QueriesInv
  <2> QED
    BY <2>1, <2>2, <2>3 DEF Next, bankVars, CreateBank, RemoveBank, Scan, TimePasses
<1> QED
  BY <1>1, <1>2, <1>3 DEF BankInv

(* Every slot holds a record with as many cells as the battery says it has,*)
(* through evictions and retained cells, and the bank list never outgrows  *)
(* its limit (battery_store.cpp:24-93, battery_bank.cpp:183-222).          *)
THEOREM BankTypeCorrect == Spec => []TypeOK
  BY InitBanks, NextBanks, BankInvIsEnough, PTL DEF Spec

-----------------------------------------------------------------------------
(* What makes it inductive: what a query has computed is the state of the  *)
(* members it has read, of records that were held, and each member that is *)
(* still to be read is held with what the store holds of it now.           *)
BankStates ==
  [ready : {TRUE}, volts : Int, amps : Int, soc : 0..100, alarms : SUBSET Alarms,
   cellData : BOOLEAN, lowest : [mv : Nat, battery : Names \cup {NoName}], cellAge : Nat,
   first : BOOLEAN]

Collected(state, f, at) ==
  LET ns == DOMAIN f
      volts == [n \in ns |-> f[n].basic.volts]
  IN
  /\ state \in BankStates
  /\ state.first <=> ns = {}
  /\ state.volts = Total(volts, ns)
  /\ \A n \in ns : f[n].basic.amps <= state.amps /\ state.soc <= f[n].basic.soc
  /\ IF ns = {} THEN state.soc = 100 ELSE /\ \E n \in ns : f[n].basic.amps = state.amps
                                          /\ \E n \in ns : f[n].basic.soc = state.soc
  /\ state.alarms = UNION {f[n].basic.alarms : n \in ns}
  /\ state.cellData <=> \A n \in ns : f[n].cells # <<>>
  /\ state.cellData => /\ \A n \in ns : /\ state.lowest.mv <= LowestCell(f[n]).mv
                                        /\ CellAge(f[n], at) <= state.cellAge
                       /\ IF ns = {} THEN state.lowest = NoCell /\ state.cellAge = 0
                          ELSE /\ state.lowest.battery \in ns
                               /\ state.lowest.mv = LowestCell(f[state.lowest.battery]).mv
                               /\ \E n \in ns : CellAge(f[n], at) = state.cellAge

Unread(todo) == {todo[i] : i \in DOMAIN todo}

HeldTyped(h) ==
  /\ IsFiniteSet(DOMAIN h) /\ DOMAIN h \subseteq Names
  /\ \A n \in DOMAIN h : \A x \in h[n] : x \in Records /\ (x # NoRecord => x.name = n)

(* A record that was held of each member in ns.                            *)
HeldRecords(h, ns) ==
  {f \in [ns -> UNION {h[n] : n \in ns}] : \A n \in ns : f[n] \in h[n] \ {NoRecord}}

(* A query in progress, and one that is done, against what was held.       *)
ReadsHeld(q, h) ==
  q.phase = "reading" =>
    LET read == DOMAIN h \ Unread(q.todo) IN
    /\ q.at \in 0..MaxTime
    /\ \A i, j \in DOMAIN q.todo : q.todo[i] = q.todo[j] => i = j
    /\ Unread(q.todo) \subseteq DOMAIN h
    /\ \E f \in HeldRecords(h, read) : Collected(q.state, f, q.at)

AnswersHeld(q, h) ==
  q.phase = "done" =>
    IF q.state.ready
      THEN \E f \in HeldRecords(h, DOMAIN h) : Describes(q.state, f, q.at)
      ELSE \E n \in DOMAIN h : NoRecord \in h[n]

QueryHeld(q, h) == HeldTyped(h) /\ ReadsHeld(q, h) /\ AnswersHeld(q, h)

AnswersInv ==
  /\ held = [r \in Readers |-> held[r]]
  /\ \A r \in Readers : /\ QueryHeld(query[r], held[r])
                        /\ \A n \in Unread(query[r].todo) : RecordOf(n) \in held[r][n]

(* Totals.  What holds of a set when it holds of it less any one element   *)
(* holds of every finite set: there would be a smallest for which it fails.*)
LEMMA ByRemoving ==
  ASSUME NEW S, IsFiniteSet(S), NEW Good \in SUBSET (SUBSET S),
         \A s \in SUBSET S : (\A x \in s : s \ {x} \in Good) => s \in Good
  PROVE  Good = SUBSET S
<1> DEFINE Sizes == {Cardinality(s) : s \in (SUBSET S) \ Good}
           R == {p \in Nat \X Nat : p[1] < p[2]}
<1>1. ASSUME NEW s \in SUBSET S
      PROVE  IsFiniteSet(s) /\ Cardinality(s) \in Nat
  <2>1. IsFiniteSet(s)
    BY FS_Subset, Zenon
  <2>2. QED
    BY <2>1, FS_CardinalityType, Zenon
<1>2. Sizes \subseteq Nat
  BY <1>1
<1>3. IsWellFoundedOn(R, Nat)
  BY NatLessThanWellFounded DEF OpToRel
<1> SUFFICES ASSUME (SUBSET S) \ Good # {} PROVE FALSE
  OBVIOUS
<1>4. Sizes # {}
  OBVIOUS
<1> HIDE DEF R
<1>5. \E i \in Sizes : \A j \in Sizes : ~(<<j, i>> \in R)
  <2> HIDE DEF Sizes
  <2>1. QED
    BY <1>2, <1>3, <1>4, WFMin, Zenon
<1>6. PICK s \in (SUBSET S) \ Good : \A t \in (SUBSET S) \ Good : ~(<<Cardinality(t), Cardinality(s)>> \in R)
  BY <1>5
<1>7. ASSUME NEW x \in s PROVE s \ {x} \in Good
  <2>1. s \ {x} \in SUBSET S
    OBVIOUS
  <2>2. Cardinality(s \ {x}) = Cardinality(s) - 1
    <3>1. IsFiniteSet(s)
      BY <1>1
    <3>2. QED
      BY <1>7, <3>1, FS_RemoveElement, Zenon
  <2>3. Cardinality(s \ {x}) < Cardinality(s)
    BY <1>1, <2>1, <2>2
  <2>4. <<Cardinality(s \ {x}), Cardinality(s)>> \in R
    BY <1>1, <2>1, <2>3 DEF R
  <2>5. QED
    BY <1>6, <2>1, <2>4
<1>8. s \in SUBSET S /\ s \notin Good
  BY <1>6
<1>9. QED
  BY <1>7, <1>8, Zenon

(* The fold takes one element after the other, in an order of its own.     *)
OneOf(s) == CHOOSE x \in s : TRUE

Sums(g, v, S) ==
  g = [s \in SUBSET S |-> IF s = {} THEN 0 ELSE v[OneOf(s)] + g[s \ {OneOf(s)}]]

LEMMA OneIsIn == \A s : s # {} => OneOf(s) \in s
  BY DEF OneOf

LEMMA TotalIsFolded ==
  ASSUME NEW v, NEW S
  PROVE  Total(v, S) = (CHOOSE g : Sums(g, v, S))[S]
  BY DEF Total, MapThenSumSet, MapThenFoldSet, Sums, OneOf

(* The sums of the subsets are unique...                                   *)
LEMMA SumsAgree ==
  ASSUME NEW A, NEW B, IsFiniteSet(A), NEW f, NEW g, NEW v, NEW w,
         Sums(f, v, A), Sums(g, w, B), \A x \in A \cap B : v[x] = w[x]
  PROVE  \A s \in SUBSET (A \cap B) : f[s] = g[s]
<1> DEFINE S == A \cap B
           Good == {s \in SUBSET S : f[s] = g[s]}
<1>1. IsFiniteSet(S)
  <2>1. S \in SUBSET A
    OBVIOUS
  <2>2. QED
    BY <2>1, FS_Subset, Zenon
<1>2. ASSUME NEW s \in SUBSET S, \A x \in s : s \ {x} \in Good
      PROVE  s \in Good
  <2>1. s \in SUBSET A /\ s \in SUBSET B
    OBVIOUS
  <2>2. /\ f[s] = IF s = {} THEN 0 ELSE v[OneOf(s)] + f[s \ {OneOf(s)}]
        /\ g[s] = IF s = {} THEN 0 ELSE w[OneOf(s)] + g[s \ {OneOf(s)}]
    BY <2>1, Zenon DEF Sums
  <2>3. CASE s = {}
    BY <2>2, <2>3
  <2>4. CASE s # {}
    <3>1. OneOf(s) \in s
      BY <2>4, OneIsIn
    <3>2. f[s \ {OneOf(s)}] = g[s \ {OneOf(s)}] /\ v[OneOf(s)] = w[OneOf(s)]
      BY <1>2, <3>1
    <3>3. QED
      BY <2>2, <2>4, <3>2
  <2>5. QED
    BY <2>3, <2>4
<1> HIDE DEF S
<1>3. Good = SUBSET S
  <2> DEFINE G == Good
  <2>1. G \in SUBSET (SUBSET S)
    OBVIOUS
  <2>2. \A s \in SUBSET S : (\A x \in s : s \ {x} \in G) => s \in G
    BY <1>2
  <2> HIDE DEF G
  <2>3. G = SUBSET S
    BY <1>1, <2>1, <2>2, ByRemoving
  <2>4. QED
    BY <2>3 DEF G
<1>4. QED
  BY <1>3 DEF S

(* ... and exist.                                                          *)
LEMMA SumsExist ==
  ASSUME NEW S, IsFiniteSet(S), NEW v
  PROVE  \E g : Sums(g, v, S)
<1> DEFINE Good == {T \in SUBSET S : \E g : Sums(g, v, T)}
<1>1. ASSUME NEW T \in SUBSET S, \A x \in T : T \ {x} \in Good
      PROVE  T \in Good
  <2> DEFINE h == [x \in T |-> CHOOSE g : Sums(g, v, T \ {x})]
             g == [s \in SUBSET T |-> IF s = {} THEN 0 ELSE v[OneOf(s)] + h[OneOf(s)][s \ {OneOf(s)}]]
  <2>1. \A x \in T : Sums(h[x], v, T \ {x})
    <3>1. \A x \in T : \E k : Sums(k, v, T \ {x})
      BY <1>1
    <3>2. QED
      BY <3>1
  <2>2. ASSUME NEW x \in T PROVE IsFiniteSet(T \ {x})
    <3>1. T \ {x} \in SUBSET S
      OBVIOUS
    <3>2. QED
      BY <3>1, FS_Subset, Zenon
  <2> HIDE DEF h
  <2>3. ASSUME NEW s \in SUBSET T, s # {}
        PROVE  g[s] = v[OneOf(s)] + g[s \ {OneOf(s)}]
    <3> DEFINE p == OneOf(s)
               u == s \ {p}
               q == OneOf(u)
    <3>1. p \in s /\ p \in T /\ u \in SUBSET T /\ u \in SUBSET (T \ {p})
      BY <2>3, OneIsIn
    <3>2. g[s] = v[p] + h[p][u]
      BY <2>3
    <3>3. g[u] = IF u = {} THEN 0 ELSE v[q] + h[q][u \ {q}]
      BY <3>1
    <3>4. h[p][u] = IF u = {} THEN 0 ELSE v[q] + h[p][u \ {q}]
      BY <2>1, <3>1, Zenon DEF Sums
    <3>5. u # {} => h[q][u \ {q}] = h[p][u \ {q}]
      <4> SUFFICES ASSUME u # {} PROVE h[q][u \ {q}] = h[p][u \ {q}]
        OBVIOUS
      <4>1. q \in u /\ q \in T
        BY <3>1, OneIsIn
      <4>2. Sums(h[q], v, T \ {q}) /\ Sums(h[p], v, T \ {p})
        BY <2>1, <3>1, <4>1
      <4>3. u \ {q} \in SUBSET ((T \ {q}) \cap (T \ {p}))
        BY <3>1
      <4> HIDE DEF u, q, p
      <4>4. IsFiniteSet(T \ {q})
        BY <2>2, <4>1
      <4> DEFINE A == T \ {q}
                 B == T \ {p}
                 f == h[q]
                 k == h[p]
                 w == u \ {q}
      <4>5. IsFiniteSet(A) /\ Sums(f, v, A) /\ Sums(k, v, B) /\ w \in SUBSET (A \cap B)
        BY <4>2, <4>3, <4>4
      <4> HIDE DEF A, B, f, k, w
      <4>6. f[w] = k[w]
        BY <4>5, SumsAgree
      <4>7. QED
        BY <4>6 DEF f, k, w
    <3> HIDE DEF u, q, p, g
    <3>6. g[s] = v[p] + g[u]
      BY <3>2, <3>3, <3>4, <3>5
    <3>7. QED
      BY <3>6 DEF u, p
  <2>4. Sums(g, v, T)
    <3>1. g = [s \in SUBSET T |-> g[s]] /\ g[{}] = 0
      OBVIOUS
    <3> HIDE DEF g
    <3>2. \A s \in SUBSET T : g[s] = IF s = {} THEN 0 ELSE v[OneOf(s)] + g[s \ {OneOf(s)}]
      BY <2>3, <3>1
    <3>3. QED
      BY <3>1, <3>2 DEF Sums
  <2> HIDE DEF g
  <2>5. QED
    BY <2>4
<1>2. Good = SUBSET S
  <2> DEFINE G == Good
  <2>1. G \in SUBSET (SUBSET S)
    OBVIOUS
  <2>2. \A s \in SUBSET S : (\A x \in s : s \ {x} \in G) => s \in G
    BY <1>1
  <2> HIDE DEF G
  <2>3. G = SUBSET S
    BY <2>1, <2>2, ByRemoving
  <2>4. QED
    BY <2>3 DEF G
<1>3. QED
  BY <1>2

(* Sums of integers are integers...                                        *)
LEMMA SumsAreIntegers ==
  ASSUME NEW S, IsFiniteSet(S), NEW v, \A x \in S : v[x] \in Int, NEW g, Sums(g, v, S)
  PROVE  \A s \in SUBSET S : g[s] \in Int
<1> DEFINE Good == {s \in SUBSET S : g[s] \in Int}
<1>1. \A s \in SUBSET S : g[s] = IF s = {} THEN 0 ELSE v[OneOf(s)] + g[s \ {OneOf(s)}]
  BY Zenon DEF Sums
<1>2. ASSUME NEW s \in SUBSET S, \A x \in s : s \ {x} \in Good
      PROVE  s \in Good
  <2>1. CASE s = {}
    BY <1>1, <2>1
  <2>2. CASE s # {}
    <3> DEFINE c == OneOf(s)
    <3>1. c \in s
      BY <2>2, OneIsIn
    <3>2. g[s] = v[c] + g[s \ {c}]
      BY <1>1, <2>2
    <3> HIDE DEF c
    <3>3. QED
      BY <1>2, <3>1, <3>2
  <2>3. QED
    BY <2>1, <2>2
<1>3. Good \in SUBSET (SUBSET S)
  OBVIOUS
<1>4. \A s \in SUBSET S : (\A x \in s : s \ {x} \in Good) => s \in Good
  BY <1>2
<1> HIDE DEF Good
<1>5. Good = SUBSET S
  BY <1>3, <1>4, ByRemoving
<1>6. QED
  BY <1>5 DEF Good

(* ... in which any element can be taken first.                            *)
LEMMA AnyFirst ==
  ASSUME NEW S, IsFiniteSet(S), NEW v, \A x \in S : v[x] \in Int, NEW g, Sums(g, v, S)
  PROVE  \A s \in SUBSET S : \A x \in s : g[s] = v[x] + g[s \ {x}]
<1> DEFINE Good == {s \in SUBSET S : \A x \in s : g[s] = v[x] + g[s \ {x}]}
<1>1. \A s \in SUBSET S : g[s] = IF s = {} THEN 0 ELSE v[OneOf(s)] + g[s \ {OneOf(s)}]
  BY Zenon DEF Sums
<1>i. \A s \in SUBSET S : g[s] \in Int
  BY SumsAreIntegers
<1>2. ASSUME NEW s \in SUBSET S, \A x \in s : s \ {x} \in Good
      PROVE  s \in Good
  <2> SUFFICES ASSUME NEW x \in s PROVE g[s] = v[x] + g[s \ {x}]
    OBVIOUS
  <2> DEFINE c == OneOf(s)
  <2>1. c \in s
    BY OneIsIn
  <2>2. g[s] = v[c] + g[s \ {c}]
    BY <1>1
  <2> HIDE DEF c
  <2>3. CASE x = c
    BY <2>2, <2>3
  <2>4. CASE x # c
    <3> DEFINE w == (s \ {c}) \ {x}
    <3>1. g[s \ {c}] = v[x] + g[w]
      BY <1>2, <2>1, <2>4
    <3>2. g[s \ {x}] = v[c] + g[(s \ {x}) \ {c}]
      BY <1>2, <2>1, <2>4
    <3>3. w = (s \ {x}) \ {c} /\ w \in SUBSET S
      OBVIOUS
    <3> HIDE DEF w
    <3>4. g[w] \in Int /\ v[x] \in Int /\ v[c] \in Int
      BY <1>i, <2>1, <3>3
    <3>5. g[s \ {x}] = v[c] + g[w] /\ g[s] = v[c] + (v[x] + g[w])
      BY <2>2, <3>1, <3>2, <3>3
    <3>6. QED
      BY <3>4, <3>5
  <2>5. QED
    BY <2>3, <2>4
<1>3. Good \in SUBSET (SUBSET S)
  OBVIOUS
<1>4. \A s \in SUBSET S : (\A x \in s : s \ {x} \in Good) => s \in Good
  BY <1>2
<1> HIDE DEF Good
<1>5. Good = SUBSET S
  BY <1>3, <1>4, ByRemoving
<1>6. QED
  BY <1>5 DEF Good

(* The total of no members, and of one more member.                        *)
LEMMA TotalOfNone ==
  ASSUME NEW v
  PROVE  Total(v, {}) = 0
<1> DEFINE g == CHOOSE k : Sums(k, v, {})
<1>1. Sums(g, v, {})
  BY SumsExist, FS_EmptySet
<1> HIDE DEF g
<1>2. g[{}] = 0
  BY <1>1 DEF Sums
<1>3. QED
  BY <1>2, TotalIsFolded DEF g

LEMMA TotalOfOneMore ==
  ASSUME NEW S, IsFiniteSet(S), NEW n, n \notin S, NEW v, NEW w,
         \A x \in S : v[x] \in Int /\ w[x] = v[x], w[n] \in Int
  PROVE  Total(w, S \cup {n}) = Total(v, S) + w[n] /\ Total(v, S) \in Int
<1> DEFINE T == S \cup {n}
           g == CHOOSE k : Sums(k, v, S)
           h == CHOOSE k : Sums(k, w, T)
<1>1. IsFiniteSet(T) /\ S \in SUBSET T /\ n \in T /\ T \ {n} = S /\ S \in SUBSET S
  BY FS_AddElement
<1>2. \A x \in T : w[x] \in Int
  OBVIOUS
<1>3. Total(v, S) = g[S] /\ Total(w, T) = h[T]
  BY TotalIsFolded
<1>4. (\E k : Sums(k, v, S)) /\ \E k : Sums(k, w, T)
  <2> HIDE DEF T
  <2>1. QED
    BY <1>1, SumsExist
<1>5. Sums(g, v, S) /\ Sums(h, w, T)
  BY <1>4
<1>6. S \in SUBSET (S \cap T) /\ \A x \in S \cap T : v[x] = w[x]
  OBVIOUS
<1> HIDE DEF T, g, h
<1>7. g[S] = h[S]
  BY <1>5, <1>6, SumsAgree
<1>8. h[T] = w[n] + h[T \ {n}]
  BY <1>1, <1>2, <1>5, AnyFirst
<1>9. g[S] \in Int
  BY <1>1, <1>5, SumsAreIntegers
<1>10. h[T] = w[n] + g[S] /\ h[T] = g[S] + w[n]
  <2>1. h[T] = w[n] + h[S]
    BY <1>1, <1>8, Zenon
  <2>2. h[T] = w[n] + g[S]
    BY <1>7, <2>1
  <2>3. QED
    BY <1>9, <2>2
<1>11. QED
  BY <1>3, <1>9, <1>10 DEF T

-----------------------------------------------------------------------------
(* Extremes are what they are bounds of.                                   *)
LEMMA GreatestIs ==
  ASSUME NEW S \in SUBSET Int, NEW x \in S, \A y \in S : y <= x
  PROVE  Greatest(S) = x
<1>1. \A z \in S : (\A y \in S : y <= z) => z = x
  OBVIOUS
<1>2. QED
  BY <1>1 DEF Greatest

LEMMA LeastIs ==
  ASSUME NEW S \in SUBSET Int, NEW x \in S, \A y \in S : x <= y
  PROVE  Least(S) = x
<1>1. \A z \in S : (\A y \in S : z <= y) => z = x
  OBVIOUS
<1>2. QED
  BY <1>1 DEF Least

(* A set of natural numbers has a least element, and so do the cells of a  *)
(* record.                                                                 *)
LEMMA LeastOf ==
  ASSUME NEW S \in SUBSET Nat, S # {}
  PROVE  \E i \in S : \A j \in S : i <= j
<1> DEFINE R == {p \in Nat \X Nat : p[1] < p[2]}
<1>1. IsWellFoundedOn(R, Nat)
  BY NatLessThanWellFounded DEF OpToRel
<1> HIDE DEF R
<1>2. PICK i \in S : \A j \in S : ~(<<j, i>> \in R)
  BY <1>1, WFMin, Zenon
<1>3. \A j \in S : ~(j < i)
  BY <1>2 DEF R
<1>4. QED
  BY <1>3

LEMMA LowestIsANumber ==
  ASSUME NEW x \in Records, x.cells # <<>>
  PROVE  LowestCell(x).mv \in Nat /\ LowestCell(x).battery = x.name
<1> DEFINE S == {x.cells[i] : i \in DOMAIN x.cells}
<1>1. x.cells \in Seq(Nat) /\ x.cells # <<>>
  BY DEF Records
<1>2. S \in SUBSET Nat /\ S # {}
  <2>1. ASSUME NEW c \in Seq(Nat), c # <<>>
        PROVE  {c[i] : i \in DOMAIN c} \in SUBSET Nat /\ {c[i] : i \in DOMAIN c} # {}
    <3>1. 1 \in DOMAIN c /\ \A i \in DOMAIN c : c[i] \in Nat
      BY <2>1
    <3>2. QED
      BY <3>1
  <2>2. QED
    BY <1>1, <2>1
<1>3. \E mv \in S : \A y \in S : mv <= y
  <2> HIDE DEF S
  <2>1. QED
    BY <1>2, LeastOf
<1>4. \E mv \in S : \A i \in DOMAIN x.cells : mv <= x.cells[i]
  BY <1>3
<1>5. (CHOOSE mv \in S : \A i \in DOMAIN x.cells : mv <= x.cells[i]) \in Nat
  BY <1>2, <1>4
<1>6. QED
  BY <1>5 DEF LowestCell

LEMMA AgeIsANumber ==
  ASSUME NEW x \in Records, NEW at \in 0..MaxTime
  PROVE  CellAge(x, at) \in Nat
<1>1. x.cellsAt \in 0..MaxTime /\ MaxTime \in Nat
  BY BatteryAssumption DEF Records
<1>2. QED
  BY <1>1 DEF CellAge

(* What the state of a bank is before the first member is read, what one   *)
(* more member makes of it, and what is shown after the last.              *)
LEMMA NothingCollected ==
  ASSUME NEW f, DOMAIN f = {}, NEW at
  PROVE  Collected(Computed, f, at)
<1>1. Computed \in BankStates
  BY DEF Computed, BankStates, NoCell
<1>2. Total([n \in {} |-> f[n].basic.volts], {}) = 0
  BY TotalOfNone
<1>3. QED
  BY <1>1, <1>2 DEF Collected, Computed

(* One member more raises the alarms it has.                               *)
LEMMA UnionOfOneMore ==
  ASSUME NEW ns, NEW n, NEW a, NEW b, \A m \in ns : b[m] = a[m]
  PROVE  UNION {b[m] : m \in ns \cup {n}} = (UNION {a[m] : m \in ns}) \cup b[n]
<1>1. ASSUME NEW y, NEW m \in ns \cup {n}, y \in b[m]
      PROVE  y \in (UNION {a[k] : k \in ns}) \cup b[n]
  BY <1>1
<1>2. ASSUME NEW y, NEW m \in ns, y \in a[m]
      PROVE  y \in UNION {b[k] : k \in ns \cup {n}}
  BY <1>2
<1>3. ASSUME NEW y, y \in b[n]
      PROVE  y \in UNION {b[k] : k \in ns \cup {n}}
  BY <1>3
<1>4. QED
  BY <1>1, <1>2, <1>3

LEMMA OneMoreCollected ==
  ASSUME NEW ns, IsFiniteSet(ns), NEW n \in Names, n \notin ns,
         NEW f, DOMAIN f = ns, \A m \in ns : f[m] \in Records /\ f[m].name = m, ns \subseteq Names,
         NEW x \in Records, x.name = n, NEW at \in 0..MaxTime,
         NEW state, Collected(state, f, at),
         NEW g, g = [m \in ns \cup {n} |-> IF m = n THEN x ELSE f[m]]
  PROVE  Collected(AddMember(state, x, at), g, at)
<1> DEFINE new == AddMember(state, x, at)
           base == [state EXCEPT !.volts = @ + x.basic.volts,
                                 !.amps = IF state.first \/ x.basic.amps > @ THEN x.basic.amps ELSE @,
                                 !.soc = IF x.basic.soc < @ THEN x.basic.soc ELSE @,
                                 !.alarms = @ \cup x.basic.alarms,
                                 !.first = FALSE]
           old == [m \in ns |-> f[m].basic.volts]
           volts == [m \in ns \cup {n} |-> g[m].basic.volts]
<1>x. x.basic \in Basic /\ x.basic.volts \in Int /\ x.basic.amps \in Int /\ x.basic.soc \in 0..100
      /\ x.basic.alarms \in SUBSET Alarms /\ x.cells \in Seq(Nat)
  BY DEF Records, Basic
<1>f. \A m \in ns : /\ f[m].basic.volts \in Int /\ f[m].basic.amps \in Int /\ f[m].basic.soc \in Int
  <2> TAKE m \in ns
  <2>1. f[m].basic \in Basic
    BY DEF Records
  <2>2. QED
    BY <2>1 DEF Basic
<1>g. /\ DOMAIN g = ns \cup {n} /\ g[n] = x /\ \A m \in ns : g[m] = f[m]
      /\ ns \cup {n} # {}
  OBVIOUS
<1>s. /\ state \in BankStates /\ (state.first <=> ns = {}) /\ state.volts = Total(old, ns)
      /\ \A m \in ns : f[m].basic.amps <= state.amps /\ state.soc <= f[m].basic.soc
      /\ ns = {} => state.soc = 100
      /\ ns # {} => (\E m \in ns : f[m].basic.amps = state.amps) /\ (\E m \in ns : f[m].basic.soc = state.soc)
      /\ state.alarms = UNION {f[m].basic.alarms : m \in ns}
      /\ state.cellData <=> \A m \in ns : f[m].cells # <<>>
  BY DEF Collected
<1>v. state.soc \in 0..100 /\ (ns = {} => state.soc = 100) /\ \A m \in ns : state.soc <= f[m].basic.soc
  BY <1>s DEF BankStates
<1>w. ns # {} => \E m \in ns : f[m].basic.soc = state.soc
  BY <1>s
<1>a. state.alarms = UNION {f[m].basic.alarms : m \in ns}
  BY <1>s
<1>c. ASSUME state.cellData
      PROVE  /\ \A m \in ns : state.lowest.mv <= LowestCell(f[m]).mv /\ CellAge(f[m], at) <= state.cellAge
             /\ ns = {} => state.lowest = NoCell /\ state.cellAge = 0
             /\ ns # {} => /\ state.lowest.battery \in ns
                           /\ state.lowest.mv = LowestCell(f[state.lowest.battery]).mv
                           /\ \E m \in ns : CellAge(f[m], at) = state.cellAge
  BY <1>c DEF Collected
<1>t. /\ state.ready = TRUE /\ state.volts \in Int /\ state.amps \in Int /\ state.soc \in 0..100
      /\ state.alarms \in SUBSET Alarms /\ state.cellData \in BOOLEAN /\ state.cellAge \in Nat
      /\ state.lowest \in [mv : Nat, battery : Names \cup {NoName}] /\ state.first \in BOOLEAN
  BY <1>s DEF BankStates
<1> HIDE DEF old, volts
<1>1. /\ base \in BankStates /\ ~base.first
      /\ base.volts = state.volts + x.basic.volts
      /\ base.amps = IF state.first \/ x.basic.amps > state.amps THEN x.basic.amps ELSE state.amps
      /\ base.soc = IF x.basic.soc < state.soc THEN x.basic.soc ELSE state.soc
      /\ base.alarms = state.alarms \cup x.basic.alarms
      /\ base.cellData = state.cellData /\ base.lowest = state.lowest /\ base.cellAge = state.cellAge
  <2> DEFINE a == state.volts + x.basic.volts
             b == IF state.first \/ x.basic.amps > state.amps THEN x.basic.amps ELSE state.amps
             c == IF x.basic.soc < state.soc THEN x.basic.soc ELSE state.soc
             d == state.alarms \cup x.basic.alarms
  <2>1. a \in Int /\ b \in Int /\ c \in 0..100 /\ d \in SUBSET Alarms
    BY <1>t, <1>x
  <2>2. base = [state EXCEPT !.volts = a, !.amps = b, !.soc = c, !.alarms = d, !.first = FALSE]
    OBVIOUS
  <2> HIDE DEF a, b, c, d, base
  <2>3. /\ base \in BankStates /\ ~base.first
        /\ base.volts = a /\ base.amps = b /\ base.soc = c /\ base.alarms = d
        /\ base.cellData = state.cellData /\ base.lowest = state.lowest /\ base.cellAge = state.cellAge
    BY <2>1, <2>2, <1>s DEF BankStates
  <2>4. QED
    BY <2>3 DEF a, b, c, d
<1> HIDE DEF base
<1>2. new = IF x.cells = <<>> THEN [base EXCEPT !.cellData = FALSE]
            ELSE [base EXCEPT
                    !.lowest = IF base.lowest.battery = NoName \/ LowestCell(x).mv < base.lowest.mv
                                 THEN LowestCell(x) ELSE base.lowest,
                    !.cellAge = IF CellAge(x, at) > base.cellAge THEN CellAge(x, at) ELSE base.cellAge]
  BY DEF AddMember, AddCells, base
<1> HIDE DEF new
<1>3. /\ new \in BankStates /\ ~new.first /\ new.volts = base.volts /\ new.amps = base.amps
      /\ new.soc = base.soc /\ new.alarms = base.alarms
      /\ new.cellData <=> (x.cells # <<>> /\ base.cellData)
  <2>1. CASE x.cells = <<>>
    BY <1>1, <1>2, <2>1 DEF BankStates
  <2>2. CASE x.cells # <<>>
    <3> DEFINE low == IF base.lowest.battery = NoName \/ LowestCell(x).mv < base.lowest.mv
                        THEN LowestCell(x) ELSE base.lowest
               age == IF CellAge(x, at) > base.cellAge THEN CellAge(x, at) ELSE base.cellAge
    <3>1. LowestCell(x) \in [mv : Nat, battery : Names \cup {NoName}]
      <4>1. LowestCell(x).mv \in Nat
        BY <2>2, LowestIsANumber
      <4>2. QED
        BY <4>1 DEF LowestCell, Records
    <3>2. low \in [mv : Nat, battery : Names \cup {NoName}]
      BY <3>1, <1>1 DEF BankStates
    <3>3. age \in Nat
      BY AgeIsANumber, <1>1 DEF BankStates
    <3>4. new = [base EXCEPT !.lowest = low, !.cellAge = age]
      BY <1>2, <2>2
    <3> HIDE DEF low, age
    <3>5. QED
      BY <1>1, <2>2, <3>2, <3>3, <3>4 DEF BankStates
  <2>3. QED
    BY <2>1, <2>2
<1>4. new.volts = Total(volts, ns \cup {n})
  <2>1. \A m \in ns : old[m] \in Int /\ volts[m] = old[m]
    BY <1>f, <1>g DEF old, volts
  <2>2. volts[n] = x.basic.volts /\ volts[n] \in Int
    BY <1>g, <1>x DEF volts
  <2>3. Total(volts, ns \cup {n}) = Total(old, ns) + volts[n]
    <3>1. \A m \in ns : old[m] \in Int /\ volts[m] = old[m]
      BY <2>1
    <3>2. volts[n] \in Int
      BY <2>2
    <3>3. QED
      BY <3>1, <3>2, TotalOfOneMore
  <2>4. QED
    BY <2>2, <2>3, <1>1, <1>3, <1>s
<1>5. /\ \A m \in ns \cup {n} : g[m].basic.amps <= new.amps
      /\ \E m \in ns \cup {n} : g[m].basic.amps = new.amps
  <2>1. new.amps = IF state.first \/ x.basic.amps > state.amps THEN x.basic.amps ELSE state.amps
    BY <1>1, <1>3
  <2>2. QED
    BY <2>1, <1>g, <1>s, <1>t, <1>x, <1>f
<1>6. /\ \A m \in ns \cup {n} : new.soc <= g[m].basic.soc
      /\ \E m \in ns \cup {n} : g[m].basic.soc = new.soc
  <2>1. new.soc = IF x.basic.soc < state.soc THEN x.basic.soc ELSE state.soc
    BY <1>1, <1>3
  <2>2. CASE ns = {}
    <3>1. state.soc = 100 /\ x.basic.soc \in 0..100
      BY <2>2, <1>v, <1>x
    <3>2. new.soc = x.basic.soc
      BY <2>1, <3>1
    <3>3. \A m \in ns \cup {n} : g[m].basic.soc = x.basic.soc
      BY <2>2, <1>g
    <3>4. n \in ns \cup {n} /\ x.basic.soc <= x.basic.soc
      BY <3>1
    <3>5. QED
      BY <3>2, <3>3, <3>4
  <2>3. CASE ns # {}
    <3>1. state.soc \in Int /\ x.basic.soc \in Int
      <4>1. state.soc \in 0..100 /\ x.basic.soc \in 0..100
        BY <1>t, <1>x
      <4>2. QED
        BY <4>1
    <3>6. \A m \in ns : f[m].basic.soc \in Int
      BY <1>f
    <3>2. new.soc <= x.basic.soc /\ new.soc <= state.soc
      BY <2>1, <3>1
    <3>3. \A m \in ns : new.soc <= f[m].basic.soc
      BY <2>1, <3>1, <3>2, <3>6, <1>v
    <3>4. (\E m \in ns : f[m].basic.soc = new.soc) \/ new.soc = x.basic.soc
      BY <2>1, <2>3, <1>w
    <3>5. QED
      BY <3>2, <3>3, <3>4, <1>g
  <2>4. QED
    BY <2>2, <2>3
<1>7. new.alarms = UNION {g[m].basic.alarms : m \in ns \cup {n}}
  <2> DEFINE a == [m \in ns |-> f[m].basic.alarms]
             b == [m \in ns \cup {n} |-> g[m].basic.alarms]
  <2>1. \A m \in ns : b[m] = a[m]
    BY <1>g
  <2>2. b[n] = x.basic.alarms
    BY <1>g
  <2>3. new.alarms = (UNION {a[m] : m \in ns}) \cup x.basic.alarms
    BY <1>1, <1>3, <1>a
  <2>4. {g[m].basic.alarms : m \in ns \cup {n}} = {b[m] : m \in ns \cup {n}}
    OBVIOUS
  <2> HIDE DEF a, b
  <2>5. UNION {b[m] : m \in ns \cup {n}} = (UNION {a[m] : m \in ns}) \cup b[n]
    BY <2>1, UnionOfOneMore
  <2>6. QED
    BY <2>2, <2>3, <2>4, <2>5
<1>8. new.cellData <=> \A m \in ns \cup {n} : g[m].cells # <<>>
  BY <1>1, <1>3, <1>g, <1>s
<1>9. ASSUME new.cellData
      PROVE  /\ \A m \in ns \cup {n} : /\ new.lowest.mv <= LowestCell(g[m]).mv
                                       /\ CellAge(g[m], at) <= new.cellAge
             /\ new.lowest.battery \in ns \cup {n}
             /\ new.lowest.mv = LowestCell(g[new.lowest.battery]).mv
             /\ \E m \in ns \cup {n} : CellAge(g[m], at) = new.cellAge
  <2>1. x.cells # <<>> /\ state.cellData
    BY <1>9, <1>3, <1>1
  <2>2. /\ new.lowest = IF state.lowest.battery = NoName \/ LowestCell(x).mv < state.lowest.mv
                          THEN LowestCell(x) ELSE state.lowest
        /\ new.cellAge = IF CellAge(x, at) > state.cellAge THEN CellAge(x, at) ELSE state.cellAge
    BY <1>1, <1>2, <2>1 DEF BankStates
  <2>3. /\ \A m \in ns : LowestCell(f[m]).mv \in Nat /\ CellAge(f[m], at) \in Nat
        /\ LowestCell(x).mv \in Nat /\ CellAge(x, at) \in Nat /\ LowestCell(x).battery = n
    BY <2>1, <1>s, LowestIsANumber, AgeIsANumber
  <2>4. state.lowest.mv \in Nat /\ state.cellAge \in Nat
    BY <1>t
  <2>5. /\ \A m \in ns \cup {n} : CellAge(g[m], at) <= new.cellAge
        /\ \E m \in ns \cup {n} : CellAge(g[m], at) = new.cellAge
    <3>1. CASE ns = {}
      <4>1. state.cellAge = 0
        BY <1>c, <2>1, <3>1
      <4>2. new.cellAge = CellAge(x, at)
        BY <2>2, <2>3, <4>1
      <4>3. QED
        BY <1>g, <2>3, <3>1, <4>2
    <3>2. CASE ns # {}
      <4>1. CASE CellAge(x, at) > state.cellAge
        BY <1>c, <1>g, <2>1, <2>2, <2>3, <2>4, <4>1
      <4>2. CASE ~(CellAge(x, at) > state.cellAge)
        BY <1>c, <1>g, <2>1, <2>2, <2>3, <2>4, <3>2, <4>2
      <4>3. QED
        BY <4>1, <4>2
    <3>3. QED
      BY <3>1, <3>2
  <2>6. NoName \notin ns /\ n # NoName
    BY BatteryAssumption
  <2>7. /\ \A m \in ns \cup {n} : new.lowest.mv <= LowestCell(g[m]).mv
        /\ new.lowest.battery \in ns \cup {n}
        /\ new.lowest.mv = LowestCell(g[new.lowest.battery]).mv
    <3>1. CASE ns = {}
      <4>1. state.lowest.battery = NoName
        BY <1>c, <2>1, <3>1 DEF NoCell
      <4>2. new.lowest = LowestCell(x)
        BY <2>2, <4>1
      <4>3. QED
        BY <1>g, <2>3, <3>1, <4>2
    <3>2. CASE ns # {}
      <4>1. state.lowest.battery \in ns /\ state.lowest.battery # NoName
        BY <1>c, <2>1, <2>6, <3>2
      <4>2. CASE LowestCell(x).mv < state.lowest.mv
        <5>1. new.lowest = LowestCell(x)
          BY <2>2, <4>2
        <5>2. QED
          BY <1>c, <1>g, <2>1, <2>3, <2>4, <4>2, <5>1
      <4>3. CASE ~(LowestCell(x).mv < state.lowest.mv)
        <5>1. new.lowest = state.lowest
          BY <2>2, <4>1, <4>3
        <5>2. QED
          BY <1>c, <1>g, <2>1, <2>3, <2>4, <3>2, <4>1, <4>3, <5>1
      <4>4. QED
        BY <4>2, <4>3
    <3>3. QED
      BY <3>1, <3>2
  <2>8. QED
    BY <2>5, <2>7
<1>10. volts = [m \in DOMAIN g |-> g[m].basic.volts]
  BY <1>g DEF volts
<1>11. Collected(new, g, at)
  BY <1>3, <1>4, <1>5, <1>6, <1>7, <1>8, <1>9, <1>10, <1>g DEF Collected
<1>12. QED
  BY <1>11 DEF new

(* What is collected of all the members is the documented state.           *)
LEMMA FinishedDescribes ==
  ASSUME NEW f, NEW ns, DOMAIN f = ns, ns # {}, ns \subseteq Names, NEW at \in 0..MaxTime,
         \A m \in ns : f[m] \in Records, NEW state, Collected(state, f, at)
  PROVE  Describes(Finished(state), f, at) /\ Finished(state).ready
<1> DEFINE end == Finished(state)
<1>1. /\ state.ready = TRUE /\ state.volts \in Int /\ state.amps \in Int /\ state.soc \in Int
      /\ state.cellData \in BOOLEAN /\ state.cellAge \in Nat /\ state.lowest.mv \in Nat
  <2>1. state \in BankStates
    BY DEF Collected
  <2>2. /\ state.ready = TRUE /\ state.volts \in Int /\ state.amps \in Int /\ state.soc \in 0..100
        /\ state.cellData \in BOOLEAN /\ state.cellAge \in Nat
        /\ state.lowest \in [mv : Nat, battery : Names \cup {NoName}]
    BY <2>1 DEF BankStates
  <2>3. QED
    BY <2>2
<1>2. /\ end.ready = TRUE /\ end.volts = state.volts /\ end.amps = state.amps /\ end.soc = state.soc
      /\ end.alarms = state.alarms /\ end.cellData = state.cellData
      /\ end.cellData => end.lowest = state.lowest /\ end.cellAge = state.cellAge
      /\ ~end.cellData => end.lowest = NoCell /\ end.cellAge = 0
  <2>1. state \in BankStates
    BY DEF Collected
  <2>2. QED
    BY <2>1 DEF BankStates, Finished
<1>f. ASSUME NEW m \in ns PROVE f[m].basic.amps \in Int /\ f[m].basic.soc \in Int
  <2>1. f[m].basic \in Basic
    BY DEF Records
  <2>2. QED
    BY <2>1 DEF Basic
<1> HIDE DEF end
<1>3. end.volts = Total([n \in ns |-> f[n].basic.volts], ns)
  BY <1>2 DEF Collected
<1>4. end.amps = Greatest({f[n].basic.amps : n \in ns})
  <2> DEFINE A == {f[n].basic.amps : n \in ns}
  <2>1. A \in SUBSET Int
    BY <1>f
  <2>2. state.amps \in A /\ \A y \in A : y <= state.amps
    BY DEF Collected
  <2> HIDE DEF A
  <2>3. state.amps = Greatest(A)
    BY <2>1, <2>2, GreatestIs
  <2>4. QED
    BY <1>2, <2>3 DEF A
<1>5. end.soc = Least({f[n].basic.soc : n \in ns})
  <2> DEFINE A == {f[n].basic.soc : n \in ns}
  <2>1. A \in SUBSET Int
    BY <1>f
  <2>2. state.soc \in A /\ \A y \in A : state.soc <= y
    BY DEF Collected
  <2> HIDE DEF A
  <2>3. state.soc = Least(A)
    BY <2>1, <2>2, LeastIs
  <2>4. QED
    BY <1>2, <2>3 DEF A
<1>6. end.alarms = UNION {f[n].basic.alarms : n \in ns}
  BY <1>2 DEF Collected
<1>7. end.cellData <=> \A n \in ns : f[n].cells # <<>>
  BY <1>2 DEF Collected
<1>8. ASSUME end.cellData
      PROVE  /\ end.lowest.battery \in ns
             /\ end.lowest.mv = LowestCell(f[end.lowest.battery]).mv
             /\ end.lowest.mv = Least({LowestCell(f[n]).mv : n \in ns})
             /\ end.cellAge = Greatest({CellAge(f[n], at) : n \in ns})
  <2>1. /\ state.lowest.battery \in ns
        /\ state.lowest.mv = LowestCell(f[state.lowest.battery]).mv
        /\ \E n \in ns : CellAge(f[n], at) = state.cellAge
        /\ \A n \in ns : state.lowest.mv <= LowestCell(f[n]).mv /\ CellAge(f[n], at) <= state.cellAge
    BY <1>2, <1>8 DEF Collected
  <2>2. \A n \in ns : LowestCell(f[n]).mv \in Nat /\ CellAge(f[n], at) \in Nat
    BY <1>7, <1>8, LowestIsANumber, AgeIsANumber
  <2>3. state.lowest.mv = Least({LowestCell(f[n]).mv : n \in ns})
    <3> DEFINE A == {LowestCell(f[n]).mv : n \in ns}
    <3>1. A \in SUBSET Int
      BY <2>2
    <3>2. state.lowest.mv \in A /\ \A y \in A : state.lowest.mv <= y
      BY <2>1
    <3> HIDE DEF A
    <3>3. state.lowest.mv = Least(A)
      BY <3>1, <3>2, LeastIs
    <3>4. QED
      BY <3>3 DEF A
  <2>4. state.cellAge = Greatest({CellAge(f[n], at) : n \in ns})
    <3> DEFINE A == {CellAge(f[n], at) : n \in ns}
    <3>1. A \in SUBSET Int
      BY <2>2
    <3>2. state.cellAge \in A /\ \A y \in A : y <= state.cellAge
      BY <2>1
    <3> HIDE DEF A
    <3>3. state.cellAge = Greatest(A)
      BY <3>1, <3>2, GreatestIs
    <3>4. QED
      BY <3>3 DEF A
  <2>5. QED
    BY <1>2, <1>8, <2>1, <2>3, <2>4
<1>9. end.cellData \in BOOLEAN
  BY <1>1, <1>2
<1>10. {[m \in ns |-> LowestCell(f[m]).mv][n] : n \in ns} = {LowestCell(f[n]).mv : n \in ns}
  OBVIOUS
<1>11. Describes(end, f, at)
  <2> DEFINE lowest == [n \in ns |-> LowestCell(f[n]).mv]
  <2>1. ASSUME end.cellData
        PROVE  /\ end.lowest.battery \in ns
               /\ end.lowest.mv = lowest[end.lowest.battery]
               /\ end.lowest.mv = Least({lowest[n] : n \in ns})
               /\ end.cellAge = Greatest({CellAge(f[n], at) : n \in ns})
    BY <1>8, <1>10, <2>1
  <2>2. ~end.cellData => end.lowest = NoCell /\ end.cellAge = 0
    BY <1>2
  <2> HIDE DEF lowest
  <2>3. lowest = [n \in DOMAIN f |-> LowestCell(f[n]).mv]
    BY DEF lowest
  <2>4. QED
    BY <1>3, <1>4, <1>5, <1>6, <1>7, <2>1, <2>2, <2>3, Zenon DEF Describes
<1>12. QED
  BY <1>2, <1>11 DEF end

-----------------------------------------------------------------------------
(* The members of a bank are finitely many, and reading the first leaves   *)
(* the others.                                                             *)
LEMMA UnreadIsFinite ==
  ASSUME NEW ms \in Seq(Names)
  PROVE  IsFiniteSet(Unread(ms))
<1> DEFINE S == 1..Len(ms)
           T == Unread(ms)
<1>1. Len(ms) \in Nat /\ DOMAIN ms = S
  OBVIOUS
<1>2. IsFiniteSet(S)
  BY <1>1, FS_Interval
<1>3. ms \in Surjection(S, T)
  BY <1>1 DEF Surjection, Unread
<1> HIDE DEF S, T
<1>4. IsFiniteSet(T)
  BY <1>2, <1>3, FS_Surjection
<1>5. QED
  BY <1>4 DEF T

LEMMA FirstIsRead ==
  ASSUME NEW ms \in Seq(Names), ms # <<>>, \A i, j \in DOMAIN ms : ms[i] = ms[j] => i = j
  PROVE  /\ Head(ms) \in Unread(ms)
         /\ Head(ms) \notin Unread(Tail(ms))
         /\ Unread(ms) = Unread(Tail(ms)) \cup {Head(ms)}
         /\ \A i, j \in DOMAIN Tail(ms) : Tail(ms)[i] = Tail(ms)[j] => i = j
         /\ Len(ms) = 1 => Unread(Tail(ms)) = {}
<1>1. /\ Len(ms) \in Nat \ {0} /\ DOMAIN ms = 1..Len(ms) /\ Head(ms) = ms[1]
      /\ Tail(ms) \in Seq(Names) /\ Len(Tail(ms)) = Len(ms) - 1
      /\ DOMAIN Tail(ms) = 1..(Len(ms) - 1)
      /\ \A i \in 1..(Len(ms) - 1) : Tail(ms)[i] = ms[i + 1]
  OBVIOUS
<1>2. Head(ms) \in Unread(ms)
  BY <1>1 DEF Unread
<1>3. ASSUME NEW i \in DOMAIN Tail(ms)
      PROVE  i + 1 \in DOMAIN ms /\ i + 1 # 1 /\ Tail(ms)[i] = ms[i + 1]
  BY <1>1
<1>4. Head(ms) \notin Unread(Tail(ms))
  BY <1>1, <1>3 DEF Unread
<1>5. \A i, j \in DOMAIN Tail(ms) : Tail(ms)[i] = Tail(ms)[j] => i = j
  <2> TAKE i, j \in DOMAIN Tail(ms)
  <2>1. /\ Tail(ms)[i] = ms[i + 1] /\ Tail(ms)[j] = ms[j + 1]
        /\ i + 1 \in DOMAIN ms /\ j + 1 \in DOMAIN ms /\ i \in Int /\ j \in Int
    BY <1>1, <1>3
  <2>2. ms[i + 1] = ms[j + 1] => i + 1 = j + 1
    BY <2>1
  <2>3. QED
    BY <2>1, <2>2
<1>6. ASSUME NEW i \in DOMAIN ms
      PROVE  ms[i] \in Unread(Tail(ms)) \cup {Head(ms)}
  <2>1. CASE i = 1
    BY <1>1, <2>1
  <2>2. CASE i # 1
    <3>1. i - 1 \in DOMAIN Tail(ms) /\ Tail(ms)[i - 1] = ms[i]
      BY <1>1, <2>2
    <3>2. QED
      BY <3>1 DEF Unread
  <2>3. QED
    BY <2>1, <2>2
<1>7. Unread(ms) = Unread(Tail(ms)) \cup {Head(ms)}
  <2>1. Unread(Tail(ms)) \subseteq Unread(ms)
    BY <1>3 DEF Unread
  <2>2. Unread(ms) \subseteq Unread(Tail(ms)) \cup {Head(ms)}
    BY <1>6 DEF Unread
  <2>3. QED
    BY <1>2, <2>1, <2>2
<1>8. Len(ms) = 1 => Unread(Tail(ms)) = {}
  BY <1>1 DEF Unread
<1>9. QED
  BY <1>2, <1>4, <1>5, <1>7, <1>8

(* What the store returns of a battery is a record of that battery.        *)
LEMMA RecordOfIs ==
  ASSUME slots \in [Slots -> Records], NEW n \in Names
  PROVE  RecordOf(n) \in Records /\ (RecordOf(n) # NoRecord => RecordOf(n).name = n)
<1>1. CASE n \in Stored
  <2> DEFINE s == CHOOSE s \in Slots : slots[s].name = n
  <2>1. s \in Slots /\ slots[s].name = n
    BY <1>1 DEF Stored
  <2>2. RecordOf(n) = slots[s]
    BY <1>1 DEF RecordOf
  <2> HIDE DEF s
  <2>3. QED
    BY <2>1, <2>2
<1>2. CASE n \notin Stored
  BY <1>2, BlankIsARecord DEF RecordOf
<1>3. QED
  BY <1>1, <1>2

(* A query begins with nothing computed and every member unread.           *)
LEMMA BeginHeld ==
  ASSUME slots \in [Slots -> Records], NEW ms \in Memberships, NEW at \in 0..MaxTime,
         NEW h, h = [n \in Unread(ms) |-> {RecordOf(n)}],
         NEW q, q = [phase |-> "reading", todo |-> ms, at |-> at, state |-> Computed]
  PROVE  QueryHeld(q, h) /\ \A n \in Unread(q.todo) : RecordOf(n) \in h[n]
<1>1. /\ ms \in Seq(Names) /\ \A i, j \in DOMAIN ms : ms[i] = ms[j] => i = j
  BY BankAssumption
<1>2. Unread(ms) \subseteq Names
  BY <1>1 DEF Unread
<1>3. HeldTyped(h)
  <2>1. IsFiniteSet(DOMAIN h)
    BY <1>1, UnreadIsFinite
  <2>2. \A n \in Names : RecordOf(n) \in Records /\ (RecordOf(n) # NoRecord => RecordOf(n).name = n)
    BY RecordOfIs
  <2>3. QED
    BY <1>2, <2>1, <2>2 DEF HeldTyped
<1>4. q.phase = "reading" /\ q.todo = ms /\ q.at = at /\ q.state = Computed /\ DOMAIN h = Unread(ms)
  OBVIOUS
<1>5. ReadsHeld(q, h)
  <2> DEFINE read == DOMAIN h \ Unread(ms)
             f == [n \in {} |-> NoRecord]
  <2>1. read = {}
    BY <1>4
  <2>2. f \in [read -> UNION {h[n] : n \in read}] /\ DOMAIN f = {}
    BY <2>1
  <2>3. f \in HeldRecords(h, read)
    BY <2>1, <2>2 DEF HeldRecords
  <2>4. Collected(Computed, f, at)
    <3> HIDE DEF f
    <3>1. QED
      BY <2>2, NothingCollected
  <2> HIDE DEF f
  <2>5. \E k \in HeldRecords(h, read) : Collected(Computed, k, at)
    BY <2>3, <2>4
  <2>6. QED
    BY <1>1, <1>4, <2>5 DEF ReadsHeld
<1>6. AnswersHeld(q, h)
  BY <1>4 DEF AnswersHeld
<1>7. QED
  BY <1>3, <1>4, <1>5, <1>6 DEF QueryHeld

(* What was held of the members read so far, with one member more.         *)
LEMMA HeldOneMore ==
  ASSUME NEW h, HeldTyped(h), NEW read, read \subseteq DOMAIN h,
         NEW n \in DOMAIN h, n \notin read, NEW f \in HeldRecords(h, read),
         NEW x \in h[n], x # NoRecord, NEW at \in 0..MaxTime,
         NEW state, Collected(state, f, at),
         NEW g, g = [m \in read \cup {n} |-> IF m = n THEN x ELSE f[m]]
  PROVE  g \in HeldRecords(h, read \cup {n}) /\ Collected(AddMember(state, x, at), g, at)
<1>1. DOMAIN f = read /\ \A m \in read : f[m] \in h[m] /\ f[m] # NoRecord
  BY DEF HeldRecords
<1>2. /\ IsFiniteSet(DOMAIN h) /\ DOMAIN h \subseteq Names
      /\ \A m \in DOMAIN h : \A y \in h[m] : y \in Records /\ (y # NoRecord => y.name = m)
  BY DEF HeldTyped
<1>3. IsFiniteSet(read)
  BY <1>2, FS_Subset
<1>4. \A m \in read : f[m] \in Records /\ f[m].name = m
  BY <1>1, <1>2
<1>5. x \in Records /\ x.name = n /\ n \in Names /\ read \subseteq Names
  BY <1>2
<1>6. Collected(AddMember(state, x, at), g, at)
  BY <1>1, <1>3, <1>4, <1>5, OneMoreCollected
<1>7. \A m \in read \cup {n} : g[m] \in h[m] \ {NoRecord}
  BY <1>1
<1>8. \A m \in read \cup {n} : g[m] \in UNION {h[k] : k \in read \cup {n}}
  BY <1>7
<1>9. g \in HeldRecords(h, read \cup {n})
  BY <1>7, <1>8 DEF HeldRecords
<1>10. QED
  BY <1>6, <1>9

(* A read: of a member that was never observed, of the last one, or of one *)
(* that others follow.                                                     *)
LEMMA ReadHeld ==
  ASSUME NEW q, Shaped(q), q.phase = "reading", NEW h, QueryHeld(q, h),
         NEW x \in h[Head(q.todo)], NEW new, new = AddMember(q.state, x, q.at),
         NEW none, none = [q EXCEPT !.phase = "done", !.todo = <<>>, !.state = NotReady],
         NEW done, done = [q EXCEPT !.phase = "done", !.todo = <<>>, !.state = Finished(new)],
         NEW more, more = [q EXCEPT !.todo = Tail(q.todo), !.state = new]
  PROVE  /\ x = NoRecord => AnswersHeld(none, h)
         /\ x # NoRecord /\ Len(q.todo) = 1 => AnswersHeld(done, h)
         /\ x # NoRecord => ReadsHeld(more, h)
<1> DEFINE n == Head(q.todo)
           read == DOMAIN h \ Unread(q.todo)
           rest == Tail(q.todo)
<1>1. /\ HeldTyped(h) /\ q.at \in 0..MaxTime
      /\ \A i, j \in DOMAIN q.todo : q.todo[i] = q.todo[j] => i = j
      /\ Unread(q.todo) \subseteq DOMAIN h
      /\ \E f \in HeldRecords(h, read) : Collected(q.state, f, q.at)
  BY DEF QueryHeld, ReadsHeld
<1>2. q.todo \in Seq(Names) /\ q.todo # <<>> /\ {"phase", "todo", "at", "state"} \subseteq DOMAIN q
  BY DEF Shaped
<1>3. /\ n \in Unread(q.todo) /\ n \notin Unread(rest)
      /\ Unread(q.todo) = Unread(rest) \cup {n}
      /\ \A i, j \in DOMAIN rest : rest[i] = rest[j] => i = j
      /\ Len(q.todo) = 1 => Unread(rest) = {}
  BY <1>1, <1>2, FirstIsRead
<1>4. n \in DOMAIN h /\ n \notin read /\ read \subseteq DOMAIN h
      /\ DOMAIN h \ Unread(rest) = read \cup {n}
  BY <1>1, <1>3
<1> HIDE DEF rest, read, n
<1>5. x \in h[n]
  BY DEF n
<1>6. ASSUME x = NoRecord
      PROVE  AnswersHeld(none, h)
  <2>1. none.state = NotReady /\ ~NotReady.ready
    BY <1>2 DEF NotReady, Computed
  <2>2. NoRecord \in h[n]
    BY <1>5, <1>6
  <2>3. QED
    BY <1>4, <2>1, <2>2, Zenon DEF AnswersHeld
<1>7. ASSUME x # NoRecord
      PROVE  \E g \in HeldRecords(h, read \cup {n}) : Collected(new, g, q.at)
  <2>1. PICK f \in HeldRecords(h, read) : Collected(q.state, f, q.at)
    BY <1>1
  <2> DEFINE g == [m \in read \cup {n} |-> IF m = n THEN x ELSE f[m]]
  <2>2. g = [m \in read \cup {n} |-> IF m = n THEN x ELSE f[m]]
    OBVIOUS
  <2> HIDE DEF g
  <2> DEFINE at == q.at
             state == q.state
  <2>3. /\ HeldTyped(h) /\ read \subseteq DOMAIN h /\ n \in DOMAIN h /\ n \notin read
        /\ f \in HeldRecords(h, read) /\ x \in h[n] /\ at \in 0..MaxTime /\ Collected(state, f, at)
    BY <1>1, <1>4, <1>5, <2>1
  <2> HIDE DEF at, state
  <2>4. g \in HeldRecords(h, read \cup {n}) /\ Collected(AddMember(state, x, at), g, at)
    BY <1>7, <2>2, <2>3, HeldOneMore
  <2>5. new = AddMember(state, x, at)
    BY DEF at, state
  <2>6. QED
    BY <2>4, <2>5 DEF at, state
<1>8. ASSUME x # NoRecord, Len(q.todo) = 1
      PROVE  AnswersHeld(done, h)
  <2>1. done.state = Finished(new) /\ done.at = q.at
    BY <1>2
  <2>2. read \cup {n} = DOMAIN h
    BY <1>3, <1>4, <1>8
  <2>3. PICK g \in HeldRecords(h, DOMAIN h) : Collected(new, g, q.at)
    BY <1>7, <1>8, <2>2
  <2>4. /\ DOMAIN g = DOMAIN h /\ DOMAIN h # {} /\ DOMAIN h \subseteq Names
        /\ \A m \in DOMAIN h : g[m] \in Records
    BY <1>1, <1>4, <2>3 DEF HeldRecords, HeldTyped
  <2>5. Describes(Finished(new), g, q.at) /\ Finished(new).ready
    BY <1>1, <2>3, <2>4, FinishedDescribes
  <2>6. QED
    BY <2>1, <2>3, <2>5, Zenon DEF AnswersHeld
<1>9. ASSUME x # NoRecord
      PROVE  ReadsHeld(more, h)
  <2>1. more.todo = rest /\ more.state = new /\ more.at = q.at
    BY <1>2 DEF rest
  <2>2. Unread(rest) \subseteq DOMAIN h
    BY <1>1, <1>3
  <2>3. \E g \in HeldRecords(h, DOMAIN h \ Unread(rest)) : Collected(new, g, q.at)
    BY <1>4, <1>7, <1>9
  <2>4. more.at \in 0..MaxTime /\ Unread(more.todo) \subseteq DOMAIN h
    BY <1>1, <2>1, <2>2, Zenon
  <2>5. \A i, j \in DOMAIN more.todo : more.todo[i] = more.todo[j] => i = j
    BY <1>3, <2>1, Zenon
  <2>6. \E g \in HeldRecords(h, DOMAIN h \ Unread(more.todo)) : Collected(more.state, g, more.at)
    BY <2>1, <2>3, Zenon
  <2>7. QED
    BY <2>4, <2>5, <2>6, Zenon DEF ReadsHeld
<1>10. QED
  BY <1>6, <1>8, <1>9

(* Whatever more the store may hold of a member that is still unread takes *)
(* no answer back.                                                         *)
LEMMA HoldingMore ==
  ASSUME NEW q, NEW h, QueryHeld(q, h), NEW k, DOMAIN k = DOMAIN h,
         \A n \in DOMAIN h : h[n] \subseteq k[n],
         \A n \in DOMAIN h : \A x \in k[n] : x \in Records /\ (x # NoRecord => x.name = n)
  PROVE  QueryHeld(q, k)
<1>1. HeldTyped(k)
  BY DEF QueryHeld, HeldTyped
<1>2. ASSUME NEW ns, ns \subseteq DOMAIN h, NEW f \in HeldRecords(h, ns)
      PROVE  f \in HeldRecords(k, ns)
  <2>1. f \in [ns -> UNION {h[n] : n \in ns}] /\ \A n \in ns : f[n] \in h[n] /\ f[n] # NoRecord
    BY <1>2 DEF HeldRecords
  <2>2. \A n \in ns : f[n] \in k[n] /\ f[n] # NoRecord
    BY <1>2, <2>1
  <2>3. f \in [ns -> UNION {k[n] : n \in ns}]
    BY <2>1, <2>2
  <2>4. QED
    BY <2>2, <2>3 DEF HeldRecords
<1>3. ReadsHeld(q, k)
  <2> DEFINE read == DOMAIN h \ Unread(q.todo)
  <2> SUFFICES ASSUME q.phase = "reading" PROVE ReadsHeld(q, k)
    BY DEF ReadsHeld
  <2>1. PICK f \in HeldRecords(h, read) : Collected(q.state, f, q.at)
    BY DEF QueryHeld, ReadsHeld
  <2>2. f \in HeldRecords(k, read)
    BY <1>2, <2>1
  <2>3. /\ q.at \in 0..MaxTime
        /\ \A i, j \in DOMAIN q.todo : q.todo[i] = q.todo[j] => i = j
        /\ Unread(q.todo) \subseteq DOMAIN k
        /\ \E g \in HeldRecords(k, DOMAIN k \ Unread(q.todo)) : Collected(q.state, g, q.at)
    BY <2>1, <2>2 DEF QueryHeld, ReadsHeld
  <2>4. QED
    BY <2>3, Zenon DEF ReadsHeld
<1>4. AnswersHeld(q, k)
  <2>1. \A f \in HeldRecords(h, DOMAIN h) : f \in HeldRecords(k, DOMAIN k)
    BY <1>2
  <2>2. (\E n \in DOMAIN h : NoRecord \in h[n]) => \E n \in DOMAIN k : NoRecord \in k[n]
    OBVIOUS
  <2>3. AnswersHeld(q, h)
    BY DEF QueryHeld
  <2>4. QED
    BY <2>1, <2>2, <2>3, Zenon DEF AnswersHeld
<1>5. QED
  BY <1>1, <1>3, <1>4 DEF QueryHeld

(* Nothing is held of a reader that asks for nothing.                      *)
LEMMA IdleHeld == QueryHeld(NoQuery, NothingHeld) /\ Unread(NoQuery.todo) = {}
<1>1. NoQuery.phase = "idle" /\ NoQuery.todo = <<>> /\ DOMAIN NothingHeld = {}
  BY DEF NoQuery, NothingHeld
<1>2. HeldTyped(NothingHeld)
  BY <1>1, FS_EmptySet DEF HeldTyped
<1>3. QED
  BY <1>1, <1>2 DEF QueryHeld, ReadsHeld, AnswersHeld, Unread

(* So it is of what the store returns after the next step.                 *)
LEMMA RecordOfNext ==
  ASSUME slots' \in [Slots -> Records], NEW n \in Names
  PROVE  RecordOf(n)' \in Records /\ (RecordOf(n)' # NoRecord => RecordOf(n)'.name = n)
<1>1. CASE \E s \in Slots : slots'[s].name = n
  <2> DEFINE s == CHOOSE s \in Slots : slots'[s].name = n
  <2>1. s \in Slots /\ slots'[s].name = n
    BY <1>1
  <2>2. RecordOf(n)' = slots'[s]
    BY <1>1 DEF RecordOf, Stored
  <2> HIDE DEF s
  <2>3. QED
    BY <2>1, <2>2
<1>2. CASE ~\E s \in Slots : slots'[s].name = n
  BY <1>2, BlankIsARecord DEF RecordOf, Stored
<1>3. QED
  BY <1>1, <1>2

-----------------------------------------------------------------------------
(* The invariant holds at first, and every step keeps it.                  *)
LEMMA InitAnswers == Init => AnswersInv
<1> SUFFICES ASSUME Init PROVE AnswersInv
  OBVIOUS
<1>1. QueryHeld(NoQuery, NothingHeld) /\ Unread(NoQuery.todo) = {}
  BY IdleHeld
<1>2. QED
  BY <1>1 DEF Init, AnswersInv

(* The call of one reader goes on, and the store stands still.             *)
LEMMA ReaderKeeps ==
  ASSUME BankInv, AnswersInv, NEW r \in Readers, slots' = slots, NEW q, NEW h,
         query' = [query EXCEPT ![r] = q], held' = [held EXCEPT ![r] = h],
         QueryHeld(q, h), \A n \in Unread(q.todo) : RecordOf(n) \in h[n]
  PROVE  AnswersInv'
<1>1. /\ \A other \in Readers : /\ query'[other] = IF other = r THEN q ELSE query[other]
                                /\ held'[other] = IF other = r THEN h ELSE held[other]
      /\ held' = [other \in Readers |-> held'[other]]
  BY DEF BankInv, QueriesInv, AnswersInv
<1>2. \A n : RecordOf(n)' = RecordOf(n)
  BY DEF RecordOf, Stored
<1>3. ASSUME NEW other \in Readers
      PROVE  /\ QueryHeld(query'[other], held'[other])
             /\ \A n \in Unread(query'[other].todo) : RecordOf(n)' \in held'[other][n]
  BY <1>1, <1>2 DEF AnswersInv
<1>4. QED
  BY <1>1, <1>3 DEF AnswersInv

(* A query that begins, and one that reads a member.                       *)
LEMMA BeginKeeps ==
  ASSUME BankInv, AnswersInv, NEW r \in Readers, BeginQuery(r)
  PROVE  AnswersInv'
<1>1. PICK b \in Defined :
        /\ query' = [query EXCEPT ![r] =
                       [phase |-> "reading", todo |-> banks[b], at |-> now, state |-> Computed]]
        /\ held' = [held EXCEPT ![r] = [n \in Unread(banks[b]) |-> {RecordOf(n)}]]
  BY DEF BeginQuery, Unread
<1> DEFINE ms == banks[b]
           q == [phase |-> "reading", todo |-> ms, at |-> now, state |-> Computed]
           h == [n \in Unread(ms) |-> {RecordOf(n)}]
<1>2. ms \in Memberships /\ now \in 0..MaxTime /\ slots \in [Slots -> Records]
  BY DEF BankInv, BanksInv, Defined
<1>3. query' = [query EXCEPT ![r] = q] /\ held' = [held EXCEPT ![r] = h] /\ slots' = slots
  BY <1>1 DEF BeginQuery
<1>4. q = [phase |-> "reading", todo |-> ms, at |-> now, state |-> Computed]
      /\ h = [n \in Unread(ms) |-> {RecordOf(n)}]
  OBVIOUS
<1> HIDE DEF ms, q, h
<1>5. QueryHeld(q, h) /\ \A n \in Unread(q.todo) : RecordOf(n) \in h[n]
  BY <1>2, <1>4, BeginHeld
<1>6. QED
  BY <1>3, <1>5, ReaderKeeps

LEMMA ReadKeeps ==
  ASSUME BankInv, AnswersInv, NEW r \in Readers, ReadMember(r)
  PROVE  AnswersInv'
<1> DEFINE q == query[r]
           h == held[r]
           x == RecordOf(Head(q.todo))
           new == AddMember(q.state, x, q.at)
           last == Finished(new)
           none == [q EXCEPT !.phase = "done", !.todo = <<>>, !.state = NotReady]
           done == [q EXCEPT !.phase = "done", !.todo = <<>>, !.state = last]
           more == [q EXCEPT !.todo = Tail(q.todo), !.state = new]
<1>1. Shaped(q) /\ q.phase = "reading" /\ QueryHeld(q, h) /\ slots' = slots /\ held' = held
      /\ \A n \in Unread(q.todo) : RecordOf(n) \in h[n]
  BY DEF BankInv, QueriesInv, AnswersInv, ReadMember
<1>2. /\ q.todo \in Seq(Names) /\ q.todo # <<>> /\ {"phase", "todo", "at", "state"} \subseteq DOMAIN q
      /\ \A i, j \in DOMAIN q.todo : q.todo[i] = q.todo[j] => i = j
  <2> HIDE DEF q, h
  <2>1. /\ q.todo \in Seq(Names) /\ q.todo # <<>> /\ {"phase", "todo", "at", "state"} \subseteq DOMAIN q
    BY <1>1 DEF Shaped
  <2>2. \A i, j \in DOMAIN q.todo : q.todo[i] = q.todo[j] => i = j
    BY <1>1, Zenon DEF QueryHeld, ReadsHeld
  <2>3. QED
    BY <2>1, <2>2
<1>3. held' = [held EXCEPT ![r] = h]
  BY <1>1 DEF AnswersInv
<1>4. \/ query' = [query EXCEPT ![r] = none] /\ x = NoRecord
      \/ query' = [query EXCEPT ![r] = done] /\ x # NoRecord /\ Len(q.todo) = 1
      \/ query' = [query EXCEPT ![r] = more] /\ x # NoRecord
  <2> HIDE DEF new
  <2>1. QED
    BY DEF ReadMember, new
<1> HIDE DEF q, h
<1>5. /\ Head(q.todo) \in Unread(q.todo) /\ Unread(Tail(q.todo)) \subseteq Unread(q.todo)
  BY <1>2, FirstIsRead
<1>6. x \in h[Head(q.todo)] /\ HeldTyped(h)
  BY <1>1, <1>5 DEF QueryHeld
<1> HIDE DEF x
<1>7. /\ x = NoRecord => AnswersHeld(none, h)
      /\ x # NoRecord /\ Len(q.todo) = 1 => AnswersHeld(done, h)
      /\ x # NoRecord => ReadsHeld(more, h)
  <2>1. /\ none = [q EXCEPT !.phase = "done", !.todo = <<>>, !.state = NotReady]
        /\ done = [q EXCEPT !.phase = "done", !.todo = <<>>, !.state = Finished(new)]
        /\ more = [q EXCEPT !.todo = Tail(q.todo), !.state = new]
        /\ new = AddMember(q.state, x, q.at)
    OBVIOUS
  <2> HIDE DEF none, done, more, new
  <2>2. QED
    BY <1>1, <1>6, <2>1, ReadHeld
<1> HIDE DEF new, last
<1>8. /\ none.phase = "done" /\ none.todo = <<>> /\ done.phase = "done" /\ done.todo = <<>>
      /\ more.phase = "reading" /\ more.todo = Tail(q.todo)
  BY <1>1, <1>2
<1> HIDE DEF none, done, more
<1>9. Unread(<<>>) = {}
  BY DEF Unread
<1>10. CASE query' = [query EXCEPT ![r] = none] /\ x = NoRecord
  <2>1. QueryHeld(none, h) /\ \A n \in Unread(none.todo) : RecordOf(n) \in h[n]
    BY <1>6, <1>7, <1>8, <1>9, <1>10 DEF QueryHeld, ReadsHeld
  <2>2. QED
    BY <1>1, <1>3, <1>10, <2>1, ReaderKeeps
<1>11. CASE query' = [query EXCEPT ![r] = done] /\ x # NoRecord /\ Len(q.todo) = 1
  <2>1. QueryHeld(done, h) /\ \A n \in Unread(done.todo) : RecordOf(n) \in h[n]
    BY <1>6, <1>7, <1>8, <1>9, <1>11 DEF QueryHeld, ReadsHeld
  <2>2. QED
    BY <1>1, <1>3, <1>11, <2>1, ReaderKeeps
<1>12. CASE query' = [query EXCEPT ![r] = more] /\ x # NoRecord
  <2>1. QueryHeld(more, h) /\ \A n \in Unread(more.todo) : RecordOf(n) \in h[n]
    BY <1>1, <1>5, <1>6, <1>7, <1>8, <1>12 DEF QueryHeld, AnswersHeld
  <2>2. QED
    BY <1>1, <1>3, <1>12, <2>1, ReaderKeeps
<1>13. QED
  BY <1>4, <1>10, <1>11, <1>12

(* An observation is held of each member that is still to be read.         *)
LEMMA ScanKeeps ==
  ASSUME BankInv, AnswersInv, slots' \in [Slots -> Records], Scan
  PROVE  AnswersInv'
<1>1. query' = query /\ held' = [r \in Readers |-> held'[r]]
  BY DEF Scan
<1>2. ASSUME NEW r \in Readers
      PROVE  /\ QueryHeld(query[r], held'[r])
             /\ \A n \in Unread(query[r].todo) : RecordOf(n)' \in held'[r][n]
  <2> DEFINE q == query[r]
             h == held[r]
             k == held'[r]
  <2>1. k = [n \in DOMAIN h |-> IF n \in Unread(q.todo) THEN h[n] \cup {RecordOf(n)'} ELSE h[n]]
    <3>1. \A n : n \in Unread(q.todo) <=> \E i \in DOMAIN q.todo : q.todo[i] = n
      BY DEF Unread
    <3>2. k = [n \in DOMAIN h |->
                 IF \E i \in DOMAIN q.todo : q.todo[i] = n THEN h[n] \cup {RecordOf(n)'} ELSE h[n]]
      BY DEF Scan
    <3>3. QED
      BY <3>1, <3>2
  <2>2. QueryHeld(q, h) /\ Shaped(q)
    BY DEF AnswersInv, BankInv, QueriesInv
  <2>3. DOMAIN h \subseteq Names /\ Unread(q.todo) \subseteq DOMAIN h
        /\ \A n \in DOMAIN h : \A x \in h[n] : x \in Records /\ (x # NoRecord => x.name = n)
    <3>1. CASE q.phase = "reading"
      BY <2>2, <3>1 DEF QueryHeld, HeldTyped, ReadsHeld
    <3>2. CASE q.phase # "reading"
      <4>1. Unread(q.todo) = {}
        BY <2>2, <3>2 DEF Shaped, Unread
      <4>2. QED
        BY <2>2, <4>1 DEF QueryHeld, HeldTyped
    <3>3. QED
      BY <3>1, <3>2
  <2>4. ASSUME NEW n \in Names
        PROVE  RecordOf(n)' \in Records /\ (RecordOf(n)' # NoRecord => RecordOf(n)'.name = n)
    BY RecordOfNext
  <2> HIDE DEF q, h, k
  <2>5. DOMAIN k = DOMAIN h /\ \A n \in DOMAIN h : h[n] \subseteq k[n]
    BY <2>1
  <2>6. \A n \in DOMAIN h : \A x \in k[n] : x \in Records /\ (x # NoRecord => x.name = n)
    BY <2>1, <2>3, <2>4
  <2>7. QueryHeld(q, k)
    BY <2>2, <2>5, <2>6, HoldingMore
  <2>8. \A n \in Unread(q.todo) : RecordOf(n)' \in k[n]
    BY <2>1, <2>3
  <2>9. QED
    BY <2>7, <2>8 DEF q, k
<1>3. QED
  BY <1>1, <1>2 DEF AnswersInv

(* No other step changes the store or a query, but to forget them.         *)
LEMMA NextAnswers == BankInv /\ BankInv' /\ AnswersInv /\ [Next]_bankVars => AnswersInv'
<1> SUFFICES ASSUME BankInv, BankInv', AnswersInv, [Next]_bankVars
             PROVE  AnswersInv'
  OBVIOUS
<1>1. ASSUME NEW r \in Readers, Return(r)
      PROVE  AnswersInv'
  <2>1. slots' = slots /\ query' = [query EXCEPT ![r] = NoQuery] /\ held' = [held EXCEPT ![r] = NothingHeld]
    BY <1>1 DEF Return
  <2>2. QueryHeld(NoQuery, NothingHeld) /\ \A n \in Unread(NoQuery.todo) : RecordOf(n) \in NothingHeld[n]
    BY IdleHeld
  <2>3. QED
    BY <2>1, <2>2, ReaderKeeps
<1>2. CASE Reset
  <2>1. QueryHeld(NoQuery, NothingHeld) /\ Unread(NoQuery.todo) = {}
    BY IdleHeld
  <2>2. query' = [r \in Readers |-> NoQuery] /\ held' = [r \in Readers |-> NothingHeld]
    BY <1>2 DEF Reset
  <2>3. QED
    BY <2>1, <2>2 DEF AnswersInv
<1>3. CASE query' = query /\ held' = held /\ slots' = slots
  <2>1. \A n : RecordOf(n)' = RecordOf(n)
    BY <1>3 DEF RecordOf, Stored
  <2>2. QED
    BY <1>3, <2>1 DEF AnswersInv
<1>4. CASE Scan
  BY <1>4, ScanKeeps DEF BankInv
<1>5. ASSUME NEW r \in Readers, BeginQuery(r) PROVE AnswersInv'
  BY <1>5, BeginKeeps
<1>6. ASSUME NEW r \in Readers, ReadMember(r) PROVE AnswersInv'
  BY <1>6, ReadKeeps
<1>7. \/ Reset \/ Scan
      \/ query' = query /\ held' = held /\ slots' = slots
      \/ \E r \in Readers : BeginQuery(r) \/ ReadMember(r) \/ Return(r)
  <2>1. CASE UNCHANGED bankVars
    BY <2>1 DEF bankVars
  <2>2. CASE CreateBank \/ RemoveBank
    BY <2>2 DEF CreateBank, RemoveBank
  <2>3. CASE TimePasses
    BY <2>3 DEF TimePasses, Tick
  <2>4. QED
    BY <2>1, <2>2, <2>3 DEF Next
<1>8. QED
  BY <1>1, <1>2, <1>3, <1>4, <1>5, <1>6, <1>7

(* It says of a query that is done what the property says.                 *)
LEMMA AnswersInvIsEnough == AnswersInv => AnswersAreReadings
<1> SUFFICES ASSUME AnswersInv, NEW r \in Readers, query[r].phase = "done"
             PROVE  LET q == query[r]
                        members == DOMAIN held[r]
                    IN
                    IF q.state.ready
                      THEN \E f \in [members -> UNION {held[r][n] : n \in members}] :
                             /\ \A n \in members : f[n] \in held[r][n] \ {NoRecord}
                             /\ Describes(q.state, f, q.at)
                      ELSE \E n \in members : NoRecord \in held[r][n]
  BY DEF AnswersAreReadings
<1>1. AnswersHeld(query[r], held[r])
  BY DEF AnswersInv, QueryHeld
<1>2. QED
  BY <1>1, Zenon DEF AnswersHeld, HeldRecords

(* What battery_bank_get_state answers is the documented state of the bank *)
(* (battery_bank.cpp:317-389, README.md:390-397), of one record for each   *)
(* member that the store held while the query ran, whatever the scanner    *)
(* records between the reads; and it is not ready only if a member was not *)
(* in the store.  For banks of any size.                                   *)
THEOREM AnswersAreHeld == Spec => []AnswersAreReadings
<1>1. Init => BankInv /\ AnswersInv
  BY InitBanks, InitAnswers
<1>2. BankInv /\ AnswersInv /\ [Next]_bankVars => (BankInv /\ AnswersInv)'
  BY NextBanks, NextAnswers
<1>3. QED
  BY <1>1, <1>2, AnswersInvIsEnough, PTL DEF Spec
=============================================================================
