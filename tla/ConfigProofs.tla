----------------------------- MODULE ConfigProofs -----------------------------
(***************************************************************************)
(* Proofs about ConfigFlags, for any number of parameters, tasks and       *)
(* requests, any table size, and with or without resets and failing        *)
(* writes.                                                                 *)
(***************************************************************************)
EXTENDS ConfigSafety, TLAPS

Record == [todo : Plans, name : Names \cup {NoName}, life : Nat]

(* What is left of a plan is a plan.                                       *)
LEMMA PlansClosed ==
  ASSUME NEW todo \in Plans, todo # <<>>
  PROVE  /\ Tail(todo) \in Plans
         /\ AfterFailure(todo) \in Plans
<1>1. Tail(todo) \in Plans
  <2>1. /\ Tail(<<"refresh", "put_ttl", "put">>) = <<"put_ttl", "put">>
        /\ Tail(<<"clear_ttl", "drop", "put">>) = <<"drop", "put">>
        /\ Tail(<<"erase", "clear_ttl", "drop">>) = <<"clear_ttl", "drop">>
    OBVIOUS
  <2>2. /\ Tail(<<"put_ttl", "put">>) = <<"put">>
        /\ Tail(<<"drop", "put">>) = <<"put">>
        /\ Tail(<<"clear_ttl", "drop">>) = <<"drop">>
    OBVIOUS
  <2>3. /\ Tail(<<"put">>) = <<>>
        /\ Tail(<<"drop">>) = <<>>
        /\ Tail(<<"query">>) = <<>>
    OBVIOUS
  <2>4. QED
    BY <2>1, <2>2, <2>3, Zenon DEF Plans
<1>2. AfterFailure(todo) \in Plans
  BY <1>1 DEF Plans, AfterFailure
<1>3. QED
  BY <1>1, <1>2

LEMMA PlansStart ==
  /\ \A life \in Nat : DefineSteps(life) \in Plans
  /\ RemoveSteps \in Plans
  /\ OrphanSteps \in Plans
  /\ <<"query">> \in Plans
  /\ <<>> \in Plans
BY DEF DefineSteps, RemoveSteps, OrphanSteps, Plans

(* Continuing with a plan keeps the calls well typed.                      *)
LEMMA ContinueTyped ==
  ASSUME TypeOK, NEW c \in Callers, Busy(c), NEW todo \in Plans, Continue(c, todo), cycle' = cycle
  PROVE  CallsTyped'
<1> DEFINE new == IF todo = <<>> THEN Idle ELSE [call[c] EXCEPT !.todo = todo]
<1>1. call \in [Callers -> Record] /\ call[c].name \in Names
  BY DEF TypeOK, CallsTyped, Record
<1>2. new \in Record /\ (new.todo # <<>> => new.name \in Names)
  BY <1>1, PlansStart DEF Record, Idle
<1>3. call' = [call EXCEPT ![c] = new]
  BY DEF Continue
<1> HIDE DEF new
<1>4. call' \in [Callers -> Record]
  BY <1>1, <1>2, <1>3
<1>5. \A d \in Callers : Busy(d)' => call'[d].name \in Names
  BY <1>1, <1>2, <1>3 DEF Busy, TypeOK, CallsTyped
<1>6. QED
  BY <1>4, <1>5 DEF CallsTyped, Record, TypeOK

(* Every variable keeps its type; in particular every call follows one of  *)
(* the plans.                                                              *)
THEOREM ConfigTypeCorrect == Spec => []TypeOK
<1> USE ConstantsAssumption
<1>1. Init => TypeOK
  <2> SUFFICES ASSUME Init PROVE TypeOK
    OBVIOUS
  <2>1. StoresTyped /\ HistoryTyped
    BY DEF Init, StoresTyped, HistoryTyped, Kinds, NoDeadline, Nothing
  <2>2. CallsTyped
    BY PlansStart DEF Init, CallsTyped, Idle, Busy
  <2>3. QED
    BY <2>1, <2>2 DEF TypeOK
<1>2. TypeOK /\ [Next]_vars => TypeOK'
  <2> SUFFICES ASSUME TypeOK, [Next]_vars PROVE TypeOK'
    OBVIOUS
  <2>t. StoresTyped /\ CallsTyped /\ HistoryTyped
    BY DEF TypeOK
  <2>1. ASSUME NEW c \in Callers, Step(c) PROVE TypeOK'
    <3>1. /\ Busy(c) /\ cycle' = cycle /\ entries' = entries
          /\ call[c] \in Record /\ call[c].name \in Names
          /\ call[c].todo \in Plans /\ call[c].life \in Nat
      BY <2>1, <2>t DEF Step, Refresh, Drop, PutTtl, ClearTtl, Put, Erase, WriteFails, Query, At,
                        CallsTyped, Record
    <3>2. Tail(call[c].todo) \in Plans /\ AfterFailure(call[c].todo) \in Plans
      BY <3>1, PlansClosed DEF Busy
    <3>3. \E todo \in Plans : Continue(c, todo)
      BY <2>1, <3>2, PlansStart
         DEF Step, Refresh, Drop, PutTtl, ClearTtl, Put, Erase, WriteFails, Query
    <3>4. CallsTyped'
      BY <3>1, <3>3, ContinueTyped
    <3>5. StoresTyped'
      <4>1. CASE Refresh(c)
        BY <4>1, <3>1, <2>t DEF Refresh, StoresTyped, nvs
      <4>2. CASE Drop(c)
        BY <4>2, <3>1, <2>t DEF Drop, StoresTyped, nvs
      <4>3. CASE PutTtl(c) \/ ClearTtl(c)
        BY <4>3, <3>1, <2>t DEF PutTtl, ClearTtl, StoresTyped
      <4>4. CASE Put(c) \/ Erase(c)
        BY <4>4, <3>1, <2>t DEF Put, Erase, StoresTyped, Kinds
      <4>5. CASE WriteFails(c)
        BY <4>5, <3>1, <2>t DEF WriteFails, StoresTyped, nvs
      <4>6. CASE Query(c)
        BY <4>6, <3>1, <2>t DEF Query, StoresTyped, nvs
      <4>7. QED
        BY <2>1, <4>1, <4>2, <4>3, <4>4, <4>5, <4>6 DEF Step
    <3>6. HistoryTyped'
      <4>1. promise' \in [Names -> [life : Nat, left : Nat]]
        <5>1. Nothing \in [life : Nat, left : Nat]
          BY DEF Nothing
        <5>2. promise' = promise
                \/ \E new \in [life : Nat, left : Nat] :
                     promise' = [promise EXCEPT ![call[c].name] = new]
          BY <2>1, <3>1, <5>1 DEF Step, Refresh, Drop, PutTtl, ClearTtl, Put, Erase, WriteFails,
                             Query, history
        <5>3. QED
          BY <5>2, <2>t, <3>1 DEF HistoryTyped
      <4>2. missed' \in SUBSET Names
        BY <2>1, <3>1, <2>t DEF Step, Refresh, Drop, PutTtl, ClearTtl, Put, Erase, WriteFails,
                           Query, history, HistoryTyped
      <4>3. QED
        BY <4>1, <4>2 DEF HistoryTyped
    <3>7. QED
      BY <3>4, <3>5, <3>6 DEF TypeOK
  <2>b. ASSUME NEW c \in Callers, NEW n \in Names, NEW todo \in Plans, NEW life \in Nat,
               Begin(c, n, todo, life), entries' \in [Names -> Nat]
        PROVE  TypeOK'
    <3>1. call' \in [Callers -> Record]
      BY <2>b, <2>t DEF Begin, CallsTyped, Record
    <3>2. \A d \in Callers : Busy(d)' => call'[d].name \in Names
      BY <2>b, <2>t DEF Begin, CallsTyped, Busy
    <3>3. CallsTyped'
      BY <3>1, <3>2, <2>b, <2>t DEF Begin, CallsTyped, Record
    <3>4. StoresTyped' /\ HistoryTyped'
      BY <2>b, <2>t DEF Begin, StoresTyped, HistoryTyped, nvs, history
    <3>5. QED
      BY <3>3, <3>4 DEF TypeOK
  <2>2. ASSUME NEW c \in Clients, Define(c) \/ Remove(c) \/ List(c) PROVE TypeOK'
    <3>1. c \in Callers /\ entries' \in [Names -> Nat] /\ Requests[c] \subseteq Request
      BY <2>2, <2>t DEF Callers, Define, Remove, List, StoresTyped
    <3>2. CASE Define(c)
      <4>1. PICK r \in Requests[c] : Begin(c, r.name, DefineSteps(r.life), r.life)
        BY <3>2 DEF Define
      <4>2. r.name \in Names /\ r.life \in Nat
        BY <3>1 DEF Request
      <4>3. QED
        BY <4>1, <4>2, <3>1, <2>b, PlansStart
    <3>3. CASE Remove(c)
      <4>1. PICK r \in Requests[c] : Begin(c, r.name, RemoveSteps, 0)
        BY <3>3 DEF Remove
      <4>2. r.name \in Names
        BY <3>1 DEF Request
      <4>3. QED
        BY <4>1, <4>2, <3>1, <2>b, PlansStart
    <3>4. CASE List(c)
      <4>1. PICK r \in Requests[c] : Begin(c, r.name, <<"query">>, ttl[r.name])
        BY <3>4 DEF List
      <4>2. r.name \in Names /\ ttl[r.name] \in Nat
        BY <3>1, <2>t DEF Request, StoresTyped
      <4>3. QED
        BY <4>1, <4>2, <3>1, <2>b, PlansStart
    <3>5. QED
      BY <2>2, <3>2, <3>3, <3>4
  <2>3. CASE BeginCycle
    <3>1. entries' \in [Names -> Nat] /\ missed' \in SUBSET Names
      BY <2>3, <2>t DEF BeginCycle, StoresTyped, HistoryTyped
    <3>2. QED
      BY <3>1, <2>3, <2>t
         DEF BeginCycle, TypeOK, StoresTyped, CallsTyped, HistoryTyped, Busy, nvs
  <2>4. CASE CheckEntry
    <3>1. PICK n \in Names :
            /\ Begin(Policy, n, IF value[n] = "absent" THEN OrphanSteps ELSE <<"query">>, entries[n])
            /\ entries' = [entries EXCEPT ![n] = 0]
      BY <2>4 DEF CheckEntry
    <3>2. Policy \in Callers /\ entries[n] \in Nat /\ entries' \in [Names -> Nat]
      BY <3>1, <2>t DEF Callers, StoresTyped
    <3>3. QED
      BY <3>1, <3>2, <2>b, PlansStart
  <2>5. CASE RunProgram \/ EndCycle
    BY <2>5, <2>t DEF RunProgram, EndCycle, TypeOK, StoresTyped, CallsTyped, HistoryTyped, Busy,
                      nvs, history
  <2>6. CASE Tick
    <3>1. deadline' \in [Names -> Nat \cup {NoDeadline}]
      BY <2>6, <2>t DEF Tick, StoresTyped, NoDeadline
    <3>2. promise' \in [Names -> [life : Nat, left : Nat]]
      <4>1. \A n \in Names : promise[n] \in [life : Nat, left : Nat]
        BY <2>t DEF HistoryTyped
      <4>2. \A n \in Names : (IF promise[n].left > 0 THEN promise[n].left - 1 ELSE 0) \in Nat
        BY <4>1
      <4>3. QED
        BY <2>6, <4>1, <4>2 DEF Tick
    <3>3. QED
      BY <2>6, <3>1, <3>2, <2>t DEF Tick, TypeOK, StoresTyped, CallsTyped, HistoryTyped, Busy, nvs
  <2>7. CASE Reset
    <3>1. promise' \in [Names -> [life : Nat, left : Nat]]
      BY <2>7, <2>t DEF Reset, HistoryTyped
    <3>2. CallsTyped'
      BY <2>7, PlansStart DEF Reset, CallsTyped, Idle, Busy
    <3>3. QED
      BY <2>7, <3>1, <3>2, <2>t DEF Reset, TypeOK, StoresTyped, HistoryTyped, NoDeadline, nvs
  <2>8. CASE UNCHANGED vars
    BY <2>8, <2>t DEF vars, nvs, history, TypeOK, StoresTyped, CallsTyped, HistoryTyped, Busy
  <2>9. QED
    BY <2>1, <2>2, <2>3, <2>4, <2>5, <2>6, <2>7, <2>8 DEF Next
<1>3. QED
  BY <1>1, <1>2, PTL DEF Spec

(* The step at the head of a plan tells the plan, or all but.              *)
LEMMA PlanOf ==
  ASSUME NEW todo \in Plans, todo # <<>>
  PROVE  /\ Head(todo) = "refresh" => todo = <<"refresh", "put_ttl", "put">>
         /\ Head(todo) = "put_ttl" => todo = <<"put_ttl", "put">>
         /\ Head(todo) = "put" => todo = <<"put">>
         /\ Head(todo) = "clear_ttl" =>
              todo \in {<<"clear_ttl", "drop", "put">>, <<"clear_ttl", "drop">>}
         /\ Head(todo) = "erase" => todo = RemoveSteps
         /\ Head(todo) = "drop" => todo \in {<<"drop", "put">>, <<"drop">>}
         /\ Head(todo) = "query" => todo = <<"query">>
BY DEF Plans, RemoveSteps

LEMMA Tails ==
  /\ Tail(<<"refresh", "put_ttl", "put">>) = <<"put_ttl", "put">>
  /\ Tail(<<"put_ttl", "put">>) = <<"put">>
  /\ Tail(<<"clear_ttl", "drop", "put">>) = <<"drop", "put">>
  /\ Tail(<<"drop", "put">>) = <<"put">>
  /\ Tail(RemoveSteps) = OrphanSteps
  /\ Tail(OrphanSteps) = <<"drop">>
  /\ Tail(<<"put">>) = <<>>
  /\ Tail(<<"drop">>) = <<>>
  /\ Tail(<<"query">>) = <<>>
BY DEF RemoveSteps, OrphanSteps

(* The plans that say nothing of the value or the lifetime.                *)
LEMMA FreePlans ==
  ASSUME NEW n, NEW life, NEW v, NEW t
  PROVE  /\ InOrder(<<>>, life, n, v, t)
         /\ InOrder(<<"drop">>, life, n, v, t)
         /\ InOrder(<<"query">>, life, n, v, t)
         /\ InOrder(RemoveSteps, life, n, v, t)
BY DEF InOrder, RemoveSteps

(* One task goes on with its call, and the others stay idle.               *)
LEMMA StepAlone ==
  ASSUME TypeOK, OneCall, NEW c \in Callers, Busy(c), NEW todo \in Plans, Continue(c, todo),
         cycle' = cycle
  PROVE  /\ OneCall'
         /\ \A d \in Callers \ {c} : call[d].todo = <<>> /\ call'[d] = call[d]
         /\ call'[c].todo = todo
         /\ todo # <<>> => call'[c].life = call[c].life /\ call'[c].name = call[c].name
<1>1. call \in [Callers -> Record]
  BY DEF TypeOK, CallsTyped, Record
<1>2. \A d \in Callers \ {c} : call[d].todo = <<>> /\ call'[d] = call[d]
  BY <1>1 DEF OneCall, Busy, Continue
<1>3. OneCall'
  BY <1>2 DEF OneCall, Busy
<1>4. todo # <<>> => /\ call'[c].todo = todo
                     /\ call'[c].life = call[c].life
                     /\ call'[c].name = call[c].name
  BY <1>1 DEF Continue, Record
<1>5. todo = <<>> => call'[c].todo = <<>>
  BY <1>1 DEF Continue, Idle
<1>6. QED
  BY <1>2, <1>3, <1>4, <1>5

(* The order of all calls then follows from that of the one.               *)
LEMMA OnlyCaller ==
  ASSUME TypeOK, OneCall, NEW c \in Callers, Busy(c), NEW todo \in Plans, Continue(c, todo),
         cycle' = cycle,
         InOrder(todo, call[c].life, call[c].name, value'[call[c].name], ttl'[call[c].name])
  PROVE  OneCall' /\ CallOrder'
<1>1. ASSUME NEW d \in Callers
      PROVE  InOrder(call'[d].todo, call'[d].life, call'[d].name,
                     value'[call'[d].name], ttl'[call'[d].name])
  <2>1. CASE call'[d].todo = <<>>
    BY <2>1, FreePlans
  <2>2. CASE call'[d].todo # <<>>
    <3>1. d = c /\ todo # <<>>
      BY <2>2, StepAlone
    <3>2. QED
      BY <3>1, StepAlone
  <2>3. QED
    BY <2>1, <2>2
<1>2. QED
  BY <1>1, StepAlone DEF CallOrder

(* A call that starts does so alone, with a plan in order.                 *)
LEMMA FirstCaller ==
  ASSUME TypeOK, NEW c \in Callers, \A d \in Callers \ {c} : ~Busy(d),
         cycle = "expire" <=> c = Policy,
         NEW n \in Names, NEW todo \in Plans, NEW life \in Nat, Begin(c, n, todo, life),
         InOrder(todo, life, n, value[n], ttl[n])
  PROVE  OneCall' /\ CallOrder'
<1>1. call \in [Callers -> Record]
  BY DEF TypeOK, CallsTyped, Record
<1>2. \A d \in Callers \ {c} : call'[d].todo = <<>>
  BY <1>1 DEF Begin, Busy
<1>3. call'[c].todo = todo /\ call'[c].life = life /\ call'[c].name = n
  BY <1>1 DEF Begin
<1>4. value' = value /\ ttl' = ttl /\ cycle' = cycle
  BY DEF Begin, nvs
<1>5. OneCall'
  BY <1>2, <1>4 DEF OneCall, Busy
<1>6. ASSUME NEW d \in Callers
      PROVE  InOrder(call'[d].todo, call'[d].life, call'[d].name,
                     value'[call'[d].name], ttl'[call'[d].name])
  <2>1. CASE d = c
    BY <2>1, <1>3, <1>4
  <2>2. CASE d # c
    BY <2>2, <1>2, FreePlans
  <2>3. QED
    BY <2>1, <2>2
<1>7. QED
  BY <1>5, <1>6 DEF CallOrder

(* The order in which a call works through the stores, and a lifetime in   *)
(* flash for every value that was defined with one.                        *)
LEMMA LifetimesHold ==
  ASSUME FixedKinds, Overlap = FALSE
  PROVE  Spec => []LifetimeInv
<1> USE ConstantsAssumption
<1> DEFINE Backed == \A n \in Names : value[n] = "lifetime" => ttl[n] > 0 /\ n \in WithLifetime
<1>1. Init => LifetimeInv
  BY FreePlans DEF Init, LifetimeInv, OneCall, CallOrder, Idle, Busy
<1>2. TypeOK /\ LifetimeInv /\ [Next]_vars => LifetimeInv'
  <2> SUFFICES ASSUME TypeOK, LifetimeInv, [Next]_vars PROVE LifetimeInv'
    OBVIOUS
  <2>t. StoresTyped /\ CallsTyped /\ OneCall /\ CallOrder /\ Backed
    BY DEF TypeOK, LifetimeInv
  <2> HIDE DEF Backed
  <2>q. OneCall' /\ CallOrder' /\ Backed' => LifetimeInv'
    BY DEF LifetimeInv, Backed
  <2>1. ASSUME NEW c \in Callers, Step(c) PROVE LifetimeInv'
    <3> DEFINE n == call[c].name
               life == call[c].life
    <3>1. /\ Busy(c) /\ cycle' = cycle
          /\ n \in Names /\ life \in Nat /\ call[c].todo \in Plans /\ call[c].todo # <<>>
          /\ InOrder(call[c].todo, life, n, value[n], ttl[n])
      BY <2>1, <2>t DEF Step, Refresh, Drop, PutTtl, ClearTtl, Put, Erase, WriteFails, Query, At,
                        CallsTyped, CallOrder, Busy
    <3>2. ASSUME NEW todo \in Plans, Continue(c, todo), Backed',
                 InOrder(todo, life, n, value'[n], ttl'[n])
          PROVE  LifetimeInv'
      BY <3>1, <3>2, <2>t, <2>q, OnlyCaller
    <3>s. UNCHANGED nvs => Backed' /\ value'[n] = value[n] /\ ttl'[n] = ttl[n]
      BY <2>t DEF nvs, Backed
    <3> HIDE DEF n, life
    <3>3. CASE Refresh(c)
      <4>1. call[c].todo = <<"refresh", "put_ttl", "put">>
        BY <3>3, <3>1, PlanOf DEF Refresh, At
      <4>2. Continue(c, <<"put_ttl", "put">>) \/ Continue(c, <<>>)
        BY <3>3, <4>1, Tails DEF Refresh
      <4>3. InOrder(<<"put_ttl", "put">>, life, n, value[n], ttl[n])
        BY <4>1, <3>1 DEF InOrder
      <4>4. <<"put_ttl", "put">> \in Plans /\ <<>> \in Plans
        BY DEF Plans
      <4>5. UNCHANGED nvs
        BY <3>3 DEF Refresh
      <4>6. QED
        BY <4>2, <4>3, <4>4, <4>5, <3>2, <3>s, FreePlans
    <3>4. CASE Drop(c)
      <4>1. call[c].todo \in {<<"drop", "put">>, <<"drop">>}
        BY <3>4, <3>1, PlanOf DEF Drop, At
      <4>2. UNCHANGED nvs
        BY <3>4 DEF Drop
      <4>3. Continue(c, Tail(call[c].todo))
        BY <3>4 DEF Drop
      <4>4. InOrder(Tail(call[c].todo), life, n, value[n], ttl[n])
        <5>1. CASE call[c].todo = <<"drop", "put">>
          BY <5>1, <3>1, Tails DEF InOrder
        <5>2. CASE call[c].todo = <<"drop">>
          BY <5>2, Tails, FreePlans
        <5>3. QED
          BY <4>1, <5>1, <5>2
      <4>5. QED
        BY <4>2, <4>3, <4>4, <3>1, <3>2, <3>s, PlansClosed
    <3>5. CASE PutTtl(c)
      <4>1. call[c].todo = <<"put_ttl", "put">>
        BY <3>5, <3>1, PlanOf DEF PutTtl, At
      <4>2. life > 0 /\ n \in WithLifetime
        BY <4>1, <3>1 DEF InOrder
      <4>3. ttl' = [ttl EXCEPT ![n] = life] /\ value' = value
        BY <3>5 DEF PutTtl, n, life
      <4>4. Backed'
        BY <4>2, <4>3, <3>1, <2>t DEF Backed, StoresTyped
      <4>5. ttl'[n] = life
        BY <4>3, <3>1, <2>t DEF StoresTyped
      <4>6. InOrder(<<"put">>, life, n, value'[n], ttl'[n])
        BY <4>2, <4>5 DEF InOrder
      <4>7. Continue(c, <<"put">>) /\ <<"put">> \in Plans
        BY <3>5, <4>1, Tails DEF PutTtl, Plans
      <4>8. QED
        BY <4>4, <4>6, <4>7, <3>2
    <3>6. CASE ClearTtl(c)
      <4>1. call[c].todo \in {<<"clear_ttl", "drop", "put">>, <<"clear_ttl", "drop">>}
        BY <3>6, <3>1, PlanOf DEF ClearTtl, At
      <4>2. value[n] # "lifetime"
        BY <4>1, <3>1 DEF InOrder
      <4>3. ttl' = [ttl EXCEPT ![n] = 0] /\ value' = value
        BY <3>6 DEF ClearTtl, n
      <4>4. Backed'
        BY <4>2, <4>3, <3>1, <2>t DEF Backed, StoresTyped
      <4>5. InOrder(Tail(call[c].todo), life, n, value'[n], ttl'[n])
        <5>1. CASE call[c].todo = <<"clear_ttl", "drop", "put">>
          BY <5>1, <3>1, <4>2, <4>3, Tails DEF InOrder
        <5>2. CASE call[c].todo = <<"clear_ttl", "drop">>
          BY <5>2, Tails, FreePlans DEF OrphanSteps
        <5>3. QED
          BY <4>1, <5>1, <5>2
      <4>6. Continue(c, Tail(call[c].todo)) /\ Tail(call[c].todo) \in Plans
        BY <3>6, <3>1, PlansClosed DEF ClearTtl
      <4>7. QED
        BY <4>4, <4>5, <4>6, <3>2
    <3>7. CASE Put(c)
      <4>1. call[c].todo = <<"put">>
        BY <3>7, <3>1, PlanOf DEF Put, At
      <4>2. life > 0 => ttl[n] > 0 /\ n \in WithLifetime
        BY <4>1, <3>1 DEF InOrder
      <4>3. /\ value' = [value EXCEPT ![n] = IF life = 0 THEN "permanent" ELSE "lifetime"]
            /\ ttl' = ttl
        BY <3>7 DEF Put, n, life
      <4>4. Backed'
        <5>1. \A m \in Names \ {n} : value'[m] = value[m]
          BY <4>3, <2>t DEF StoresTyped
        <5>2. value'[n] = "lifetime" => life > 0
          BY <4>3, <3>1, <2>t DEF StoresTyped
        <5>3. QED
          BY <5>1, <5>2, <4>2, <4>3, <2>t DEF Backed
      <4>5. Continue(c, <<>>) /\ <<>> \in Plans
        BY <3>7, <4>1, Tails DEF Put, Plans
      <4>6. QED
        BY <4>4, <4>5, <3>2, FreePlans
    <3>8. CASE Erase(c)
      <4>1. call[c].todo = RemoveSteps
        BY <3>8, <3>1, PlanOf DEF Erase, At
      <4>2. value' = [value EXCEPT ![n] = "absent"] /\ ttl' = ttl
        BY <3>8 DEF Erase, n
      <4>3. value'[n] = "absent" /\ \A m \in Names \ {n} : value'[m] = value[m]
        BY <4>2, <3>1, <2>t DEF StoresTyped
      <4>4. Backed'
        BY <4>2, <4>3, <2>t DEF Backed
      <4>5. InOrder(OrphanSteps, life, n, value'[n], ttl'[n])
        BY <4>3 DEF InOrder, OrphanSteps
      <4>6. Continue(c, OrphanSteps)
        BY <3>8, <4>1, Tails DEF Erase
      <4>7. QED
        BY <4>4, <4>5, <4>6, <3>2, PlansStart
    <3>9. CASE WriteFails(c)
      <4>1. UNCHANGED nvs /\ Continue(c, AfterFailure(call[c].todo))
        BY <3>9 DEF WriteFails
      <4>2. AfterFailure(call[c].todo) \in {<<"drop">>, <<>>}
        BY Tails DEF AfterFailure
      <4>3. <<"drop">> \in Plans /\ <<>> \in Plans
        BY DEF Plans
      <4>4. QED
        BY <4>1, <4>2, <4>3, <3>2, <3>s, FreePlans
    <3>10. CASE Query(c)
      <4>1. UNCHANGED nvs /\ (Continue(c, RemoveSteps) \/ Continue(c, <<>>))
        BY <3>10 DEF Query
      <4>2. QED
        BY <4>1, <3>2, <3>s, FreePlans, PlansStart
    <3>11. QED
      BY <2>1, <3>3, <3>4, <3>5, <3>6, <3>7, <3>8, <3>9, <3>10 DEF Step
  <2>b. ASSUME NEW c \in Callers, \A d \in Callers \ {c} : ~Busy(d),
               cycle = "expire" <=> c = Policy,
               NEW n \in Names, NEW todo \in Plans, NEW life \in Nat, Begin(c, n, todo, life),
               InOrder(todo, life, n, value[n], ttl[n])
        PROVE  LifetimeInv'
    <3>1. OneCall' /\ CallOrder'
      BY <2>b, FirstCaller
    <3>2. Backed'
      BY <2>b, <2>t DEF Begin, nvs, Backed
    <3>3. QED
      BY <3>1, <3>2, <2>q
  <2>2. ASSUME NEW c \in Clients, Define(c) \/ Remove(c) \/ List(c) PROVE LifetimeInv'
    <3>1. /\ c \in Callers /\ c # Policy /\ Requests[c] \subseteq Request
          /\ cycle # "expire" /\ \A d \in Callers : ~Busy(d)
      BY <2>2 DEF Callers, Define, Remove, List, MayStart
    <3>2. CASE Define(c)
      <4>1. PICK r \in Requests[c] :
              r.op = "define" /\ Begin(c, r.name, DefineSteps(r.life), r.life)
        BY <3>2 DEF Define
      <4>2. r.name \in Names /\ r.life \in Nat
        BY <3>1 DEF Request
      <4>3. InOrder(DefineSteps(r.life), r.life, r.name, value[r.name], ttl[r.name])
        <5>1. CASE r.life > 0
          <6>1. r.name \in WithLifetime
            BY <5>1, <4>1, <4>2 DEF WithLifetime
          <6>2. QED
            BY <5>1, <6>1 DEF DefineSteps, InOrder
        <5>2. CASE ~(r.life > 0)
          <6>1. r.name \notin WithLifetime /\ r.life = 0
            BY <5>2, <4>1, <4>2 DEF FixedKinds
          <6>2. value[r.name] # "lifetime"
            BY <6>1, <4>2, <2>t DEF Backed
          <6>3. QED
            BY <5>2, <6>1, <6>2 DEF DefineSteps, InOrder
        <5>3. QED
          BY <5>1, <5>2
      <4>4. QED
        BY <4>1, <4>2, <4>3, <3>1, <2>b, PlansStart
    <3>3. CASE Remove(c)
      <4>1. PICK r \in Requests[c] : Begin(c, r.name, RemoveSteps, 0)
        BY <3>3 DEF Remove
      <4>2. r.name \in Names
        BY <3>1 DEF Request
      <4>3. QED
        BY <4>1, <4>2, <3>1, <2>b, PlansStart, FreePlans
    <3>4. CASE List(c)
      <4>1. PICK r \in Requests[c] : Begin(c, r.name, <<"query">>, ttl[r.name])
        BY <3>4 DEF List
      <4>2. r.name \in Names /\ ttl[r.name] \in Nat
        BY <3>1, <4>1, <2>t DEF Request, StoresTyped
      <4>3. QED
        BY <4>1, <4>2, <3>1, <2>b, PlansStart, FreePlans
    <3>5. QED
      BY <2>2, <3>2, <3>3, <3>4
  <2>3. CASE CheckEntry
    <3>1. PICK n \in Names :
            Begin(Policy, n, IF value[n] = "absent" THEN OrphanSteps ELSE <<"query">>, entries[n])
      BY <2>3 DEF CheckEntry
    <3>2. /\ Policy \in Callers /\ entries[n] \in Nat /\ cycle = "expire"
          /\ \A d \in Callers \ {Policy} : ~Busy(d)
      BY <2>3, <2>t DEF Callers, StoresTyped, CheckEntry, OneCall
    <3>3. value[n] = "absent" => InOrder(OrphanSteps, entries[n], n, value[n], ttl[n])
      BY DEF InOrder, OrphanSteps
    <3>4. QED
      BY <3>1, <3>2, <3>3, <2>b, PlansStart, FreePlans
  <2>4. ASSUME \A d \in Callers : ~Busy(d)', UNCHANGED nvs
        PROVE  LifetimeInv'
    <3>1. OneCall' /\ CallOrder'
      BY <2>4, FreePlans DEF OneCall, CallOrder, Busy
    <3>2. Backed'
      BY <2>4, <2>t DEF Backed, nvs
    <3>3. QED
      BY <3>1, <3>2, <2>q
  <2>5. CASE BeginCycle \/ RunProgram \/ Tick
    <3>1. UNCHANGED <<nvs, call>>
      BY <2>5 DEF BeginCycle, RunProgram, Tick
    <3>2. \A d \in Callers : ~Busy(d)
      <4>1. CASE BeginCycle \/ Tick
        BY <4>1 DEF BeginCycle, Tick, MayStart
      <4>2. CASE RunProgram
        BY <4>2, <2>t DEF RunProgram, OneCall
      <4>3. QED
        BY <2>5, <4>1, <4>2
    <3>3. QED
      BY <3>1, <3>2, <2>4 DEF Busy
  <2>6. CASE Reset
    BY <2>6, <2>4 DEF Reset, Busy, Idle
  <2>7. CASE EndCycle \/ UNCHANGED vars
    <3>1. UNCHANGED <<nvs, call>> /\ (cycle' = "expire" <=> cycle = "expire")
      BY <2>7 DEF EndCycle, vars
    <3>2. QED
      BY <3>1, <2>t, <2>q DEF nvs, OneCall, CallOrder, Busy, Backed
  <2>8. QED
    BY <2>1, <2>2, <2>3, <2>5, <2>6, <2>7 DEF Next
<1>3. QED
  BY <1>1, <1>2, ConfigTypeCorrect, PTL DEF Spec

(* If no name is defined both with a lifetime and without, and calls do    *)
(* not overlap, no reset and no failing write ever leaves a value that was *)
(* defined with a lifetime in flash as a permanent one.                    *)
THEOREM LifetimeStands ==
  ASSUME FixedKinds, Overlap = FALSE
  PROVE  Spec => []LifetimeKept
<1>1. LifetimeInv => LifetimeKept
  BY DEF LifetimeInv, LifetimeKept
<1>2. QED
  BY <1>1, LifetimesHold, PTL

-----------------------------------------------------------------------------
(* The same for CountdownInv.                                              *)
LEMMA FoundedPlans ==
  ASSUME NEW life, NEW t
  PROVE  /\ Founded(<<>>, life, t) /\ Founded(<<"drop">>, life, t) /\ Founded(<<"put">>, life, t)
         /\ Founded(<<"drop", "put">>, life, t) /\ Founded(<<"clear_ttl", "drop", "put">>, life, t)
         /\ Founded(RemoveSteps, life, t) /\ Founded(OrphanSteps, life, t)
BY DEF Founded, RemoveSteps, OrphanSteps

(* A step of a call changes only the stores of its name.                   *)
LEMMA SettlingStep ==
  ASSUME TypeOK, CountdownInv, NEW c \in Callers, Busy(c), NEW todo \in Plans, Continue(c, todo),
         cycle' = cycle, entries' = entries,
         NEW n, n = call[c].name,
         Founded(todo, call[c].life, ttl'[n]),
         \A m \in Names \ {n} : ttl'[m] = ttl[m] /\ deadline'[m] = deadline[m],
         deadline'[n] # NoDeadline => ttl'[n] > 0 \/ todo \in Unsettled
  PROVE  CountdownInv'
<1>0. /\ n \in Names /\ OneCall
      /\ \A d \in Callers \ {c} : call[d].todo = <<>>
  BY StepAlone DEF TypeOK, CallsTyped, CountdownInv
<1>1. /\ OneCall'
      /\ \A d \in Callers \ {c} : call'[d].todo = <<>>
      /\ call'[c].todo = todo
      /\ todo # <<>> => call'[c].life = call[c].life /\ call'[c].name = n
  BY <1>0, StepAlone
<1>2. \A d \in Callers : Founded(call'[d].todo, call'[d].life, ttl'[call'[d].name])
  BY <1>1, FoundedPlans
<1>3. CollectedIsStored'
  <2> SUFFICES ASSUME NEW m \in Names, cycle = "expire", entries[m] > 0
               PROVE  ttl'[m] > 0 /\ ~(Busy(Policy)' /\ call'[Policy].name = m)
    BY DEF CollectedIsStored
  <2>1. c = Policy
    BY <1>0 DEF OneCall
  <2>2. ttl[m] > 0 /\ m # n
    BY <2>1 DEF CountdownInv, CollectedIsStored
  <2>3. QED
    BY <1>1, <2>1, <2>2 DEF Busy
<1>4. ASSUME NEW m \in Names, deadline'[m] # NoDeadline
      PROVE  ttl'[m] > 0 \/ \E d \in Callers : call'[d].name = m /\ call'[d].todo \in Unsettled
  <2>1. CASE m = n
    <3>1. <<>> \notin Unsettled
      BY DEF Unsettled
    <3>2. QED
      BY <1>1, <1>4, <2>1, <3>1
  <2>2. CASE m # n
    <3>1. m \in Tracked
      BY <1>4, <2>2 DEF Tracked
    <3>2. <<>> \notin Unsettled
      BY DEF Unsettled
    <3>3. ttl[m] > 0
      BY <1>0, <2>2, <3>1, <3>2 DEF CountdownInv
    <3>4. QED
      BY <2>2, <3>3
  <2>3. QED
    BY <2>1, <2>2
<1>5. QED
  BY <1>1, <1>2, <1>3, <1>4 DEF CountdownInv, Tracked

(* Between calls every countdown has its lifetime.                         *)
LEMMA Settled ==
  ASSUME CountdownInv, \A c \in Callers : ~Busy(c)
  PROVE  \A n \in Tracked : ttl[n] > 0
<1>1. <<>> \notin Unsettled
  BY DEF Unsettled
<1>2. QED
  BY <1>1 DEF CountdownInv, Busy

(* A call starts alone.                                                    *)
LEMMA SettlingStart ==
  ASSUME TypeOK, CountdownInv, NEW c \in Callers, \A d \in Callers : ~Busy(d),
         cycle = "expire" <=> c = Policy,
         NEW n \in Names, NEW todo \in Plans, NEW life \in Nat, Begin(c, n, todo, life),
         Founded(todo, life, ttl[n]),
         cycle = "expire" => entries' = [entries EXCEPT ![n] = 0]
  PROVE  CountdownInv'
<1>1. call \in [Callers -> Record] /\ entries \in [Names -> Nat]
  BY DEF TypeOK, CallsTyped, StoresTyped, Record
<1>2. /\ \A d \in Callers \ {c} : call'[d].todo = <<>>
      /\ call'[c].todo = todo /\ call'[c].life = life /\ call'[c].name = n
  BY <1>1 DEF Begin, Busy
<1>3. ttl' = ttl /\ deadline' = deadline /\ cycle' = cycle
  BY DEF Begin, nvs
<1>4. OneCall'
  BY <1>2, <1>3 DEF OneCall, Busy
<1>5. \A d \in Callers : Founded(call'[d].todo, call'[d].life, ttl'[call'[d].name])
  BY <1>2, <1>3, FoundedPlans
<1>6. CollectedIsStored'
  <2> SUFFICES ASSUME NEW m \in Names, cycle = "expire", entries'[m] > 0
               PROVE  ttl[m] > 0 /\ call'[Policy].name # m
    BY <1>3 DEF CollectedIsStored
  <2>1. m # n /\ entries'[m] = entries[m]
    BY <1>1
  <2>2. QED
    BY <1>2, <2>1 DEF CountdownInv, CollectedIsStored
<1>7. \A m \in Tracked' : ttl'[m] > 0
  BY <1>3, Settled DEF Tracked
<1>8. QED
  BY <1>4, <1>5, <1>6, <1>7 DEF CountdownInv

(* If calls do not overlap, every countdown in the table has its lifetime  *)
(* in flash between calls, whatever fails and whenever the device is reset *)
(* (config_flags.cpp:82-230).                                                *)
THEOREM CountdownsAreBacked ==
  ASSUME Overlap = FALSE
  PROVE  Spec => []DeadlinesBacked
<1> USE ConstantsAssumption
<1>1. Init => CountdownInv
  BY FoundedPlans DEF Init, CountdownInv, OneCall, CollectedIsStored, Tracked, Idle, Busy
<1>2. TypeOK /\ CountdownInv /\ [Next]_vars => CountdownInv'
  <2> SUFFICES ASSUME TypeOK, CountdownInv, [Next]_vars PROVE CountdownInv'
    OBVIOUS
  <2>t. StoresTyped /\ CallsTyped /\ OneCall /\ CollectedIsStored
    BY DEF TypeOK, CountdownInv
  <2>1. ASSUME NEW c \in Callers, Step(c) PROVE CountdownInv'
    <3> DEFINE n == call[c].name
               life == call[c].life
    <3>1. /\ Busy(c) /\ cycle' = cycle /\ entries' = entries
          /\ n \in Names /\ life \in Nat /\ call[c].todo \in Plans /\ call[c].todo # <<>>
          /\ Founded(call[c].todo, life, ttl[n])
          /\ ttl[n] \in Nat
      BY <2>1, <2>t DEF Step, Refresh, Drop, PutTtl, ClearTtl, Put, Erase, WriteFails, Query, At,
                        CallsTyped, StoresTyped, CountdownInv, Busy
    <3>2. Tail(call[c].todo) \in Plans /\ AfterFailure(call[c].todo) \in Plans
      BY <3>1, PlansClosed
    <3>3. call[c].todo \notin Unsettled /\ deadline[n] # NoDeadline => ttl[n] > 0
      BY <3>1, StepAlone, <2>t DEF CountdownInv, Tracked, OneCall, Busy, Unsettled
    <3> HIDE DEF n, life
    <3>4. ASSUME NEW todo \in Plans, Continue(c, todo), Founded(todo, life, ttl'[n]),
                 \A m \in Names \ {n} : ttl'[m] = ttl[m] /\ deadline'[m] = deadline[m],
                 deadline'[n] # NoDeadline => ttl'[n] > 0 \/ todo \in Unsettled
          PROVE  CountdownInv'
      BY <3>1, <3>4, SettlingStep DEF n, life
    <3>5. CASE Refresh(c)
      <4>1. call[c].todo = <<"refresh", "put_ttl", "put">>
        BY <3>5, <3>1, PlanOf DEF Refresh, At
      <4>2. ttl' = ttl /\ life > 0 /\ call[c].todo \notin Unsettled
        BY <3>5, <3>1, <4>1 DEF Refresh, nvs, Founded, Unsettled
      <4>3. \/ Continue(c, <<"put_ttl", "put">>) /\ deadline' = [deadline EXCEPT ![n] = life]
            \/ Continue(c, <<>>) /\ deadline' = deadline
        BY <3>5, <4>1, Tails DEF Refresh, n, life
      <4>4. Founded(<<"put_ttl", "put">>, life, ttl'[n]) /\ <<"put_ttl", "put">> \in Unsettled
        BY <4>2 DEF Founded, Unsettled
      <4>5. <<"put_ttl", "put">> \in Plans /\ <<>> \in Plans
        BY DEF Plans
      <4>6. QED
        BY <4>2, <4>3, <4>4, <4>5, <3>1, <3>3, <3>4, <2>t, FoundedPlans DEF StoresTyped
    <3>6. CASE Drop(c)
      <4>1. call[c].todo \in {<<"drop", "put">>, <<"drop">>}
        BY <3>6, <3>1, PlanOf DEF Drop, At
      <4>2. /\ ttl' = ttl /\ deadline' = [deadline EXCEPT ![n] = NoDeadline]
            /\ Continue(c, Tail(call[c].todo))
        BY <3>6 DEF Drop, nvs, n
      <4>3. Founded(Tail(call[c].todo), life, ttl'[n])
        BY <4>1, Tails, FoundedPlans
      <4>4. QED
        BY <4>2, <4>3, <3>1, <3>2, <3>4, <2>t DEF StoresTyped
    <3>7. CASE PutTtl(c)
      <4>1. call[c].todo = <<"put_ttl", "put">>
        BY <3>7, <3>1, PlanOf DEF PutTtl, At
      <4>2. life > 0
        BY <4>1, <3>1 DEF Founded
      <4>3. /\ ttl' = [ttl EXCEPT ![n] = life] /\ deadline' = deadline
            /\ Continue(c, <<"put">>) /\ <<"put">> \in Plans
        BY <3>7, <4>1, Tails DEF PutTtl, Plans, n, life
      <4>4. QED
        BY <4>2, <4>3, <3>1, <3>4, <2>t, FoundedPlans DEF StoresTyped
    <3>8. CASE ClearTtl(c)
      <4>1. call[c].todo \in {<<"clear_ttl", "drop", "put">>, <<"clear_ttl", "drop">>}
        BY <3>8, <3>1, PlanOf DEF ClearTtl, At
      <4>2. Tail(call[c].todo) \in {<<"drop", "put">>, <<"drop">>}
        BY <4>1, Tails DEF OrphanSteps
      <4>3. /\ ttl' = [ttl EXCEPT ![n] = 0] /\ deadline' = deadline
            /\ Continue(c, Tail(call[c].todo))
        BY <3>8 DEF ClearTtl, n
      <4>4. Founded(Tail(call[c].todo), life, ttl'[n]) /\ Tail(call[c].todo) \in Unsettled
        BY <4>2, FoundedPlans DEF Unsettled
      <4>5. QED
        BY <4>3, <4>4, <3>1, <3>2, <3>4, <2>t DEF StoresTyped
    <3>9. ASSUME UNCHANGED <<ttl, deadline>>, NEW todo \in Plans, Continue(c, todo),
                 call[c].todo \notin Unsettled \/ todo \in Unsettled,
                 Founded(todo, life, ttl[n])
          PROVE  CountdownInv'
      BY <3>3, <3>4, <3>9
    <3>10. CASE Put(c)
      <4>1. call[c].todo = <<"put">>
        BY <3>10, <3>1, PlanOf DEF Put, At
      <4>2. Continue(c, <<>>) /\ <<>> \in Plans /\ call[c].todo \notin Unsettled
        BY <3>10, <4>1, Tails DEF Put, Plans, Unsettled
      <4>3. QED
        BY <3>10, <4>2, <3>9, FoundedPlans DEF Put
    <3>11. CASE Erase(c)
      <4>1. call[c].todo = RemoveSteps
        BY <3>11, <3>1, PlanOf DEF Erase, At
      <4>2. Continue(c, OrphanSteps) /\ call[c].todo \notin Unsettled
        BY <3>11, <4>1, Tails DEF Erase, Unsettled, RemoveSteps
      <4>3. QED
        BY <3>11, <4>2, <3>9, FoundedPlans, PlansStart DEF Erase
    <3>12. CASE WriteFails(c)
      <4>1. UNCHANGED <<ttl, deadline>> /\ Continue(c, AfterFailure(call[c].todo))
        BY <3>12 DEF WriteFails, nvs
      <4>2. AfterFailure(call[c].todo) \in {<<"drop">>, <<>>}
        BY Tails DEF AfterFailure
      <4>3. call[c].todo \in Unsettled => AfterFailure(call[c].todo) \in Unsettled
        <5>1. call[c].todo \in Unsettled => Head(call[c].todo) = "put_ttl" \/ call[c].todo \in {<<"drop">>, <<"drop", "put">>}
          BY DEF Unsettled
        <5>2. call[c].todo \notin {<<"drop">>, <<"drop", "put">>}
          BY <3>12 DEF WriteFails, At
        <5>3. QED
          BY <5>1, <5>2 DEF AfterFailure, Unsettled
      <4>4. QED
        BY <4>1, <4>2, <4>3, <3>2, <3>9, FoundedPlans
    <3>13. CASE Query(c)
      <4>1. call[c].todo = <<"query">>
        BY <3>13, <3>1, PlanOf DEF Query, At
      <4>2. ttl[n] > 0
        BY <4>1, <3>1 DEF Founded
      <4>3. /\ ttl' = ttl /\ (Continue(c, RemoveSteps) \/ Continue(c, <<>>))
            /\ deadline' = deadline \/ deadline' = [deadline EXCEPT ![n] = life]
        BY <3>13 DEF Query, nvs, n, life
      <4>4. QED
        BY <4>2, <4>3, <3>1, <3>4, <2>t, FoundedPlans, PlansStart DEF StoresTyped
    <3>14. QED
      BY <2>1, <3>5, <3>6, <3>7, <3>8, <3>10, <3>11, <3>12, <3>13 DEF Step
  <2>2. ASSUME NEW c \in Clients, Define(c) \/ Remove(c) \/ List(c) PROVE CountdownInv'
    <3>1. /\ c \in Callers /\ c # Policy /\ Requests[c] \subseteq Request
          /\ cycle # "expire" /\ \A d \in Callers : ~Busy(d)
      BY <2>2 DEF Callers, Define, Remove, List, MayStart
    <3>2. PICK r \in Requests[c], todo \in Plans, life \in Nat :
            Begin(c, r.name, todo, life) /\ Founded(todo, life, ttl[r.name])
      <4>1. CASE Define(c)
        <5>1. \A life \in Nat : \A t : Founded(DefineSteps(life), life, t)
          BY DEF Founded, DefineSteps
        <5>2. QED
          BY <4>1, <5>1, <3>1, PlansStart DEF Define, Request
      <4>2. CASE Remove(c)
        BY <4>2, FoundedPlans, PlansStart DEF Remove
      <4>3. CASE List(c)
        <5>1. PICK r \in Requests[c] : ttl[r.name] > 0 /\ Begin(c, r.name, <<"query">>, ttl[r.name])
          BY <4>3 DEF List
        <5>2. ttl[r.name] \in Nat /\ Founded(<<"query">>, ttl[r.name], ttl[r.name])
          BY <5>1, <3>1, <2>t DEF Request, StoresTyped, Founded
        <5>3. QED
          BY <5>1, <5>2, PlansStart
      <4>4. QED
        BY <2>2, <4>1, <4>2, <4>3
    <3>3. r.name \in Names
      BY <3>1 DEF Request
    <3>4. QED
      BY <3>1, <3>2, <3>3, SettlingStart
  <2>3. CASE CheckEntry
    <3>1. PICK n \in Names :
            /\ entries[n] > 0
            /\ Begin(Policy, n, IF value[n] = "absent" THEN OrphanSteps ELSE <<"query">>, entries[n])
            /\ entries' = [entries EXCEPT ![n] = 0]
      BY <2>3 DEF CheckEntry
    <3>2. /\ Policy \in Callers /\ entries[n] \in Nat /\ cycle = "expire"
          /\ \A d \in Callers : ~Busy(d)
      BY <2>3, <2>t DEF Callers, StoresTyped, CheckEntry, OneCall
    <3>3. Founded(<<"query">>, entries[n], ttl[n])
      BY <3>1, <3>2, <2>t DEF CollectedIsStored, Founded
    <3>4. QED
      BY <3>1, <3>2, <3>3, SettlingStart, PlansStart, FoundedPlans
  <2>4. ASSUME \A d \in Callers : ~Busy(d)', \A n \in Tracked' : ttl'[n] > 0, CollectedIsStored'
        PROVE  CountdownInv'
    BY <2>4, FoundedPlans DEF CountdownInv, OneCall, Busy
  <2>5. CASE BeginCycle \/ RunProgram \/ Tick
    <3>1. UNCHANGED <<nvs, call>> /\ Tracked' = Tracked
      <4>1. CASE BeginCycle \/ RunProgram
        BY <4>1 DEF BeginCycle, RunProgram, Tracked
      <4>2. CASE Tick
        BY <4>2, <2>t DEF Tick, Tracked, StoresTyped, NoDeadline
      <4>3. QED
        BY <2>5, <4>1, <4>2
    <3>2. \A d \in Callers : ~Busy(d)
      <4>1. CASE BeginCycle \/ Tick
        BY <4>1 DEF BeginCycle, Tick, MayStart
      <4>2. CASE RunProgram
        BY <4>2, <2>t DEF RunProgram, OneCall
      <4>3. QED
        BY <2>5, <4>1, <4>2
    <3>3. CollectedIsStored'
      <4>1. CASE BeginCycle
        <5>1. \A n \in Names : entries'[n] > 0 => ttl[n] > 0
          BY <4>1, <2>t DEF BeginCycle, StoresTyped
        <5>2. QED
          BY <3>1, <3>2, <5>1 DEF CollectedIsStored, Busy, Callers, nvs
      <4>2. CASE RunProgram \/ Tick
        BY <4>2 DEF RunProgram, Tick, CollectedIsStored
      <4>3. QED
        BY <2>5, <4>1, <4>2
    <3>4. QED
      BY <3>1, <3>2, <3>3, <2>4, Settled DEF nvs, Busy
  <2>6. CASE Reset
    BY <2>6, <2>4 DEF Reset, Busy, Idle, Tracked, CollectedIsStored
  <2>7. CASE EndCycle
    <3>1. /\ UNCHANGED <<nvs, deadline, call, entries>> /\ cycle # "expire" /\ cycle' # "expire"
      BY <2>7 DEF EndCycle
    <3>2. QED
      BY <3>1, <2>t DEF nvs, CountdownInv, OneCall, CollectedIsStored, Tracked, Busy
  <2>8. CASE UNCHANGED vars
    BY <2>8 DEF vars, nvs, CountdownInv, OneCall, CollectedIsStored, Tracked, Busy
  <2>9. QED
    BY <2>1, <2>2, <2>3, <2>5, <2>6, <2>7, <2>8 DEF Next
<1>3. CountdownInv => DeadlinesBacked
  BY Settled DEF DeadlinesBacked
<1>4. QED
  BY <1>1, <1>2, <1>3, ConfigTypeCorrect, PTL DEF Spec

-----------------------------------------------------------------------------
(* Promises, countdowns and lifetimes.                                     *)
(* When every define of a name asks for the same lifetime, there is only   *)
(* one it can have been asked for.                                         *)
LEMMA OneLifetime ==
  ASSUME FixedLifetimes, NEW n, NEW k, NEW l, Asked(n, k), Asked(n, l)
  PROVE  k = l
BY DEF FixedLifetimes, Asked

(* ... and the plans that promise nothing.                                 *)
LEMMA PromiselessPlans ==
  ASSUME NEW c \in Callers, NEW n, NEW life, NEW left, NEW due, NEW gone
  PROVE  /\ n \in gone => /\ Promising(c, OrphanSteps, n, life, left, due, gone)
                    /\ Promising(c, <<"drop">>, n, life, left, due, gone)
         /\ c # Policy \/ due.left = 0 => Promising(c, RemoveSteps, n, life, left, due, gone)
BY DEF Promising, Naming, OrphanSteps, RemoveSteps

(* A step of a call touches its own name, and the others' state stands.    *)
LEMMA PromiseStep ==
  ASSUME TypeOK, OneCall, PromiseInv, NEW c \in Callers, Busy(c),
         NEW todo \in Plans, Continue(c, todo), cycle' = cycle, entries' = entries,
         NEW n \in Names, n = call[c].name, NEW life, life = call[c].life,
         \A m \in Names \ {n} :
           /\ value'[m] = value[m] /\ ttl'[m] = ttl[m] /\ deadline'[m] = deadline[m]
           /\ promise'[m] = promise[m] /\ (m \in missed' <=> m \in missed),
         ttl'[n] > 0 => Asked(n, ttl'[n]),
         promise'[n].life > 0 => Asked(n, promise'[n].life),
         promise'[n].left <= promise'[n].life,
         deadline'[n] # NoDeadline => promise'[n].left <= deadline'[n],
         todo # <<>> => Promising(c, todo, n, life, deadline'[n], promise'[n], Gone'),
         Live(n)' => CountdownExact(n)' /\ (cycle = "expire" => Settling(n)')
  PROVE  PromiseInv'
<1>0. /\ \A d \in Callers \ {c} : call[d].todo = <<>> /\ call'[d] = call[d]
      /\ call'[c].todo = todo
      /\ todo # <<>> => call'[c].life = call[c].life /\ call'[c].name = call[c].name
  BY StepAlone
<1>1. LifetimesAsked'
  <2> SUFFICES ASSUME NEW m \in Names
               PROVE  /\ ttl'[m] > 0 => Asked(m, ttl'[m])
                      /\ entries[m] > 0 => Asked(m, entries[m])
                      /\ promise'[m].life > 0 => Asked(m, promise'[m].life)
                      /\ promise'[m].left <= promise'[m].life
    BY DEF LifetimesAsked, Asked
  <2>1. QED
    BY DEF PromiseInv, LifetimesAsked
<1>2. CallsPromise'
  <2> SUFFICES ASSUME NEW d \in Callers, call'[d].todo # <<>>
               PROVE  Promising(d, call'[d].todo, call'[d].name, call'[d].life,
                                deadline'[call'[d].name], promise'[call'[d].name],
                                Gone')
    BY DEF CallsPromise, Busy
  <2>1. d = c /\ todo # <<>>
    BY <1>0
  <2>2. call'[d].todo = todo /\ call'[d].name = n /\ call'[d].life = life
    BY <2>1, <1>0
  <2>3. QED
    BY <2>1, <2>2
<1>3. \A m \in Tracked' : promise'[m].left <= deadline'[m]
  BY DEF PromiseInv, Tracked
<1>4. ASSUME NEW m \in Names, Live(m)'
      PROVE  CountdownExact(m)' /\ (cycle' = "expire" => Settling(m)')
  <2>1. CASE m = n
    BY <1>4, <2>1
  <2>2. CASE m # n
    <3>1. Live(m)
      BY <1>4, <2>2 DEF Live
    <3>2. CountdownExact(m) /\ (cycle = "expire" => Settling(m))
      BY <3>1 DEF PromiseInv
    <3>3. m \in Tracked' <=> m \in Tracked
      BY <2>2 DEF Tracked
    <3>4. /\ ~InHand(m, <<"query">>) \/ c # Policy
          /\ ~InHand(m, RemoveSteps) \/ c # Policy
      BY <2>2 DEF InHand
    <3>5. cycle = "expire" => c = Policy
      BY DEF OneCall
    <3>6. CountdownExact(m)'
      BY <2>2, <3>2, <3>3, <3>4, <3>5 DEF CountdownExact
    <3>7. cycle = "expire" => Settling(m)'
      BY <2>2, <3>2, <3>4, <3>5 DEF Settling
    <3>8. QED
      BY <3>6, <3>7
  <2>3. QED
    BY <2>1, <2>2
<1>5. QED
  BY <1>1, <1>2, <1>3, <1>4 DEF PromiseInv

(* A call starts alone, and changes nothing yet.                           *)
LEMMA PromiseStart ==
  ASSUME TypeOK, PromiseInv, NEW c \in Callers, \A d \in Callers : ~Busy(d),
         NEW n \in Names, NEW todo \in Plans, NEW life \in Nat, Begin(c, n, todo, life),
         cycle = "expire" => /\ c = Policy /\ entries' = [entries EXCEPT ![n] = 0]
                             /\ value[n] # "absent" => todo = <<"query">>,
         cycle # "expire" => entries' = entries,
         Promising(c, todo, n, life, deadline[n], promise[n], Gone)
  PROVE  PromiseInv'
<1>1. call \in [Callers -> Record] /\ entries \in [Names -> Nat]
  BY DEF TypeOK, CallsTyped, StoresTyped, Record
<1>2. /\ \A d \in Callers \ {c} : call'[d] = call[d] /\ call'[d].todo = <<>>
      /\ call'[c].todo = todo /\ call'[c].life = life /\ call'[c].name = n
  BY <1>1 DEF Begin, Busy
<1>3. /\ ttl' = ttl /\ value' = value /\ deadline' = deadline /\ cycle' = cycle
      /\ promise' = promise /\ missed' = missed
  BY DEF Begin, nvs, history
<1>4. LifetimesAsked'
  BY <1>1, <1>3 DEF PromiseInv, LifetimesAsked
<1>5. CallsPromise'
  <2> SUFFICES ASSUME NEW d \in Callers, call'[d].todo # <<>>
               PROVE  Promising(d, call'[d].todo, call'[d].name, call'[d].life,
                                deadline'[call'[d].name], promise'[call'[d].name],
                                Gone')
    BY DEF CallsPromise, Busy
  <2>1. d = c
    BY <1>2
  <2>2. Gone' = Gone
    BY <1>3 DEF Gone
  <2>3. QED
    BY <2>1, <2>2, <1>2, <1>3
<1>6. \A m \in Tracked' : promise'[m].left <= deadline'[m]
  BY <1>3 DEF PromiseInv, Tracked
<1>7. ASSUME NEW m \in Names, Live(m)'
      PROVE  CountdownExact(m)' /\ (cycle' = "expire" => Settling(m)')
  <2>1. Live(m)
    BY <1>3, <1>7 DEF Live
  <2>2. CountdownExact(m) /\ (cycle = "expire" => Settling(m))
    BY <2>1 DEF PromiseInv
  <2>3. CASE cycle = "expire"
    <3>1. c = Policy
      BY <2>3
    <3>2. ~InHand(m, <<"query">>) /\ ~InHand(m, RemoveSteps)
      BY <3>1 DEF InHand, Busy, RemoveSteps, Callers
    <3>3. CASE m = n
      <4>1. InHand(m, <<"query">>)'
        BY <2>1, <2>3, <3>1, <3>3, <1>2 DEF InHand, Live
      <4>2. QED
        BY <4>1, <2>2, <2>3, <1>3 DEF CountdownExact, Settling, Tracked
    <3>4. CASE m # n
      <4>1. entries'[m] = entries[m]
        BY <2>3, <3>4, <1>1
      <4>2. QED
        BY <4>1, <2>2, <2>3, <3>2, <1>3 DEF CountdownExact, Settling, Tracked
    <3>5. QED
      BY <3>3, <3>4
  <2>4. CASE cycle # "expire"
    BY <2>2, <2>4, <1>3 DEF CountdownExact, Tracked
  <2>5. QED
    BY <2>3, <2>4
<1>8. QED
  BY <1>4, <1>5, <1>6, <1>7 DEF PromiseInv

(* What is asked for under one lifetime is asked for with one.             *)
LEMMA LifetimesFixKinds == ASSUME FixedLifetimes PROVE FixedKinds
BY DEF FixedLifetimes, FixedKinds, WithLifetime

(* Countdowns and promises agree, as PromiseInv says.                      *)
LEMMA PromisesHold ==
  ASSUME FixedLifetimes, Overlap = FALSE
  PROVE  Spec => []PromiseInv
<1> USE ConstantsAssumption
<1>1. Init => PromiseInv
  BY DEF Init, PromiseInv, LifetimesAsked, CallsPromise, Live, Tracked, Idle, Busy, Nothing
<1>2. TypeOK /\ LifetimeInv /\ PromiseInv /\ [Next]_vars => PromiseInv'
  <2> SUFFICES ASSUME TypeOK, LifetimeInv, PromiseInv, [Next]_vars PROVE PromiseInv'
    OBVIOUS
  <2>t. StoresTyped /\ CallsTyped /\ HistoryTyped /\ OneCall
    BY DEF TypeOK, LifetimeInv
  <2>1. ASSUME NEW c \in Callers, Step(c) PROVE PromiseInv'
    <3>1. /\ Busy(c) /\ cycle' = cycle /\ entries' = entries
          /\ call[c].name \in Names /\ call[c].life \in Nat
          /\ call[c].todo \in Plans /\ call[c].todo # <<>>
      BY <2>1, <2>t DEF Step, Refresh, Drop, PutTtl, ClearTtl, Put, Erase, WriteFails, Query, At,
                        CallsTyped, Busy
    <3>2. PICK n \in Names, life \in Nat : n = call[c].name /\ life = call[c].life
      BY <3>1
    <3>t. /\ ttl[n] \in Nat /\ deadline[n] \in Nat \cup {NoDeadline} /\ value[n] \in Kinds
          /\ promise[n].life \in Nat /\ promise[n].left \in Nat
          /\ deadline \in [Names -> Nat \cup {NoDeadline}]
          /\ ttl \in [Names -> Nat] /\ value \in [Names -> Kinds]
          /\ promise \in [Names -> [life : Nat, left : Nat]] /\ missed \subseteq Names
      BY <2>t DEF StoresTyped, HistoryTyped
    <3>3. /\ InOrder(call[c].todo, life, n, value[n], ttl[n])
          /\ Promising(c, call[c].todo, n, life, deadline[n], promise[n], Gone)
      BY <3>1, <3>2 DEF LifetimeInv, CallOrder, PromiseInv, CallsPromise
    <3>4. /\ ttl[n] > 0 => Asked(n, ttl[n])
          /\ promise[n].life > 0 => Asked(n, promise[n].life)
          /\ promise[n].left <= promise[n].life
          /\ deadline[n] # NoDeadline => promise[n].left <= deadline[n]
          /\ Live(n) => CountdownExact(n) /\ (cycle = "expire" => Settling(n))
          /\ cycle = "expire" <=> c = Policy
      BY <3>1, <2>t DEF PromiseInv, LifetimesAsked, Tracked, OneCall
    <3>5. ASSUME NEW todo \in Plans, Continue(c, todo),
                 \A m \in Names \ {n} :
                   /\ value'[m] = value[m] /\ ttl'[m] = ttl[m] /\ deadline'[m] = deadline[m]
                   /\ promise'[m] = promise[m] /\ (m \in missed' <=> m \in missed),
                 ttl'[n] > 0 => Asked(n, ttl'[n]),
                 promise'[n].life > 0 => Asked(n, promise'[n].life),
                 promise'[n].left <= promise'[n].life,
                 deadline'[n] # NoDeadline => promise'[n].left <= deadline'[n],
                 todo # <<>> => Promising(c, todo, n, life, deadline'[n], promise'[n], Gone'),
                 Live(n)' => CountdownExact(n)' /\ (cycle = "expire" => Settling(n)')
          PROVE  PromiseInv'
      BY <3>1, <3>2, <3>5, <2>t, PromiseStep
    <3>6. ASSUME deadline'[n] = deadline[n], promise'[n] = promise[n], Live(n),
                 call[c].todo \notin {<<"query">>, RemoveSteps}
          PROVE  CountdownExact(n)' /\ (cycle = "expire" => Settling(n)')
      BY <3>1, <3>4, <3>6 DEF CountdownExact, Settling, InHand, Tracked
    <3>7. Tail(call[c].todo) \in Plans /\ AfterFailure(call[c].todo) \in Plans
      BY <3>1, PlansClosed
    <3>8. CASE Refresh(c)
      <4>1. call[c].todo = <<"refresh", "put_ttl", "put">>
        BY <3>8, <3>1, PlanOf DEF Refresh, At
      <4>2. life > 0 /\ Asked(n, life)
        BY <4>1, <3>3 DEF InOrder, Promising, Naming
      <4>3. /\ ttl' = ttl /\ value' = value /\ missed' = missed
        BY <3>8 DEF Refresh, nvs
      <4>4. \/ /\ Continue(c, <<"put_ttl", "put">>)
               /\ deadline' = [deadline EXCEPT ![n] = life]
               /\ promise' = [promise EXCEPT ![n] = [life |-> life, left |-> life]]
            \/ Continue(c, <<>>) /\ deadline' = deadline /\ promise' = promise
        BY <3>8, <3>2, <4>1, Tails DEF Refresh
      <4>5. <<"put_ttl", "put">> \in Plans /\ <<>> \in Plans
        BY DEF Plans
      <4>6. CASE Continue(c, <<>>) /\ deadline' = deadline /\ promise' = promise
        <5>1. Live(n)' => Live(n)
          BY <4>3, <4>6 DEF Live
        <5>2. call[c].todo \notin {<<"query">>, RemoveSteps}
          BY <4>1 DEF RemoveSteps
        <5>3. QED
          BY <4>3, <4>5, <4>6, <5>1, <5>2, <3>4, <3>5, <3>6
      <4>7. CASE /\ Continue(c, <<"put_ttl", "put">>)
                 /\ deadline' = [deadline EXCEPT ![n] = life]
                 /\ promise' = [promise EXCEPT ![n] = [life |-> life, left |-> life]]
        <5>1. deadline'[n] = life /\ promise'[n].life = life /\ promise'[n].left = life
          BY <4>7, <3>t
        <5>2. Promising(c, <<"put_ttl", "put">>, n, life, deadline'[n], promise'[n], Gone')
          BY <5>1, <4>2 DEF Promising, Naming, OrphanSteps, RemoveSteps
        <5>3. CountdownExact(n)' /\ Settling(n)'
          BY <5>1, <4>2 DEF CountdownExact, Settling, Tracked, NoDeadline
        <5>4. \A m \in Names \ {n} : deadline'[m] = deadline[m] /\ promise'[m] = promise[m]
          BY <4>7, <3>t
        <5>5. QED
          BY <4>2, <4>3, <4>5, <4>7, <5>1, <5>2, <5>3, <5>4, <3>4, <3>5
      <4>8. QED
        BY <4>4, <4>6, <4>7
    <3>9. CASE Drop(c)
      <4>1. call[c].todo \in {<<"drop", "put">>, <<"drop">>}
        BY <3>9, <3>1, PlanOf DEF Drop, At
      <4>2. /\ ttl' = ttl /\ value' = value /\ missed' = missed /\ promise' = promise
            /\ deadline'[n] = NoDeadline
            /\ \A m \in Names \ {n} : deadline'[m] = deadline[m]
            /\ Continue(c, Tail(call[c].todo))
        BY <3>9, <3>2, <3>t DEF Drop, nvs, history
      <4>3. ~Live(n)'
        <5>1. call[c].todo = <<"drop", "put">> => value[n] # "lifetime"
          BY <3>3 DEF InOrder
        <5>2. call[c].todo = <<"drop">> => n \in Gone
          BY <3>3 DEF Promising
        <5>3. QED
          BY <5>1, <5>2, <4>1, <4>2 DEF Live, Gone
      <4>4. Tail(call[c].todo) # <<>> =>
              Promising(c, Tail(call[c].todo), n, life, deadline'[n], promise'[n], Gone')
        <5> SUFFICES ASSUME Tail(call[c].todo) # <<>>
                     PROVE  Promising(c, Tail(call[c].todo), n, life, deadline'[n], promise'[n], Gone')
          OBVIOUS
        <5>1. call[c].todo = <<"drop", "put">> /\ Tail(call[c].todo) = <<"put">>
          BY <4>1, Tails
        <5>2. life = 0 /\ Asked(n, life)
          BY <5>1, <3>3 DEF InOrder, Promising, Naming
        <5>3. QED
          BY <5>1, <5>2 DEF Promising, Naming, OrphanSteps, RemoveSteps
      <4>5. QED
        BY <4>2, <4>3, <4>4, <3>4, <3>5, <3>7
    <3>10. CASE PutTtl(c)
      <4>1. call[c].todo = <<"put_ttl", "put">>
        BY <3>10, <3>1, PlanOf DEF PutTtl, At
      <4>2. /\ Asked(n, life)
            /\ deadline[n] = life /\ promise[n].life = life /\ promise[n].left = life
        BY <4>1, <3>3 DEF Promising, Naming
      <4>3. /\ value' = value /\ deadline' = deadline /\ promise' = promise /\ missed' = missed
            /\ ttl'[n] = life /\ \A m \in Names \ {n} : ttl'[m] = ttl[m]
            /\ Continue(c, <<"put">>)
        BY <3>10, <3>2, <3>t, <4>1, Tails DEF PutTtl, history
      <4>4. Promising(c, <<"put">>, n, life, deadline'[n], promise'[n], Gone')
        BY <4>2, <4>3 DEF Promising, Naming, OrphanSteps, RemoveSteps
      <4>5. <<"put">> \in Plans /\ call[c].todo \notin {<<"query">>, RemoveSteps}
        BY <4>1 DEF Plans, RemoveSteps
      <4>6. Live(n)' => Live(n)
        BY <4>3 DEF Live
      <4>7. QED
        BY <4>2, <4>3, <4>4, <4>5, <4>6, <3>4, <3>5, <3>6
    <3>11. CASE ClearTtl(c)
      <4>1. call[c].todo \in {<<"clear_ttl", "drop", "put">>, OrphanSteps}
        BY <3>11, <3>1, PlanOf DEF ClearTtl, At, OrphanSteps
      <4>2. /\ value' = value /\ deadline' = deadline /\ promise' = promise /\ missed' = missed
            /\ ttl'[n] = 0 /\ \A m \in Names \ {n} : ttl'[m] = ttl[m]
            /\ Continue(c, Tail(call[c].todo))
        BY <3>11, <3>2, <3>t DEF ClearTtl, history
      <4>3. Promising(c, Tail(call[c].todo), n, life, deadline'[n], promise'[n], Gone')
        <5>1. CASE call[c].todo = <<"clear_ttl", "drop", "put">>
          <6>1. Asked(n, life) /\ Tail(call[c].todo) = <<"drop", "put">>
            BY <5>1, <3>3, Tails DEF Promising, Naming
          <6>2. QED
            BY <6>1 DEF Promising, Naming, OrphanSteps, RemoveSteps
        <5>2. CASE call[c].todo = OrphanSteps
          <6>1. Tail(call[c].todo) = <<"drop">>
            BY <5>2, Tails
          <6>2. Gone' = Gone /\ n \in Gone
            <7>1. Gone' = Gone
              BY <4>2 DEF Gone
            <7>2. n \in Gone
              BY <5>2, <3>3 DEF Promising
            <7>3. QED
              BY <7>1, <7>2
          <6>3. Promising(c, <<"drop">>, n, life, deadline'[n], promise'[n], Gone)
            BY <6>2, PromiselessPlans
          <6>4. QED
            BY <6>1, <6>2, <6>3
        <5>3. QED
          BY <4>1, <5>1, <5>2
      <4>4. call[c].todo \notin {<<"query">>, RemoveSteps}
        BY <4>1 DEF RemoveSteps, OrphanSteps
      <4>5. Live(n)' => Live(n)
        BY <4>2 DEF Live
      <4>6. QED
        BY <4>2, <4>3, <4>4, <4>5, <3>4, <3>5, <3>6, <3>7
    <3>12. CASE Put(c)
      <4>1. call[c].todo = <<"put">>
        BY <3>12, <3>1, PlanOf DEF Put, At
      <4>2. life > 0 => /\ deadline[n] = life
                        /\ promise[n].life = life /\ promise[n].left = life
        BY <4>1, <3>3 DEF Promising
      <4>3. /\ ttl' = ttl /\ deadline' = deadline
            /\ value'[n] = IF life = 0 THEN "permanent" ELSE "lifetime"
            /\ promise'[n] = IF life = 0 THEN Nothing ELSE promise[n]
            /\ missed' = missed \ {n}
            /\ \A m \in Names \ {n} : value'[m] = value[m] /\ promise'[m] = promise[m]
            /\ Continue(c, <<>>) /\ <<>> \in Plans
        BY <3>12, <3>2, <3>t, <4>1, Tails, PlansStart DEF Put
      <4>4. Live(n)' => life > 0 /\ promise'[n] = promise[n]
        BY <4>3 DEF Live
      <4>5. Live(n)' => CountdownExact(n)' /\ Settling(n)'
        BY <4>2, <4>3, <4>4 DEF CountdownExact, Settling, Tracked, NoDeadline
      <4>6. /\ promise'[n].life > 0 => Asked(n, promise'[n].life)
            /\ promise'[n].left <= promise'[n].life
            /\ deadline'[n] # NoDeadline => promise'[n].left <= deadline'[n]
        <5>1. CASE life = 0
          <6>1. promise'[n].life = 0 /\ promise'[n].left = 0
            BY <5>1, <4>3 DEF Nothing
          <6>2. deadline'[n] # NoDeadline => deadline'[n] \in Nat
            BY <4>3, <3>t
          <6>3. QED
            BY <6>1, <6>2
        <5>2. CASE life # 0
          BY <5>2, <4>3, <3>4
        <5>3. QED
          BY <5>1, <5>2
      <4>7. \A m \in Names \ {n} : m \in missed' <=> m \in missed
        BY <4>3
      <4>8. QED
        BY <4>3, <4>5, <4>6, <4>7, <3>4, <3>5
    <3>13. CASE Erase(c)
      <4>1. call[c].todo = RemoveSteps
        BY <3>13, <3>1, PlanOf DEF Erase, At
      <4>2. /\ ttl' = ttl /\ deadline' = deadline /\ promise' = promise
            /\ value'[n] = "absent" /\ missed' = missed \ {n}
            /\ \A m \in Names \ {n} : value'[m] = value[m]
            /\ Continue(c, OrphanSteps)
        BY <3>13, <3>2, <3>t, <4>1, Tails DEF Erase
      <4>3. n \in Gone' /\ ~Live(n)'
        BY <4>2 DEF Gone, Live
      <4>4. \A m \in Names \ {n} : m \in missed' <=> m \in missed
        BY <4>2
      <4>5. QED
        BY <4>2, <4>3, <4>4, <3>4, <3>5, PromiselessPlans, PlansStart
    <3>14. CASE WriteFails(c)
      <4>1. /\ ttl' = ttl /\ value' = value /\ deadline' = deadline /\ promise' = promise
            /\ missed' = missed \cup {n}
            /\ Continue(c, AfterFailure(call[c].todo))
        BY <3>14, <3>2 DEF WriteFails, nvs
      <4>2. AfterFailure(call[c].todo) \in {<<"drop">>, <<>>}
        BY Tails DEF AfterFailure
      <4>3. n \in Gone' /\ ~Live(n)'
        BY <4>1 DEF Gone, Live
      <4>4. \A m \in Names \ {n} : m \in missed' <=> m \in missed
        BY <4>1
      <4>5. QED
        BY <4>1, <4>2, <4>3, <4>4, <3>4, <3>5, <3>7, PromiselessPlans
    <3>15. CASE Query(c)
      <4>1. call[c].todo = <<"query">>
        BY <3>15, <3>1, PlanOf DEF Query, At
      <4>2. life > 0 /\ Asked(n, life)
        BY <4>1, <3>3 DEF Promising, Naming
      <4>3. promise[n].life > 0 => promise[n].life = life
        BY <4>2, <3>4, OneLifetime
      <4> DEFINE todo == IF c = Policy /\ deadline[n] = 0 THEN RemoveSteps ELSE <<>>
      <4>4. /\ ttl' = ttl /\ value' = value /\ promise' = promise
            /\ deadline'[n] = IF n \notin Tracked /\ HasRoom(n) THEN life ELSE deadline[n]
            /\ \A m \in Names \ {n} : deadline'[m] = deadline[m]
            /\ missed' = IF HasRoom(n) THEN missed ELSE missed \cup {n}
            /\ Continue(c, todo) /\ todo \in Plans
        BY <3>15, <3>2, <3>t, PlansStart DEF Query, nvs
      <4>5. \A m \in Names \ {n} : m \in missed' <=> m \in missed
        BY <4>4
      <4>6. deadline'[n] # NoDeadline => promise[n].left <= deadline'[n]
        BY <4>2, <4>3, <4>4, <3>4, <3>t
      <4>7. todo # <<>> => Promising(c, todo, n, life, deadline'[n], promise'[n], Gone')
        <5> SUFFICES ASSUME c = Policy, deadline[n] = 0
                     PROVE  Promising(c, RemoveSteps, n, life, deadline'[n], promise'[n], Gone')
          OBVIOUS
        <5>1. promise'[n].left = 0
          BY <4>4, <3>4, <3>t DEF NoDeadline
        <5>2. QED
          BY <5>1, PromiselessPlans
      <4>8. ASSUME Live(n)'
            PROVE  CountdownExact(n)' /\ (cycle = "expire" => Settling(n)')
        <5>1. Live(n) /\ HasRoom(n)
          BY <4>4, <4>8 DEF Live
        <5>2. deadline'[n] = promise[n].left
          BY <5>1, <4>3, <4>4, <3>4 DEF CountdownExact, Live, Tracked
        <5>3. CountdownExact(n)'
          BY <5>2, <4>4, <3>t DEF CountdownExact, Tracked, NoDeadline
        <5>4. ASSUME cycle = "expire" PROVE Settling(n)'
          <6>1. c = Policy
            BY <5>4, <3>4
          <6>2. CASE deadline[n] = 0
            <7>1. todo = RemoveSteps /\ RemoveSteps # <<>>
              BY <6>1, <6>2 DEF RemoveSteps
            <7>2. call'[Policy].todo = RemoveSteps /\ call'[Policy].name = n
              BY <7>1, <6>1, <4>4, <3>1, <3>2, <2>t, StepAlone
            <7>3. QED
              BY <7>2 DEF Settling, InHand
          <6>3. CASE deadline[n] # 0
            <7>1. deadline'[n] > 0
              BY <6>3, <5>1, <4>2, <4>4, <3>t DEF Tracked, NoDeadline
            <7>2. QED
              BY <7>1 DEF Settling
          <6>4. QED
            BY <6>2, <6>3
        <5>5. QED
          BY <5>3, <5>4
      <4> HIDE DEF todo
      <4>9. QED
        BY <4>4, <4>5, <4>6, <4>7, <4>8, <3>4, <3>5
    <3>16. QED
      BY <2>1, <3>8, <3>9, <3>10, <3>11, <3>12, <3>13, <3>14, <3>15 DEF Step
  <2>2. ASSUME NEW c \in Clients, Define(c) \/ Remove(c) \/ List(c) PROVE PromiseInv'
    <3>1. /\ c \in Callers /\ c # Policy /\ Requests[c] \subseteq Request
          /\ cycle # "expire" /\ entries' = entries /\ \A d \in Callers : ~Busy(d)
      BY <2>2 DEF Callers, Define, Remove, List, MayStart
    <3>2. PICK r \in Requests[c], todo \in Plans, life \in Nat :
            /\ Begin(c, r.name, todo, life)
            /\ Promising(c, todo, r.name, life, deadline[r.name], promise[r.name], Gone)
      <4>1. CASE Define(c)
        <5>1. PICK r \in Requests[c] :
                r.op = "define" /\ Begin(c, r.name, DefineSteps(r.life), r.life)
          BY <4>1 DEF Define
        <5>2. r.life \in Nat /\ Asked(r.name, r.life)
          BY <5>1, <3>1 DEF Request, Asked
        <5>3. Promising(c, DefineSteps(r.life), r.name, r.life,
                        deadline[r.name], promise[r.name], Gone)
          BY <5>2 DEF Promising, Naming, DefineSteps, OrphanSteps, RemoveSteps
        <5>4. QED
          BY <5>1, <5>2, <5>3, PlansStart
      <4>2. CASE Remove(c)
        BY <4>2, <3>1, PromiselessPlans, PlansStart DEF Remove
      <4>3. CASE List(c)
        <5>1. PICK r \in Requests[c] : ttl[r.name] > 0 /\ Begin(c, r.name, <<"query">>, ttl[r.name])
          BY <4>3 DEF List
        <5>2. ttl[r.name] \in Nat /\ Asked(r.name, ttl[r.name])
          BY <5>1, <3>1, <2>t DEF Request, StoresTyped, PromiseInv, LifetimesAsked
        <5>3. Promising(c, <<"query">>, r.name, ttl[r.name],
                        deadline[r.name], promise[r.name], Gone)
          BY <5>1, <5>2 DEF Promising, OrphanSteps, RemoveSteps
        <5>4. QED
          BY <5>1, <5>2, <5>3, PlansStart
      <4>4. QED
        BY <2>2, <4>1, <4>2, <4>3
    <3>3. r.name \in Names
      BY <3>1 DEF Request
    <3>4. QED
      BY <3>1, <3>2, <3>3, PromiseStart
  <2>3. CASE BeginCycle
    <3>1. /\ \A d \in Callers : ~Busy(d)
          /\ UNCHANGED <<nvs, deadline, call, promise>>
          /\ cycle' = "expire" /\ cycle # "expire"
      BY <2>3 DEF BeginCycle, MayStart
    <3>2. PICK S \in SUBSET {n \in Names : ttl[n] > 0} :
            /\ entries' = [n \in Names |-> IF n \in S THEN ttl[n] ELSE 0]
            /\ missed' = missed \cup ({n \in Names : ttl[n] > 0} \ S)
      BY <2>3 DEF BeginCycle
    <3>3. LifetimesAsked'
      BY <3>1, <3>2 DEF PromiseInv, LifetimesAsked, nvs, Asked
    <3>4. CallsPromise'
      BY <3>1 DEF CallsPromise, Busy
    <3>5. \A n \in Tracked' : promise'[n].left <= deadline'[n]
      BY <3>1 DEF PromiseInv, Tracked
    <3>6. ASSUME NEW n \in Names, Live(n)' PROVE CountdownExact(n)' /\ Settling(n)'
      <4>1. Live(n)
        BY <3>1, <3>2, <3>6 DEF Live, nvs
      <4>2. CountdownExact(n)
        BY <4>1 DEF PromiseInv
      <4>3. ttl[n] > 0
        BY <4>1 DEF Live, LifetimeInv
      <4>4. entries'[n] > 0
        BY <4>3, <3>2, <3>6 DEF Live
      <4>5. QED
        BY <4>2, <4>4, <3>1 DEF CountdownExact, Settling, Tracked
    <3>7. QED
      BY <3>3, <3>4, <3>5, <3>6 DEF PromiseInv
  <2>4. CASE CheckEntry
    <3>1. PICK n \in Names :
            /\ entries[n] > 0
            /\ Begin(Policy, n, IF value[n] = "absent" THEN OrphanSteps ELSE <<"query">>, entries[n])
            /\ entries' = [entries EXCEPT ![n] = 0]
      BY <2>4 DEF CheckEntry
    <3>2. /\ Policy \in Callers /\ entries[n] \in Nat /\ cycle = "expire"
          /\ \A d \in Callers : ~Busy(d)
      BY <2>4, <2>t DEF Callers, StoresTyped, CheckEntry, OneCall
    <3>3. CASE value[n] = "absent"
      <4>1. n \in Gone
        BY <3>3 DEF Gone
      <4>2. Begin(Policy, n, OrphanSteps, entries[n])
        BY <3>1, <3>3
      <4>3. QED
        BY <4>1, <4>2, <3>1, <3>2, <3>3, PromiselessPlans, PromiseStart, PlansStart
    <3>4. CASE value[n] # "absent"
      <4>1. Asked(n, entries[n])
        BY <3>1 DEF PromiseInv, LifetimesAsked
      <4>2. Promising(Policy, <<"query">>, n, entries[n], deadline[n], promise[n], Gone)
        BY <4>1, <3>1 DEF Promising, OrphanSteps, RemoveSteps
      <4>3. Begin(Policy, n, <<"query">>, entries[n])
        BY <3>1, <3>4
      <4>4. QED
        BY <4>2, <4>3, <3>1, <3>2, PromiseStart, PlansStart
    <3>5. QED
      BY <3>3, <3>4
  <2>5. ASSUME UNCHANGED <<nvs, deadline, call, entries, history>>,
               \A n \in Names : Live(n) => n \in Tracked, cycle' # "expire"
        PROVE  PromiseInv'
    <3>1. Gone' = Gone /\ Tracked' = Tracked
      BY <2>5 DEF Gone, Tracked, nvs, history
    <3>2. LifetimesAsked' /\ CallsPromise'
      BY <2>5, <3>1 DEF PromiseInv, LifetimesAsked, CallsPromise, Busy, nvs, history
    <3>3. \A n \in Names : Live(n)' => CountdownExact(n)'
      BY <2>5, <3>1 DEF PromiseInv, Live, CountdownExact, nvs, history
    <3>4. \A n \in Tracked' : promise'[n].left <= deadline'[n]
      BY <2>5, <3>1 DEF PromiseInv, history
    <3>5. QED
      BY <2>5, <3>2, <3>3, <3>4 DEF PromiseInv
  <2>6. CASE RunProgram
    <3>1. \A n \in Names : ~InHand(n, <<"query">>)
      BY <2>6 DEF RunProgram, InHand, Busy
    <3>2. \A n \in Names : Live(n) => n \in Tracked
      BY <2>6, <3>1 DEF PromiseInv, RunProgram, CountdownExact
    <3>3. QED
      BY <2>6, <3>2, <2>5 DEF RunProgram
  <2>7. CASE EndCycle
    <3>1. \A n \in Names : Live(n) => n \in Tracked
      BY <2>7 DEF PromiseInv, EndCycle, CountdownExact
    <3>2. QED
      BY <2>7, <3>1, <2>5 DEF EndCycle
  <2>8. CASE Tick
    <3>1. /\ UNCHANGED <<nvs, call, cycle, entries, missed>>
          /\ cycle \in {"sleep", "program"} /\ \A d \in Callers : ~Busy(d)
      BY <2>8 DEF Tick
    <3>2. \A n \in Names :
            /\ deadline'[n] = IF deadline[n] > 0 THEN deadline[n] - 1 ELSE deadline[n]
            /\ promise'[n].life = promise[n].life
            /\ promise'[n].left = IF promise[n].left > 0 THEN promise[n].left - 1 ELSE 0
      <4>1. \A n \in Names : promise[n] \in [life : Nat, left : Nat]
        BY <2>t DEF HistoryTyped
      <4>2. QED
        BY <2>8, <4>1 DEF Tick
    <3>3. \A n \in Names : /\ deadline[n] \in Nat \cup {NoDeadline}
                           /\ promise[n].life \in Nat /\ promise[n].left \in Nat
      BY <2>t DEF StoresTyped, HistoryTyped
    <3>4. Tracked' = Tracked
      BY <3>2, <3>3 DEF Tracked, NoDeadline
    <3>5. LifetimesAsked'
      BY <3>1, <3>2, <3>3 DEF PromiseInv, LifetimesAsked, nvs, Asked
    <3>6. CallsPromise'
      BY <3>1 DEF CallsPromise, Busy
    <3>7. \A n \in Tracked' : promise'[n].left <= deadline'[n]
      BY <3>2, <3>3, <3>4 DEF PromiseInv, Tracked, NoDeadline
    <3>8. ASSUME NEW n \in Names, Live(n)' PROVE CountdownExact(n)'
      <4>1. Live(n)
        BY <3>1, <3>2, <3>8 DEF Live, nvs
      <4>2. n \in Tracked /\ deadline[n] = promise[n].left
        BY <4>1, <3>1 DEF PromiseInv, CountdownExact
      <4>3. QED
        BY <4>2, <3>2, <3>3, <3>4 DEF CountdownExact
    <3>9. QED
      BY <3>1, <3>5, <3>6, <3>7, <3>8 DEF PromiseInv
  <2>9. CASE Reset
    <3>1. /\ UNCHANGED <<nvs, missed>> /\ cycle' = "boot"
          /\ \A n \in Names : /\ deadline'[n] = NoDeadline /\ entries'[n] = 0
                              /\ promise'[n].life = promise[n].life
                              /\ promise'[n].left = promise[n].life
          /\ \A d \in Callers : ~Busy(d)'
      BY <2>9, <2>t DEF Reset, HistoryTyped, Busy, Idle
    <3>2. \A n \in Names : promise[n].life \in Nat
      BY <2>t DEF HistoryTyped
    <3>3. LifetimesAsked'
      BY <3>1, <3>2 DEF PromiseInv, LifetimesAsked, nvs, Asked
    <3>4. CallsPromise' /\ Tracked' = {}
      <4>1. CallsPromise'
        BY <3>1 DEF CallsPromise
      <4>2. Tracked' = {}
        BY <3>1 DEF Tracked
      <4>3. QED
        BY <4>1, <4>2
    <3>5. \A n \in Names : CountdownExact(n)'
      BY <3>1, <3>4 DEF CountdownExact
    <3>6. QED
      BY <3>1, <3>3, <3>4, <3>5 DEF PromiseInv
  <2>10. CASE UNCHANGED vars
    <3>1. Gone' = Gone /\ Tracked' = Tracked
      BY <2>10 DEF vars, nvs, history, Gone, Tracked
    <3>2. LifetimesAsked'
      BY <2>10 DEF vars, nvs, history, PromiseInv, LifetimesAsked, Asked
    <3>3. CallsPromise'
      BY <2>10, <3>1 DEF vars, nvs, history, PromiseInv, CallsPromise, Busy
    <3>4. \A n \in Tracked' : promise'[n].left <= deadline'[n]
      BY <2>10, <3>1 DEF vars, history, PromiseInv
    <3>5. \A n \in Names : Live(n)' => CountdownExact(n)' /\ (cycle' = "expire" => Settling(n)')
      BY <2>10, <3>1
         DEF vars, nvs, history, PromiseInv, Live, CountdownExact, Settling, InHand
    <3>6. QED
      BY <3>2, <3>3, <3>4, <3>5 DEF PromiseInv
  <2>11. QED
    BY <2>1, <2>2, <2>3, <2>4, <2>6, <2>7, <2>8, <2>9, <2>10 DEF Next
<1>3. QED
  BY <1>1, <1>2, ConfigTypeCorrect, LifetimesFixKinds, LifetimesHold, PTL DEF Spec

(* If calls do not overlap and every define of a name asks for the same    *)
(* lifetime, expiry takes away only what has had its full lifetime since   *)
(* the define, or since the last reset (config_flags.cpp:612-700).         *)
THEOREM NothingExpiresEarly ==
  ASSUME FixedLifetimes, Overlap = FALSE
  PROVE  Spec => NeverExpiresEarly
<1> USE ConstantsAssumption
<1>1. TypeOK /\ LifetimeInv /\ PromiseInv /\ [Next]_vars =>
        [\A n \in Names :
           /\ value[n] # "absent" /\ value'[n] = "absent"
           /\ Busy(Policy) /\ call[Policy].name = n
           => promise[n].left = 0]_vars
  <2> SUFFICES ASSUME TypeOK, LifetimeInv, PromiseInv, Next, NEW n \in Names,
                      value[n] # "absent", value'[n] = "absent",
                      Busy(Policy), call[Policy].name = n
               PROVE  promise[n].left = 0
    BY DEF vars, nvs
  <2>1. Policy \in Callers
    BY DEF Callers
  <2>2. \A c \in Callers : Busy(c) => c = Policy
    BY <2>1 DEF LifetimeInv, OneCall
  <2>3. value' = value \/ Put(Policy) \/ Erase(Policy)
    <3>1. ASSUME NEW c \in Callers, Step(c) PROVE value' = value \/ Put(Policy) \/ Erase(Policy)
      <4>1. c = Policy
        BY <2>2, <3>1 DEF Step, Refresh, Drop, PutTtl, ClearTtl, Put, Erase, WriteFails, Query, At
      <4>2. QED
        BY <3>1, <4>1 DEF Step, Refresh, Drop, PutTtl, ClearTtl, WriteFails, Query, nvs
    <3>2. ASSUME NEW c \in Clients, Define(c) \/ Remove(c) \/ List(c) PROVE value' = value
      BY <3>2 DEF Define, Remove, List, Begin, nvs
    <3>3. CASE BeginCycle \/ CheckEntry \/ RunProgram \/ EndCycle \/ Tick \/ Reset
      BY <3>3 DEF BeginCycle, CheckEntry, Begin, RunProgram, EndCycle, Tick, Reset, nvs
    <3>4. QED
      BY <3>1, <3>2, <3>3 DEF Next
  <2>4. ~Put(Policy)
    BY DEF Put, TypeOK, StoresTyped
  <2>5. Erase(Policy)
    BY <2>3, <2>4
  <2>6. call[Policy].todo = RemoveSteps
    BY <2>1, <2>5, PlanOf DEF Erase, At, Busy, TypeOK, CallsTyped
  <2>7. QED
    BY <2>1, <2>6 DEF PromiseInv, CallsPromise, Promising
<1>2. QED
  BY <1>1, ConfigTypeCorrect, LifetimesFixKinds, LifetimesHold, PromisesHold, PTL
     DEF Spec, NeverExpiresEarly

(* Under the same conditions the dead-man switch works: no policy program  *)
(* runs with a value past its lifetime, whatever resets, but for flash     *)
(* that failed and tables that were full.                                  *)
THEOREM NoExpiredValueIsSeen ==
  ASSUME FixedLifetimes, Overlap = FALSE
  PROVE  Spec => ProgramSeesNoExpired
<1>1. TypeOK /\ PromiseInv /\ [Next]_vars =>
        [cycle = "expire" /\ cycle' = "program" =>
           \A n \in Names \ missed :
             value[n] = "lifetime" /\ promise[n].life > 0 => promise[n].left > 0]_vars
  <2> SUFFICES ASSUME TypeOK, PromiseInv, Next, cycle = "expire", cycle' = "program",
                      NEW n \in Names \ missed, value[n] = "lifetime", promise[n].life > 0
               PROVE  promise[n].left > 0
    BY DEF vars
  <2>1. RunProgram
    <3>1. \A c \in Callers : ~Step(c)
      BY DEF Step, Refresh, Drop, PutTtl, ClearTtl, Put, Erase, WriteFails, Query
    <3>2. \A c \in Clients : ~Define(c) /\ ~Remove(c) /\ ~List(c)
      BY DEF Define, Remove, List, Begin
    <3>3. ~BeginCycle /\ ~CheckEntry /\ ~EndCycle /\ ~Tick /\ ~Reset
      BY DEF BeginCycle, CheckEntry, Begin, EndCycle, Tick, Reset
    <3>4. QED
      BY <3>1, <3>2, <3>3 DEF Next
  <2>2. CountdownExact(n) /\ Settling(n)
    BY DEF PromiseInv, Live
  <2>3. ~InHand(n, <<"query">>) /\ ~InHand(n, RemoveSteps) /\ entries[n] = 0
    <3>1. <<"query">> # <<>> /\ RemoveSteps # <<>>
      BY DEF RemoveSteps
    <3>2. QED
      BY <2>1, <3>1 DEF RunProgram, InHand, Busy
  <2>4. n \in Tracked /\ deadline[n] > 0
    BY <2>2, <2>3 DEF CountdownExact, Settling
  <2>5. QED
    BY <2>2, <2>4 DEF CountdownExact
<1>2. QED
  BY <1>1, ConfigTypeCorrect, PromisesHold, PTL DEF Spec, ProgramSeesNoExpired
=============================================================================
