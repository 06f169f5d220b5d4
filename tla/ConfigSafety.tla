----------------------------- MODULE ConfigSafety -----------------------------
(***************************************************************************)
(* The properties of ConfigFlags.                                          *)
(***************************************************************************)
EXTENDS ConfigFlags

(* What a task can have left to do of a call.                              *)
Plans ==
  {<<>>, <<"refresh", "put_ttl", "put">>, <<"put_ttl", "put">>, <<"put">>,
   <<"clear_ttl", "drop", "put">>, <<"drop", "put">>,
   <<"erase", "clear_ttl", "drop">>, <<"clear_ttl", "drop">>, <<"drop">>, <<"query">>}

StoresTyped ==
  /\ value \in [Names -> Kinds]
  /\ ttl \in [Names -> Nat]
  /\ deadline \in [Names -> Nat \cup {NoDeadline}]
  /\ entries \in [Names -> Nat]

CallsTyped ==
  /\ call \in [Callers -> [todo : Plans, name : Names \cup {NoName}, life : Nat]]
  /\ \A c \in Callers : Busy(c) => call[c].name \in Names
  /\ cycle \in {"boot", "sleep", "expire", "program"}

HistoryTyped ==
  /\ promise \in [Names -> [life : Nat, left : Nat]]
  /\ missed \in SUBSET Names

TypeOK == StoresTyped /\ CallsTyped /\ HistoryTyped

(* The rule record_lifetime is written for: a value defined with a         *)
(* lifetime never stands in flash without its lifetime, so a reset between *)
(* two writes cannot turn it into a permanent one.                         *)
LifetimeKept ==
  \A n \in Names : value[n] = "lifetime" =>
    ttl[n] > 0 \/ \E c \in Callers : Busy(c) /\ call[c].name = n

(* What makes LifetimeKept inductive when no name is defined both with and *)
(* without a lifetime, and calls do not overlap: a call whose next step    *)
(* erases a lifetime is past the value, or is for a name that has none;    *)
(* one whose next step writes a lifetime value has written the lifetime.   *)
WithLifetime ==
  {n \in Names : \E c \in Clients : \E r \in Requests[c] :
                   r.op = "define" /\ r.name = n /\ r.life > 0}

FixedKinds ==
  \A c \in Clients : \A r \in Requests[c] :
    r.op = "define" /\ r.name \in WithLifetime => r.life > 0

OneCall ==
  \A c \in Callers : Busy(c) => /\ cycle = "expire" <=> c = Policy
                               /\ \A d \in Callers : Busy(d) => d = c

InOrder(todo, life, n, stored, lifetime) ==
  /\ todo = <<"clear_ttl", "drop">> => stored # "lifetime"
  /\ todo \in {<<"clear_ttl", "drop", "put">>, <<"drop", "put">>} =>
       life = 0 /\ stored # "lifetime"
  /\ todo \in {<<"refresh", "put_ttl", "put">>, <<"put_ttl", "put">>} =>
       life > 0 /\ n \in WithLifetime
  /\ todo = <<"put">> /\ life > 0 => lifetime > 0 /\ n \in WithLifetime

CallOrder ==
  \A c \in Callers :
    InOrder(call[c].todo, call[c].life, call[c].name, value[call[c].name], ttl[call[c].name])

LifetimeInv ==
  /\ OneCall
  /\ CallOrder
  /\ \A n \in Names : value[n] = "lifetime" => ttl[n] > 0 /\ n \in WithLifetime

(* Every entry of the countdown table belongs to a stored lifetime, once   *)
(* all calls are over: no failing write or reset leaks one of its places,  *)
(* which would in the end refuse every define with a lifetime.             *)
DeadlinesBacked ==
  cycle # "expire" /\ (\A c \in Callers : ~Busy(c)) => \A n \in Tracked : ttl[n] > 0

(* What makes it inductive when calls do not overlap: a countdown without  *)
(* its lifetime is one whose call is about to write the one or to drop the *)
(* other; a lifetime that expiry has collected stays until its turn.       *)
Unsettled == {<<"put_ttl", "put">>, <<"drop">>, <<"drop", "put">>}

Founded(todo, life, lifetime) ==
  /\ todo \in {<<"refresh", "put_ttl", "put">>, <<"put_ttl", "put">>} => life > 0
  /\ todo = <<"query">> => lifetime > 0

CollectedIsStored ==
  \A n \in Names : cycle = "expire" /\ entries[n] > 0 =>
    ttl[n] > 0 /\ ~(Busy(Policy) /\ call[Policy].name = n)

CountdownInv ==
  /\ OneCall
  /\ \A c \in Callers : Founded(call[c].todo, call[c].life, ttl[call[c].name])
  /\ CollectedIsStored
  /\ \A n \in Tracked :
       ttl[n] > 0 \/ \E c \in Callers : call[c].name = n /\ call[c].todo \in Unsettled

(* The dead-man switch: the policy program never runs with a value whose   *)
(* lifetime has passed since its last define, unless flash failed or a     *)
(* table of ListMax entries was full.                                      *)
ProgramSeesNoExpired ==
  [][cycle = "expire" /\ cycle' = "program" =>
       \A n \in Names \ missed :
         value[n] = "lifetime" /\ promise[n].life > 0 => promise[n].left > 0]_vars

(* Expiry never takes a value away before the lifetime it was last given   *)
(* has passed, counted again in full after a reset.                        *)
NeverExpiresEarly ==
  [][\A n \in Names :
       /\ value[n] # "absent" /\ value'[n] = "absent"
       /\ Busy(Policy) /\ call[Policy].name = n
       => promise[n].left = 0]_vars

(* What makes these two inductive when calls do not overlap and every      *)
(* define of a name asks for the same lifetime.  All lifetimes at hand are *)
(* then the one asked for.  A name is live when the first property speaks  *)
(* of it: its countdown is exactly what is left of its promise, or has not *)
(* started since the reset and expiry is still to come to it.              *)
Asked(n, life) ==
  \E c \in Clients : \E r \in Requests[c] : r.op = "define" /\ r.name = n /\ r.life = life

FixedLifetimes ==
  \A c, d \in Clients : \A r \in Requests[c], s \in Requests[d] :
    r.op = "define" /\ s.op = "define" /\ r.name = s.name => r.life = s.life

LifetimesAsked ==
  \A n \in Names :
    /\ ttl[n] > 0 => Asked(n, ttl[n])
    /\ entries[n] > 0 => Asked(n, entries[n])
    /\ promise[n].life > 0 => Asked(n, promise[n].life)
    /\ promise[n].left <= promise[n].life

Naming ==
  {<<"refresh", "put_ttl", "put">>, <<"put_ttl", "put">>, <<"put">>,
   <<"clear_ttl", "drop", "put">>, <<"drop", "put">>, <<"query">>}

Promising(c, todo, n, life, left, due, gone) ==
  /\ todo \in Naming => Asked(n, life)
  /\ todo = <<"query">> => life > 0
  /\ todo = <<"put_ttl", "put">> \/ (todo = <<"put">> /\ life > 0) =>
       left = life /\ due.life = life /\ due.left = life
  /\ todo \in {OrphanSteps, <<"drop">>} => n \in gone
  /\ c = Policy /\ todo = RemoveSteps => due.left = 0

Gone == missed \cup {n \in Names : value[n] = "absent"}

CallsPromise ==
  \A c \in Callers : Busy(c) =>
    Promising(c, call[c].todo, call[c].name, call[c].life,
              deadline[call[c].name], promise[call[c].name], Gone)

Live(n) == n \notin missed /\ value[n] = "lifetime" /\ promise[n].life > 0

InHand(n, todo) == call[Policy].name = n /\ call[Policy].todo = todo

CountdownExact(n) ==
  IF n \in Tracked
    THEN deadline[n] = promise[n].left
    ELSE /\ promise[n].left = promise[n].life
         /\ \/ cycle = "boot"
            \/ cycle = "expire" /\ (entries[n] > 0 \/ InHand(n, <<"query">>))

Settling(n) ==
  \/ entries[n] > 0 \/ deadline[n] > 0
  \/ InHand(n, <<"query">>) \/ InHand(n, RemoveSteps)

PromiseInv ==
  /\ LifetimesAsked
  /\ CallsPromise
  /\ \A n \in Tracked : promise[n].left <= deadline[n]
  /\ \A n \in Names : Live(n) => CountdownExact(n) /\ (cycle = "expire" => Settling(n))
=============================================================================
