# A TLA+ verification of the power4 firmware

power4 is an ESP32 controller for relays in an off-grid power system: Bluetooth
batteries and digital inputs go in, a Lua policy program decides once a minute,
relays come out. This directory models the parts of the firmware in `main/`
where several tasks, failing hardware, flash and resets meet, checks them with
TLC and proves the central facts with TLAPS. Paths below are relative to the
repository; `main/` files are named without the directory.

## Inventory

| Component | State it keeps | Operations | Correct when |
|---|---|---|---|
| relay manager (`relay_manager.cpp`) | per relay: timer, force, output; shadow of the expander's register; request queue | `on_for`, `force_on`, `force_off`, `clear_force`, `query`; the relay task; `start` | contacts follow force and timer; a hold is dead-man: it ends in time, not early; calls return; answers belong to their questions |
| policy parameters (`config_flags.cpp`) | values and lifetimes in two NVS namespaces, countdowns in RAM | define, remove, list, expire | a lifetime value never becomes permanent by accident, never outlives or is cut short of its lifetime |
| battery store (`battery_store.cpp`) | 16 slots in RAM | record, get, list | per battery the last observation; the least recently seen is the one forgotten |
| battery banks (`battery_bank.cpp`) | one NVS blob of definitions | create, remove, compute the state | the state is that of readings held while it was computed |
| battery scanner (`battery_scanner.cpp`), JBD protocol (`jbd_protocol.cpp`) | candidates, one probe with its buffer, event bits, `g_probe_cleanup_pending` | scan, probe, ask, reassemble, disconnect | one link at a time; every link is taken down; what is recorded of a battery it said itself |
| Bluetooth manager (`ble_manager.cpp`, `ble_disconnect.cpp`) | synced/pending flags, event bits, two flags of the host task | host callbacks, wait, reset, disconnect | a recovery is real, ends, and leaves the device discoverable |
| policy task (`policy_task.cpp`) | active program, cycle | expire, load, run, sleep | a bad program turns nothing on and is reported |
| policy state (`policy_state.cpp`) | up to eight named booleans | begin, finish, get, set | only successful cycles of one source commit |
| policy storage (`policy_storage.cpp`) | staged and active program in flash | stage, accept | the active program is a whole accepted one |
| console (`console.cpp`) | command mutex, upload and reboot state | some 60 commands, one at a time | a command runs alone; what was validated is what is accepted |
| network console (`network_console.cpp`) | password in NVS and RAM, one client | accept, authenticate, serve, deadlines | nobody is served unauthenticated; a dead client is let go |
| Ethernet (`ethernet_manager.cpp`) | settings in NVS, link state | configure with rollback, events | settings are whole; the state follows the events |
| time and RTC (`time_manager.cpp`, `rtc_manager.cpp`) | system clock, RTC, sync queue of one | set, sync, seed | the RTC follows the clock; a stopped RTC is not believed |
| GATT services, inputs, I2C, board configuration, log buffer, reports | little or none | read, render, parse | |
| `power4d`, `power4ctl` (host tools) | a session over serial or TCP, files of reports | prompt, ask, read a framed answer, give up | what is filed under a report is that report, of this session |

How they interact. The policy task (priority 4), the serial and the network
console and the NimBLE host task call the relay manager through a queue of 16
messages; a query also waits up to a second for an answer. The same three call
the policy parameters directly, each in its own context; only the console's
calls exclude each other (command mutex). The policy task starts every cycle by
expiring parameters and reads banks while the scanner (priority 4, other core)
writes the store, one mutex-protected record at a time. The scanner and the
NimBLE host task share the Bluetooth manager's flags and event group. The
policy task reads the program slots that console commands write. Ethernet
settings are changed by a command and shown by handlers of driver events; the
RTC is set by the SNTP task and by a command. The host tools see nothing but the
lines and prompts of a console.

What is hard. Output writes that fail or are not acknowledged; a time-out that
races with the answer; queue and tables at their limit; a reset between two
flash writes; expiry against define; a slot that changes hands; callbacks of
the Bluetooth host before, during and after a reset; answers that come twice,
late, or in halves; a TCP client that stalls while it holds the command mutex;
settings and an RTC that are changed in several steps, each of which may fail. `PROJECT.json` lists each
of these at its line, with the properties that cover it.

## Modules

| Module | Models |
|---|---|
| `RelayManager` | the relay task, its callers, the output stage, start, reset, time |
| `RelayContract` | what a relay promises: contacts and leases, without queue, task or shadow |
| `RelaySafety` | properties, inductive invariants and the refinement mapping |
| `RelayProofs` | theorems about `RelayManager` |
| `ConfigFlags`, `ConfigSafety`, `ConfigProofs` | policy parameters, their properties, theorems |
| `BatteryMemory` | what the store promises: per battery, without slots |
| `BatteryStore` | the slots, and the refinement of `BatteryMemory` |
| `BatteryBank` | banks and their readers, composed with `BatteryStore` |
| `BatteryProofs` | the refinement, proved for the store and for the composition; types of store and banks; answers of banks |
| `BleRecovery`, `BleSafety`, `BleProofs` | scanner, Bluetooth manager and NimBLE host; properties; theorems |
| `Probe` | the probe of a battery: procedures, questions, answers, reassembly; properties |
| `PolicyCycle` | policy task, named booleans, program slots |
| `Console`, `ConsoleSafety`, `ConsoleProofs` | both consoles, composed with `PolicyCycle`; properties; theorems |
| `Ethernet`, `EthernetProofs` | settings with rollback and saving, link state; theorems |
| `Clock`, `ClockProofs` | system clock, SNTP, RTC; theorem |
| `ToolSession` | a session of `power4d` or `power4ctl` with a console; its property |
| `AnswerProofs` | theorems about `Probe` and `ToolSession`: answers are those to the questions asked |
| `MC*` | instances for TLC; `MCDevice` holds six of these services |

Definitions whose comment begins with "Mutant:" are deliberate bugs. No
specification uses them: substituting one for the definition below it must
break the property `PROJECT.json` pairs it with.

### Relay manager

`timer_active`, `force`, `output_on` and `off_in` are the array `g_relays`;
`off_in` is `off_at_us` minus the present, so that time needs no bound. `shadow`
is `g_tca_output` and `latch` the level the hardware really drives: the TCA9554
register is written whole, so that a write for one relay carries the shadow's
bits of the others. A write is `"ok"`, `"lost"` (reported as failed and not
done) or `"unacked"` (reported as failed and done). `HandleOnFor`, `HandleForce`
and `HandleQuery` are the branches of `handle_message`, each including the
`apply_output` it calls; `BeginExpire`, `ExpireRelay` and `KeepRelay` are
`expire_timers`, relay by relay, as each relay's write takes time. A caller is
idle, blocked on the full queue, or awaiting an answer. `Reboot` loses RAM and
keeps the expander's register; `Start` is `relay_manager_start`.

Assumptions. The relay task has priority over its callers, so no time passes
while it has something to do except in a write (`WriteTicks`, the I2C
time-out). Commands for relays that do not exist are refused by the callers and
never reach the queue, so that branch of `handle_message` is not modelled. GPIO
writes do not fail: the board loader checks the pins. The reply queue of a
query lives on the stack of its caller; queries of one caller put it in the
same place, which is what the undefined behaviour of a late answer comes to.

`ReplyQueueAlive`, that no message refers to a reply queue that is gone, and
`ReplyAnswersTheQuery` hold when the task works off a full queue in less than the
second a query waits (`Patient` in `RelaySafety`: a turn is the write of a message
and a pass over all relays). That is so on a bus that works; `RelayHealthy` has a
reply time-out of 7 against two turns of 3 ticks. With the firmware's own numbers and a stuck
bus, where each write takes its time-out, it is not: that is `RelayStaleReply`.

### Policy parameters

`value[n]` is what the values namespace holds (`absent`, `permanent`,
`lifetime`: the last is a permanent value as far as flash knows, marked with how
it was defined), `ttl[n]` the lifetimes namespace, `deadline[n]` the countdown
table, `NoDeadline` where there is no entry. A call is the list of stores it
still has to change; each step is one commit to flash or one critical section,
and each write to flash may fail (`WriteFails`), which ends the call except
where the code goes on. `promise` and `missed` are history: how long each value
may still live, and which names a failing write or a full table excuses. `Reset`
can strike between any two steps.

Assumptions. No second passes while a call is under way; reads of flash do not
fail; the collection loop at the start of expiry is one step. With `Overlap =
FALSE` calls do not overlap each other or the expiry: the firmware does not
enforce this, and `ConfigOverlap` shows what happens otherwise.

### Batteries

A slot is a record or `NoRecord`. `RecordObservation` is one step, as the code
holds its mutex. `ImplementsMemory` maps the slots to a function from names to
records and shows that this is a memory that evicts only the least recently
seen. Batteries may be alike: when a battery is displaced by one with as many
cells that does not report them, `BatteryMemory` lets its cells pass to that one,
as the code does. That they must not is `RetainedCellsAreItsOwn`, which the run
`battery_cells` shows to be violated. `BatteryBank` reads member after member; `held` is history,
the records the store held for each member from the start of the query until
the member was read. One reader is enough, since reading changes nothing that
another reader sees.

### Bluetooth recovery

Each callback of the host task is split at every access to the flags and bits
the scanner shares; so are `ble_manager_wait_until_synced` and
`ble_manager_reset`. `links` and `connecting` are NimBLE's tables, changed by
`Connects`, `LinkDrops` and `HostReset`. A wait may time out at any time. The
outcome of discovery, subscription and requests is left out: a probe ends at any
moment (`EndProbe`) and cleanup follows. Not modelled: reuse of connection
handles inside NimBLE, and errors of the connection table other than when the
host is down.

If the host comes up without an address (`AddressFails`), a pending recovery
stays pending until the host is reset for some other reason. `CleanupEnds`
excuses this by its second disjunct, so no property covers it.

### Probe

The steps of `probe_battery` are those at which the scanner touches what the
callbacks share: the event bits (`probeBits`), the packet and its buffer, the
command that is expected. `EmptyBuffer`, `ClearPacketBit` and `WriteRequest` are
`send_jbd_request` taken apart, since a late answer can arrive between any two.
An answer is two notifications; `FindPacket` is `jbd_find_packet`, which finds
the first complete answer to the expected command in what was received. A frame
carries the probe and the peer it came from as history only: the code sees
command and number of cells. How a link is brought down is left to
`BleRecovery`, so cleanup ends when there is no link. NimBLE forgets a link
before it calls back, and its callbacks run one after the other.

### Policy and consoles

`staged` and `active` are the two blobs in flash, sequences of lines of which
`Compiles` says whether Lua accepts them. The policy task reads the active one in
two calls (`MeasureActive`, `BeginRun`), and the console may write it in between.
`memory` and `digest` are `g_policy_state`; `kept` is history. What a program
computes is left open: it may set any boolean, fail, or be stopped.

`place` is where each of the two sessions is in its command. `TakeMutex` and
`Busy` are the two ends of the wait in `power4_console_execute`; the command
source is one variable for both, as in the code. An upload arrives line by
line and may be cut short, go on too long or differ from what was announced;
`asked` is history, the programs somebody began to upload. `CheckDeadline` is
`socket_stream_read`, which looks at the deadline before each `recv`.

Assumptions. A digest stands for the text it is of. Authentication is a step
that may fail. On the serial line nobody waits for an upload to go on: one that
stops forever keeps the mutex (`console.cpp:2148`), and no property denies it. A
program that catches the error of its own deadline (`policy_task.cpp:56`) is not
modelled.

### Ethernet

`flash` is NVS key by key, `settings` is `g_settings`, `applied` what driver and
interface really have. `reconfigure` is one action per call it makes, and
`StepFails` any of them failing; the restoring follows, of which each part may
fail too (`unrestored`). `events` is what the driver has posted and no handler
has seen; `LoseEvent` is a handler that does not get the mutex. The mutex is held
while `call` is not `"idle"`. Netmask and name servers are saved and applied with
the gateway and go with it. `torn` and `dropped` are history: a save was not
completed, an event was lost since the last link event. `SettingsSurvive` is about
whole saves: a reset or a failing write in the middle of one leaves keys of two
configurations, which the next boot loads if they are valid together. The
documents say only that settings are stored (`README.md:269-270`), so this is
described here and not counted as a finding.

Assumption. Driver and interface report an address as got only while the link
stands; they may report one as lost at any time. `LinkShown` rests on the first.

### Clock

A time is right or wrong. `set_datetime_unlocked` is one action per transfer on
the bus, and on a flaky bus each may fail, done or not done; `spoiled` is history
and says that the setting of the RTC was given up or cut off half way. An RTC
that stands still becomes wrong (`RtcStandsStill`), except in the moment it is
being set. `sync` and `manual` are the two callers, `queue` the sync queue of
one, overwritten by each synchronization. A caller waits 500 ms for the mutex of
the RTC; then `TakeTimesOut` ends its call, and the task has `"missed"` that
synchronization (`rtc_manager.cpp:260-263`). The other caller holds the mutex, or
a reader, which is not modelled otherwise: so a wait may time out whenever the
caller itself does not hold the mutex. The waits for the mutex of
`time_manager.cpp` may be in vain as well, and the clock is then not marked valid.

Assumption. A time taken in `sntp_sync_callback` is written later, after waits of
500 ms at most each and the transfers of one setting. It is called right all the
same: how many seconds an RTC may lag is not a question this model answers. That
the task itself is scheduled soon is assumed.

### Host tools

`toDevice` and `toTool` are the stream in both directions, of lines, prompts and
frames. A report does not say which it is; frames carry report and session only
so that `OutputIsItsReport` can speak of them. Lines that a log line was mixed
into are `Noise` or fail their checksum (`BadFrame`).

Assumptions. A log line that interrupts a prompt and the prompt drawn again after
it are one step. `console_log_vprintf` (`console.cpp:239-267`) writes them piece by
piece after it looked whether the prompt stands, so that a command entered in
between could have a prompt drawn into its answer; this is left out. On the serial
line the console has at least begun the last command
of one session before the next session opens, and opening discards what was
received: `power4d` waits half an interval longer than for the answer itself,
and `OutputIsItsReport` would not hold otherwise, as a tool takes the first frame
for its own. Neither the tools nor the console enforce this; it is a guard of
`Open`. `power4ctl` may lose what it received in the same read as the
prompt.

## Runs

| Run | Question | Bounds |
|---|---|---|
| `relay_healthy` | do contacts follow the intent, answers belong to their questions, and is the contract implemented, when the bus works? | 2 relays, queue 2, holds 0..2, 2 callers |
| `relay_faults` | what is left when writes are lost or unacknowledged and callers give up? | 2 relays, queue 1, time-outs 1, 2 callers |
| `relay_force_off` | does force-off always open the relay? No | as `relay_faults` |
| `relay_stale_reply` | does an answer belong to its question when every write times out? No | the firmware's numbers in units of 100 ms, queue 16 |
| `config_lifetimes` | are lifetimes kept exactly, through failures and resets? | 4 names, table of 2, lifetimes 1 and 2 s, 2 callers and the policy |
| `config_interrupted` | also when a lifetime parameter is made permanent? No | one name |
| `config_overlap` | also when a define overlaps expiry? No | one name |
| `batteries` | does the store keep its promise, and are bank states real? | 3 batteries, 2 of them with as many cells, 2 slots, 2 banks of which 1 fits, time 0..1 |
| `battery_cells` | do retained cells belong to the battery? No | 3 alike batteries, 2 slots |
| `device` | the policy's memory and program, the consoles, Ethernet, the clock, the host tools and the probe: are they right through resets, failures and late answers? | see below |
| `rtc_frozen` | does the RTC run after it was set with success? No | two resets |
| `ble_recovery` | does cleanup always end, truthfully, with the device discoverable? | 3 batteries, 3 spontaneous resets |

`device` checks six services at once. They share nothing but the reset, so
`focus` picks the one that moves in a behavior, and the others stand still:
`cycle` (policy task and serial uploads), `sessions` (both consoles, between two
cycles), `addresses`, `modes` and `link` (three sides of `Ethernet`), `clock`,
`tools`, `probe`. Its bounds: programs of at most two lines of one kind, of which
the whole one compiles; a table of one boolean with two names offered; one
password; two addresses in different subnets; two PHY modes; `MaxEvents` 2
driver events waiting; `MaxResets` 2 resets of the clock; `MaxSessions` 2
sessions of a tool with two reports and `MaxWaiting` 3 lines or prompts when a
log line comes; `MaxProbes` 2 probes of two batteries, one with more cells than
`MaxCells` 2, into a buffer with `Room` for four notifications. Deadlock is not
checked there, since resets, sessions and probes run out.

Why the bounds are enough. Relays are independent except through the register
they share and the order of the expiry loop: two show both, and a queue longer
than one shows messages overtaken by expiry. Every table is one smaller than the
names offered to it, so that it is full, refuses or evicts. Lifetimes of one and
two seconds expire in either order. With a clock of 0 and 1 the store meets
equal and different times of the last observation, which is all eviction
compares. Three batteries are one being probed, one left over from an earlier
probe and one more; the third spontaneous reset can hit a recovery that
follows another. Two probes or two sessions are an earlier one that leaves
something behind and a later one that meets it, and the buffer holds two whole
answers, so that a late one precedes the one asked for and a third overflows.
Two addresses in two subnets make a gateway that does not fit a new address, so
that keys of two configurations would not be valid together. The first reset of
the clock can fall into the setting of the RTC, the second finds what it left.

Fairness. `RelayFaults` assumes weak fairness for the relay task and for time,
weak fairness for each caller's return from a wait, and strong fairness for
a blocked sender, which FreeRTOS wakes in order when there is room. A call is
never forced to start and a write never forced to succeed. `BleRecovery` assumes
that both tasks run and that NimBLE carries out a reset that was scheduled and
the sync that follows; nothing on the air is fair. `Console` assumes that the task of the TCP
console runs, that its deadline passes, and that `recv` returns, as it does
within five seconds; the command mutex is not assumed to be free ever.
`ClockFairness` assumes that SNTP synchronizes again and again, that its task runs,
that whoever holds the RTC's mutex goes on, and that the task's wait for the mutex
ends, with the mutex or without. A wait that ends without it drops the synchronization,
and nothing in the code keeps this from happening every time; so `RtcFollowsSntp` says that the
RTC gets a later one unless time-outs go on for ever.

### Findings

Six runs expect a violation: each states what a document or a comment of the
repository says and shows the code doing otherwise.

- A failed write of a force is never repeated (`relay_force_off`).
- A late answer goes to a reply queue that is gone or another's
  (`relay_stale_reply`).
- Making a lifetime parameter permanent is not safe against a reset in the
  middle, unlike the reverse (`config_interrupted`).
- A define that overlaps expiry loses its lifetime (`config_overlap`).
- Evicted cells are shown for another battery (`battery_cells`).
- An RTC that was found stopped is set and left stopped, and setting it reports
  success (`rtc_frozen`): the bits of Control_1 are put back as they were read,
  and what is read back at once is what was just written. A stop bit stays set when
  a setting was cut off or its restart failed.

One more was met without a run of its own. When `power4ctl stage` finds the
console busy, the answer is "console busy; try again" (`console.cpp:312-319`),
which contains neither of the phrases looked for (`power4ctl.c:608-611`), and a
response without either counts as success (`power4ctl.c:589`): the tool exits
with 0 although nothing was staged.

## Proofs

All theorems hold for every value of the constants that satisfies the named
assumptions of the modules.

`RelayProofs`. `TypeCorrect` is inductive as it stands. `DeadlineHolds`: a timer
never survives its off time by `Slack = 2 * NumRelays * WriteTicks + PollTicks`.
`TimerDeadline` is not inductive, as it does not say where the task is in its
loop; `DeadlineInv` bounds the lateness from the place of the task, the age of
the scan and the relays still ahead of it. `Slack` is an upper bound, not the
least one. `HoldsOnlyGrow` is the other side of it: nothing but time brings the end of
a hold nearer. `OutputCorrect`: with acknowledged writes contacts follow intent,
from `AllAgree`, which adds that output, shadow and latch agree, and
`NothingAsked`, that nothing is asked of relays before start. `StaleBound`: at
most one contact differs from the shadow, whatever fails, and `WriteRepairs` is the
action property that goes with it: the register is written whole, so an
acknowledged write leaves none that differs. `HoldsKept` follows from types.

`ContractKept` is the refinement, under the hypothesis `Outcomes = {"ok"}`. The
initial states map to initial ones, each branch of `handle_message`, an expired
relay, `Start`, `Reboot` and `Tick` to a step of the contract, and all else to a
stutter. It needs `AllAgree`, that what is written for one relay changes no
other, and `LeasesStand`, that a lease of the contract is what is left of a timer.
The contract bounds nothing by the queue, so the theorem holds for any length.

`RepliesReachTheirCaller` and `RepliesMatch` need `Patient`. `QueriesWait` is what
makes them inductive: the time a caller has waited, the time until the task is back
at the queue (`Backlog`) and a turn for each message ahead of its own fit into the
turns of a full queue. The bound is conserved: a tick adds to the wait what it
takes from the backlog, and a message received turns one turn into backlog.

`ConfigProofs`. `LifetimeStands`: if no name is defined both with and without a
lifetime (`FixedKinds`) and calls do not overlap, a lifetime value always has its
lifetime, through failures and resets at any point. The invariant `LifetimeInv`
says of a call at each of its steps what has been written already. The two
hypotheses are exactly what `ConfigInterrupted` and `ConfigOverlap` drop.
`CountdownsAreBacked` needs calls not to overlap only. `CountdownInv`: a countdown without
its lifetime is one whose call is about to write the lifetime or to drop the
countdown, and a lifetime that expiry has collected stays until its turn.
`NothingExpiresEarly` and `NoExpiredValueIsSeen` are the two halves of the
dead-man switch. Neither property is inductive; `PromiseInv` adds what the
countdown of a live name is. Between a reset and the turn of the name in
the first expiry it is not there, and the whole promise is still left
(`CountdownExact`); from then on it is exactly what is left of the promise, and
while expiry runs every live name still has an entry to come or a second to live
(`Settling`). Both need `FixedLifetimes`, that every
define of one name asks for the same lifetime: a define that changes
the lifetime and is cut off by a reset between its commits leaves the new
lifetime with the old value, and which of the two the value was
promised is then a matter of opinion. The requests of `config_lifetimes` are of
this kind.

`BatteryProofs`. `StoreRemembers` and `BanksLeaveTheStore` prove the refinement
step by step from an invariant that no two slots hold the same name and that a
slot without a name is blank. They suppose nothing of the batteries: what is
written over a slot is what is remembered after the record in it
(`WrittenIsRemembered`), which is the battery's own, none, or that of the battery
displaced. `BankTypeCorrect` says that slots
keep as many cells as their battery has and the bank list its limit.
`AnswersAreHeld` proves what a bank answers, for banks of any size and any number of
observations between the reads. `AnswersInv` says of a query in progress that there
was held a record of each member read so far of which its state is what the code
should have `Collected`, that each member still to be read is held with what the
store has of it now (`RecordOf(n) \in held[r][n]`), and that no member is read
twice, as a bank names none twice (`BankAssumption`). `OneMoreCollected` is the step,
`FinishedDescribes` the end. The total of the voltages is a fold, so adding one
member to it is an induction over sets (`TotalOfOneMore`). It does without an
induction theorem: what holds of a set when it holds of it less any one element
holds of every finite set, since a counterexample of least size has no smaller one
(`ByRemoving`, from the least element of a well-founded order). TLC checked
`AnswersInv` on the instance of the run `batteries` before it was proved.

`BleProofs`. `BleInv` has three parts besides types. `RequestInv` says how far a
request has come: without one nothing of an earlier one is left, and what the
host observed of one was a reset. `ProbeInv` says of which battery there can be a
link or an attempt. `AdvertisingInv`: the host is usable only when it is up and
after it advertised. `RecoveriesAreReal`, `OneAtATime` and `AlwaysDiscoverable`
follow. As a consequence the branch of `ble_manager_reset` for a request that is
pending already (`ble_manager.cpp:275`) is never reached by the scanner.

`ConsoleProofs`. `ConsoleInv` adds to types that a command runs alone and under
its own source (`OneRuns`), that what accept validated is still what is staged
(`ValidatedIsStaged`, which needs `OneRuns`, as the other session could stage
meanwhile), that an upload is for a program somebody asked for, and that between
cycles the booleans are those last kept (`KeptIsHeld`).

`EthernetProofs`. For the settings, `SaveIsOrderly` and `ApplyIsOrderly` say how
far the save and the reconfiguration have come: which keys are already those
requested, and what driver and interface have at each step. For the link,
`LinkInv` looks at the last link event that waits: it, or the state shown if
there is none, tells the state of the link unless an event was dropped. The
queue has any length.

`ClockProofs`. `SettingIsSound` says what the chip holds at each transfer, for any
number of resets: only in the midst of a setting does an RTC stand still that
nobody spoiled.

`AnswerProofs`, the probe. `DisconnectsAreOwn` and `ObservationsAreOwn` follow from
`ProbeInv`. `OneLink`: only the battery being probed has a link or an attempt, so a
callback that is still to run is of an earlier link if there is one now.
`HeardIsOwn`: what is on the air, in the buffer or taken from it is of this
battery and this probe, since it is dropped when there is no link and when a probe
begins. `BasicIsOwn`: from the first answer on the basic information is that of the
answer to the first question, which is what a late copy of it would spoil.

`AnswerProofs`, the host tools. `OutputsAreTheirReports` holds for any number of
sessions, reports and lines that wait. `ToolInv` tells why prompts are enough to
keep answers apart although no answer says what it answers: while the tool asks
for a prompt, no frame or dot of an older answer comes after a prompt
(`SkipsTheOld`), as the console writes its prompt after the answer; so what is
behind the prompt that is taken is free of them, and frame and dot after
it are those of the one command written since (`ReadsItsAnswer`). It rests on
the assumption that `Open` states: the command of the last session has begun.

The theorems of the last four modules are about `Spec` of `Console`,
`EthernetSpec`, `ClockSpec`, `ProbeSpec` and `ToolSpec`; every behavior of the run
`device` is one of each.

Every safety property of the passing runs, invariant or action property, is stated
by a theorem. Only model-checked: liveness (`EveryCallReturns`, `CleanupEnds`,
`NetworkLetsGo`, `RtcFollowsSntp`), which is out of the prover's reach.

## Not modelled

- Parsing, formatting, completion, logging, JSON and GATT rendering, the line
  editor and options of the host tools: no state that anything else depends on.
- The log buffer: a ring of bytes under a lock, whose contents are what was
  written last. Inputs and the board's I2C bus: reads without state; what a bus
  that fails does is in `RelayManager` and `Clock`. The CSV board profile: parsed
  once, at boot, by one task.
- The boot sequence is a straight line of starts. What each service does at boot
  is in its module; that services start one after the other is not.
- The scanner's candidate table and the names in advertisements.
- The Lua interpreter and the policy examples; NimBLE, ESP-IDF and FreeRTOS except
  as used; HMAC and base64.
- The failure of `xTaskCreate`, a failing save of the bank blob, which changes
  nothing, and the time-out of the password's critical section.

## Plan

1. The boot sequence with the services it starts, and what consoles and GATT
   answer before a service is there.
2. The scanner's candidate table: advertisements, eviction, the order of probes.
3. Policy and relay manager together: a program that fails or is replaced lets
   its holds run out, none of its relays stays closed longer than the hold.
4. Proofs: what a contact does under the contract alone, so that `ContractKept`
   carries it over to the implementation.
