# A TLA+ development for Dekopon

Dekopon runs AI agents for people in chat. A gateway daemon (`dekopon-gatewayd`) takes messages from
chat platforms, runs one agent turn at a time per conversation, and meters the model calls; a broker
daemon (`dekopon-brokerd`) authorizes and executes what an agent's script asks for. This directory
models the parts of both daemons in which several tasks, threads, files, processes and clocks meet,
checks them with TLC on small instances, and proves the facts that matter most with TLAPS for every
instance.

`PROJECT.json` lists components, runs, mutants, the source lines behind every definition, the findings,
the hazards and the theorems. Run a check with `tlc -config MCJobs.cfg MCJobs`, a proof with
`tlapm ReloadProofs.tla`.

## Inventory

Component | State | Operations | What is hard | What makes it correct
--- | --- | --- | --- | ---
Token governor (`dekopon-model-token-governor`) | per agent: meters, tokens reserved, charges since boot | admit, observe, settle/drop, restore, abandon | many calls at once; calls that succeed, fail, are cancelled or never sent; a restore in the background; clocks set back | limits hold; reservations come back once; a restore is exact; refusals name the right time
Meter restore (`gatewayd/meter_restore.rs`) | the boot-time window | search telemetry once, apply or abandon | late, partial or corrupt answers | nothing lost or doubled; a corrupt row cannot freeze the clock
Session gate (`gatewayd/session.rs`, `session/participants.rs`) | per conversation: the running turn, steers, follow-ups, mapping, interrupts; permits | admit, enrich, probe, cancel, resolve mapping, take, seal, next or release, drop | gateway loop, session task, participant worker and deadline interleave at every lock | one session per conversation; nothing accepted is lost; nobody is heard without authority; a stop stops
Agent prompt loop (`dekopon-agent/prompt.rs`) | transcript, step budget | take steers between steps, seal at the end | when it looks at the mailbox | see the session gate
Detached jobs (`gatewayd/jobs.rs`) | bounded table of rows, permits, notice channel | admit, finish, wait, kill, stop, seal | job threads, waiting scripts and shutdown | held rows survive; ends are told; bounds hold; waits return
Wakes (`gatewayd/wake.rs`, `wake/store.rs`) and the loop that serves them (`gateway.rs`) | rows in memory and in a file; the loop's deadline; running probes | register, subscribe, cancel, deliver, take due, resolve a tick | a crash or a failed write between retiring a row and starting its wake; cancels during a probe; a loop that sleeps | a wake starts at most once; a retired one is on its way; a cancelled one stays silent; a due one starts
Reload (`gateway.rs`, `brokerd/lib.rs`) | the broker's active and prepared generation; what the gateway knows, serves and is unsure of | observe, prepare, commit, settle | requests that go on after their timeout, lost answers, restarts of either side | the gateway serves only with a generation the broker ran; both end up running what the files say
Following (`gatewayd/follow.rs`, `memory/journal.rs`) | tickets, markers on disk, keys being banished | stay, leave, refresh, deferred write, sweep, load | turns, banishment, deferred writes and file faults | what was left stays left, also after a restart; table and disk agree
OAuth2 credentials (`brokerd/secrets/oauth2.rs`, `refresh_scheduler.rs`) | one record per credential, its seed, the scheduler's holds | resolve, scheduled refresh, adopt a seed, seal | tokens that may be presented once; crashes between rotation and save | no token is presented twice; nothing unsaved is used; seals hold; idle credentials stay alive
Collection (`collection.rs`) | debounce buffers | collect, flush, stop | timers racing stops | a stop drops what is buffered
Assets, memory (`asset.rs`, `memory/`) | publications, journal, summaries | publish, append, repack | failure between steps | the journal is a prefix of what was said
Shell and threads (`dekopon-shell`, `dekopon-process`, `threads.rs`) | script trees, thread budget | spawn, cancel, drain | budget at its limit | threads are returned
Broker core, policy (`dekopon-broker`, `dekopon-policy`) | evidence, audit | authorize, execute, record | order of decision, effect and audit | deny by default
Provider, HTTP and storage hosts | sandboxes, quotas | invoke, read, write | quota under concurrent writes | quota is never exceeded
Model clients, model proxy | streams | call, tee | I/O | outside this development
Clients, configuration, telemetry, SDK, charts | | | sequential or I/O | outside this development

How they interact: the gateway loop calls `SessionGate::admit` for messages, wakes, follow-ups and job
notices, and `enrich`, `cancel` and `Jobs::cancel_owner` for platform events. An admitted session task
runs turns; a turn's prompt loop takes steers from the gate, asks `Metering::admit` before each model
call, and runs scripts that start and wait for jobs, register wakes and follow conversations. A job's
end becomes a notice in a channel of the gateway loop, which admits it like a message. The gateway's
reload task and the broker agree on a generation over the broker's socket; a new generation also gives
the broker's refresh scheduler a new catalog of credentials.

## Modules

Module | Models | Notes
--- | --- | ---
`Meter` | `meter.rs` | Values only. A meter is a record; `Verdict`, `Charge`, `Used`, `Horizon` are the methods; `Replay` is the loop that charges a history to a new meter. `MeterSpecs` is what the check of the configuration (`spec` in gatewayd's `metering.rs`) lets through. A rolling meter's deque of buckets is a function from bucket start to spend: starts only grow, so the popped prefix is the set of expired starts.
`TokenGovernor` | `budget.rs`, `metering.rs`, `meter_restore.rs` | One agent's budget. `Admit` and `Finish` are each one hold of the budget's lock; `Finish` is `settle`, `settle_with_kind` and `Drop`. What a call observed is read only when it ends, so it is an input there. `Restore` replays the rows in any order that is by time (`InOrder`): the sort is stable, and rows of the same time come as the search returned them. The ghosts `spent`, `replayed` and `overrun` are what was charged, what was restored, and by how much calls passed their estimates.
`SessionGate` | `session.rs`, `participants.rs` | Each action is one hold of the gate's mutex. `AdmitNew`, `AdmitRefused`, `AdmitBatched`, `AdmitSteer`, `AdmitFollowUp` are the ways `admit` returns. `WorkerDrain` and `WorkerReply` are the two ends of `authorize`, with an await between them. `Expire` and `ExpireSignal` are the deadline's `cancel`, which takes no gate lock. A turn's prompt loop (`prompt.rs`) is only what it asks of the gate, in any order: to take steers, to seal, to end.
`Jobs` | `jobs.rs`, its users in `gateway.rs` | Each action is one hold of the table's mutex; `Notify` is `finish` after the lock is released. `WaitRegister`, `WaitScan`, `WaitGiveUp`, `WaitLeave` are the holds of `wait` and what happens between them.
`WakeStore` | `wake/store.rs`, `wake.rs`, the wake branches of `Gateway::serve` | A call of the store holds its mutex over a file write, so the variable `op` is that call: it starts with the rows it computed (`Register`, `Subscribe`, `Cancel`, `CancelSubscription`, `Deliver`, `TakeDue`, `Resolve`), renames the file (`Rename`) or fails to (`WriteFails`), and ends by changing memory and answering (`Commit`). The loop's phases follow `serve`: `Turn` reads the deadline, `TakeDue`, `HandleDue`, `JoinTick` and `Event` are branches of its `select!`, `Shutdown`, `Exit` the drain after it. `Crash` and `Open` are a killed process and the next one.
`Generation` | what the two daemons promise each other | Abstract: the broker runs one digest; the gateway agrees only on one that the broker has run since it began to ask.
`Reload` | `ReloadState` (`gateway.rs`), `Coordination` (`brokerd/lib.rs`), the requests between them | Implements `Generation`. A request is a slot in `call` that lives in the broker until it is answered, whether or not the gateway still waits. `PrepareBegin` and `PrepareEnd` are the two holds of the state's lock in `prepare`, with the load between them; `gen` is the identity of the active `Arc`. `Tick`, `Observed`, `Prepared`, `Committed`, `Confirmed`, `Failed` are `activate` between its awaits.
`FollowTable` | `follow.rs`, the markers of `memory/journal.rs`, their callers in `session.rs`, `memory/generation.rs`, `gateway.rs` | The short mutexes make one step of each critical section; the `disk` mutex, held over file operations, is a variable. A marker is rewritten in place, so `OpenMarker` (which truncates) and `WriteMarker` are two steps, and a crash between them leaves a torn file.
`Credential` | `secrets/oauth2.rs`, `refresh_scheduler.rs` | `Acquire` takes the record's file lock, reads record and seed and decides what to present; `ReadFails` is that it cannot. A live record that is not due and whose access token repeats a secret is sealed there. `Endpoint` is the token endpoint; `Receive`, `Save`, `SaveFails`, `Lose` the ways on. `Lose` is a request given up before or after the endpoint has acted; one that the endpoint has yet to see, given up or left by a crash, is a stray, which `LateRequest` delivers at any later time, or never. `Tick` and `Retry` are the scheduler. Time enters as the record's age (fresh, due for the scheduler, due for a resolution).
`MC...` | | Instances for TLC.
`TokenGovernorProofs`, `SessionGateProofs`, `SessionMailProofs`, `JobsProofs`, `WakeStoreProofs`, `ReloadProofs`, `FollowTableProofs`, `CredentialProofs` | | Theorems.

Abstractions. In the session gate a message is its identity, with a sender, a conversation and a kind;
texts, receipts and assets are left out. `received_at` is a constant of each message and says nothing
of the order of admission: an album waits in the collector, a job's notice is stamped when it is made. A
turn's ids come from a fold whose order nothing depends on, so any is allowed. A turn is
named by the message that leads it, which stands for the `Arc` that the code compares with `ptr_eq`: a
message leads at most one turn. The broker's answer about a participant, whether a channel is mapped,
and how a turn ends are nondeterministic. `GithubBatch` keeps its bound and its actor rule. A
conversation's permit, held by a task or a probe, is counted. The participants' table of eight handles
is not modelled: a ninth person is authorized anew at every drain. In `Jobs`, the success, failure,
deadline and abandonment of a job are one outcome, since all are told the same way. In `WakeStore`,
times are the time left, a probe's script is a verdict, and the store's refusals change nothing. In
`Reload`, a configuration is a name with a digest (two contents may share one: secrets are not part of
it), a flag that says whether it makes this gateway the owner, and a pin: its settings that take effect
at a start only, of either daemon. Files with another pin than what runs are refused until a restart
(`RestartRequired` in both daemons). A second gateway and
`AbortGeneration`, which the gateway never sends, are left out. In `Credential`, a token is its family
and its place in it, and the endpoint (external) revokes a family when it sees a token that it has
replaced, which is what the code assumes of it. The credential is one with `refresh: scheduled`; an
operator who deletes the record (`oauth2.rs:653`) or provides an old seed again, of which only the last
adopted digest is remembered (`oauth2.rs:424`), is left out.

Steps that the models take as one although the code reads a value a moment before: `settle` and
`register` read the clock before they take their lock (and `register` before the baseline probe), and
`prepare` looks through the records before it answers. In `FollowTable` a turn has one stay under way, where the
code collects any number. In `Jobs`, a wait whose `keep_waiting` panics is one that gives up, and a wait
names each job once. No property depends on them.

Saturating 64- and 128-bit arithmetic is taken as exact in `Meter`: configured limits do not come near
the saturation points. The telemetry rows of a history are a set, so two rows that are equal in time,
tokens and model stand as one.

## Runs

Run | Instance | Shows
--- | --- | ---
`token_governor` | three calls; fixed with rolling, session, credit with session budgets; three histories, one with two rows of the same time; time 2 to 7, boot at 4, one step back of the clock | `ReservedExact`, `NoOverspend`, `RestoreExact`, `WindowSpend`, `BudgetClockNotFrozen`, `HonestRetry`
`session_gate` | one mapped, abort-steered conversation; a poster-only message, another message and its late forward, a participant; mailbox of 2, two interrupts | `NoForeignInput`, `LateWithBase`, `Accounted`, `StopReachesModel`, `InterruptHeld`, `SteersInOrder`
`session_queue` | one conversation, two permits, a message, a job notice, two GitHub deliveries, probes | `OneSession`
`session_drain` | fair; the asker, a participant, a job notice | `Drained`
`jobs` | fair; three jobs of two owners over two rows and two permits, a wait, shutdown | `RowsHeld`, `EndTold`, `NoticeOnce`, `WaitReturns`
`wakes` | fair; two registrations of any kind by a person or a space; failed writes, crashes, stop | `AtMostOnce`, `NotForgotten`, `CancelHonoured`, `IdsNameOneWake`, `CoveredWakeStarts`
`reload` | fair; five broker contents with three digests, of which one disowns the gateway and one has another pin, three gateway configurations, one with another pin; three requests, two edits, two faults | `PreparedOnActive`, `AgreesOnRunning` (the refinement of `Generation`), `Converges`
`follow` | two turns and a banisher over two keys, room for one ticket; one failing file operation, one restart | `BanishKept`, `DiskAgrees`, `InviteKept`
`credential` | fair; a resolution and the scheduler, one seed besides the enrolled family, two rotations, two faults, any number of reloads | `NeverReused`, `ServedSaved`, `SealHolds`, `DueSettles`
`steer_stranded`, `job_untold`, `wake_unheard` | smallest instances | the findings below

Each module's `TypeOK` is checked with its first run; in `Jobs`, `WakeStore` and `SessionGate` it
includes the capacities (rows and permits, rows per subject, mailbox depth).

What the bounds are for. Capacities are small so that they are reached: a mailbox of 2 fills; two rows
and three jobs force an eviction while a row is held; three notices do not fit a channel of two; one
ticket forces a sweep. Of the limits on wakes, TLC meets only that of one digest per space, since two wakes
do not exceed a `max_per_subject` of 2; the theorem `WakeTypes` covers them for all values. The periods
of the meters (2 and 3) and six instants pass several window borders, and the rolling period of 2 has
buckets of one instant. Three calls are the fewest in which two hold reservations while a third asks.
Four messages give a conversation a running turn, a steer, a leftover and a newcomer. Three requests let
one prepare and one commit of the past be under way while the gateway asks anew; two faults are the
fewest that time out a commit and the observation after it. Two rotations let a stale reader present the
first token after it was replaced; one new seed lets the record change family. `MaxJobs`, `MaxWakes`,
`MaxEdits`, `MaxFaults`, `MaxSeeds`, `MaxIssues`, `MaxSeq`, `MaxCrashes` and the clocks'
ranges bound the behaviours only; every other bound is one of the program's own limits at a small value.

Symmetry is used only for deliveries, calls, turns and owners that no definition tells apart, and only in
runs without liveness. Deadlock is not checked where the system may stop: every message settled, every
call ended.

Fairness. `session_drain` assumes that the runtime polls a ready session task again (weak fairness of
`TurnStep`; a prompt is bounded by `max_steps` and by the wall clock) and that a probe ends. It assumes
nothing of the deadline, of stops, or of new messages. `jobs` assumes that some running job ends (its
`jobTimeoutMs` deadline cancels it) and that waiting threads run; `wait` sleeps at most a `WAIT_SLICE` at
a time, so a missed signal does not matter. It does not assume that `keep_waiting` ever says no.
`wakes` assumes that the loop runs, that file operations end, that time passes, and that the store's
mutex, which `parking_lot` makes eventually fair, is granted to the loop in the end (strong fairness of
`Turn` and `TakeDue`); callers, probes and other events owe nothing. `reload` assumes that both daemons
run (the gateway ticks every two seconds, the broker ends what it began); edits, timeouts and restarts
owe nothing and are bounded, which is what "in the end" means in `Converges`. A good file that changes a
restart-only setting is not waited for: no restart is assumed, and `Converges` names it as an exception. `credential` assumes that
the scheduler ticks, that its five minutes pass, that a contended file lock is granted to the scheduler in
the end (strong fairness of `Acquire(Sched)`; the kernel queues waiters), and that a request ends (it has
a timeout); resolutions owe nothing. Refusals by the endpoint and unreadable records or seeds are
faults, of which there are finitely many: an endpoint that always refuses, or a record that never reads
again, is no case of `DueSettles`.

Every property of a passing run has a mutant: a changed definition, kept next to the original and
marked `Mutant`, that breaks the property.

## Findings

* `steer_stranded`. In a mapped channel the participant worker drains the mailbox before it has
  authorized the senders. If the turn is cancelled then, by its deadline or by the asker's stop, the
  worker is dropped and the messages with it: they enter no turn and nobody is told.
  `CHANGELOG.md:907` says that a steer that arrives as a turn finishes is no longer stranded.
* `job_untold`. A job that ends after a wait's last look at its row, while that wait is giving up, is
  counted as waited for and sends no notice, but the wait answers "interrupted"
  (`CHANGELOG.md:1564`).
* `wake_unheard`. The gateway's loop reads the earliest wake at its top and then sleeps. Registering a
  wake does not turn the loop, nor does the end of the session that registered it, so that on a quiet
  gateway a wake starts only when something else happens. The tool's description
  (`dekopon-agent/src/wake.rs:152`) promises it after `afterSeconds`. `CoveredWakeStarts` is what does hold:
  a wake that the loop's deadline covers starts.

One more sentence of the repository needs a reservation. `CHANGELOG.md:1114` says that "an unchanged seed
is never sent again". The digest of a seed is written with the first record that it makes,
and a failed request returns before that (`oauth2.rs:500`), so a seed whose adoption timed out, or could not be saved, is sent again by the next
attempt. `NeverReused` states the exception (`lost`): for every family whose requests were answered and
saved, seeds and tokens are presented once.

## Theorems

* `TypeCorrect`, `ReservationsConserved`, `RestoreIsExact`, `WindowSpendExact`, `BudgetClockSane`,
  `NeverOverspends` and `RetriesAreHonest` (`TokenGovernorProofs`): all safety invariants of the budget, for any
  number of calls, any budget of any meters, estimates, usages, histories and clocks.
  - `ReservationsConserved`: `reserved` is exactly what the calls in flight hold. `reserved` is a number and
    the calls are a function, so the statement counts coins: one pair per call and token held. The
    inductive invariant `ReservedInv` adds the types and that the set of coins is finite, which `Cardinality`
    needs. Admission adds a disjoint set of coins and an end removes one; with exactness, the saturating
    subtraction in `settle` never saturates.
  - `RestoreIsExact`: the meters are what the restored history and then the charges of this process, in
    order, make of new meters. The inductive invariant `ExactInv` adds that, while a restore may come, the
    live tail is `Costly(spent)`, the charges of this process without those of zero tokens, which `settle`
    does not collect.
  - `WindowSpendExact`: what a fixed or a rolling meter reports is the sum of the charges in its window, a
    sum that does not go through `Charge`. It follows from `ExactInv` and, by induction on the charges,
    `FixedSum` and `RollingSum`: what `Replay` makes of a window. A charge counts no earlier than any before
    it, so that in a rolling meter the buckets that `Charge` drops are those that can never count again.
  - `BudgetClockSane`: no meter is ahead of a clock that was never set back. The inductive invariant
    `ClockInv` says that all charges are of the past and all restored rows from before `Boot`.
  - `NeverOverspends`: spent and reserved stay within every limit, but for what calls cost more than their
    estimates. It is inductive with `ReservedInv` (what a call gives back it did hold), `ClockInv` (an
    admission and a later status look at the same window or a newer one) and `Covers`: while a restore may
    come, meters restarted from the live tail alone report no more than those in use. Without the last, a
    restore that finds no history could report more than was admitted. A credit bucket is the case that
    needs care: the restarted one began earlier and has accrued at least as much.
  - `RetriesAreHonest`: a call that is told to retry after w is admitted then and not a millisecond before,
    and "never" is said exactly of a call larger than a limit. For each kind of meter, the wait is the first
    time at which the call fits (`FixedWait`, `RollingWait`, `SessionWait`, `CreditWait`), a call that fits
    goes on fitting (`FitsLater`), and so the longest wait of all meters is the first at which it fits all.
    `RollingWait` is about the loop that lets buckets expire until enough has gone.

  The installed library's induction rules take a predicate as a parameter, which the provers cannot
  instantiate. `SetInduction`, `FiniteInduction` and `SequenceInduction` take instead the set of the things
  that have it; with them, what the sums and `Replay` compute is proved. Assumptions: the specs are in `MeterSpecs`
  (no zero limit, refill or period, no credit above the capacity), estimates and usages are naturals, a
  history is a finite set of rows, and times are integers.
* `StopNeverCleared` (`SessionGateProofs`): for any messages, conversations and bounds, a cancelled turn's
  model watch is set or about to be. The inductive invariant is the property and the type of
  `cancellation`. The one step that clears a watch is `Rearm`, which looks at the state; the deadline's
  two steps are covered by `signal`. Assumption: a message's conversation is one of `Keys`.
* `GateTypeOK`, `GateOneSession`, `GateAccounted`, `GateNoForeignInput`, `GateInterruptHeld`,
  `GateSteersInOrder` and `GateLateWithBase` (`SessionMailProofs`): all safety invariants of the gate, for any
  messages, conversations, permits and capacities. The inductive invariant is `GateInv` with the invariant
  of `StopNeverCleared`. `GateInv` says once for the gate that each message arrives once (`ArriveInv`) and
  where each permit is (`PermitInv`), and for each conversation: that it is held by one live task, whose
  turn is led by a message that is taken for good, so that a task that has released it can never meet its
  own turn again, and that only a turn that is not poster-only has a worker (`LifeOK`); that a message is open exactly while it is a steer, in a follow-up or in a
  batch, and only one of these, once (`MailOK`); that the mailbox is within its bound and `authorizing`
  counts the batch (`BoundOK`); whose messages a mailbox and a batch may hold, and that a follow-up that
  awaits the mapping is one chat message of somebody else (`SendOK`); that a waiting message of the asker has
  interrupted the model (`InterruptOK`); that the messages of `turn`, by which a late forward finds its
  message, are steers, in the batch, or have met their fate in this turn (`LateOK`); and that no steer
  stands before one that was both received and admitted before it (`OrderOK`). Each action keeps these of its own conversation and changes nothing of
  another (`Keeps`), which is enough for all (`GateStep`). `GateSteersInOrder` needs that the stable sort by
  `received_at` loses and doubles nothing and leaves what it should in front (`ReceiptIs`): the ranks are a
  permutation of the places, by counting, not by induction. Steers that are appended after the sort may have been
  received earlier but were admitted later. For the same reason the model selects from a queue by places
  (`Pick`) and not with `SelectSeq`. Assumptions: a message has a conversation, a kind and a `received_at`, a late forward is in the conversation, and from the sender, of the
  chat message it belongs to, and the bounds are naturals.
* `ReloadTypes`, `PreparedOnRunning` and `ReloadImplementsGeneration` (`ReloadProofs`): for all
  configurations, digests, bounds and sets of requests, `Reload` implements `Generation`. The mapping
  takes the broker's digest, the history of what it ran, and the published digest. The inductive
  invariant `IInv` adds to the types what an answer means: one that names a running or an applied digest
  names one in `recent`, and while a commit is awaited the awaited request, if it is a commit, is about
  its target (a commit that was given up on and comes late would otherwise answer for another).
  Publishing is then always `Agree`, a commit or a restart of the broker `Activate`, a tick `Ask`, and all
  else stutters. Assumptions: digests are a function of contents, and the names of absence are no names.
* `CredentialTypes`, `TokensPresentedOnce`, `ReturnedWasSaved` and `SealsHold` (`CredentialProofs`): for any
  number of concurrent resolutions and all bounds. The inductive invariant `IInv` says that a transaction
  holds the record's lock from the read to the save; that families are ordered as their seeds came, and
  a transaction is about the record's family only while it is live; that requests still on their way, which
  nobody waits for, are of families in `lost` (`StraysLost`); and, of every family that is not, that the
  record, and each task on its way, is as far in it as the endpoint, and that it is unused if it is newer
  than the record's (`Agreed`). The steps that need it are `Acquire`, which must find a token that the
  endpoint still accepts, and `LateRequest`, which must not touch such a family. Assumption: the scheduler is not one of the resolutions.
* `JobTypes`, `RowsCounted`, `EndsTold` and `NoticesOnce` (`JobsProofs`): for any owners, waits, jobs and
  capacities. `JobTypes` includes the program's limits on rows, permits and the channel (`BoundsInv`). The
  inductive invariant `JobsInv` adds that a row's `waiters` counts exactly the waits that hold it, and that a
  held row is in the table (`HeldInv`); that outcome, stop and state of a row agree, and none is marked
  as waited for before its end (`RowInv`); that the notice of a job is in one place: with its thread, in
  the channel once, or told or dropped (`NoticeInv`); and that the end of a job was heard, or will be
  (`ToldInv`). Eviction is the step that needs `HeldInv`: `admit` looks for a row without waiters.
* `WakeTypes`, `FiredAtMostOnce`, `OwedIsInFlight`, `CancelledNeverFires` and `IdsAreUnique`
  (`WakeStoreProofs`): for any subjects, limits and numbers of wakes, over failed writes, crashes and
  restarts. The inductive invariant `WakeInv`: memory and file agree but between a rename and its commit
  (`StoreInv`); what the call that holds the mutex will make of the rows (`CallInv`); ids in use lie below
  `nextId`, which a restart lowers to just above the file's highest, since no tick outlives the process
  (`IdInv`); a wake whose row is gone is on its way exactly once, in the call's answer, in the loop's due
  or in one finished tick (`OwedInv`); a wake that is not owed, and whose row would be retired when it
  fires, is on nobody's way (`FateInv`); and the limits (`TableInv`). Each call of the store is first shown
  to be a `Called` step, in which rows only leave or one row with a fresh id joins. The highest id of a file
  exists because the naturals are well-founded (`LeastIn`, `GreatestIn`).
* `FollowTypes`, `LeftStaysLeft`, `InvitesKept` and `TableMeetsDisk` (`FollowTableProofs`): for any turns,
  leaves and keys, over failed file operations and restarts. `FollowInv` adds to the types: who holds the
  `disk` mutex and where it stands (`TaskInv`); that sequence numbers in use lie below the next and stand
  for one mark (`SeqInv`, `MarkInv`); what a thread that holds the mutex knows of a banishment (`BanishInv`);
  that an invitation still owed is the resident ticket (`InviteInv`); where the marker of each ticket is
  (`AgreeInv`); that no mark is from the future (`ClockInv`); and, while no file operation failed, why a
  marker may be without its ticket (`FreshInv`). Assumptions: there is a key, and the bound on sequence
  numbers leaves room for one per key, as a restart needs.

Only model-checked. Every safety property of a passing run has a theorem. The five liveness properties
(`Drained`, `WaitReturns`, `CoveredWakeStarts`, `Converges`, `DueSettles`) rest on fairness and with it on
`ENABLED`, which is out of the prover's reach: they stay with TLC. So do the findings, which are
counterexamples.

## Not modelled

By lines, most of the repository is platform protocols, wire formats, configuration and its validation,
rendering, the shell's interpreter, user interfaces and I/O hosts: sequential code whose behaviour is in
its data, which unit tests reach and a model checker does not. What the models cover is the small part
in which the order of steps matters. Left out of the modelled components: what a turn does with the
model and the shell; journal records, summaries and asset publication; the telemetry search's queries
and parsers; secret sources other than OAuth2; an operator who provides an old seed again. See
`PROJECT.json` for each part and its reason.

## Plan

1. Done: `Meter`, `TokenGovernor`, `SessionGate`, `Jobs`, `WakeStore`, `Generation` and `Reload`,
   `FollowTable`, `Credential`, their runs, the theorems above.
2. Proofs: the safety properties are done. Worth proving next: that the session meter and the credit
   bucket report what a definition without `Charge` says, as `WindowSpend` does for the windows.
3. Models next: the collector in front of the gate; the thread budget (`threads.rs`, `dekopon-process`); the
   authorization pipeline and the storage quota of the broker; `Jobs` notices composed with `SessionGate`.
