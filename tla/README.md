# openddil-projector in TLA+

The projector is the one path from OpenDDIL's Kafka topics to the Postgres
read model. It is called a dumb pipe, and most of its handlers are: a pure
function from a message to one write. What can go wrong is around them: a
drained batch and its offset commit, two handlers that do their own SQL, sweeps
and pruners that share rows with the handlers, a cache that must follow the
store, and monitors that turn arrivals and offsets into a verdict on a link.
The pure functions share one thing that is not simple, whose row a row is.
These modules model those parts, check them with TLC, and prove with TLAPS the
delivery guarantee of the consumer, that it and the effector tables implement an
abstract specification each, and what the other parts promise.

## Inventory

One process, one asyncio event loop (`src/src/main.py`, `main`): a consumer
worker per mapping of `projector_config.yaml`, and background tasks. They share
the Postgres pool and meet only in the tables; an interleaving point is every
`await`. Several processes may write one store (one per tier, all replaying the
same topics).

| Part | State | Operations | What is hard | What makes it correct |
|---|---|---|---|---|
| Consumer worker, `main.py:92-271`, `persistence/postgres.py:324-381` | position, batch, committed offset | drain, coalesce, persist with retry, commit, restart | the client commits what was *polled*; outages, lost answers, crashes between rows and commit; an exception nobody catches ends the worker | nothing is committed unsettled; rows do not go back; the topic goes on while the worker runs |
| Effector events, `handlers/effector_launch.py` | `effector_launch`, `effector_resupply` | Fire, Detonation, Resupply, admission by launcher | redelivery, detonation against timeout sweep | a result is final, `late_terminal` is truthful, a resupply is complete |
| Munition tracks, `handlers/munition_track.py` | `munition_track` | insert or advance, join, terminate, heal | Fire against first sample, several instances, sweeps | labels are right and final, tracks end and get their label |
| Effector and track sweeps | the same rows, the store's clock | time-out, silence, heal | act between any two statements | as above |
| Lifecycle, `handlers/telemetry_latest.py`, `lifecycle_status.py`, `reporting_sweep.py` | `operational_status`, `reporting_status` | claims, conditional revival, staleness flip | four record kinds that are not interchangeable, NULL times | a status moves only by a claim; silence shows |
| Pruner, `main.py:321-420`, `postgres.py:1021-1060` | its place in the target list | terminal + TTL deletes, append tables by age, owned rows, eviction | order of targets, one of several statements failing | only terminal rows go, dependents first |
| Configuration loading, `config.py`, and `build_prune_targets` | the mappings a process found at its start | TTL overrides, refusals, the target list | one environment variable overrides what files say of many tables | what is deleted is what the file and the override ask for |
| Provenance and releasability, `handlers/base.py`; edge assignment, `edge_assignment.py` | none; the strategies are built at a start | which origin, label and key columns a message names | absent columns keep their value; half an origin; redelivery in batches cut anew; another configuration after a restart | a row's edge and region are one place's, its two labels one message's |
| Element telemetry, `handlers/asset_element_telemetry.py` | `asset_element_state`, the `_assets` cache, labels | diff, one transaction, restamp, evict | cache against store over failures, lost answers, prunes in between | the store shows the last snapshot; the cache never claims more |
| Link monitor (HQ), `link_monitor.py` | tracker, bands, planner, `link_status` row | arrival, tick, plan, write | backlog of a healed relay, silences no tick saw, writes held up | restored only by real arrivals; the row follows |
| Edge-buffer monitor (tier), `edge_buffer_monitor.py` | `LinkReachability`, row | probe, judge, write | evidence of an exchange read from two calls to a broker | no false alarm, no verdict on old evidence |
| Link heartbeat (tier), `edge_buffer_monitor.py:393-491`, `link_heartbeat.py` | `TrafficMeter` | observe, send | unreadable topics, recreated topics | IDLE means quiet |
| Label backfill, `backfill_element_labels.py` | none | one transaction over the element tables | it runs beside the handler, whose cache does not hear of it | unlabelled rows get the record's labels |
| Field extraction, decoders, metrics, declared load | none shared | functions, one-shot loads | — | not modelled, see below |

Interactions: workers and sweeps share rows (EffectorTracks, Lifecycle,
ElementState model each shared table with *all* its writers); the pruner's
targets cross every table (Retention), and it calls back into the element
handler to evict (ElementState); the tier's heartbeat is
what the link monitor consumes (LinkHeartbeat produces the band that
LinkMonitor's `traffic` stands for); the consumer decides what any handler is
redelivered (Consumer; the crashes of EffectorTracks, Lifecycle and Attribution go
back to the committed offset, the contract that Consumer checks, and these modules
have the worker's losses too).

## Modules

| Module | Models | An action is |
|---|---|---|
| `Consumer` | one worker, one partition, one mapping of any mode | one poll, one message through `_persist`, one commit, a fault |
| `EffectorTracks` | the two I/O-owning handlers, three sweeps, any number of instances on one store | one statement or one transaction |
| `Lifecycle` | `telemetry_latest_state`'s two statuses and everything that writes or deletes the row | one row's statement, one sweep, the pruner's statement |
| `Retention` | a start with any file and environment, the target list it gives, and the pruner's passes over the tables of one asset | one write, one target's statement, a restart |
| `Attribution` | one worker whose handler names origin, label and key columns, for four handlers that stand for the others, under any chain of strategies | one batch, one message's upsert, a restart with another configuration |
| `AtLeastOnce` | what a worker promises: the committed prefix of the topic is closed, settled and shown | any progress ahead of the commit, a commit |
| `Outcomes` | what the effector tables promise: each row goes once from flight to a reported result, each track is labelled once | a row opened, ended, given up on, labelled |
| `ElementState` | one asset's element rows, cache, labels, its part of the pruner, and the backfill tool | what runs between two awaits, or one transaction |
| `LinkMonitor` | one expected link: relay, tracker, bands, planner, upsert loop | one arrival, a tick, a half of the upsert |
| `EdgeBuffer` | one tier's relay and probe loop | one broker call, one write, one commit of the relay |
| `LinkHeartbeat` | the meter and the heartbeat loop | one period's reading |
| `ConsumerProofs` | theorems about Consumer, and that it implements AtLeastOnce | |
| `EdgeProofs` | theorems about EdgeBuffer, and about LinkHeartbeat (as `Beat`) | |
| `EffectorProofs`, `LifecycleProofs`, `RetentionProofs`, `ElementProofs`, `LinkProofs`, `AttributionProofs` | theorems about the module of that name | |
| `MC…` | instances for TLC: constants, messages, histories (LinkHeartbeat needs none) | |

State names are those of the code where TLA+ allows (`pos` and `committed` for
the client's position and the group's offset, `mem` for `_assets`, `base`,
`count`, `severed` for `LinkReachability`'s fields). PROJECT.json's "map" names
the lines of every definition. Variables marked *history* in their declaration
exist for the properties only. Definitions called a *mutant* are faulty
versions of the definition after them; each is a bug the property listed with
it in PROJECT.json catches.

Abstractions, all modules: a payload is what the properties tell apart (key,
row, kind of outcome; status claim; value and health). Times are small
integers; in the monitors they are ages that stop at the first value that makes
no difference. In LinkMonitor a unit is the heartbeat period and the upsert
interval (2 s both), in EdgeBuffer the probe interval, in LinkHeartbeat the
heartbeat period. Statements of Postgres are atomic; `READ COMMITTED` shows as
separate actions where a transaction reads before it writes (`TrackReadLaunch`,
`TrackInsert`). In ElementState the last-write times are three ages: fresh, past
the heartbeat, past the TTL.

### Details worth knowing

* *Consumer.* The Kafka client stores a message's offset when it is polled, and
  `commit()` without arguments commits that. So `PollOver` (the poll that comes
  before the size test, `main.py:141`) moves `pos` although the message is in no
  batch. `fate` records what became of each offset, the losses by name:
  *discarded* (PollOver), *swallowed* (a custom handler's outage), *aborted* (a
  statement the shutting-down server ended).
* *Consumer, the ended worker.* The key is decoded outside any `try`
  (`main.py:163`), and of a decoder only `DecodeError` is caught (167). Anything
  else leaves `_persist` and `run()` (`Escape`). `main` holds the task for shutdown
  only (525-557): the process lives on without it (phase *ended*), and after a restart
  the same uncommitted message ends it again.
* *Consumer, modes.* `mapping` is chosen once: upsert coalesces and overwrites,
  append does nothing on conflict, custom does its own I/O and has no retry.
* *EffectorTracks.* `event` of a track is its label, because all label columns
  are copied from one launch row.
* *Lifecycle.* Assets do not interact, one is enough: every statement's WHERE is
  on one `asset_id`, and the batch keeps one record per asset. `PollOver` loses the
  record polled behind a full batch (which may be full of other assets' records), and
  `WriteOrSkip` also skips: an exception of the handler, a rejected or aborted
  statement. `coalesced` and `lost` say of each offset what became of it when it
  was last delivered. A worker whose task ended is a `Crash` that comes late.
* *ElementState.* `attached` says whether the entry a running handler holds is
  still the one in the cache, which is what eviction changes.
* *ElementState, backfill.* `Legacy` are rows written before labels were stamped
  (label `Null`). The tool stamps those the record can label, when the counts it
  was given agree; a halt changes nothing and is no step.
* *Retention.* One asset, one row to a table, because each statement judges an
  asset by itself. A target whose statement cannot run (a rollup that has no
  `asset_id`) fails in each pass and the loop goes on (`Fails`, `GoOn`). The
  list is a concatenation of blocks, of which each mapping, and then each target,
  gives one; an owned table's follows the first target of its owner, as `next` finds it.
* *Attribution, losses.* `Drain` may poll one message past a full batch, `Persist` may
  skip, as in Lifecycle; `passed` and `lost` are what last became of an offset that
  did not reach the table (`Missed`).
* *Attribution.* Positions lie on a line, where nearest and first-of-equals have
  all their cases. `Over` is the upsert: a column that was not named keeps its
  value. A record that carries only a status still names its origin
  (`**origin`), so in the code one without a position moves an asset to the last
  resort of its chain; `PinnedAtHome` says for which assets that cannot happen.
* *AtLeastOnce.* Ahead of the committed offset everything is allowed; behind it
  nothing is written or judged again. `Shown` promises order only where no two
  keys share a row (`Ordered`), which is what coalescing by key needs.
* *Outcomes.* A reader's view of EffectorTracks, through state functions
  (`ShownOutcomes`, `ShownOwners`, `Reported`, `Fired`): no instance, offset, clock
  or handler. It says nothing of the two tables together, as the code does not:
  each statement is its own transaction. `Label` is part of each step that
  writes one row, and a step of its own (`Heal`) for the heal sweep and a Fire's join.
* *EdgeBuffer.* The relay commits or not (`debt` makes it commit within two
  exchange periods, the documented assumption); `slips` counts what went wrong
  in one exchange, `moved` how old the evidence really is. A probe's two calls
  read the end of a topic and the group's offset at different times; a reset of
  the group between them makes what it answers lower than what it was (`stalled`).
* *LinkHeartbeat.* A reading sums whichever topics could be read (`Beat` of any
  subset), and the meter does not know which. So a topic that comes back looks like
  movement, and one that goes away hides what the others gained. `covered` is what
  the last reading covered, `unread` how old the newest record of a topic is that was
  in no reading, and `Shown` the records that a reading shows: its sum is higher
  because of them, as it covers all that the last one did. `quiet` is the time since
  a shown record was published.

## Runs

| Run | Bounds | Distinct states | Shows |
|---|---|---|---|
| ConsumerDelivery | 6 mappings of 3 modes, batch 2, 3 messages, 1 outage, 1 crash | 0.80 M | delivery, the refinement, append-only rows, progress while the worker runs |
| ConsumerOverpoll | the smallest that shows it | | a loss |
| EffectorRace | 2 instances, 2 events, 1 munition, 1 fault | 1.0 M | finality under any race, the refinement of Outcomes |
| EffectorRounds | 1 instance, 2 events, 2 munitions, resupplies, 1 fault | 0.28 M | ends, labels, completeness, progress |
| LifecycleHistories | 1 asset, all 343 histories of 3 records, batch 2, clock 0..2, 1 crash | 1.6 M | claims, what the pruner takes, silence |
| LifecycleCoalesced | the same batch, 1 history | | a claim coalesced away |
| RetentionPasses | 6 files and environments, clock 0..3, 2 failed statements or restarts | 0.48 M | target order, rollups, progress past failures |
| Attribution | 4 topics, 3 messages, batch 2, 3 configurations (one refused), 1 restart, 1 prune | 1.2 M | labels, origins, classes |
| ElementRows | 2 paths (one under the other), 4 envelopes, old rows, 1 each of failure, lost answer, restart, prune, relabel, backfill | 2.1 M | store and cache |
| LinkShown | 1 cut, 1 change of traffic, 1 fault | 0.35 M | latch, row, progress |
| EdgeVerdict | 1 topic, 2 records, 1 fault | 0.30 M | verdicts, progress |
| BeatBand | 2 topics, any of them readable, 3 records each, 1 fault | 0.22 M | IDLE means quiet, quiet is not ACTIVE for ever |

Why the bounds are enough to be interesting. *ConsumerDelivery*: with a batch of two
and three messages a full batch, the over-poll, a coalesced pair of one key, a
second batch after a failed commit, and a redelivery after a crash all occur; one
topic has messages that end the worker. Two of the six mappings let two keys write
one row, where the abstract specification promises no order. *EffectorRace*: two
instances meet in every pair of statements of Fire, Detonation and sample; the logs
hold a shared munition and a conflicting second detonation. *LifecycleHistories*:
three records are a claim, one before and one after it; with a batch of two each is
written, coalesced, skipped or polled past a batch, before and after a crash. A
record is handled at 0 or 1, and both its sample and its row are past a threshold of
0 before the clock stops at 2. *RetentionPasses*: a row written at 0 or 1 ages past
TTLs of 1 and 2 before the clock stops, the lifecycle mapping stands first, between
and last in its file, and the override is absent, 0 and set. *Attribution*: the
messages name both, one or neither of edge and region, a position nearer to each FOB
and none, labels and none, with an empty audience too; three of them and a crash
give every cut of the batches before and after it. *ElementRows*: each fault once is
each order of two of them; from one envelope to another the value, the band, both or
neither leave what was written, within and past deadband and hysteresis, and one
leaves an element out. *LinkShown, EdgeVerdict*: thresholds are 1 or 2 units, so
every comparison is met at, below and above its boundary; the two calls of a probe
may take one unit more (`SlowMax`, their timeouts), and `AgeMax` and `MovedMax` stop
the ages past every value that is compared. EdgeVerdict was explored with two faults
too. *BeatBand*: two topics are enough for a reading that misses one, and three
records for one that is published while the topic cannot be read, with one before
and after it.

`CHECK_DEADLOCK FALSE` is set where logs end and the clock stops at its bound
(Effector, Lifecycle and Attribution runs), in RetentionPasses, where the
clock stops and a configuration may prune nothing, and in ConsumerDelivery (and ConsumerUpsert), where a
worker's task may have ended for good. Every other model always has
a step. Every property of a passing run has a mutant that breaks it.

### Fairness

Only what the code's scheduling gives. *Consumer*: the worker loop, the client's
eventual delivery, the supervisor's restart and the end of an outage; nothing of
producers, of error frames, or of a commit succeeding, and not that a process whose
worker has ended is ever restarted (`EveryMessageSettled` says so).
*EffectorTracks*: the clock, and each sweep (the loops catch every exception and go
round on their interval); no handler has to progress. *Lifecycle*: the clock and the
staleness sweep. *Retention*: the clock, and the statements of the prune loop, which
goes on whether they succeed or fail. *Attribution* has no liveness. *ElementState*:
the pruner only. *LinkMonitor*: both loops, the relay's delivery while the link is
up, the end of an outage; no cut has to heal. *EdgeBuffer*: timers, the ends of the
loop's calls, a relay that commits when it can. *LinkHeartbeat*: the loop goes
round; which topics it can read is left open, and `QuietNotActive` asks in its
statement that in the end they are the same ones. All weak: each such step, once it
can be taken, stays possible until it is.

`HealShown` of LinkMonitor asks that the sender's clock agrees with HQ's or that
it sends no `emitted_at` (`FirstAges`): a heartbeat that looks older than
LINK_FRESH_MAX_AGE_S never counts toward a restore.

## Proofs

`ConsumerProofs` proves, for every set of keys, rows and mappings, every batch
limit and every bound:

* `TypeCorrect`: `Spec => []TypeOK`;
* `DeliveryInvariant`: the inductive invariant;
* `CommittedIsSettled`: `Spec => []CommittedSettled`, no offset is committed
  whose message was not written, skipped, superseded by a later committed message
  of its key that ended in one of those, or ended in a loss that has a name.
  *Settled* includes the named losses, so the theorem says that there are no
  others: none through crashes, redelivery, error frames, failed commits.

`CommittedSettled` is not inductive: a commit jumps to `pos`, and says nothing of
the offsets in between. The invariant adds `BatchInv` (the batch lies after the
committed offset, pending within it, a dead process or an ended worker holds nothing),
`PolledSettled` (what was polled since the commit and is in no batch is settled
by messages outside the batch) and `BatchSettled` (what left the work list is
settled, or waits for a later message of its key that is still in the batch).
The lemma `CoalesceKeepsLast` needs the greatest offset of a key in the batch and
takes it from the well-foundedness of `<`. The only assumption is
`ConsumerAssumption`, which TLC evaluates.

`Implementation` says `Spec => ImplementsAtLeastOnce`: every
behaviour of Consumer is one of AtLeastOnce, with mapping, log, committed offset,
table and fate as they are and the batch hidden. All actions but `Commit` map to
progress ahead of the committed offset or to a stutter. For `Commit` it must be
shown that what the commit covers is settled, which DeliveryInvariant gives, and
that what was written is still shown, which is not inductive either: a row may go
back after a crash, ahead of the commit. `RowInvariant` is the strengthening:
of what is done (committed, or polled since and out of the batch) and of what is
worked (in the batch and off its work list), everything written is shown
(`Shown`). `PolledInOrder` and `WorkedInOrder` say why it stays so: what left
the batch came before it or was thrown away, and the work list goes in the topic's
order or holds only the last message of each key. The modes differ only in
`RowAfterShows`. `AppendedStays` adds `Spec => AppendedRowsStay`.

The other proof modules start from `TypeCorrect` of their module, and assume that
module's named `ASSUME`, which its run evaluates; what a theorem assumes beyond
that stands in its statement and is named below.

`EffectorProofs`, for any number of instances, messages and faults. Lemmas say
first how a row can move in a step (`LaunchStep`, `TrackStepMoves`): it stands
still, is inserted, is detonated while it was no real outcome, is timed out while
in flight, or is labelled where it had no event. `ResultsAreFinal` and
`LabelsAreFinal` are action properties and follow from the moves (the second has no
run of its own: `ImplementsOutcomes` says it, and more).
`LateIsTruthful` is inductive once it speaks of all rows (`LateInv`): a row in
flight was never given up on, one that says *inferred* was.
`ResultIsItsOwn` needs that a detonation without a munition ends only the track
of the launch row's munition. `ResuppliesAreComplete` adds to the property what
is true of a worker among the lines of a resupply (`AmongLines`): the lines it
left behind are rows already, so that finishing the message completes it. That
events and munitions are disjoint is an assumption of the model, not of the
code: the history `inferred` holds ids of both.

`EffectorProofs!Implementation` says `Spec => ImplementsOutcomes`: every behaviour
of the instances and sweeps, seen through the two tables, is one of Outcomes. Each
statement is shown to be an `Open`, an `End`, a `GiveUp`, a `Heal` or a stutter;
reading, faults, replays and the clock are stutters. Two things are needed that the
tables alone do not say. A detonation that names no munition is reported of
the one its launch row names, so reports may grow when a launch is inserted
(`ReportsGrow`) and at no other step (`ReportsSame`). What a worker holds
between two statements must still be right when it writes: `FiredInv` says
that every launch row, and the event a sample handler read before its insert, is of
a Fire in the log, so that a label joined from it is one of `Fired`; `BlankInv` that
a row in flight or given up has no result and no late mark. From Outcomes alone, with nothing
of the handlers, follow `OutcomesAreOwn` (a result is one reported of that row, a
label is of a Fire that names the munition) and `OutcomesAreWrittenOnce` (a reader
who saw an end, a late mark or a label never sees another).

`LifecycleProofs`, for any fleet, topic and batch size. `GoneMovesByClaim` follows
from how a statement can change the status (`RowMove`); `GoesOnlyClaimed` needs
that a terminal status in a row was claimed by a written record
(`ClaimedTerminal`). `LastClaimStands` says of a last claim that was written when it
was last delivered, neither coalesced away nor lost (`Written`), that the row shows it
when the topic has been read: nothing that is written, skipped, redelivered or swept
around it takes it back. Its invariant is
indexed by the claim's offset: from there on the row has that status, also
while the worker is behind it after a restart (`Landed`), and a row that a record
created is there unless it was pruned (`RowThere`). `LastRecordLands` adds which claim
cannot be coalesced: that of the *last* record of a topic is shown unless it
was lost. Nothing is assumed of the batch size. What both leave out is real:
LifecycleCoalesced is the claim that is coalesced away, ConsumerOverpoll and
ConsumerUpsert are the losses.

`ElementProofs`, for any tree of elements, any deadband, band limits, hysteresis
and envelopes, and any number of relabels. `BandFits` says of the arithmetic
that the band a row is given holds its health, within the hysteresis when the
band was kept; it rests on `PrefixSize`, which counts the limits a health is
past. While the asset was not pruned its rows, cache and writes are those of a
known owner (`Owned`). `CacheInv` says that not only the cache but also the rows
loaded and the entry in a handler's hands are in the table; `ShownInv` says of
every row what the property says of the last envelope; `LabelInv` that the
cached signature is what labelled rows carry. `RowsCarryLabels` is proved under
`Followed`: no restart, eviction, lost answer or backfill since. The lost
answer matters from the second relabel on (`RelabelledAfterLostAnswer`).

`LinkProofs`, for any thresholds. `RestoresAreEarned` needs that the streak never
runs ahead of what came in and is empty while the link is up (`Behind`);
`RowsAreAsWritten` that a refresh the planner is due to write is of the state it
took to be written (`RefreshFits`).

`AttributionProofs`, for any configurations, topics, batch sizes and prunes. Of
the strategies it proves that there is a nearest FOB, that a chain answers with a
place of its configuration or the fallback (`ResolvedHome`), and that a pin that
stands first decides (`ResolvedPin`); of the upsert, what a row's columns are
after it (`UpsertedRow`, `UpsertedRollup`). `Keyed` says that what was written to a
row has its key, `OwnAudience` that a rollup's row has the audience of its key.
With them the origin properties are inductive. For the labels, `LabelInv`
generalises "committed" to "drained and no longer waiting", and `LastOfKey` says
that what waits in a batch is the last of its key, but for the message polled past
the batch, so that no later message of the row was overtaken. A message that did not
reach the table when it was last drained (`Missed`) is no bound: after a crash an
older one may be written again and the newer one coalesced, skipped or polled past
the batch.

`EdgeProofs`, for any number of topics, any thresholds and faults. The relay's lag
is a sum over the topics, which the community module computes by a recursion. The
prover is not told of it by induction on an operator; instead it is shown that the
set of the sizes for which such a function exists is all of Nat (the least number
outside it would have a predecessor inside), then that a sum is what one topic adds
to the others (`SumSplit`), grows with its terms (`SumMonotone`) and does so
strictly (`SumStrict`): the lag falls only if the relay committed. `VouchedIsRecent`
is not inductive. `VouchInv` says where the evidence of every verdict comes from: a
relay with nothing waiting has just done its part (`CaughtUp`); a commit is younger
than the last exchange or not yet seen, of the baseline (`Baseline`) and of the
offsets in hand (`InHand`); these show what waits, unless the relay moved since
(`Snapshot`); a link that is not called severed had an exchange within the threshold
(`Answered`); and one called up had it soon after the commit it saw (`Vouched`). It
and `RestoreIsNotLone` assume `RestoreExchanges > 1`, as the code's default is 2
(LINK_RESTORE_EXCHANGES, `edge_buffer_monitor.py:104`). `VouchedRecently` fails at
1: with one topic, three records and one fault TLC finds a commit that came between
the two calls of a probe and is seen, after a spell of failed probes, as an exchange
of its own, which alone restores the link. `AlarmIsNotFalse` needs no such
assumption: its invariant says what the slips count (`Sound`), and how old an
exchange can be, and what of it is under way, while there was no slip (`Smooth`) and
after one (`Slipped`). `IdleWasQuiet` proves LinkHeartbeat's `IdleIsQuiet` for
readings of any topics. Its invariant (`Metered`) says that the last sum was read of
the topics that were covered, at ends no higher than theirs now, and lower if one
has a record since, unless one was recreated, and that the time of the last movement
is no older than any record that was shown. So a reading that shows a record has a
higher sum (`ShownRises`), by the lemmas on sums above. The inductive invariants
were checked by TLC first, with up to 27 M states.

`RetentionProofs`, for any tables, files and environments. A flattened sequence is
laid out by blocks (`FlattenLaid`): each element is one of a block, in the order of the
blocks. It says of each target which mapping it comes from (`TargetsAre`) and of
the list that a table has one target, the lifecycle table the last one, and an owned
table one behind its owner's (`TargetsInOrder`), through both filters, the stable
sort and the insertion. `RollupsAreKept` needs the first: a target judged by
`asset_id` of a table that has none is refused. It assumes that no file
maps a rollup as an append table, whose rows go by age.
`EvidenceIsLast` needs the second. Its invariant (`PassInv`) says that in a pass that
has taken no time, of an asset that is gone, every target behind the place is
*done*: its statement failed, its row is deleted, or new, or not due. A later
target of the pass could undo an owned table's by deleting the owner, so the
order of the two is part of the proof. It assumes `WellMapped`: a file maps a table
once and an owned table not at all, and assets are no events. `load_config` does
not check that; `config/projector_config.yaml` is such a file, and so are
all of the run's. With two mappings of one table the list has two targets with hours
of their own.

Model-checked only: everything under fairness (`~>`, `<>[]`), as liveness and
ENABLED are out of the prover's reach. Every safety and action property of a
passing run has a theorem; the theorem of `IdleIsQuiet` is about an instance of
LinkHeartbeat (`Beat!IdleIsQuiet`). Every module has a `TypeOK`; the run checks
Consumer's, those of all modules with theorems are proved.

## Where the code and what is said of it part

Found while modelling. Two have a run of the list, the others a `.cfg` for a run by
hand (`tlc -continue -config X.cfg` on the MC module, or on LinkHeartbeat), which
finds the named properties violated.

| cfg | Property | What happens | What is said |
|---|---|---|---|
| ConsumerOverpoll | NothingDiscarded | message BATCH_MAX+1 is polled, thrown away, committed | README:36-37 |
| ConsumerSwallow | OutageSwallowsNothing | a custom handler's connection error is skipped like bad data | docs/topology.md:52-53 |
| ConsumerUpsert | ShutdownAbortsNothing | `admin_shutdown` is no PostgresConnectionError, so it counts as bad data | docs/topology.md:52-53 |
| ConsumerUpsert | NoMessageEndsTheWorker | a key that is not UTF-8, or a decoder that raises anything but DecodeError, ends the worker's task; after a restart the same message ends it again | main.py:193, decoders/proto.py:8-12 |
| ConsumerUpsert | KeyGetsItsUpsert | an unmappable latest message hides the good one it superseded | main.py:8-12 |
| ConsumerMiskeyed | RowHoldsLastWritten | two keys, one row: coalescing reorders them | main.py:153-154 |
| LifecycleCoalesced | LastValueSuffices | a claim followed by a sample in one batch is lost | main.py:153-154 |
| LifecyclePut | GoneStaysPut | a later claim moves a destroyed asset | telemetry_latest.py:228-231 |
| LifecycleUnsampled | NeverSampledNotReporting | NULL sample time never goes stale | lifecycle_status.py:130-131 |
| RetentionUneven | EveryRetiredRowGoes | a dependent with a longer TTL than the asset's row outlives it, and what it is judged by | main.py:365-368 |
| RetentionOverridden | LoadedMeansPruned | TTL override 0: element rows load and are never pruned | config.py:100-103 |
| RetentionOverridden | NoTtlNoTarget | TTL override above 0: a rollup that sets no TTL becomes a target, and its statement fails in each pass | config.py:42-46, main.py:381-383 |
| AttributionTelemetry | AbsentStaysAbsent | an unlabelled message leaves the labels of an earlier one on the row | handlers/base.py:265-267 |
| AttributionRebatched | LabelsNeverGoBack | after a crash the batches are cut anew, and a row goes back behind labels it had shown | main.py:153-154 |
| AttributionTelemetry | GivenEdgeKept | a message with an edge and no region is given another edge | handlers/base.py:396 |
| AttributionClasses | EveryClassUpserted | two classes of a region in one batch: one is coalesced away | region_fleet_summary.py:46-48 |
| EffectorZombie | DetonationReachesTrack | a detonation before the first sample does not end the track | effector_launch.py:186-187 |
| ElementRestart | EvictedStartsOver | rows fetched before a delete are cached after the eviction | asset_element_telemetry.py:333-337 |
| ElementUnanswered | ShownDespiteLostAnswer | a lost answer leaves the cache behind the store | asset_element_telemetry.py:27-30 |
| ElementBackfill | RelabelledAfterBackfill | rows the tool labelled from a record that changed meanwhile are not restamped | asset_element_telemetry.py:38-43 |
| ElementUnanswered | RelabelledAfterLostAnswer | labels that changed and changed back around a lost answer are not restamped | asset_element_telemetry.py:38-43 |
| ElementRestart | RelabelledAfterRestart | labels changed while down are not restamped | asset_element_telemetry.py:38-43 |
| LinkHold | BandReportedOn | a band reported once is promoted by the clock | link_monitor.py:58-59 |
| EdgeIdle | EveryCutShown | with nothing to forward a cut never shows | edge_buffer_monitor.py:15-16 |
| EdgeUnlisted | LagIsDepth | topics without a committed offset are not in the lag | edge_buffer_monitor.py:13 |
| EdgeStalled | AgeSevers | an exchange after a long gap restores nothing because nothing was severed | edge_buffer_monitor.py:218-219 |
| BeatPartial | NoRecordPassedOver | what a topic gained is hidden by one that could not be read: IDLE is sent over it | edge_buffer_monitor.py:401-402 |
| BeatPartial | QuietEndsActive | a quiet topic that is readable now and then raises the sum each time it comes back: ACTIVE for ever | edge_buffer_monitor.py:396 |

Without a model: README and topology.md call the mapping hot-reloadable via
SIGHUP; the handler (`main.py:499-511`) logs the difference and changes nothing.

## Not modelled

* Field extraction of the pure handlers and the formats of the decoders: to
  the worker a write, nothing or an exception, which is what Consumer takes.
  Attribution models their origin, label and key columns, by four handlers: the
  others use the same helpers in the same way.
* The trail of positions of a track, kinematic columns, the carried bridge lag
  of a heartbeat: no property depends on them.
* Lag reporting, metrics, the contract manifest: no state that others read.
* Settings other than TTLs and the edge assignment block, and the formats of the
  files: read once, into constants of these modules.
* The declared load: one transaction at start-up, before
  any handler runs; sequential.
* Several partitions or rebalances: group ownership is the client library's.
* When a commit reaches the broker. `commit()` without arguments returns before
  that by the client's default, although `main.py:266` calls it synchronous. `Commit` and
  `CommitFails` stand for what the broker has; a commit under way is a
  `CommitFails` whose offset a later `Commit` covers.
* A batch of error frames alone with a message polled behind it, in Lifecycle and
  Attribution: the message is lost there as by a skip. Consumer has the case.

## Plan

1. *Done*: Consumer; EffectorTracks, Lifecycle, Retention, Attribution,
   ElementState, LinkMonitor, EdgeBuffer, LinkHeartbeat; the abstract AtLeastOnce
   and Outcomes; proofs of all of them and of the two refinements.
2. *Left, composition*: LinkHeartbeat with LinkMonitor on the band.
3. *Left, proofs*: abstract specifications of the link verdicts.
