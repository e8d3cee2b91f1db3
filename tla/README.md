# A TLA+ model of gamealerts-collector

The collector polls a sports provider, diffs what it says against what it last
stored, and writes matches and events into a SQLite file that other programs
read. The modules here model its write path and its poll loop, TLC checks them
on small instances, and TLAPS proves the main theorems for every instance.

Paths below are relative to the repository.

## 1. The system

| Component | Keeps | Operations | Modelled by |
|---|---|---|---|
| Partition writer, `src/gamecollect/db/writer.py` over `schema.sql` | `matches`, `events`, `provider_match_map` | `upsert_match`, `map_provider_match`, `append_events`; each a few SELECTs and one transaction | `PartitionWriter` (standings and entity upserts are left out) |
| Readers, `db/reader.py`, `client.py`, read ports | a consumer's cursor | `get_events_since`, `open_reader`, projections | `LogFollower`, `EventLog`; the version check in `Schema` |
| Snapshot merge and diff, `fallback_merge.py`, `diffing.py`, `provider.py`, the merge helpers of `engine.py` | nothing | `accrue_fallback`, `paired_clock`, `_merge_detail`, `_merge_over_base`, `_nonregress_over_stored`, `diff_match` | `Snapshots`, `Fallback` |
| Poll engine, `engine.py` | `_last`, `_transitions`, `_backfill`, `_cooldowns`, `_backfill_apply_pending`, `_restart_scan_done`, `_logged_drift`, `_backoff_multiplier`, the stop event | `poll_once`, `apply_one_off_match`, `run`, `stop`, `close` | `Engine`, `EngineLive` (`poll_once`), `Feed` (drift reports), `Collector` (`run`, `stop`, `close`), `BackfillRun` (one-off applies) |
| Sport pack protocol, `packs/spec.py` | nothing | `seed_match`, `persist_side_tables` | inside `Engine`, by outcome |
| Backfill command, `backfill.py` | ids applied in this run, the report | enumerate, skip, fetch, apply | `BackfillRun` |
| Football reconciliation, `reconcile.py` | canonical rows, stubs, the provider map | resolve, register, adopt a stub | `Reconcile`, `ReconcileLive`; its orientation also in `Engine` |
| Football side tables, `pack.py` | lineups, stats, roster | replace if changed | a step of `Reconcile` |
| ESPN adapter, `espn.py` | nothing | requests, statuses, key events to numbered events | `Espn`, `Feed` |
| Schema and migrations, `db/migrations.py`, `db/connection.py` | tables, columns, version stamp | apply, migrate, stamp, refuse | `Schema` |
| Admission lock, `db/locking.py` | one lock file | shared, exclusive | `Collector` |
| Recording and replay, `record.py`, `replay.py` | recorded session, fixtures, reveal cursor | accumulate, flush; step, pace | `Collector` |
| Rest of the CLI, registry, read ports, scripts | nothing that evolves | parsing, start-up, projections | not modelled |

### How they interact

A daemon is one process with one `CollectorEngine`, one SQLite connection and
one `PartitionWriter` scoped to one source. It opens (and perhaps migrates) the
file, then polls: fetches the scoreboard (the *slate*), replaces live, closing and
first-seen-finished matches by their detail, takes the matches the engine still
tracks but the slate no longer shows, records what it saw, takes the admission lock
SHARED, diffs every snapshot against `_last` and applies the differences: the pack
seeds the row, the writer appends the events, the pack persists its side tables. Each
of those is a transaction of its own. Then it releases the lock and sleeps. Several
daemons (one per source) and the backfill command share one file; SQLite serialises
their transactions, nothing serialises the SELECTs before them. A maintainer who
resets the file takes the admission lock EXCLUSIVE. Readers follow the event log by
`seq`.

### What is hard

* The writer's checks read before its transaction opens; another process can
  commit in between. So do the backfill command's skip check and the schema's
  version check.
* The pack and the writer may refuse a match half-way. The row is then ahead of
  the diff baseline, and the next poll has to notice.
* A match can leave the slate, flap between statuses, be reset, or be shown with
  a lower score. The engine keeps a *tracker* (retry budget and captured
  fallback), gives up with the best state known, and puts a match it cannot
  close into an exponential *cooldown*.
* Matches first seen finished are backfilled with a few fetches per poll; those
  put off can vanish before their turn.
* ESPN numbers nothing: a seq is a position in its list, and the list is amended,
  inserted into and shortened while the match runs.
* A match polled before its schedule row exists is collected on a stub and must
  move to the canonical row later, once, with everything that hangs on it, and
  with home and away exchanged where the provider has the teams the other way
  round.
* The scoreboard lists a match by slate, not by kickoff day, so the backfill's
  chunks overlap and a match is met more than once.
* A crash loses everything but the file. The next process scans the stored rows
  once. A failed fixture write must not lose the recording, nor be repeated.

`PROJECT.json` lists each of these hazards at its line, with the properties that
would catch it going wrong.

### What makes each component correct

* Writer and readers: a partition's rows belong to its source, an acknowledged batch
  is stored, and a reader that follows the log by cursor misses nothing.
* Merge: whatever the order of observations, no goal, final status or final
  event list is lost, and none is invented.
* Engine: nothing is baked into the baseline unwritten; no give-up lowers a score
  or reopens a match; no tracker is dropped without cause; a status reset never
  replaces a live row; live rows are eventually closed; every contradiction to the
  log is reported at each poll, and as an error once.
* Backfill: the report adds up, what is skipped is stored, a run without failures
  brought in its whole window.
* Reconciliation: a match has one timeline under one id; what is acknowledged is in
  it; no child row is left on a deleted stub; home is home; a refused adoption is
  made good.
* Daemon: an opened file is complete, a stop ends, a maintainer gets the lock, a
  recorded session is kept, a replay is played to its end.

## 2. The modules

`PartitionWriter`. A writer's call is a chain of actions, one per autocommit
SELECT (`ReadHead`, `ReadStored`, the ownership check) and one per transaction
(`CommitUpsert`, `CommitMap`, `CommitAppend`), so that other writers' commits
come between. `call[w]` holds the locals of the call, `outcome[w]` how it ended.
A crash forgets the call. An event row is its seq and its content; a column of a
`matches` row is the source that last wrote it.

`EventLog`. The abstract specification of what the file promises its readers: per
match an append-only log, and a reader who after each call has all of it.

`LogFollower`. `PartitionWriter` with a consumer that calls `get_events_since` with
the seq of its last event. It implements `EventLog` (`ImplementsEventLog`), with the
rows of a match as the log: the writers' statements and the cursor disappear.

`Snapshots`. A snapshot and the pure functions on snapshots, as operators. The
two scores are one function on `Sides`; `info` stands for the identity fields and
the payload, which all follow one rule (a known value never gives way to an
unknown one); an event list is the function from its seqs to their contents.

`Fallback`. The life of one match's captured fallback under any sequence of
observations: tracked, abandoned to the cooldown, tracked again. `best` and
`sawFinal` are history variables.

`Engine`. `poll_once`, with the rows it stores. A poll runs through the phases
slate, vanished, vanishedBackfill and apply; each match handled in a phase is one
action, with the whole of what the code does for it (the fetch and its outcome,
the tracker, the give-up or abandonment, the cooldown). The engine is single
threaded, so only a crash comes between two steps. `queue` is the list of
hydrated snapshots; when the apply phase begins, every entry is diffed against
the baselines, as `diff_matches` does, before any of them is applied. How an apply
ends is one of `PackOutcomes`:

| outcome | in the code |
|---|---|
| `ok` | everything is written; the baseline advances |
| `notSeeded` | `seed_match` returned `None` or was refused; nothing is written |
| `rejected` | the row is seeded, the writer refuses the events (`TaxonomyError`) |
| `sideFailed` | row and events are written, `persist_side_tables` raised |

A refused batch (`SequenceError`) is not an outcome but a consequence of the data:
`SequenceConflict` decides it, and `Extended` is what the row-by-row replay of
`_reconcile_sequence_conflict` leaves in the log. The writer underneath is
`PartitionWriter` with one process per source; `Engine` uses its result, not its
steps. `giveUp` in a queue entry and nothing else is there for the properties.

`Engine` composes with the football pack in one respect, the one in which the two
depend on each other: `Schedule[m]` is what the schedule's row calls the match,
`Reversed[m]` the provider's names that list its sides the other way round, and
`AsStored` the exchange the seed hook makes. With `NoSchedule` the pack is
`default_seed_match`. The rest of the reconciliation is `Reconcile`.

Left out of `Engine`: state that only decides log lines (`_logged_drift`,
`_drifted_this_poll`, which `Feed` has; `drift_logged`, `last_reported_status`).
`todo` is handled in any order, the code's order being the provider's or the ids'.
The restart scan resolves stored ids to provider ids through the map; here every
match has its mapping.

`EngineLive`. `Engine` with a moment, `settled`, from which no board is live and
nothing crashes or fails to apply, for the liveness properties. Without `MayStrand`, no
apply is refused, before that moment, for a live row of which the process has no
baseline: the case that the code does not recover from.

`Reconcile`. The football pack's seed hook and the writes that follow it. A call
goes `Lookup`, `Purge`, `Search`, `Inspect`, `Adopt` or `Unmap`, `MapTarget`,
`ReadPayload`, `UpsertRow`, `AppendEvents`, `PersistSideTables`, skipping what the
code skips; each is one group of SELECTs or one transaction, and `call[w]` holds
what the code keeps in locals between them (the bound id, whether the mapping is
pending, the names and the payload read). The schedule loader may commit between
any two, the call may fail or crash after each. The properties tell apart which
side of a row is home, so names, score and payload section are represented by
their orientation relative to the schedule; an event is who it is of and its seq.
`Fits[p]` stands for the kick-off window, the team-name folding and the nearest-first
order. Rows of other sources are left to `PartitionWriter`; stats, venue and roster
behave like the one section that is there. Three actions are not in the repository:
`LoadSchedule`, `ImportEvents` and `ClearImported` are the schedule loader, an import
under the canonical row, and the operator whom the log message asks for. The last
two come between calls only, and the schedule lists a match under one id.

`ReconcileLive`. Which matches the engine passes to that hook. `Reconcile` allows a call
for any match at any time; `poll_once` calls only for a match whose snapshot differs from
its baseline (`engine.py:871-887`). `changed[w][p]` is that difference: it goes when a
call takes the match up, comes back when the call fails, or ends with a baseline that
lacks something of the snapshot, or when the process restarts and knows no baseline, and
comes when the provider shows something new, which it need never do.

`BackfillRun`. The backfill command with its local variables in `run`: chunks in
order, each enumerated match checked (two reads), fetched and applied, part by part
(row, side tables, events); runs follow runs. The daemon is reduced to what it does
to the file: it writes snapshots it took earlier, row first, then events, then side
tables. `over` and `Slate` are the provider's, `foreign` the matches of another source,
`touched` a history variable.

`Espn`. The pure functions of the adapter: status and event vocabulary, the split of
a second booking into two cards, the numbering by position, the class of each failed
request. Slugs and descriptions that the code treats alike have one or two
representatives.

`Feed`. One match end to end: ESPN's list of key events, edited while the match is
polled, through `Espn`, the diff, `append_events` and
`_reconcile_sequence_conflict` with its memory of what was reported. A poll is one
action. The trackers that decide when a failed final detail is fetched again are
`Engine`'s, and so are the two places besides `_evict_match_tracking` that forget a
match.

`Schema`. Opening the file: `get_schema_version`, the script or the migrations,
statement by statement, the stamp, the pack's DDL. The parts of the file are tables,
indexes and columns; `Since[p]` is the minor version that brought one. A column is made
with its table; to a table that is there, only a migration adds one
(`add_column_if_missing`), as `CREATE TABLE IF NOT EXISTS` does nothing then.

`Collector`. The daemon's life around its polls, composed with `Schema` (its own
opening is one of the `Openers`) and with the error classes of `Espn`: the loop with
back-off and stop, live and replayed providers, the admission lock and the maintainer,
the recorder, `close()` in `run`'s `finally` and again in the command's. What a poll
does with a match is in `Engine` and `Feed`; here a match is stored whole or rejected.

`PartitionWriterProofs` (with those of `LogFollower`), `SnapshotProofs`, `FallbackProofs`,
`EngineProofs` (with those of `EngineLive`), `ReconcileProofs`, `BackfillProofs`,
`FeedProofs`, `CollectorProofs`. The theorems.

`Scenes`, `MCEngine`, `MCEngineLive`, `MCEngineTurned`, `MCFallback`, `MCReconcile`,
`MCWriter`, `MCBackfill`, `MCFeed`, `MCCollector`. Model values and small sets for TLC.

Operators introduced by a comment `Mutant:` are never part of a specification. Each is
the definition after it with a plausible bug, and is there to show that a property
would notice it.

## 3. What the runs check

| Run | Instance | Shows |
|---|---|---|
| `writer_partitions` | two daemons of two sources, one match id, 3 seqs, batches of up to 2, a consumer | no shadow partition (`ChildRowsOwned`), no mixed row (`ColumnsOwned`), an acknowledged batch is stored (`AckedMeansStored`), a refinement of the append-only log (`ImplementsEventLog`) |
| `fallback` | ten observations in any order | `BestScoreKept`, `FinalKept`, `ClockWitnessed`, `FinalListKept` |
| `engine_backfill` | one match, every board and outcome, crashes | `BaselineEventsStored`, `BackfillNotForeclosed`, `TrackerDropJustified` |
| `engine_pair` | two matches, one fetch per poll, applies succeed or write nothing | `PathsExclusive`, `NoTrackerWhileCooling`, `UnchangedMeansStored`, `FinishedNotOverlooked` |
| `engine_live` | one match, with backfill, applies that succeed or write nothing, fairness | `LiveRowsClose`, `TrackingDrains`, and on the way `GiveUpMonotonic`, `ResetNeverClobbers` |
| `reconcile` | one match in either orientation, listed under a slug or under its own id, one collector, two events, two failures or crashes | `OneTimeline`, `AckedKept`, `ChildrenSeeded`, `OrientationKept`, `RicherKept`, `AdoptionHeals` |
| `backfill` | one requested day, three chunks, two matches, one daemon snapshot, two failures or crashes | `AppliedMeansStored`, `ReportConsistent`, `CleanRunComplete`, `SkipReliable`, `Backfilled` |
| `feed` | up to three key events, four edits, a second booking, a slug nobody knows | `LogMirrorsFeed`, `NoWedge`, `DriftStaysLoud`, `ErrorOnce` |
| `collector` | two openers with libraries of minor 1 and 2, two matches, a fixture of two events out of order, three providers | `OpenedComplete`, `SessionKept`, `ReplayComplete`, `MaintainerAdmitted`, `StopsEventually`, `FlushNotRetried` |

The type invariants are proved (section 4) and not repeated in the runs. `Feed` and the loop of `Collector` state what their proofs need of
types inside their inductive invariants.

### Disagreements with the documentation

Three runs end in a violation of what a comment or docstring says; `PROJECT.json`
quotes the lines.

* `engine_reopen`: a match with both trackers whose caps are reached in the same
  poll is closed by one give-up and reopened by the other.
* `engine_stranded`: a match whose first apply failed after the row was written,
  and which leaves the slate before one succeeds, keeps its live row until the
  daemon restarts. The common cause is a live row without a baseline, and an apply
  that stops half-way is not the only way there. After a restart the row of a live match
  has no baseline either; if the applies of its give-ups are refused outright, the match
  is abandoned to a cooldown with its final state captured; when it then leaves the slate,
  nothing asks for it again, and the cooldown is purged. TLC finds this with
  `MayStrand = TRUE` and applies that write all or nothing.
* `engine_turned`: a match whose schedule row lists its teams the other way round
  than the provider. A give-up reads the row back as it is stored, takes the higher
  score side by side with the provider's snapshot, and the seed hook then exchanges
  the sides: shown 1-0, the match is closed 1-1. Every apply may succeed.

`engine_reopen` needs an apply that fails after its row was written: where applies
succeed or write nothing, `GiveUpMonotonic` is a theorem (section 4). In `engine_live`
they do, none is refused for a live row without a baseline (`MayStrand = FALSE`), and
`LiveRowsClose` holds, whatever crashes. With
every outcome of an apply, as in `engine_backfill`, four more properties of those two runs
fail: a snapshot equal to the old baseline is taken for "already durably" stored
(`engine.py:874`) while the row keeps the state of the failed apply
(`UnchangedMeansStored`); a transition and a backfill tracker coexist (`PathsExclusive`),
and with them a backfill tracker and the cooldown of an abandoned transition, "mutually
exclusive by construction" in `engine.py:2901-2903`; a tracker lives beside a running cooldown (`NoTrackerWhileCooling`); and a reset of a match whose live row was
never applied in full replaces that row (`ResetNeverClobbers`). `FinishedNotOverlooked` holds
there too.

### What else the models showed

These are not runs, because no line of the repository promises the contrary, or because
the code says itself that it accepts them.

* Two writers of one source. `AckedMeansStored` and `ImplementsEventLog` assume one writer
  per source: with `SourceOf` the same for both, `append_events` may return normally
  although `INSERT OR IGNORE` dropped its row. Stored events never change all the same
  (`EventsImmutableAlways`).
* Two processes of one source in `Reconcile`. With `Writers = {w1, w2}` and the schedule
  row arriving between their reads, one collects on the canonical row and the other on a
  stub: `OneTimeline` fails, and so do `AckedKept`, `ChildrenSeeded`, `OrientationKept`
  and `RicherKept`. `docs/integration/gameworker-contract.md:259-266` calls the backfill
  command safe beside the daemon; that is so unless the schedule row of a match they share
  arrives between the two's reads.
* An adoption that is refused, or a schedule row that comes too late, for a match that does
  not change any more. `reconcile.py:943-946` says that "the next poll re-resolves" and that
  "adoption succeeds automatically once it is safe", and the docstring at `:775-778` that it
  "heals automatically once the operator clears" the conflict. The next poll does not call
  the hook: an unchanged match is passed by (`engine.py:872`). A match still in play soon
  changes. A finished one stays on its stub until the daemon restarts while the scoreboard
  shows it, and for ever otherwise. `AdoptionHeals` therefore speaks of a match of which a
  change, or a restart, is still to come (`changed`); without that condition TLC finds it
  violated, by a schedule row that arrives in the middle of the stub's last call.
* `_is_reverse_oriented` takes a snapshot without team names for one in the schedule's
  orientation. With `Anonymous = {p1}` the run `reconcile` violates `OrientationKept`: a
  turned match that is found through the map is written the wrong way round.
* The skip check of the backfill command looks at the events only. A match whose side
  tables the daemon never wrote is skipped for ever: the exception in `SkipReliable`. The
  same order argument (`backfill.py:140-144`) holds for the command's own crashes, which
  is what `SkipReliable` shows.
* A provider that takes a wrong value back and shows it again: after a drift the baseline
  is rebuilt from what is stored, so the reverted value is no difference, the signature
  (`engine.py:1256`) is not forgotten, and the recurrence is logged as a repeat. The test
  at `tests/test_engine.py:1087-1098` knows that the poll loop does not get there.
* After an insertion at the front of ESPN's list every later incident is at a new
  position, and the last one lands in the log a second time, under a seq of its own; a
  removal of the last event is silent. `LogMirrorsFeed` is therefore about lists that only
  grow, and `NoWedge` and `DriftStaysLoud` about all others. ESPN's positions have no gaps,
  so the "retroactive" branch of the reconciliation is never taken through it.
* `engine.py:23` announces a "loud ERROR on every poll"; `_log_drift_once` reports a repeat
  as a warning, which is what `ErrorOnce` states.
* A library that read the version before a newer one stamped it stamps its own, lower,
  minor. The migrations are idempotent, so nothing is lost (`OpenedComplete`,
  `StampHonest`). The one migration there is makes an index. For a later version that adds a
  column to a table this would not hold: an older library makes the table and dies before
  its stamp, the newer one finds the file unstamped, runs `schema.sql`, which leaves the
  existing table alone, runs no migration (`migrations.py:87-92`), and stamps the version
  that promises the column. With `column` brought by minor 2 in `MCCollector`, TLC finds
  `OpenedComplete` and `StampHonest` violated so. Both theorems therefore assume
  `NoColumnAdded`.
* `connect()` runs its DDL outside the admission lock. An exclusive reset between two polls
  of a running daemon leaves `_last` ahead of the file.
* `_default_http_get` does not map a `UnicodeDecodeError`: the daemon ends (`"fatal"`).
* A recording keeps the last content of a seq, the database the first.

### Bounds

`MaxBatch` bounds a batch (two rows tell apart first and last, re-sent and new).
`MaxEpoch` stops the cooldown's epoch where its length has reached `CooldownMax`,
so nothing is cut off: `EngineAssumption` requires it. The engine's caps
(`MaxDetailFailures`, `MaxTotalAttempts`, `MaxGiveUpEmissions`,
`BackfillMaxAttempts`, `BackfillMaxFetches`, `CooldownBase`, `CooldownMax`) are the
code's constants, made small: with 1 or 2 every cap is reached and passed, retried
and reset within a few polls, and nothing in the code depends on a cap but the
comparison with it. One match is enough wherever the code treats matches
separately; the one thing they share is the fetch budget, which `engine_pair` is about.
One event and scores 0 and 1 are enough to tell lost from kept and drifted from equal.
The purge of an expired cooldown (`unseen`) happens within the bounds.

In `reconcile` matches do not meet (the code keys everything by the provider id or
the row), so one is enough. Two events tell apart the first of a timeline and one
beyond its head, `MaxFails` allows a second failure while the first is being made
good. Schedules, imports and clearances are not bounded.

In `backfill` `m1` is on the slate of the eve of its kickoff only, so it is found by the
padding or not at all, and `m2`, without events, is listed twice. `MaxFaults` lets a crash follow a
failure, or both occurrences of `m2` fail. `MaxDaemonPolls` bounds the snapshots the daemon applies: one is
enough to come before, between or after each of the command's reads and writes.

In `feed` three key events with a second booking are up to six events; `MaxEdits` allows
to build a list and to amend, insert or remove twice. Polls and restarts are not bounded.

In `collector` the file has a table with its column, an index, a table of a later minor and
a side table; one more opener makes every race of two. `MaxBackoff` is reached in two
failures. `Minute` puts the later event earlier, the case in which "all due" and "all
revealed" differ.

### Fairness

`EngineLive` assumes weak fairness of starting a poll once settled, and that each poll
then comes to its end: `run` polls until it is stopped, a poll handles finitely many
matches, requests time out, SQLite's lock has a `busy_timeout`. (`[]<>(settled => phase =
"idle")` says the latter; every step of a settled poll is smooth and a poll is finite, so
weak fairness of `SettledStep` is the same, and TLC would have to evaluate its ENABLED.)
Nothing is assumed of what the provider answers: a detail fetch may fail for ever, or
return a reset for ever. That applies succeed once settled is an assumption of the
specification (`SmoothStep`); that none was refused before for a live row without a
baseline is `MayStrand = FALSE`, and `engine_stranded` shows why it is needed.
`TrackingDrains` is about everything the engine keeps of a match but its baseline: the
transition tracker, the backfill tracker and the cooldown, from either path.

`ReconcileLive` assumes weak fairness of a call's steps, and strong fairness of taking a
match up *that has changed*: a poll handles every changed match of its list in turn, so
none is put off for ever by another, and a match that leaves the slate and comes back is
taken up then. It is assumed that a changed match stays on the scoreboard, or comes back
to it, until a call has taken it up; the stub of a match that left for good is not
adopted, in the code either. No change, restart or failure is assumed to happen. A match
that does not change again is not called for, and nothing is claimed of it.

`BackfillRun` assumes that matches end, that an apply in progress goes on, and that the
operator runs the command again and again (`WF_vars(RunStep)`, which includes
`StartRun`). Failures are bounded by `MaxFaults`: without a bound every run could fail.

`Collector` assumes weak fairness of the daemon's own steps, for the same reasons as
`EngineLive`, and that a maintainer who has the lock releases it. Strong fairness of
`Admit` and `Grant` says that the kernel's lock serves a waiter that could be served again
and again: the daemon releases it before each sleep. This is about one daemon; holders of
SHARED that overlap for ever could starve the maintainer, and the code has no remedy. No
fairness is assumed of opening the file, of the clock, of the operator or of failures.

## 4. What is proved

`PartitionWriterProofs`, for any number of writers, sources, matches and seqs:

* `TypeCorrect`, the type invariant.
* `ChildRowsOwnedAlways`, `ColumnsOwnedAlways`. Neither is inductive: a call
  between its ownership check and its transaction must already imply ownership.
  `OwnershipInv` adds that (`InFlightOwned`).
* `OwnerStableAlways`, `EventsImmutableAlways`, from the effect of each transaction: the
  owner of a match and a stored event never change.
* `SeqMonotoneAlways`, `AckedMeansStoredAlways`, under `OneWriterPerSource`, the
  deployment the code is written for: then no other process changes the partition
  between a call's reads and its transaction (`ReadsCurrent`).

  The same module proves, under the same assumption, that `LogFollower` implements
  `EventLog`: every step of the writers' statements and of the consumer is an `Append`, a
  `Follow` or a stutter (`LogImplemented`). The invariant behind it says that all rows of
  a match are of one source, that a seq is used once, and that the consumer has exactly
  the rows up to its cursor (`SeenUpToCursorAlways`), which the growth at the head
  preserves.

`FallbackProofs`, for any sets of scores, clocks, event contents and observations,
on the lemmas of `SnapshotProofs`:

* `TypeCorrect`.
* `BestScoreKeptAlways` and `FinalKeptAlways`. The maximum of the known scores is
  associative and idempotent (`MaxKnownLaws`), but that is not enough: when a match is
  tracked again, what was captured is accrued a second time when it is abandoned once
  more. `KeptInv` therefore adds `CoolingBelow`: the cooldown's fallback knows no goal
  and no final state that is not in `best` and `sawFinal`.
* `ClockWitnessedAlways` and `EventsWitnessedAlways` (the event list is one that was
  observed). `WitnessInv` says the same of the cooldown's fallback, from which a tracker
  starts, and of the baseline.
* `FinalListKeptAlways`, from `FinalListOnly`, a case analysis of the event rule.

`EngineProofs`, for any matches, boards, details, schedules, pack outcomes and caps:

* `TypeCorrect`. `TypeOK` alone is not inductive: a visit reads the board or the
  backfill tracker of its match, which must still be there. `TypeInv` adds that for
  every match still to be visited (`BoardKnown`, `BackfillKnown`); the tracker is
  there because only the visit of a match removes it in that phase.
* `BaselineEventsStoredAlways`, the property that makes the log complete. The diffs
  are all taken when the apply phase begins and applied one by one, each on a log
  that earlier ones may have extended. `StoredInv` adds `QueueCovered`: every event
  of a queued snapshot is in its batch, or already in the log with that content. The
  log only grows (`ExtendedKeeps`), a batch without a conflict lands whole
  (`ExtendedTakes`), and after a conflict the baseline takes its events from the log.
* `BackfillNotForeclosedAlways`, and with the backfill enabled
  `FinishedNotOverlookedAlways`, whatever an apply does. A visit decides, the apply phase
  loses or keeps, so `HeldInv` says for each point of a poll what is owed to a finished
  match: still to be visited, tracked, cooling, queued, or stored (`BackfillHeld`,
  `FinishedHeld`). It needs that a baseline has a row (`BaselineHasRow`), that an entry
  taken for unchanged has a baseline (`UnchangedKnown`), that nothing is remembered before
  the restart scan (`FreshStart`), and that a vanished match still to be visited is not
  cooling and was live (`VanishedDue`, `TrackedLive`).
* `TrackerDropJustifiedAlways`, for packs that list the teams as the provider does
  (`NoneTurned`): no visit drops a tracker but for a cooldown, and of the applies only a
  durable one does, of a closed match or of one whose live state supersedes what was
  captured (`LiveSupersedes`).
* `PathsExclusiveAlways`, `NoTrackerWhileCoolingAlways`, `UnchangedMeansStoredAlways`,
  `ResetNeverClobbersAlways`, `GiveUpMonotonicAlways`, for packs that write all of a
  snapshot or nothing of it (`PacksGentle`), the last also under `NoneTurned`. They need each
  other: a baseline is what the row says (`BaselineStored`) and a match that is backfilled
  was never in play (`BackfillFresh`), so no match is on both paths, so a poll has at
  most one entry per match (`VisitOrder`, `OneEntry`), so what an entry was computed
  against is still stored when it is applied (`UnchangedNow`, `EntriesGuarded`). `GentleInv` is their conjunction. The hypothesis is
  needed: section 3 shows each of the five violated when an apply stops half-way.
* `ScoreShownAlways`, under `NoneTurned` and whatever an apply does: no score is made up.
  `ShownInv` says it of everything that is remembered, queued and stored; merging,
  accruing and giving up choose among scores and invent none (`MergeOverBaseShown`,
  `NonRegressShown` and their kin). `engine_turned` shows that `NoneTurned` is needed.
* `LiveRefinesEngine`: `EngineLive` implements `Engine`, so all of this holds of it.

`ReconcileProofs`, for any matches, slugs, schedules, lists and failures:

* `TypeCorrect`, with any number of processes of the source. It needs that a call is only
  bound to a canonical row that is there, and that what it has yet to write was read.
* `ChildrenSeededAlways`, `OneTimelineAlways`, `AckedKeptAlways`, `RicherKeptAlways`, with
  one process (`OneWriter`; section 3 shows what happens with two). While a call is on its
  way only the schedule loader changes rows, and it never gives a match a second canonical
  row, so what the call has read is still so when it writes. `PlaceInv` ties the
  places of a match's events to its rows, its mapping and the call's phase: as long as its stub is
  there, no event of a match is elsewhere, and once the adoption is decided (`Settled`) the
  call is bound to where they all are. `RichInv` follows the payload that a call has read and will write back.
* `LiveRefinesReconcile`: `ReconcileLive` implements `Reconcile`.
* `OrientationKeptAlways`, also assuming that a turned match's snapshots carry their team
  names (`Anonymous = {}`). `UprightInv`: a row's team names are the schedule's
  under a slug, the provider's on a stub, either or none under the provider's own id; all else on the row stands as they
  do; and what a call carries from its reads to its write still agrees with the row.

`BackfillProofs`, for any matches, slates, windows, failures and daemon polls:

* `TypeCorrect`, `ReportConsistentAlways`.
* `AppliedMeansStoredAlways`. The invariant follows the apply in progress: the parts
  written so far are final and nobody but the daemon changes them.
* `SkipReliableAlways`. Events are written last, so in a match the daemon never touched,
  any event means that the row and the side tables are there.
* `CleanRunCompleteAlways`. Every match of the window that was over at the start is
  brought in, or reported as failed, or still before the run: in its queue, in
  examination, or on a chunk yet to come, which the padding guarantees at the start.

`FeedProofs`, for any key events and statuses and lists of any length:

* `DriftStaysLoudAlways` and `ErrorOnceAlways`. For the first, the baseline never knows an
  event that the log contradicts, so that a contradiction is always diffed again; for the
  second, what the latest poll reported is still in memory.
* `AppendKeepsNumbers`: adding a key event at the end of the list renumbers nothing. The
  timeline is a fold, and the induction over its recursive function is by the least number
  at which the claim fails, a property of the order of `Nat` alone.
* `NoWedgeAlways` and `LogMirrorsFeedAlways`, from `MirrorInv`: neither a provider's list nor
  the log has gaps (`Gapless`), so what of a list is not in the log lies above its
  head, where the writer accepts it, one seq after the other.

`CollectorProofs`, for any number of processes and libraries of one major, any fixture and
any snapshots:

* `StampHonestAlways` and `OpenedCompleteAlways`, under `NoColumnAdded`. The invariant says
  that a table has its columns (`TablesWhole`), and accounts for each part a
  process has still to make, and for the lower stamp that a slower process may put last.
* `SchemaImplemented`, for any columns: each step of `Collector` is one of `Schema` or leaves the file
  alone; `CollectorOpenedComplete` inherits from it.
* `SessionKeptAlways`, `FlushNotRetriedAlways`, `ReplayCompleteAlways`.

The assumptions are those of the modules, which TLC evaluates in every run.
`PowerAssumption` states that powers of two are positive numbers, because the provers
do not know exponentiation.

Each hypothesis on a constant (`OneWriterPerSource`, `OneWriter`, `Anonymous = {}`,
`BackfillEnabled`, `NoneTurned`, `PacksGentle`, `NoColumnAdded`) is true in the run that checks the property,
and TLC finds the property violated without it. The exception is `TrackerDropJustified`
under `NoneTurned`: its proof would otherwise have to compare scores of different teams, and
TLC found no violation in the turned instances tried.

Model-checked only: liveness (`LiveRowsClose`, `TrackingDrains`, `AdoptionHeals`,
`Backfilled`, `MaintainerAdmitted`, `StopsEventually`), as TLAPS 1.4.5 proves nothing about
fairness or ENABLED. Every safety property of a passing run is a theorem.

## 5. Not modelled, and next

Not modelled: the rest of the command line, the registry, path and schema descriptions, the
fixture import scripts (no state that evolves); parsing and formatting in the ESPN adapter,
of team names, clocks, lineups and statistics; the file format of fixtures; the queries of
the reader other than `get_events_since`, which are single SELECTs; `upsert_standings` and
the entity upserts, each one statement on one row; discovery of sport packs.

Next, in this order:

1. An abstract specification of the poll engine as its readers see it (a row is live, then
   closed; a log that grows), and the proof that `Engine` implements it where packs are
   gentle.
2. That `Engine`'s trackers and cooldowns handle what they capture as `Fallback` does.
3. `ChildrenSeeded` and `AckedKept` with two processes, for schedules that are complete
   before the second one starts.
