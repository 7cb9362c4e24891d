# A TLA+ model of sp00ky's server side

sp00ky is a reactive, local-first framework on SurrealDB. A *scheduler* takes
every change of the upstream database, keeps a local *replica* of it, and feeds
*SSPs* (stream processors), which evaluate the clients' live queries
incrementally. Clients see what an SSP shows. The core promise is therefore:

> a change the scheduler has accepted is never lost, reaches the replica and
> every SSP, and no SSP serves from rows that miss one,

through crashes of either process, failing storage, refused and timed-out
posts, overflowing buffers, repeated registrations and re-clones, and through
the replacement of a scheduler or an SSP by its successor while both run. An SSP
in turn promises that the edges it writes to the database are its views. Beside
the pipeline, engines on the same database run workflows and send push
messages, each from several processes at once. This project models the
pipeline, both hand-overs, the publication of edges, workflow runs and direct
push messages.

All source paths below are relative to `src/apps/scheduler/src` unless they
start with `apps/` or `packages/`.

## 1. The system

| Component | State | Operations | Talks to | Hard because | Correct when |
|---|---|---|---|---|---|
| Changefeed tail (`packages/maintenance/src/changefeed.rs`) | cursor (versionstamp) | read a page, hand each change to ingest, advance | upstream DB, ingest | restart between ingest and cursor; cursor reset by a re-clone | every committed change is handed over at least once |
| Ingest (`ingest.rs`) | `seq_counter`, calls in flight | take a seq, append to the WAL, buffer, queue for fan-out | WAL, buffer, fan-out | seq, log and buffer are three locks; a call can be dropped between them | an accepted change is recoverable |
| WAL (`wal.rs`) | segment files, closed and active segment, truncation mark | append, rotate, truncate, recover, reopen | disk | torn frames, full disk, files that do not unlink | an acknowledged append is recovered until truncated |
| Replica (`replica.rs`) | rows, `snapshot_seq`, table hashes, dirty tables, applying marker | apply, commit, rehash, clone | local database | rows, hashes and seq are persisted separately | rows converge; hashes describe rows |
| Snapshot updater (`lib.rs`) | `drain_lock`, `SchedulerStatus` | evict, drain buffer, commit, truncate | all of the above | must not move the snapshot under a bootstrapping SSP | the snapshot stands still while it is being read |
| Fan-out and redelivery (`ingest.rs`) | queue, batch, redelivery tasks | post to Ready SSPs, queue for others, redeliver to lagging ones | SSP pool, SSPs | posts run outside the pool's lock; a timed-out post may have been applied | no event is skipped or overtaken |
| SSP pool (`router.rs`) | members, states, buffers, overflow and resync flags, generations | register, mark, buffer, drain, remove | everyone | shared by six kinds of task | Ready implies an empty buffer and no dropped event |
| SSP management (`ssp_management.rs`) | one poll task per registration, breaker counts | register, poll, replay, verify, admit, heartbeat | pool, replica, SSPs | tasks outlive the registration they belong to | an SSP is admitted only when it caught up, and in the end it is |
| SSP process (`apps/ssp`, `packages/ssp-node`) | circuit rows, views, status | register, page the snapshot, ingest, heartbeat, rebootstrap | scheduler | restarts at any point | its rows are those of the events it was sent |
| Blue/green SSP hand-over (`ssp_handover.rs`) | standby, retiring, replaced | promote, retire, un-retire | pool, SSPs | two SSPs own the same views for a while | exactly one publishes |
| Scheduler hand-over (`handover.rs`) | gate mode, relay, exported pool | prepare, release, commit, take over | successor process | two schedulers hold one replica and one log | one writer; nothing accepted is lost |
| Drift check (`drift.rs`) | streaks, latches | compare counts, repair, escalate | upstream, replica | compares moving targets | repairs only what is really missing |
| Publication of edges (`packages/ssp-node/src/edges.rs`, `node.rs`) | queue of works, admission leases, one publisher task | ingest, register, join, repair, roll back, release; take a round, clean up, write, park | circuit, database | the write runs without the circuit's lock while views come and go | settled edges equal the view; a registered view becomes ready |
| Schedule engine (`packages/schedule-core`) | workflow, step and job rows | fire, spawn, advance, stop, reap, retry, heal, prune | database, job workers | any number of passes share only rows, each may be stale or die | steps in dependency order; success is complete and kept; every run ends |
| Push engine (`packages/push-core`) | message rows; per process a retry queue and progress | claim, send, retry, record, sweep, reset | database, push services | outcome is in one process's memory until it is written | sent once, recorded truly, never left behind |
| Machine pools (`packages/pool-core`) | rows in the database | size, reconcile | machines | rented machines fail and cost | as many as wanted |
| Client core (`packages/core`, `packages/spooky_core`) | outbox, local store, tab leadership | mutate, push, pull, roll back | database, other tabs | offline edits, two tabs | local state converges to the server's |

`PROJECT.json` lists every component, the ones that are not modelled included,
with the reason, and under `hazards` the places in this code that are hard to
test, each with the properties that look after it.

## 2. Modules

| Module | Models |
|---|---|
| `DurableLog` | what ingest needs of a log: abstract specification |
| `EventWal` | `wal.rs`; implements `DurableLog` |
| `EventWalProofs`, `SspSyncProofs`, `SspPromotionProofs`, `SchedulerHandoverProofs`, `WorkflowRunProofs`, `PushMessagesProofs`, `EdgePublisherProofs` | theorems about the module they are named after |
| `IngestLog` | `ingest_event_from`, `drain_and_apply`, `recover_wal_backlog`, `Replica::apply`, `commit_snapshot_state`; uses the abstract log |
| `IngestLogProofs` | theorems about `IngestLog`: the log and the cut; the rows and the hashes |
| `MCIngestLog` | `IngestLog` for TLC: rows in tables of their own, and their symmetry |
| `SspSync` | fan-out, redelivery, SSP pool, registration, polling, replay, catch-up check, sweeps, and the SSP process |
| `MCSspSync` | `SspSync` for TLC: names of SSPs and rows, and their symmetry |
| `SspPromotion` | blue/green replacement of an SSP: `ssp_handover.rs`, the standby part of `router.rs` and `query.rs`, and the SSP's side in `packages/ssp-node` |
| `SchedulerHandover` | blue/green replacement of the scheduler: `handover.rs`, the hand-over part of `lib.rs`, `main.rs` |
| `EdgePublisher` | the publication queue of an SSP and the handlers that feed it: `edges.rs`, `node.rs` in `packages/ssp-node` |
| `WorkflowRun`, `MCWorkflowRun` | one workflow run: `workflow.rs`, `sql.rs` in `packages/schedule-core` |
| `PushMessages`, `MCPushMessages` | one direct push message: `engine.rs` in `packages/push-core` |

`EventWal` refines `DurableLog`; `IngestLog` relies on `DurableLog` only;
`SspSync` takes from `IngestLog` that an accepted event stays available and
that a drain is atomic for everyone who takes `drain_lock`.

### EventWal

`disk` is the directory: file name to frames, a frame being the seq it carries
or `Torn`. `closed`, `active` and `retiredUpTo` are the fields of the struct;
`owed` is what was acknowledged and not truncated since. Appends come in any
order, as ingest takes its seq before the lock. An append succeeds, fails while
writing, or fails while opening the next segment (the old one is closed by
then). A truncation may fail to unlink any of the files it covers. A crash may
tear the tail; `Reopen` is `scan_dir`.

### IngestLog

A change is `<<row, n>>`, the n-th change upstream made to that row; `Rv` is
the `_00_rv` that the events generated by the CLI stamp on it. Every lock that
`ingest_event_from` takes is one step (`TakeSeq`, `AppendToWal`,
`BufferAndAnswer`), with the failed append and the dropped call. A drain is
`DrainTake`, one `ApplyOne` per event, `DrainCommit`, `DrainTruncate`. A table
hash is the set of the digests it XORs, so a wrong hash is a wrong set. What is
on disk (`wal`, `rows`, `disk`) survives `Crash`, the rest does not, and
`Recover` is `Replica::new` with `recover_wal_backlog`. `Faults` says which
storage errors may happen; each may then happen every time. `Handlers` are the
callers: one for the changefeed tail, any number for HTTP ingest, which is the
default transport. `overtaken` remembers the calls that were still between their
seq and the buffer when a drain took a later seq, because the drain's cut is the
seq of the last event in the buffer.

### SspSync

Event n is the n-th accepted change and `log[n]` the row it replaces; what an
SSP shows is, per row, the last event it applied, since the circuit replaces a
row whatever version it carries. The pool's maps are variables of their own.
`fan` is the batch in the fan-out consumer: taken under one pool lock
(`FanTake`), posted without it (`FanPost`), failures marked when all posts have
returned (`FanMark`). `redelivery` and `poll` hold one record per task, and a
task may outlive the registration it was started for: this is where the
interesting interleavings come from. A poll goes through the phases of
`poll_and_replay_ssp`, one step per lock or post. The replica is `rows`, the
event each row was last written by, and `snap`, the seq it claims. The breaker's
re-clone is three steps, with anything between them: `PollVerify` takes the seq,
`PollClone` replaces the replica by rows fetched since (of each row any version),
and `PollFlag` flags the pool when the replica's lock is free again. It may fail in its fetch,
which changes nothing, or after the reset, which leaves any part of the rows, with
the seq committed or not; then only the SSP that failed its check is flagged.
`Load` ends with the rows the replica holds, as the SSP's own check goes by them.

The history variables: `spoiled` says that the last re-clone left the replica
short of events that were drained already, `waived` that the catch-up check of
this registration says nothing (skipped, overruled, or made against a spoiled
replica), `strayed` that a task of an earlier registration touched the SSP or its
buffer since it registered. The named faults (`FaultKinds`) are counted against
`MaxFaults`, but for failed re-clones; a dead process being noticed is not a
fault.

### SspPromotion

Blue serves, green is to replace it. The scheduler's maps (`pool`, `standby`,
`replaced`, `buf`, `tracker`) and the SSPs (`node`, with their publication
queues `pub`) are separate, because every call between them may fail on either
side. `swap.at` is the line of `promote` that runs: wait for the predecessor,
take the write side of `view_gate` (`Hold`), mark it retiring, wait for the
fan-out, retire it, promote the standby, commit; or abandon, with `Resume` and
`Unretire`. Beside it run the fan-out one delivery at a time, up to three
redelivery tasks, client registrations, releases and their shadow copies, and
both publishers. Every event changes every view, so a membership is the number
of the last event in it; a delta written out of turn makes the edges `Garbled`,
which only a snapshot repairs. That is what makes `EdgesConverge` more than a
comparison of counters.

### SchedulerHandover

`phase` is where a process is in `main.rs` (green) or in `release_replica` and
`commit_handover` (blue), `mode` is its gate. `lock` is the replica's lock file.
`disk` is the segment directory both append to and `log[p]` what p knows of it:
the segments it listed when it opened the directory and those it opened itself,
which is not the same thing. A request passes the gate of the process it lands
on (`Arrive`, `Dispatch`, `Relay`, at most two hops, or `HeldTooLong`), then
takes its seq, is logged and buffered, and acknowledged. `CommitHold`,
`CommitQuiesce` and `CommitExport` are the three waits of `commit_handover`;
the export is `answer`, which green imports in `TakeOver` after `CatchUp` on
the log. `cut` collects the events whose delivery task was aborted with a batch
in its hands, for which the SSP must rejoin.

### EdgePublisher

`queue` holds works in order: deltas of the circuit's changes and cleanups of
released views, ready, waiting for their source to be visible, or parked for a
retry. A round is `take`, `filter`, `cleanup`, `write`, `end`, one step for each
lock it takes; a failed write poisons its views and parks them. A handler is a
registration in flight: it creates or joins a view, waits for the publication
or repairs the row, and rolls back when the row cannot be written. Edges are
counts, because `RELATE` adds another edge where one exists.

### WorkflowRun

The rows are the state: `sched`, `wf`, `step`, `job`. A pass is a call of
`spawn_workflow`, `advance_workflow`, `stop_workflow_run` or `retry_workflow`;
its `pc` is the next statement it sends, and `snap` the rows it has read. Each
statement, with its WHERE clause, is one atomic step, and whatever lies between
two statements works on the snapshot. A pass may die between any two. Jobs end
by themselves (external: the workers). `upset` remembers that a pass set out to
stop the run or took it up before it was spawned completely; see section 3.

### PushMessages

`msg` is the row. A host may be in `process_message` twice, from the ingest path
(`event`) and from the sweep of its tick (`sweep`), and in `run_retries` (`tick`);
`work` has a batch for each. A batch goes through its sends to a tally, the tally
to the row (`RecordCall`, `Resolve`) or into the host's one progress entry `prog`
until the retries are done. The retry queue has a cap. `Claim` is the
compare-and-swap on the row, `Sweep` and the two resets are the statements of
`sweep_messages`. Ages are not numbers: the code resets a row whose claim is five
minutes old, whether its host is gone (`ResetStuck`) or alive and slow
(`ResetSlow`, counted as the fault `slow`); then two hosts, or two calls of one
host, send the same message, share a progress entry and overwrite each other's
outcome, which `FINISH_MESSAGE` does without looking at the status. A send is
taken, refused, to be tried again, or taken with its answer lost, in which case the
code tries again all the same (`packages/push-core/src/engine.rs:1398`, `1416`).
`got`, `lost` and `hits` record what reached the devices and what of it was
acknowledged, which the code cannot know; `mixed` that retries of one claim may
have met the progress of another, or none.

## 3. Runs

| Run | Instance | Shows |
|---|---|---|
| `event_wal` | 4 seqs, 2 frames per segment | acknowledged appends stay recoverable; refinement of `DurableLog` |
| `ingest` | 2 rows, 4 seqs, 3 changes per row, 1 crash, unreadable versions and images | rows converge, hashes follow |
| `ingest_faults` | 2 callers, 2 rows of one table, 3 seqs, 1 change each, 1 crash, failing markers, applies, hashes and commits | but for a call that a drain overtook: nothing accepted is lost, everything accepted is applied or refused in the end, the cut never recedes |
| `sync_rejoin` | 1 SSP, buffer of 1, 2 events, the second rejected, batches of 2, 2 registrations, 2 faults of 7 kinds, and re-clones that fail | Ready only with every event, through failed posts, overflow, redelivery, crashes, sweeps, timeouts, repeated registers, the catch-up check and its breaker |
| `sync_siblings` | 2 SSPs, 2 events, the second rejected, no fan-out, 2 registrations each, re-clones that succeed and that fail in each phase | the snapshot stands still under a bootstrapping SSP unless it is flagged, about to be, or waived |
| `sync_live` | 1 SSP, buffer of 1, 2 events, any one of 4 kinds of fault, 4 registrations | the SSP catches up |
| `promotion` | 1 view, 2 events, any one of: refused delivery, failed retire, refused promotion, lost shadow copy, death of blue, release | one SSP writes at a time, events reach an SSP in order, the edges end up as the registered views, registrations resume |
| `handover` | 3 events, 1 of them logged before, 1 drain, any one of: crash, blue busy, lost commit answer, request held 90 s, failed delivery, slow wait | one scheduler runs, no acknowledged event is lost, the SSP misses none, requests end, somebody serves |
| `edges` | 2 views of 1 record, 2 handlers, 4 slots, rounds of 2, 2 events, 3 requests, a failing metadata write, edge write or cleanup | settled edges equal the view; every registered view becomes ready |
| `workflow` | step b after step a, both failure policies, 2 passes, 1 dispatch attempt; a crash, a refused job, a refused row, a reap, or a kill and a retry | dependency order, success is complete and kept, the schedule run agrees, both end |
| `push` | 2 hosts, 2 devices, 2 retries each, queue of 1, a lost answer, and any one of: crash, engine turned off, unwritten outcome, reset under a live host, early retry | one push per device, fault and lost answer; the recorded count is that of the acknowledged sends; only lost messages are stuck; every message ends |
| `handover_quiet` | 1 event, empty log | expected to fail: see below |

Distinct states: `ingest_faults` 886 thousand, `sync_rejoin` 2.0 million,
`sync_siblings` 3.6 million, `sync_live` 957 thousand, `promotion` 184 thousand,
`handover` 142 thousand, `edges` 585 thousand, `workflow` 577 thousand, `push`
717 thousand.

Two rows are needed so that a lost event of one is not hidden by a later event
of the other, and so that the fold of one table leaves the other's hash alone;
two events per row so that an older one can overwrite a newer one. What
`ingest_faults` checks is about the order of seqs, which two callers with a change
each and a third seq for the repeated one exercise: a call is overtaken, a crash
filters it out, a cut recedes. The theorems of section 5 cover any number of
callers, rows and changes. `sync_siblings` leaves the fan-out out: a replica
moves by drains, registrations and re-clones only, and none of them looks at it;
the second event, which nobody takes, is what makes a check fail.
Three log entries suffice for an entry before, at and after a cut; four for a
truncation in the middle of a second segment. Two registrations are the
least that let a task outlive its own; the fourth one in `sync_live` leaves
room for a fault, an overflow and a failed check in one run. A buffer of one
makes the overflow reachable by the second event.

One event before a swap or a hand-over and one during it are the least that can
be overtaken or fall between the two processes; the third event of `handover`
is the one green takes itself. `promotion` has one view: its views meet only in
the order of the publication queue, which `edges` covers. Its two
events leave out a queue behind a batch behind a delivery; a run with one fault is one of
the runs `EventsTakenInOrder` (section 5) is about, for any number of events. `edges` needs two views, so that one's failed write shares a
round with the other's, and two handlers for a create and a join of the same
view. Two passes let one act on a snapshot the other has outdated, any number of
times, as a pass that has ended may start again; the theorems cover any number at once.
Two devices and a queue of one let one retry be queued and the other dropped. One
fault may strike at any point of these five instances, and a retry follow a kill.

`CHECK_DEADLOCK FALSE` in all runs but those of `SspSync`: the instance comes to
rest when its seqs, events and requests are used up, its run has ended or its
message is sent. The liveness properties say what state it may rest in.

### Disagreements with the repository's own words

`handover_quiet` checks one property and TLC finds it violated; the finding in
`PROJECT.json` quotes the sentence. Blue drains, which removes the last
segment; green opens the empty directory; blue takes in one more event, in a
new segment; `catch_up_wal` rereads the segments green had listed, and finds
nothing. `handover` holds with a segment present when green opens the log.

The following can be produced from the same modules with the constants named,
or without the excuse a property makes; the passing runs check what holds next
to them.

*Log, ingest, SSPs.*

- `EventWal`, `FailedWriteLeavesBytes = TRUE`: a write that failed part-way
  stays in the active segment, recovery stops in front of it, and later
  acknowledged appends to that segment are not found.
- `IngestLog`, two handlers: a call takes its seq before the log's lock
  (`ingest.rs:340-370`) and joins the buffer after it, and the drain's cut is the
  seq of the last event in the buffer (`lib.rs:185`). A drain in between cuts past
  the slower call. Two things follow. A crash after its answer filters the change
  out of the backlog, against the doc of `Fanout` ("a scheduler crash replays from
  the WAL, so answering the DB event at that point loses nothing",
  `ingest.rs:73-75`); this is `AnsweringLosesNothing`, which TLC finds violated in the instance of
  `ingest_faults` and which is proved for one caller (`OneCallerLosesNothing`).
  And without a crash the next drain has the slower call alone in its batch:
  its commit assigns the lower seq (`replica.rs:1075` compares nothing) and the
  persisted cut moves back. `NoAcceptedChangeLost`, `AcceptedIsApplied` and
  `CutNeverRecedes` say that an overtaken call is the only way to either. The
  changefeed tail is one caller; HTTP ingest, the default, and a drift repair
  beside the tail are concurrent ones.
- `IngestLog`, failing hashes or markers with a crash: a table waiting for its
  hash is forgotten. Failing commits: the log is truncated after a commit that
  was not persisted.
- `SspSync`, re-clone (`ssp_management.rs:1842`): "a failure here leaves a reset
  replica", and the error arm flags only the SSP that failed its check. It
  registers again, is answered with the state of the reset replica, finds its rows
  to agree with it and goes Ready without the rows. A re-clone that succeeds does the
  same on a smaller scale: its seq is loaded before the fetch, and the comment
  says that "new events past this point re-arrive via replay", but those that a
  drain applied during the fetch are out of the buffer and out of the replica, and
  no replay brings them. The rows come back with the next change of each, or with
  a drift repair. And the SSPs that page the replica in are flagged after its lock is
  released, so one of them can finish loading rows other than those it was
  registered for. `ReadyIsCurrent` and `EverySspCatchesUp` excuse SSPs that read a
  spoiled replica, `SnapshotHeld` the window before the flag; without the excuse TLC
  finds `ReadyIsCurrent` and `SnapshotHeld` violated.
- `SspSync`: a superseded poll drains the newer registration's buffer; a
  redelivery outlives its registration and re-queues old events. `ReadyIsCurrent`
  excuses SSPs a stray task interfered with, and those admitted unchecked, as the
  breaker and an unreachable `/info` admit them on purpose.

*SspPromotion*, faults left out of `promotion`, or possible only together:

- `promote`: green takes the promotion, the answer is lost, the swap is
  abandoned: both write. `resume`: blue stays retired and nobody serves its
  views until it restarts. `undrained`: blue answers after its drain timeout
  and publishes beside green.
- `comeback`, `restart`: blue registers or dies while it is being replaced. A
  blue that died and registers again during a swap serves beside the promoted
  green. `stale`: a redelivery outlasts the boot of its SSP, as in `SspSync`:
  it sleeps up to 10 s between two tries, looks only at the pool's state when it
  wakes, and so serves the new process beside the task of its next lag.
- A lag with an abandoned swap (`drop`, or a death, with `refuse`, say):
  `Unretire` starts a second redelivery task beside the first, and the two may
  overtake each other.

Of these, `promote`, `undrained` and `comeback` break `OneWriter`; with any of
the others, together and any number of times, it holds (section 5). `EventsInOrder`
needs a lag and an abandoned swap, or a death and `stale`, to break.

*SchedulerHandover*, likewise:

- `release`: a lost answer to the release is settled by looking for the phase
  `handing_over` (`handover.rs:801`), which no code sets.
- `late`: green gives the commit up after 60 s while blue serves on; a commit
  that is repeated may itself be held or relayed by blue's gate.
- `overtake`: an event logged after one with a higher seq is skipped by
  green's catch-up.
- `slow` with `post`: when the 30 s for the fan-out run out the pool is exported
  with events still to be fanned out, and one whose delivery then fails is
  buffered in blue's pool, which nobody exports again. It is lost when blue is
  stopped. Two faults; the run takes one.

*EdgePublisher*: with `early`, a client joins a view whose row was deleted
before the SSP hears of it. The join's own UPSERT makes the row present, a
pending delta is taken for the repair, and the view's older rows stay without
edges. With `cancel`, a registration dropped before its row is written leaves
the view in the circuit with publications that are never released. `slow` lets
a row be deleted under a registration about to write it. An ambiguous commit of
an edge batch, when repeated, doubles its edges; that one is outside the model,
which writes a batch or does not.

*WorkflowRun*: what `upset` excuses in `SuccessIsComplete` and `ScheduleAgrees`.
The sweep may take up a run that is being spawned and close it as successful
without the rows not created yet; a stop or a reap racing with the last step may
close a stopped run as successful. A process that dies between the two writes
that end a run leaves the schedule run `running` (excused in `RunTerminates`);
one killed between creating a job and marking its step leaves the job without an
owner. A pass that found the run failed and is late may end it again between the
two writes of a retry, with the same result for the schedule run. With `hasty`, a
retry overtakes a second pass that is still stopping the run: that pass skips a
step the retry has reset, and no later pass skips what depends on it, as nothing
has failed (`packages/schedule-core/src/workflow.rs:504`). The run stays
`running`.

*PushMessages*: every fault is in the run, and the properties say what each costs.
A lost answer means a push the device has and the row does not count, and a second
push when the retry gets through: a row may say `failed` with 0 though a device was
reached. A reset under a live host (10,000 recipients, 8 sends at a time and a 10 s
timeout exceed five minutes) sends the message twice and lets the two claims write
over each other's count, so the count is bounded by the acknowledged sends but is no
longer that of one claim. With `early`, a retry falls due before the write after its
queueing, its tally finds no progress entry, and the message waits to be reset; only
a database write longer than the 2 s backoff does this.

## 4. Fairness

`IngestLog`: weak fairness of the drain as a whole (the updater is an interval
timer of the process) and of `Recover` (the process is supervised). Nothing is
assumed of the callers. `SspSync`: weak fairness of the fan-out consumer, of
every redelivery and poll task (spawned tasks that sleep and retry), of each
SSP process (it registers with retries, loads, heartbeats on a timer), and of
the sweeps (interval timers). The updater's own tick needs none: no SSP waits
for it.

`SspPromotion`: weak fairness of the fan-out, redelivery tasks, publishers, the
boot of an SSP, the sweep, and each step of `promote` (a spawned task with
timeouts on every call). Strong fairness of `Register` alone: clients repeat a
registration that was refused, and the gate is closed and opened again between
attempts. `SchedulerHandover`: weak fairness of the steps of a request that
has arrived, of the fan-out and redelivery, and of both sides' protocol steps, each under a timeout in
the code. `EdgePublisher`: weak fairness of the publisher task, the wait for a
source, the retry delay, the handlers, and the forwarded unregister.
`WorkflowRun`: weak fairness of each pass, of the sweep (an interval timer), and
of each job (workers time out and mark a job failed). `PushMessages`: weak
fairness of the host's calls and of the two parts of its tick.

Faults are never fair and are bounded.

## 5. Proofs

Each theorem holds for every value of the constants that meets the module's
assumptions (a table for every row, natural bounds, finitely many handlers, views
and rows, a nonempty DAG over its steps) and the hypotheses named here. Where a hypothesis leaves a fault out,
section 3 tells what the fault does: TLC finds the property violated with it.

| Module | Theorem | Property | Hypotheses |
|---|---|---|---|
| `EventWalProofs` | `TypeCorrect` | `TypeOK` | |
| | `AcknowledgedIsDurable` | `AcknowledgedIsRecoverable` | a failed write leaves no bytes |
| | `SegmentsImplementDurableLog` | `ImplementsDurableLog` | the same |
| `IngestLogProofs` | `TypeCorrect` | `TypeOK` | |
| | `NothingAcceptedIsLost` | `NoAcceptedChangeLost` | |
| | `PersistedCutNeverRecedes` | `CutNeverRecedes` | |
| | `OneCallerLosesNothing` | `AnsweringLosesNothing` | one caller of ingest |
| | `HashesStayTrue` | `HashesDescribeRows` | one caller; no `marker`, `hash`, `commit` |
| | `ReplicaConverges` | `Converged` | one caller; no `commit` |
| `SspSyncProofs` | `TypeCorrect` | `TypeOK` | |
| | `SnapshotHeldAlways` | `SnapshotHeld` | |
| | `ReadyIsCurrentAlways` | `ReadyIsCurrent` | |
| `SspPromotionProofs` | `TypeCorrect` | `TypeOK` | |
| | `OneWriterAlways` | `OneWriter` | no `promote`, `undrained`, `comeback` |
| | `EventsTakenInOrder` | `EventsInOrder` | no `retire`, `refuse`, `promote`, `stale`; or no `drop`, `died`, `restart` |
| `SchedulerHandoverProofs` | `TypeCorrect` | `TypeOK` | |
| | `SchedulersTakeTurns` | `OneScheduler` | no `late`, `release`, `quiet` |
| | `BacklogSurvivesHandover` | `BacklogKept` | no `late`, `release`, `quiet`, `overtake` |
| | `SspIsFed` | `SspMissesNothing` | the same, and not both `slow` and `post` unless at most one fault strikes |
| `WorkflowRunProofs` | `TypeCorrect` | `TypeOK` | |
| | `DependenciesComeFirst` | `DependenciesFirst` | |
| | `SuccessLasts` | `SuccessIsKept` | |
| | `SchedulesAgree` | `ScheduleAgrees` | |
| | `SuccessMeansComplete` | `SuccessIsComplete` | |
| `PushMessagesProofs` | `TypeCorrect` | `TypeOK` | |
| | `OncePerFaultAlways` | `OncePerFault` | |
| | `RecordsDeliveriesAlways` | `RecordsDeliveries` | |
| | `OnlyLostIsStuck` | `StuckMeansLost` | |
| `EdgePublisherProofs` | `TypeCorrect` | `TypeOK` | |
| | `EdgesFollowRows` | `EdgesFollow` | no `cancel`, `early` |

None of the safety properties is inductive. What each proof adds:

*Log.* That a truncation unlinks nothing newer than its bound needs what
`max_seq` of a segment means (`Bounded`); that a recovery finds a frame needs
its file tracked by exactly one segment (`Tracked`, `Distinct`), and that an
appended frame can be read needs an active file without a torn frame
(`ActiveIntact`). The refinement follows action by action from the same
invariant.

*Ingest.* `DrainCommit` moves the persisted cut over log entries. With any number
of callers the buffer is not in seq order and the cut is not its highest seq.
`AnyInv` says, while the process is up: where an accepted change waits (`Waits`:
settled, overtaken, in the batch or in the buffer), that what waits and was not
overtaken is in the log and past the snapshot, the persisted cut and the cut of the
running drain (`Placed`, `Beyond`), that no two calls have the same seq (`Apart`),
and that a cut is behind the persisted one only at the seq of a call that was
overtaken and answered (`Reached`, `Cuts`); while it is down, that nothing is in
memory and the property itself holds (`Stopped`). With one caller nothing is
overtaken, and the stronger `Inv` says that seqs increase from the persisted cut
through the snapshot, the batch and the buffer to the call in flight (`Ordered`). The
theorems on hashes and rows rest on that one.

*Replica.* A hash in memory is right only if it was on disk when the process
came up. `OnDisk` follows the persisted hash through a drain: where it has
fallen behind the rows, the applying marker is set and the log still holds an
entry of that table, so `Recover` flags it. The fold itself is a lemma about
symmetric differences (`ContentMoves`). `Converged` speaks of an empty buffer;
what keeps it true is `Flow`: the changes of a row that are still to be applied
have no gap, start no later than the change after the one the row shows, and
reach the last accepted one. It is kept for what the drain holds and for what a
crash would bring back, because a replayed delete takes the row back to an
older change. That `apply` never skips the change a flow starts with is a lemma
on `_00_rv` (`RvNext`, `SkippedIsSeen`). Without `commit` excluded the log loses
entries the disk has not caught up with: a create may survive a truncation that
removed the delete after it, and the deleted row is there again.

*SSP synchronisation.* The types already need that a queue, a batch and a fan-out
copy hold accepted events only, that a posting task has something to post, and
the closed form of `Buffered`: what is left in a buffer after it overflowed is a
tail of the events, shorter than the buffer. `SnapshotHeld` is then inductive: a
drain takes place only while no other SSP bootstraps, and a re-clone is followed by
the flagging of all or waives whoever bootstraps.
`ReadyIsCurrent` is far from it, as what a live SSP shows came through the
bootstrap, two replays, the fan-out or a redelivery. `EventsFollowed` follows
the events of one SSP while it is tracked, that is in the pool, with nothing
dropped and untouched by earlier registrations. Its buffer holds exactly the
last events up to the one that is due (`Queued`) and a task's batch exactly those
before the buffer (`Hand`), so an event is in one place and in turn. Until the
catch-up check the rows the replay has seen, or the snapshot, account for every
event that is no longer buffered (`Accounted`): a passed check therefore says that
the SSP shows them (`ExpectedShows`), and a check with nothing replayed that the
snapshot it loaded was enough. That the replica holds what its seq says is
`Grounded`: unless it is spoiled its rows show every event up to the snapshot, which is
not behind the buffer, and an SSP that is not waived registered with a snapshot that
did; a re-clone may take both back, because it takes its seq before its rows and is
spoiled where a drain has gone further. From then on it shows everything before what is
buffered or in hand (`Showing`), less one event per post. That redelivery and
replay never work on the same SSP at once, and no two redeliveries of one
registration do, is `Phase`, `Past` and `OneTask`. No fault is excluded: the
excuses are in the property itself, `waived` and `strayed`.

*SSP promotion.* Two SSPs write if blue does while green is out of standby. What
the pool says of the two processes (`Pooled`), that green stays in standby in
every phase before the commit (`Standby`) and that blue is silent from before the
promotion (`Retired`) rule it out; most steps change neither a status nor a
standby flag and fill a queue only of an SSP that serves (`QuietStep`). `TypeOK`
bounds the queue of an SSP by the number of events, although a failed redelivery
puts its batch back and a failed delivery is queued: no event is in the queue and
the tasks' hands twice, and none before its fan-out (`Once`). `EventsInOrder` rests
on where the events an SSP still lacks are (`InTurn`): the batch in hand begins after
the last one it took, the queue begins after the batch and ends at the fan-out's, and
it has one redelivery task at most. A live delivery goes to an SSP that has neither
batch nor queue. The one task is the hard part: green has none before it is ready and
blue leaves a slot (`Slots`), and the hypotheses say why an abandoned swap finds blue
without one (`Lone`): it is dead (`LoneDead`), or it never lagged and what was being
delivered to it was answered before it was retired (`LoneFirst`).

*Scheduler hand-over.* Who has the replica open (`Locked`), what blue may be
doing while green waits, opens or commits (`Yielded`), and where a request may
be (`InHand`) give `OneScheduler`. The backlog needs in addition that the
counter of the process that numbers events is past everything acknowledged
(`Counted`, `Known`), that events are logged in the order of their numbers
(`Ordered`), and what green still has to read (`Behind`). `SspMissesNothing` speaks
only of a scheduler that serves; the proof says where an event waits at every
stage of the hand-over: in blue's queues while it may still acknowledge
(`BlueFeeds`), in the pool it exported and what it still delivers itself
(`AnswerFeeds`), in green's queues and what blue still delivers (`GreenFeeds`). A
blue that dies under such a green had retired or had no SSP (`BlueYielded`), so
what it held is counted as cut off. An SSP that registers anew reads replica and
buffer, and that those hold everything is the backlog's own invariant. `Exported`
keeps a slow fan-out and a lagging SSP apart.

*Workflow run.* A pass acts on rows it read some statements ago. The invariants
say, for each place a pass may stand at, what of its snapshot is still true
(`PassDone`, `PassFresh`), and that the rows of the skeleton are written by one
pass, each once (`Spawning`).

*Push.* A reset by age puts several claims to work at once, so nothing can be said of
one host alone. Every send has its slot, a claim and a device, and a slot is in one
place only: to be sent, to be tried again, queued or acknowledged (`SlotInv`). A device
therefore has at most one acknowledged push per claim, and the rest of what it got
were lost answers (`Received`). Claims are paid for: each of them but one that is
still carried by some host has cost a fault (`Credit`), where a call whose retries
were taken early is carried no longer. The two give `OncePerFault`, and `Credit` alone
`StuckMeansLost`. What a tally, a progress entry and the row count is bounded by the
acknowledged sends of their hosts (`Tallied`). As long as no claim was taken from a live host
and no retry ran early there is one host at work and its books balance at every stage (`Exact`), which gives
the exact count.

*Edges.* Admission counts works and requests, and a round moves works between
the queue and the publisher; that no step makes more of them than it takes needs
the order of both as one line (`Line`), which each step of the publisher renumbers
(`Renumbered`). `EdgesFollow` says nothing of a view while something is on its way.
`Chain` does: the works in the line lead an edge from what it is to what the row
is, each taking it up where the one before leaves it. A step keeps the chain of a
view because it drops and overtakes nothing of it (`Keeps`, `ChainCarried`),
because it writes the first delta the view has left (`ChainWritten`), or because
it appends what has just happened to the rows (`ChainAppend`). Four things
could break it. A drop, which empties edges out of turn, comes with a reset
or before one (`Covered`). What the round still has of an earlier registration is
overwritten by the whole content that is queued behind it (`StaleCovered`). A
`RELATE` finds the view's row, since without a row the registration that is about
to write it holds back everything the view has (`RowThere`, `Pinned`). And the
newest version of a round is no newer than the row (`WorksOK`). `slow`, which no
run includes, needs no hypothesis.

Each inductive invariant was checked with TLC before it was proved. The runs of
section 3 check the properties themselves.

Only model-checked:

- liveness, which needs fairness and is out of the prover's reach.

## 6. What is abstracted or left out

- Time: a timeout, a backoff or an interval is a step that may happen.
- Content: a row is the number of its last change; hashes have no collisions;
  frames are whole or torn. `INFO`-level details, incidents and metrics.
- Ingest requests answered without a seq; jobs carried by events.
- `Replica`'s range hashes, paged clone, schema reconciliation. Of the re-clones
  `SspSync` has the catch-up breaker's; the drift check's (`lib.rs:1498`), the admin
  resync's (`ssp_management.rs:201`) and the one of `/ssp/bootstrap-verify`
  (`ssp_management.rs:396`) call the same function from elsewhere.
- `/ssp/bootstrap-verify`: the SSP's own check of its snapshot before it goes
  Ready goes by the replica's hashes, so `Load` ends with the replica's rows; its
  retries and its breaker are not steps.
- `SspPromotion`: a predecessor that answers the retirement with 404, as one from
  before hand-overs does, is left serving while the standby is promoted with a full
  republish (`ssp_handover.rs:285-292`): by design two SSPs then write edges until
  the control plane stops the old one, and `OneWriter` is not about that case. An
  answer that does not parse (`ssp_handover.rs:279-282`) is handled as an undrained
  one. Neither is a step. Also a third SSP (and with it the `keep` list) and
  load-based choice. `SchedulerHandover`: the one-step `/handover/prepare` for older
  peers; ports and relays are the gate's mode. The status `Restoring`.
- `EdgePublisher`: merged views, per-user tables, children of subqueries, the
  standby and reset of the queue, its byte and operation limits (they bound the
  queue the slots bound), and the batched edge-update service. `HasPending` counts
  the deltas a held work has left, where the code keeps a lease's views until its
  permit drops (`packages/ssp-node/src/edges.rs:534-538`) and so starts a repair
  less often. The error returns of the repair's probe and row rebuild and of a join's
  metadata write (`packages/ssp-node/src/node.rs:1393-1402`, `1468-1475`,
  `1651-1654`), which leave the view as it is, are not steps. A failed edge
  write has not landed or, of a whole content, in part.
- `WorkflowRun`: cron fires, leases, quarantine, single-job schedules, the
  retention prune, and a step whose target table is missing.
- `PushMessages`: rules, throttling and the trailing flush; encryption and wire
  formats, which are pure functions.
- The CLI and cloud commands, UI, bindings and tooling, more than half of the
  repository's lines: sequential I/O, generation and presentation without shared
  state. The circuit's algebra, the Dart client and the TypeScript packages
  are listed in `PROJECT.json` with the reason each is left out.

## 7. Plan

Done: the log, ingest and drain, SSP synchronisation, both hand-overs, the
publication of edges, workflow runs, push messages; the theorems of section 5.

1. `ChangefeedTail`: cursor, restart, reset by a re-clone; at-least-once
   delivery as the abstract specification `IngestLog` assumes.
2. The paged clone of the replica and its spool, `/ssp/bootstrap-verify` with its
   breaker, and the re-clones of the drift check and the admin endpoints.
3. Cron fires and leases of `schedule-core`; machine pools; job assignment.
4. `ClientOutbox` and `ClientTabs` from `packages/core`; `Drift`.
