------------------------------- MODULE SspSync -------------------------------
(***************************************************************************)
(* How the scheduler keeps its SSPs in step with the change stream:        *)
(* the fan-out queue and the redelivery to lagging SSPs (ingest.rs), the   *)
(* SSP pool (router.rs), registration, bootstrap polling, replay and       *)
(* catch-up verification, heartbeats (ssp_management.rs), the snapshot     *)
(* updater (lib.rs) and the stale-SSP sweep (metrics.rs), all under        *)
(* apps/scheduler/src; the SSP process as apps/ssp drives it.              *)
(*                                                                         *)
(* Event n is the n-th accepted change; log[n] is the row it replaces.     *)
(* What an SSP shows is, per row, the last event it applied: the circuit   *)
(* replaces a row whatever version it carries.  One drain is one step (it  *)
(* runs under drain_lock, and IngestLog models its inside); so is one      *)
(* registration's critical section.  Blue/green standbys are left out.     *)
(***************************************************************************)
EXTENDS Naturals, Sequences, FiniteSets, SequencesExt

CONSTANTS
    Ssps, Rows,
    Poison,        \* events every SSP answers with a 4xx
    MaxBuffer,     \* max_buffer_per_ssp
    RecloneAfter, AdmitAfter,   \* catch-up breaker thresholds
    MaxBatch,      \* bound: events one fan-out step takes from its queue
    MaxSeq,        \* bound: events
    MaxGen,        \* bound: registrations of one SSP
    Faults,        \* which of FaultKinds may happen
    MaxFaults,     \* bound: how many of them, failed re-clones not counted
    Slots          \* bound: redelivery tasks of one SSP at a time

FaultKinds == {"crash",     \* an SSP process dies
               "post",      \* an SSP is busy, or a post to it times out
               "retry",     \* an SSP gives up on its register call and repeats it
               "timeout",   \* a bootstrap runs into its timeout, or fails
               "info",      \* the SSP's /info does not answer the catch-up check
               "clone",     \* the re-clone from upstream fails, in its fetch or its load
               "lost",      \* the answer to a heartbeat is lost
               "sweep"}     \* a sweep takes an SSP that is alive

ASSUME SyncFaultAssumption == Faults \subseteq FaultKinds
ASSUME ThresholdAssumption == RecloneAfter \in Nat \ {0} /\ AdmitAfter \in Nat /\ RecloneAfter <= AdmitAfter
ASSUME SyncBoundAssumption == {MaxBuffer, MaxBatch, MaxSeq, MaxGen, MaxFaults} \subseteq Nat

VARIABLES
    log,           \* accepted events, in seq order
    rows,          \* the replica: the event each row was last written by
    snap,          \* Replica.snapshot_seq
    drained,       \* event_buffer holds the events after this one
    status,        \* SchedulerStatus
    inPool,        \* SspPool.ssps
    state,         \* SspPool.ssp_states
    buf,           \* SspPool.message_buffers
    overflowed,    \* SspPool.buffer_overflowed
    resync,        \* SspPool.forced_resync
    gen,           \* SspPool.registration_gen
    bootSeq,       \* SspPool.ssp_snapshot_seqs
    failures,      \* SspPool.catchup_failures
    fan,           \* the batch being fanned out, and what became of each copy
    redelivery,    \* the redeliver_to_lagging_ssp tasks
    poll,          \* the poll_and_replay_ssp task of each registration
    proc, shown,   \* the SSP process, and the event it shows for each row
    faults,
    spoiled,       \* history: the last re-clone left the replica short of drained events
    waived,        \* history: of this registration the catch-up check says nothing: it was
                   \* skipped or overruled, or made against a spoiled replica
    strayed        \* history: touched by a task of an earlier registration

schedVars == <<log, rows, snap, drained, status, spoiled>>
memberVars == <<inPool, state, overflowed, resync, gen, bootSeq, failures>>
sspVars == <<proc, shown>>
histVars == <<waived, strayed>>
vars == <<schedVars, memberVars, buf, fan, redelivery, poll, sspVars, faults, histVars>>

-----------------------------------------------------------------------------
Events == 1..MaxSeq
Gens == 1..MaxGen
Active == {"bootstrapping", "replaying"}
Queues == Active \cup {"lagging"}    \* the states buffer_message queues for

Nothing == [r \in Rows |-> 0]
Put(rs, e) == [rs EXCEPT ![log[e]] = e]
PutAll(rs, events) ==
    [r \in Rows |-> LET hits == {i \in DOMAIN events : log[events[i]] = r}
                    IN IF hits = {} THEN rs[r] ELSE events[Max(hits)]]
(* The rows after the first n events. *)
Span(a, b) == [i \in 1..(b + 1 - a) |-> a + i - 1]
At(n) == PutAll(Nothing, Span(1, n))

NoCopy == [st |-> "none", next |-> 0]
NoPoll == [pc |-> "none", from |-> 0, todo |-> <<>>, seen |-> Nothing, rejected |-> FALSE]
NoTask == [pc |-> "none", gen |-> 0, batch |-> <<>>]

HasActive(st) == \E s \in Ssps : st[s] \in Active
Answers(s) == proc[s] = "up"    \* ready_gate: anything else is a 503 or no answer
Fault(kind) == kind \in Faults /\ faults < MaxFaults /\ faults' = faults + 1
Stray(s, g, who) == strayed' = IF g = gen[s] THEN strayed ELSE strayed \cup {<<s, who>>}

TypeOK ==
    /\ log \in Seq(Rows) /\ Len(log) <= MaxSeq
    /\ rows \in [Rows -> 0..MaxSeq] /\ snap \in 0..MaxSeq /\ drained \in 0..MaxSeq
    /\ status \in {"ready", "frozen"}
    /\ inPool \subseteq Ssps /\ overflowed \subseteq Ssps /\ resync \subseteq Ssps
    /\ state \in [Ssps -> Queues \cup {"none", "ready"}]
    /\ buf \in [Ssps -> Seq(Events)]
    /\ gen \in [Ssps -> 0..MaxGen] /\ bootSeq \in [Ssps -> 0..MaxSeq]
    /\ failures \in [Ssps -> 0..(AdmitAfter - 1)]
    /\ fan \in [last : 0..MaxSeq,
                to : [Ssps -> [st : {"none", "pending", "failed"}, next : 0..MaxSeq]]]
    /\ redelivery \in [Ssps -> [Slots -> [pc : {"none", "start", "post"},
                                          gen : 0..MaxGen, batch : Seq(Events)]]]
    /\ poll \in [Ssps -> [Gens ->
          [pc : {"none", "health", "mark", "collect", "replay", "drain", "verify",
                 "clone", "flag", "flagall", "final", "last", "unfreeze", "thaw", "failed"},
           from : 0..MaxSeq, todo : Seq(Events), seen : [Rows -> 0..MaxSeq],
           rejected : BOOLEAN]]]
    /\ proc \in [Ssps -> {"down", "loading", "up"}]
    /\ shown \in [Ssps -> [Rows -> 0..MaxSeq]]
    /\ faults \in 0..MaxFaults /\ spoiled \in BOOLEAN
    /\ waived \subseteq Ssps /\ strayed \subseteq Ssps \X {"poll", "redelivery"}

(* A scheduler that has just cloned an empty database; no SSP has registered. *)
Init ==
    /\ log = <<>> /\ rows = Nothing /\ snap = 0 /\ drained = 0 /\ status = "ready"
    /\ inPool = {} /\ overflowed = {} /\ resync = {}
    /\ state = [s \in Ssps |-> "none"] /\ buf = [s \in Ssps |-> <<>>]
    /\ gen = [s \in Ssps |-> 0] /\ bootSeq = [s \in Ssps |-> 0]
    /\ failures = [s \in Ssps |-> 0]
    /\ fan = [last |-> 0, to |-> [s \in Ssps |-> NoCopy]]
    /\ redelivery = [s \in Ssps |-> [i \in Slots |-> NoTask]]
    /\ poll = [s \in Ssps |-> [g \in Gens |-> NoPoll]]
    /\ proc = [s \in Ssps |-> "down"] /\ shown = [s \in Ssps |-> Nothing]
    /\ faults = 0 /\ spoiled = FALSE /\ waived = {} /\ strayed = {}

-----------------------------------------------------------------------------
(* The pool (router.rs). *)

(* buffer_message for each of the events.  An event that finds the buffer full is dropped
   with all that is in it, which is flagged, and those after it fill the buffer again. *)
Buffered(s, events) ==
    LET queued == Min({Len(buf[s]), MaxBuffer}) + Len(events)
        kept == queued % (MaxBuffer + 1)
    IN  IF queued <= MaxBuffer THEN [buf |-> buf[s] \o events, over |-> s \in overflowed]
        ELSE [buf |-> SubSeq(events, Len(events) - kept + 1, Len(events)), over |-> TRUE]

(* SspPool::remove.  registration_gen stays. *)
RemoveSsp(s) ==
    /\ inPool' = inPool \ {s}
    /\ state' = [state EXCEPT ![s] = "none"]
    /\ buf' = [buf EXCEPT ![s] = <<>>]
    /\ overflowed' = overflowed \ {s} /\ resync' = resync \ {s}
    /\ failures' = [failures EXCEPT ![s] = 0]
    /\ bootSeq' = [bootSeq EXCEPT ![s] = 0]
    /\ UNCHANGED gen

(* mark_ready, once the buffer was found empty under the same lock. *)
MarkReady(s) ==
    /\ state' = [state EXCEPT ![s] = "ready"]
    /\ overflowed' = overflowed \ {s}
    /\ UNCHANGED <<inPool, resync, gen, bootSeq, failures>>

-----------------------------------------------------------------------------
(* Accepted events and the snapshot. *)

Ingest(r) ==
    /\ Len(log) < MaxSeq
    /\ log' = Append(log, r)
    /\ UNCHANGED <<rows, snap, drained, status, spoiled, memberVars, buf, fan, redelivery, poll,
                   sspVars, faults, histVars>>

(* drain_and_apply: a row the replica holds a later version of is left alone. *)
Drain ==
    LET late == PutAll(Nothing, Span(drained + 1, Len(log))) IN
    /\ rows' = [r \in Rows |-> Max({rows[r], late[r]})]
    /\ snap' = IF drained = Len(log) THEN snap ELSE Len(log)
    /\ drained' = Len(log)

(* snapshot_updater_tick under drain_lock. *)
SnapshotTick ==
    /\ ~HasActive(state)
    /\ Drain /\ status' = "ready"
    /\ UNCHANGED <<log, spoiled, memberVars, buf, fan, redelivery, poll, sspVars, faults, histVars>>

(* The sweeps: an SSP past its bound in a bootstrap state, with its process or
   its poll task gone, or a serving one that is silent, goes.  A slow replay or
   heartbeat, or a change between the sweep's read and its removal, makes it
   take any other SSP. *)
Evict(s) ==
    /\ state[s] \in Active \/ s \in inPool
    /\ IF \/ state[s] \in Active /\ (proc[s] = "down" \/ poll[s][gen[s]].pc = "none")
          \/ state[s] \notin Active /\ ~Answers(s)
       THEN UNCHANGED faults ELSE Fault("sweep")
    /\ RemoveSsp(s)
    /\ UNCHANGED <<schedVars, fan, redelivery, poll, sspVars, histVars>>

-----------------------------------------------------------------------------
(* Registration and heartbeat (ssp_management.rs). *)

NoSibling(s) == FALSE   \* mutant: a registration drains whoever else bootstraps
SiblingActive(s) == HasActive([state EXCEPT ![s] = "none"])

(* The critical section of handle_register under drain_lock, for an SSP that
   starts, restarts, or tries again because its call timed out.  The drain is
   skipped while a sibling bootstraps, or when the replica is busy. *)
Register(s) ==
    /\ proc[s] # "up" /\ gen[s] < MaxGen
    /\ IF proc[s] = "down" THEN UNCHANGED faults ELSE Fault("retry")
    /\ status' = "frozen"
    /\ \/ ~SiblingActive(s) /\ Drain
       \/ UNCHANGED <<rows, snap, drained>>
    /\ inPool' = inPool \cup {s}
    /\ state' = [state EXCEPT ![s] = "bootstrapping"]
    /\ buf' = [buf EXCEPT ![s] = <<>>] /\ overflowed' = overflowed \ {s}
    /\ bootSeq' = [bootSeq EXCEPT ![s] = snap']
    /\ gen' = [gen EXCEPT ![s] = @ + 1]
    /\ poll' = [poll EXCEPT ![s][gen[s] + 1] = [NoPoll EXCEPT !.pc = "health", !.from = snap']]
    /\ proc' = [proc EXCEPT ![s] = "loading"]
    /\ waived' = IF spoiled THEN waived \cup {s} ELSE waived \ {s}
    /\ strayed' = {x \in strayed : x[1] # s}
    /\ UNCHANGED <<log, spoiled, resync, failures, fan, redelivery, shown>>

(* The SSP has paged the replica in through the proxy and goes Ready: where its rows are
   not the ones its registration was answered with, handle_bootstrap_verify settles the
   dispute against what the replica holds. *)
Load(s) ==
    /\ proc[s] = "loading"
    /\ proc' = [proc EXCEPT ![s] = "up"]
    /\ shown' = [shown EXCEPT ![s] = rows]
    /\ UNCHANGED <<schedVars, memberVars, buf, fan, redelivery, poll, faults, histVars>>

CrashSsp(s) ==
    /\ proc[s] # "down" /\ Fault("crash")
    /\ proc' = [proc EXCEPT ![s] = "down"] /\ shown' = [shown EXCEPT ![s] = Nothing]
    /\ UNCHANGED <<schedVars, memberVars, buf, fan, redelivery, poll, histVars>>

(* An SSP the scheduler does not know, has flagged, or has dropped events of. *)
ForgetsOverflow(s) == s \notin inPool \/ s \in resync   \* mutant
MustRejoin(s) == s \notin inPool \/ s \in resync \/ s \in overflowed

(* handle_heartbeat: unknown, flagged for resync (the flag is taken) or
   overflowed; each sends the SSP back to registering, unless the answer to
   the taken flag is lost. *)
Heartbeat(s) ==
    /\ Answers(s) /\ MustRejoin(s)
    /\ resync' = IF s \in inPool THEN resync \ {s} ELSE resync
    /\ \/ /\ proc' = [proc EXCEPT ![s] = "down"] /\ shown' = [shown EXCEPT ![s] = Nothing]
          /\ UNCHANGED faults
       \/ s \in inPool /\ Fault("lost") /\ UNCHANGED sspVars
    /\ UNCHANGED <<schedVars, inPool, state, overflowed, gen, bootSeq, failures, buf, fan,
                   redelivery, poll, histVars>>

-----------------------------------------------------------------------------
(* The fan-out consumer: fan_out_event and fan_out_batch. *)

Idle == \A s \in Ssps : fan.to[s] = NoCopy

(* One pool lock settles who is posted the events and who gets them queued. *)
FanTake ==
    /\ Idle
    /\ \E last \in (fan.last + 1)..Len(log) :
        LET events == Span(fan.last + 1, last)
            queue == {s \in inPool : state[s] \in Queues}
        IN /\ Len(events) <= MaxBatch
           /\ fan' = [last |-> last,
                      to |-> [s \in Ssps |-> IF s \in inPool /\ state[s] = "ready"
                                             THEN [st |-> "pending", next |-> fan.last + 1]
                                             ELSE NoCopy]]
           /\ buf' = [s \in Ssps |-> IF s \in queue THEN Buffered(s, events).buf ELSE buf[s]]
           /\ overflowed' = overflowed \cup {s \in queue : Buffered(s, events).over}
    /\ UNCHANGED <<schedVars, inPool, state, resync, gen, bootSeq, failures, redelivery, poll,
                   sspVars, faults, histVars>>

(* The posts to one Ready SSP, each carrying one event or an all-or-nothing
   group.  They stop at the first that is not answered with a success; one
   that timed out may have been applied. *)
FanPost(s) ==
    LET first == fan.to[s].next
        clean(a, b) == \A e \in a..b : e \notin Poison
        applied(to) == shown' = [shown EXCEPT ![s] = PutAll(@, Span(first, to))]
    IN
    /\ fan.to[s].st = "pending"
    /\ \/ /\ Answers(s) /\ clean(first, fan.last) /\ applied(fan.last)
          /\ fan' = [fan EXCEPT !.to[s] = NoCopy]
          /\ UNCHANGED faults
       \/ /\ ~Answers(s) /\ UNCHANGED <<shown, faults>>
          /\ fan' = [fan EXCEPT !.to[s].st = "failed"]
       \/ \E from \in first..fan.last : \E to \in from..fan.last :
            /\ Answers(s) /\ clean(first, from - 1)
            /\ fan' = [fan EXCEPT !.to[s] = [st |-> "failed", next |-> from]]
            /\ \/ ~clean(from, to) /\ applied(from - 1) /\ UNCHANGED faults
               \/ clean(from, to) /\ Fault("post") /\ (applied(from - 1) \/ applied(to))
    /\ UNCHANGED <<schedVars, memberVars, buf, redelivery, poll, proc, histVars>>

(* A failed copy, once every post has returned: mark_lagging, queue what was
   not delivered, and one redelivery task for a Ready SSP that lags now. *)
FanMark(s) ==
    LET lags == state[s] = "ready"
        events == Span(fan.to[s].next, fan.last)
    IN
    /\ \A q \in Ssps : fan.to[q].st # "pending"
    /\ fan.to[s].st = "failed"
    /\ fan' = [fan EXCEPT !.to[s] = NoCopy]
    /\ state' = [state EXCEPT ![s] = IF lags THEN "lagging" ELSE @]
    /\ IF state'[s] \in Queues
       THEN /\ buf' = [buf EXCEPT ![s] = Buffered(s, events).buf]
            /\ overflowed' = IF Buffered(s, events).over THEN overflowed \cup {s} ELSE overflowed
       ELSE UNCHANGED <<buf, overflowed>>
    /\ IF lags
       THEN \E i \in Slots :
               /\ redelivery[s][i] = NoTask
               /\ redelivery' = [redelivery EXCEPT ![s][i] =
                                    [pc |-> "start", gen |-> gen[s], batch |-> <<>>]]
       ELSE UNCHANGED redelivery
    /\ UNCHANGED <<schedVars, inPool, resync, gen, bootSeq, failures, poll, sspVars, faults, histVars>>

-----------------------------------------------------------------------------
(* redeliver_to_lagging_ssp. *)

SetTask(s, i, task) == redelivery' = [redelivery EXCEPT ![s][i] = task]

(* Under one pool lock: stop, take the queue, or find it empty and go Ready. *)
RedeliverTake(s, i) ==
    LET task == redelivery[s][i] IN
    /\ task.pc = "start"
    /\ \/ /\ s \notin inPool \/ state[s] # "lagging" \/ s \in overflowed
          /\ SetTask(s, i, NoTask)
          /\ UNCHANGED <<memberVars, buf, strayed>>
       \/ /\ s \in inPool /\ state[s] = "lagging" /\ s \notin overflowed
          /\ Stray(s, task.gen, "redelivery")
          /\ buf' = [buf EXCEPT ![s] = <<>>]
          /\ IF buf[s] = <<>>
             THEN MarkReady(s) /\ SetTask(s, i, NoTask)
             ELSE /\ SetTask(s, i, [task EXCEPT !.pc = "post", !.batch = buf[s]])
                  /\ UNCHANGED memberVars
    /\ UNCHANGED <<schedVars, fan, poll, sspVars, faults, waived>>

(* One post.  A refused or unanswered one puts the rest back at the front,
   whatever became of the SSP meanwhile. *)
RedeliverPost(s, i) ==
    LET task == redelivery[s][i]
        e == Head(task.batch)
        rest == Tail(task.batch)
    IN
    /\ task.pc = "post"
    /\ Stray(s, task.gen, "redelivery")
    /\ \/ /\ Answers(s) /\ e \notin Poison
          /\ shown' = [shown EXCEPT ![s] = Put(@, e)]
          /\ SetTask(s, i, [task EXCEPT !.batch = rest, !.pc = IF rest = <<>> THEN "start" ELSE "post"])
          /\ UNCHANGED <<buf, faults>>
       \/ /\ IF ~Answers(s) \/ e \in Poison THEN UNCHANGED <<shown, faults>>
             ELSE Fault("post") /\ (UNCHANGED shown \/ shown' = [shown EXCEPT ![s] = Put(@, e)])
          /\ buf' = [buf EXCEPT ![s] = task.batch \o @]
          /\ SetTask(s, i, [task EXCEPT !.batch = <<>>, !.pc = "start"])
    /\ UNCHANGED <<schedVars, memberVars, fan, poll, proc, waived>>

-----------------------------------------------------------------------------
(* poll_and_replay_ssp, for the g-th registration of s. *)

SetPoll(s, g, task) == poll' = [poll EXCEPT ![s][g] = task]
Goto(s, g, pc) == SetPoll(s, g, [NoPoll EXCEPT !.pc = pc])   \* drops what is not used again
NeverSuperseded(s, g) == FALSE   \* mutant
Superseded(s, g) == gen[s] # g
others == <<fan, redelivery>>

(* Phase 1.  The pool check of one turn precedes its health probe, so a probe
   that finds the SSP ready may follow a removal or a new registration. *)
PollHealth(s, g) ==
    /\ poll[s][g].pc = "health"
    /\ \/ (s \notin inPool \/ Superseded(s, g)) /\ UNCHANGED faults /\ Goto(s, g, "failed")
       \/ Answers(s) /\ UNCHANGED faults /\ SetPoll(s, g, [poll[s][g] EXCEPT !.pc = "mark"])
       \/ /\ IF proc[s] = "down" THEN UNCHANGED faults ELSE Fault("timeout")
          /\ Goto(s, g, "failed")              \* timed out, or the SSP says "failed"
    /\ UNCHANGED <<schedVars, memberVars, buf, others, sspVars, histVars>>

(* Phase 2: mark_replaying, which does not ask whether s is in the pool. *)
PollMark(s, g) ==
    /\ poll[s][g].pc = "mark"
    /\ IF Superseded(s, g) THEN Goto(s, g, "failed") /\ UNCHANGED state
       ELSE SetPoll(s, g, [poll[s][g] EXCEPT !.pc = "collect"]) /\ state' = [state EXCEPT ![s] = "replaying"]
    /\ UNCHANGED <<schedVars, inPool, overflowed, resync, gen, bootSeq, failures, buf, others,
                   sspVars, faults, histVars>>

(* Replay these events next; an empty replay is over at once. *)
Replay(s, g, events, pc, done) ==
    SetPoll(s, g, [poll[s][g] EXCEPT !.todo = events, !.rejected = FALSE,
                      !.seen = IF pc = "last" THEN @ ELSE PutAll(@, events), !.from = 0,
                      !.pc = IF events = <<>> THEN done ELSE pc])

(* Phase 3: the events of the global buffer past the registration's snapshot. *)
PollCollect(s, g) ==
    /\ poll[s][g].pc = "collect"
    /\ Replay(s, g, Span(Max({drained, poll[s][g].from}) + 1, Len(log)), "replay", "drain")
    /\ UNCHANGED <<schedVars, memberVars, buf, others, sspVars, faults, histVars>>

(* Phase 4: the SSP's own buffer, until it is found empty. *)
PollDrain(s, g) ==
    /\ poll[s][g].pc = "drain"
    /\ Replay(s, g, buf[s], "replay", "verify")
    /\ buf' = [buf EXCEPT ![s] = <<>>]
    /\ IF buf[s] = <<>> THEN UNCHANGED strayed ELSE Stray(s, g, "poll")
    /\ UNCHANGED <<schedVars, memberVars, others, sspVars, faults, waived>>

(* Rejections that fail the registration: those past the catch-up check. *)
NoneCounts(task) == FALSE   \* mutant
RejectionCounts(task) == task.pc = "last" /\ task.rejected

(* The replay of a batch is over.  Past the check, a rejected event counts. *)
AfterReplay(s, g, task) ==
    IF task.todo # <<>> THEN SetPoll(s, g, task) /\ UNCHANGED resync
    ELSE IF task.pc = "replay"
         THEN SetPoll(s, g, [task EXCEPT !.pc = "drain", !.rejected = FALSE]) /\ UNCHANGED resync
    ELSE IF RejectionCounts(task)
         THEN Goto(s, g, "failed") /\ resync' = resync \cup {s}
    ELSE Goto(s, g, "final") /\ UNCHANGED resync

(* replay_in_order: post the next event; skip a rejected one; retry any other
   failure in place unless the registration is over. *)
PollPost(s, g) ==
    LET task == poll[s][g]
        e == Head(task.todo)
        next == [task EXCEPT !.todo = Tail(@)]
        moot == s \notin inPool \/ Superseded(s, g) \/ s \in overflowed
    IN
    /\ task.pc \in {"replay", "last"}
    /\ \/ /\ Answers(s) /\ e \notin Poison
          /\ shown' = [shown EXCEPT ![s] = Put(@, e)]
          /\ Stray(s, g, "poll") /\ AfterReplay(s, g, next) /\ UNCHANGED faults
       \/ /\ Answers(s) /\ e \in Poison
          /\ AfterReplay(s, g, [next EXCEPT !.rejected = TRUE])
          /\ UNCHANGED <<shown, strayed, faults>>
       \/ /\ ~Answers(s) /\ moot
          /\ Goto(s, g, "failed")
          /\ UNCHANGED <<shown, strayed, faults, resync>>
       \/ /\ Answers(s) /\ e \notin Poison /\ Fault("post")
          /\ \/ UNCHANGED <<shown, strayed>>
             \/ shown' = [shown EXCEPT ![s] = Put(@, e)] /\ Stray(s, g, "poll")
          /\ IF moot THEN Goto(s, g, "failed") ELSE UNCHANGED poll
          /\ UNCHANGED resync
    /\ UNCHANGED <<schedVars, inPool, state, overflowed, gen, bootSeq, failures, buf, others,
                   proc, waived>>

(* What s shows if it took the snapshot and every replayed event. *)
Expected(task) == [r \in Rows |-> IF task.seen[r] = 0 THEN rows[r] ELSE task.seen[r]]

(* verify_catchup_at_m: nothing was replayed, or the SSP's rows, as its /info
   gives them, are the expected ones. *)
Untouched(task) == task.seen = Nothing
CaughtUp(s, task) == Untouched(task) \/ (Answers(s) /\ shown[s] = Expected(task))

AdmitsLate(fails) == fails > AdmitAfter   \* mutant
Admits(fails) == fails >= AdmitAfter

(* reclone_lock: one re-clone at a time. *)
Recloning == \E s \in Ssps, g \in Gens : poll[s][g].pc = "clone"

(* Phase 4b: what the registration does with the verdict.  A re-clone takes its seq
   before it fetches. *)
PollVerify(s, g) ==
    LET task == poll[s][g]
        fails == failures[s] + 1
    IN
    /\ task.pc = "verify"
    /\ \/ /\ CaughtUp(s, task)
          /\ failures' = [failures EXCEPT ![s] = 0]
          /\ Goto(s, g, "final")
          /\ UNCHANGED <<waived, faults>>
       \/ /\ ~Untouched(task)      \* /info did not answer: admitted unchecked
          /\ IF Answers(s) THEN Fault("info") ELSE UNCHANGED faults
          /\ Goto(s, g, "final")
          /\ waived' = waived \cup {s}
          /\ UNCHANGED failures
       \/ /\ Answers(s) /\ ~CaughtUp(s, task) /\ UNCHANGED faults
          /\ \/ /\ Superseded(s, g)
                /\ Goto(s, g, "failed") /\ UNCHANGED <<failures, waived>>
             \/ /\ ~Superseded(s, g) /\ Admits(fails)
                /\ Goto(s, g, "final")
                /\ failures' = [failures EXCEPT ![s] = 0]
                /\ waived' = waived \cup {s}
             \/ /\ ~Superseded(s, g) /\ ~Admits(fails)
                /\ failures' = [failures EXCEPT ![s] = fails]
                /\ IF fails = RecloneAfter /\ ~Recloning
                   THEN SetPoll(s, g, [NoPoll EXCEPT !.pc = "clone", !.from = Len(log)])
                   ELSE Goto(s, g, "flag")
                /\ UNCHANGED waived
    /\ UNCHANGED <<schedVars, inPool, state, overflowed, resync, gen, bootSeq, buf, others,
                   sspVars, strayed>>

(* What a fetch that began after event n brings: of every row some version since. *)
Fetched(n) == {c \in [Rows -> 0..Len(log)] : \A r \in Rows : \E k \in n..Len(log) : c[r] = At(k)[r]}
Unverified == {s \in Ssps : state[s] \in Active}

(* The replica now has these rows and this seq; it is short of events when it was reset
   and not loaded, or when a drain ran during the fetch. *)
Replaced(rs, n, short) ==
    /\ rows' = rs /\ snap' = n /\ spoiled' = short
    /\ waived' = IF short THEN waived \cup Unverified ELSE waived

(* reclone_replica_from_upstream: fetched and loaded; or the fetch fails; or the load
   does, part of the way, or only its commit. *)
PollClone(s, g) ==
    LET n == poll[s][g].from IN
    /\ poll[s][g].pc = "clone"
    /\ \/ /\ \E c \in Fetched(n) : Replaced(c, n, drained > n \/ snap > n)
          /\ Goto(s, g, "flagall")
       \/ /\ "clone" \in Faults
          /\ \/ UNCHANGED <<rows, snap, spoiled, waived>>
             \/ \E c \in Fetched(n), R \in SUBSET Rows :
                  \/ Replaced([r \in Rows |-> IF r \in R THEN c[r] ELSE 0], 0, TRUE)
                  \/ Replaced(c, n, TRUE)
          /\ Goto(s, g, "flag")
    /\ UNCHANGED <<log, drained, status, memberVars, buf, others, sspVars, faults, strayed>>

(* Bug: only the SSP that failed its check is flagged after a re-clone. *)
FlaggedAlone(s, g) == {s}

(* mark_all_for_resync or mark_for_resync, once the replica's lock is released. *)
Flagged(s, g) == IF poll[s][g].pc = "flagall" THEN inPool ELSE {s}

PollFlag(s, g) ==
    /\ poll[s][g].pc \in {"flag", "flagall"}
    /\ resync' = resync \cup Flagged(s, g)
    /\ Goto(s, g, "unfreeze")
    /\ UNCHANGED <<schedVars, inPool, state, overflowed, gen, bootSeq, failures, buf, others,
                   sspVars, faults, histVars>>

(* Phase 5: Ready, atomically with a final drain that comes back empty. *)
PollFinal(s, g) ==
    /\ poll[s][g].pc = "final"
    /\ IF Superseded(s, g) \/ s \in overflowed
       THEN Goto(s, g, "failed") /\ UNCHANGED <<memberVars, buf>>
       ELSE /\ Replay(s, g, buf[s], "last", "unfreeze")
            /\ buf' = [buf EXCEPT ![s] = <<>>]
            /\ IF buf[s] = <<>> THEN MarkReady(s) ELSE UNCHANGED memberVars
    /\ UNCHANGED <<schedVars, others, sspVars, faults, histVars>>

(* Phase 6: reads the pool, then writes the status, without drain_lock. *)
PollUnfreeze(s, g) ==
    /\ \/ /\ poll[s][g].pc = "unfreeze"
          /\ SetPoll(s, g, IF HasActive(state) THEN NoPoll ELSE [NoPoll EXCEPT !.pc = "thaw"])
          /\ UNCHANGED status
       \/ /\ poll[s][g].pc = "thaw"
          /\ status' = "ready" /\ SetPoll(s, g, NoPoll)
    /\ UNCHANGED <<log, rows, snap, drained, spoiled, memberVars, buf, others, sspVars, faults,
                   histVars>>

(* The task failed: under drain_lock, drop the registration if it is current. *)
PollCleanup(s, g) ==
    /\ poll[s][g].pc = "failed"
    /\ SetPoll(s, g, NoPoll)
    /\ IF Superseded(s, g) THEN UNCHANGED <<memberVars, buf, status>>
       ELSE /\ RemoveSsp(s)
            /\ status' = IF HasActive(state') THEN status ELSE "ready"
    /\ UNCHANGED <<log, rows, snap, drained, spoiled, others, sspVars, faults, histVars>>

-----------------------------------------------------------------------------
Poll(s, g) ==
    \/ PollHealth(s, g) \/ PollMark(s, g) \/ PollCollect(s, g) \/ PollDrain(s, g)
    \/ PollPost(s, g) \/ PollVerify(s, g) \/ PollClone(s, g) \/ PollFlag(s, g)
    \/ PollFinal(s, g) \/ PollUnfreeze(s, g) \/ PollCleanup(s, g)
Redeliver(s) == \E i \in Slots : RedeliverTake(s, i) \/ RedeliverPost(s, i)
FanOut == FanTake \/ \E s \in Ssps : FanPost(s) \/ FanMark(s)
Ssp(s) == Register(s) \/ Load(s) \/ Heartbeat(s)

Next ==
    \/ \E r \in Rows : Ingest(r)
    \/ SnapshotTick \/ FanOut
    \/ \E s \in Ssps : \/ Ssp(s) \/ CrashSsp(s) \/ Evict(s) \/ Redeliver(s)
                       \/ \E g \in Gens : Poll(s, g)

Spec ==
    /\ Init /\ [][Next]_vars
    /\ WF_vars(FanOut)
    /\ \A s \in Ssps : /\ WF_vars(Ssp(s)) /\ WF_vars(Evict(s)) /\ WF_vars(Redeliver(s))
                       /\ \A g \in Gens : WF_vars(Poll(s, g))

-----------------------------------------------------------------------------
(* Properties. *)

(* What s must show: every event fanned out so far.  Of a batch that is still
   being posted to it, or that it is about to be marked lagging for, only the
   delivered part is due. *)
Due(s) == IF fan.to[s] = NoCopy THEN fan.last ELSE fan.to[s].next - 1
Current(s) == \A r \in Rows : shown[s][r] >= At(Due(s))[r]
Serving(s) == s \in inPool /\ state[s] = "ready" /\ Answers(s)

(* An SSP on the live path shows every event fanned out so far, or a later one
   of the same row, whatever was refused, timed out, buffered, overflowed,
   replayed or redelivered before: router.rs and ssp_management.rs let it go
   Ready only with an empty buffer.  Left out are an SSP the scheduler admitted
   without a passed catch-up check, one that a task of an earlier registration
   of the same id interfered with, and one that bootstrapped from a replica a
   re-clone had left short of events. *)
ReadyIsCurrent ==
    \A s \in Ssps : Serving(s) /\ s \notin waived /\ (\A x \in strayed : x[1] # s) => Current(s)

(* The replica an SSP pages in is the one whose seq and hashes its
   registration was answered with: no drain, by the updater or by a sibling's
   registration, moves it underneath.  Only a re-clone does: one that succeeds
   flags the SSP, in a step of its own; of one that fails after its reset the
   SSP hears nothing, and its registration counts as waived. *)
SnapshotHeld ==
    \A s \in inPool : proc[s] = "loading" /\ state[s] = "bootstrapping"
                      => \/ snap = bootSeq[s] \/ s \in resync \/ s \in waived
                         \/ \E q \in Ssps, g \in Gens : poll[q][g].pc = "flagall"

(* Once the faults stop, every SSP ends up on the live path, through redelivery,
   replay or another bootstrap: no retry loop, withheld admission, taken resync
   flag or overflow parks it forever.  It then shows every accepted event, unless
   an earlier registration's task interfered or a re-clone left the replica short
   of events, which the scheduler does not notice by itself. *)
EverySspCatchesUp ==
    <>[](\A s \in Ssps :
           /\ Serving(s)
           /\ (\A x \in strayed : x[1] # s) /\ ~spoiled => shown[s] = At(Len(log)))
=============================================================================
