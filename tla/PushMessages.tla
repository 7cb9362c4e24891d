---------------------------- MODULE PushMessages ----------------------------
(***************************************************************************)
(* A direct push message (packages/push-core, engine.rs): its row in       *)
(* _00_push_message, and the hosts that claim it, send it to the devices   *)
(* of its recipients, retry what failed and record the outcome.  A host    *)
(* may be in process_message twice, from the ingest path (observe_message) *)
(* and from the sweep of its tick, beside the retries of the tick; the     *)
(* tick is single-flight, so its retries and its sweep exclude each other. *)
(* All share the host's retry queue and the one progress entry it keeps    *)
(* for the message.  Messages meet only in the retry queue, so one message *)
(* and a small queue stand for all.                                        *)
(*                                                                         *)
(* Ages are not numbers.  A message whose host is lost is reset by some    *)
(* sweep in the end; one that is reset by its age (stuck_sending_ms, 5     *)
(* min) while a live host still works on it counts as the fault "slow".  A *)
(* retry comes due (2 s) after the one database write that follows its     *)
(* queueing; one that does not is the fault "early".                       *)
(***************************************************************************)
EXTENDS Naturals, FiniteSets

CONSTANTS
    Hosts,       \* processes that run a PushEngine
    Devices,     \* subscriptions of the recipients
    MaxAttempts, \* length of retry_backoff_ms
    QueueCap,    \* retry_queue_cap
    Faults,      \* "crash", "off", "finish", "slow", "early"
    MaxFaults,   \* bound on the faults of a run
    MaxLost      \* bound on the pushes to each device that are accepted, their answer lost

ASSUME PushAssumption ==
    /\ MaxAttempts \in Nat /\ QueueCap \in Nat /\ MaxFaults \in Nat
    /\ MaxLost \in [Devices -> Nat]
    /\ IsFiniteSet(Devices)

VARIABLES
    msg,    \* the row: its status and the delivered count it records
    work,   \* the batches of each host: of its two calls and of its tick
    queue,  \* the retries of each host
    prog,   \* the MsgProgress of each host, or None
    seen,   \* hosts whose ingest path has shown them the new row
    round,  \* history: claims so far
    got,    \* history: how often each device received the push
    lost,   \* history: how often it did and the answer was lost
    hits,   \* history: of each host, the sends that were acknowledged
    mixed,  \* history: retries of a claim may have met the progress of another
    spent   \* faults so far

histVars == <<round, got, lost, hits, mixed>>
vars == <<msg, work, queue, prog, seen, histVars, spent>>

Ended == {"sent", "failed", "cancelled"}
Calls == {"event", "sweep"}
Paths == Calls \cup {"tick"}
None == [delivered |-> 0, outstanding |-> 0]

(* A send: the claim it belongs to, its device, and how often it was tried. *)
Job == [round : Nat, dev : Devices, attempt : 0..MaxAttempts]
Slot(j) == <<j.round, j.dev>>

(* A batch: the jobs still to send, the ones that want another try, and the
   MsgTally of the ones that are answered. *)
Batch(pc, k, jobs) ==
    [pc |-> pc, round |-> k, todo |-> jobs, again |-> {},
     jobs |-> 0, delivered |-> 0, retrying |-> 0]
NoBatch == Batch("idle", 0, {})

Init ==
    /\ msg = [st |-> "absent", delivered |-> 0]
    /\ work = [h \in Hosts |-> [p \in Paths |-> NoBatch]]
    /\ queue = [h \in Hosts |-> {}]
    /\ prog = [h \in Hosts |-> None]
    /\ seen = {}
    /\ round = 0
    /\ got = [d \in Devices |-> 0] /\ lost = [d \in Devices |-> 0]
    /\ hits = [h \in Hosts |-> {}]
    /\ mixed = FALSE
    /\ spent = 0

Fault(f) == f \in Faults /\ spent < MaxFaults /\ spent' = spent + 1
Ticking(h) == work[h]["tick"].pc # "idle" \/ work[h]["sweep"].pc # "idle"

-----------------------------------------------------------------------------
(* External: the application's transaction commits the row, or cancels the message. *)
Commit ==
    /\ msg.st = "absent"
    /\ msg' = [msg EXCEPT !.st = "pending"]
    /\ UNCHANGED <<work, queue, prog, seen, histVars, spent>>

Cancel ==
    /\ msg.st = "pending"
    /\ msg' = [msg EXCEPT !.st = "cancelled"]
    /\ UNCHANGED <<work, queue, prog, seen, histVars, spent>>

(* observe_message: the event may come before the row is visible. *)
Observe(h) ==
    /\ h \notin seen /\ work[h]["event"].pc = "idle"
    /\ seen' = seen \cup {h}
    /\ work' = [work EXCEPT ![h]["event"].pc = "claim"]
    /\ UNCHANGED <<msg, queue, prog, histVars, spent>>

-----------------------------------------------------------------------------
(* process_message *)

(* Bug: the claim does not look at the status. *)
AnyClaimable == msg.st \in {"pending", "sending"}

Claimable == msg.st = "pending"

(* The claim is won.  The rate limits and the subscriptions leave some devices. *)
Claim(h, p) ==
    /\ work[h][p].pc = "claim"
    /\ Claimable
    /\ msg' = [msg EXCEPT !.st = "sending"]
    /\ round' = round + 1
    /\ \E D \in SUBSET Devices :
         work' = [work EXCEPT ![h][p] =
                    Batch("send", round + 1,
                          {[round |-> round + 1, dev |-> d, attempt |-> 0] : d \in D})]
    /\ UNCHANGED <<queue, prog, seen, got, lost, hits, mixed, spent>>

(* The claim is lost, or the row stays invisible for the whole budget. *)
NotClaimed(h, p) ==
    /\ work[h][p].pc = "claim"
    /\ ~Claimable
    /\ work' = [work EXCEPT ![h][p] = NoBatch]
    /\ UNCHANGED <<msg, queue, prog, seen, histVars, spent>>

(* send: the push service takes the push ("ok"), refuses it for good (gone, rejected,
   dropped by a limit, given up: "no") or asks for another try ("retry").  A transport
   error is another try too, and the push may have been taken ("lost"). *)
Outcomes == {"ok", "no", "retry", "lost"}

Answered(b, j, r) ==
    [b EXCEPT !.todo = @ \ {j},
              !.again = IF r \in {"retry", "lost"} THEN @ \cup {j} ELSE @,
              !.jobs = @ + 1,
              !.delivered = IF r = "ok" THEN @ + 1 ELSE @]

Send(h, p, j, r) ==
    /\ work[h][p].pc = "send" /\ j \in work[h][p].todo
    /\ work' = [work EXCEPT ![h][p] = Answered(work[h][p], j, r)]
    /\ got' = IF r \in {"ok", "lost"} THEN [got EXCEPT ![j.dev] = @ + 1] ELSE got
    /\ \/ r # "lost" /\ UNCHANGED lost
       \/ /\ r = "lost" /\ lost[j.dev] < MaxLost[j.dev]
          /\ lost' = [lost EXCEPT ![j.dev] = @ + 1]
    /\ hits' = IF r = "ok" THEN [hits EXCEPT ![h] = @ \cup {Slot(j)}] ELSE hits
    /\ UNCHANGED <<msg, queue, prog, seen, round, mixed, spent>>

(* settle, under the lock: what may be tried again is queued while there is room. *)
MayRetry(b) == {j \in b.again : j.attempt < MaxAttempts}
NextTry(j) == [j EXCEPT !.attempt = @ + 1]

(* Bug: the queue takes one more than its capacity. *)
FittingOneMore(h, n) ==
    IF n + Cardinality(queue[h]) <= QueueCap + 1 THEN n ELSE QueueCap + 1 - Cardinality(queue[h])

Fitting(h, n) ==
    IF n + Cardinality(queue[h]) <= QueueCap THEN n ELSE QueueCap - Cardinality(queue[h])

Settle(h, p, Q) ==
    LET b == work[h][p] IN
    /\ b.pc = "send" /\ b.todo = {}
    /\ Cardinality(Q) = Fitting(h, Cardinality(MayRetry(b)))
    /\ queue' = [queue EXCEPT ![h] = @ \cup {NextTry(j) : j \in Q}]
    /\ work' = [work EXCEPT ![h][p] =
                  [b EXCEPT !.pc = "book", !.again = {}, !.retrying = Cardinality(Q)]]
    /\ UNCHANGED <<msg, prog, seen, histVars, spent>>

(* FINISH_MESSAGE has no guard on the status. *)
Finished(n) == [st |-> IF n > 0 THEN "sent" ELSE "failed", delivered |-> n]

(* write_book has returned.  With no retry the outcome is written; otherwise the
   message's progress is kept for the ticks to come, over what is kept already. *)
RecordCall(h, p) ==
    LET b == work[h][p] IN
    /\ b.pc = "book"
    /\ \/ /\ b.retrying = 0
          /\ msg' = Finished(b.delivered) /\ UNCHANGED prog
       \/ /\ b.retrying > 0
          /\ prog' = [prog EXCEPT ![h] = [delivered |-> b.delivered,
                                          outstanding |-> b.retrying]]
          /\ UNCHANGED msg
    /\ work' = [work EXCEPT ![h][p] = NoBatch]
    /\ UNCHANGED <<queue, seen, histVars, spent>>

-----------------------------------------------------------------------------
(* tick: run_retries, then the sweep. *)

(* Retries queued by a call that has not yet written its book. *)
Young(h) ==
    {j \in queue[h] : work[h]["event"].pc = "book" /\ j.round = work[h]["event"].round}

(* Retries that have come due are taken out of the queue. *)
Take(h, D) ==
    /\ ~Ticking(h)
    /\ work' = [work EXCEPT ![h]["tick"] = Batch("send", 0, D)]
    /\ queue' = [queue EXCEPT ![h] = @ \ D]
    /\ UNCHANGED <<msg, prog, seen, round, got, lost, hits>>

TakeRetries(h) ==
    /\ \E D \in (SUBSET (queue[h] \ Young(h))) \ {{}} : Take(h, D)
    /\ UNCHANGED <<mixed, spent>>

TakeEarly(h) ==
    /\ \E D \in SUBSET queue[h] : D \cap Young(h) # {} /\ Take(h, D)
    /\ Fault("early") /\ mixed' = TRUE

(* Bug: a job that is queued again counts as done. *)
StillOutForgetsRequeued(p, t) == IF t.jobs >= p.outstanding THEN 0 ELSE p.outstanding - t.jobs

(* Bug: only a delivery takes a job off the account. *)
StillOutUntilDelivered(p, t) ==
    IF t.delivered >= p.outstanding THEN 0 ELSE p.outstanding - t.delivered

StillOut(p, t) ==
    IF t.jobs >= p.outstanding + t.retrying THEN 0 ELSE p.outstanding + t.retrying - t.jobs

(* resolve_messages: the tally is folded into the progress, if there is one; the outcome
   is written, the progress entry gone, when no retry is out. *)
Resolve(h) ==
    LET t == work[h]["tick"]
        left == StillOut(prog[h], t)
        delivered == prog[h].delivered + t.delivered
    IN
    /\ t.pc = "book"
    /\ work' = [work EXCEPT ![h]["tick"] = NoBatch]
    /\ \/ prog[h] = None /\ UNCHANGED <<msg, prog, spent>>
       \/ /\ prog[h] # None /\ left > 0
          /\ prog' = [prog EXCEPT ![h] = [delivered |-> delivered, outstanding |-> left]]
          /\ UNCHANGED <<msg, spent>>
       \/ /\ prog[h] # None /\ left = 0
          /\ prog' = [prog EXCEPT ![h] = None]
          /\ \/ msg' = Finished(delivered) /\ UNCHANGED spent
             \/ Fault("finish") /\ UNCHANGED msg
    /\ UNCHANGED <<queue, seen, histVars>>

(* Some host still has work for the message in hand. *)
InHand ==
    \E h \in Hosts : queue[h] # {} \/ \E p \in Paths : work[h][p].pc \in {"send", "book"}

(* Bug: a message whose row is being sent is left alone for ever. *)
NeverReset(h) == FALSE /\ UNCHANGED vars

(* sweep_messages: a message that has been sending for stuck_sending_ms is reset.  Its
   host is lost, *)
ResetStuck(h) ==
    /\ ~Ticking(h) /\ msg.st = "sending" /\ ~InHand
    /\ msg' = [msg EXCEPT !.st = "pending"]
    /\ UNCHANGED <<work, queue, prog, seen, histVars, spent>>

(* or slow: the age of the claim is all the statement looks at. *)
ResetSlow(h) ==
    /\ ~Ticking(h) /\ msg.st = "sending" /\ InHand
    /\ Fault("slow") /\ mixed' = TRUE
    /\ msg' = [msg EXCEPT !.st = "pending"]
    /\ UNCHANGED <<work, queue, prog, seen, round, got, lost, hits>>

(* The sweep takes up a pending message that is due or was missed. *)
Sweep(h) ==
    /\ ~Ticking(h) /\ msg.st = "pending"
    /\ work' = [work EXCEPT ![h]["sweep"].pc = "claim"]
    /\ UNCHANGED <<msg, queue, prog, seen, histVars, spent>>

-----------------------------------------------------------------------------
(* drop_queued: push was turned off (and on again). *)
TurnedOff(h) ==
    /\ ~Ticking(h) /\ queue[h] # {}
    /\ Fault("off")
    /\ queue' = [queue EXCEPT ![h] = {}]
    /\ UNCHANGED <<msg, work, prog, seen, histVars>>

(* finish_message fails after a call: the outcome is logged and not written. *)
FinishFails(h, p) ==
    /\ work[h][p].pc = "book" /\ work[h][p].retrying = 0
    /\ Fault("finish")
    /\ work' = [work EXCEPT ![h][p] = NoBatch]
    /\ UNCHANGED <<msg, queue, prog, seen, histVars>>

Crash(h) ==
    /\ Fault("crash")
    /\ work' = [work EXCEPT ![h] = [p \in Paths |-> NoBatch]]
    /\ queue' = [queue EXCEPT ![h] = {}]
    /\ prog' = [prog EXCEPT ![h] = None]
    /\ UNCHANGED <<msg, seen, histVars>>

(* What a host does by itself. *)
Work(h) ==
    \/ \E p \in Calls : Claim(h, p) \/ NotClaimed(h, p) \/ RecordCall(h, p)
    \/ \E p \in Paths :
         \/ \E j \in work[h][p].todo, r \in Outcomes : Send(h, p, j, r)
         \/ \E Q \in SUBSET MayRetry(work[h][p]) : Settle(h, p, Q)
    \/ Resolve(h)

Next ==
    \/ Commit \/ Cancel
    \/ \E h \in Hosts :
         \/ Work(h) \/ Observe(h) \/ TakeRetries(h) \/ TakeEarly(h)
         \/ ResetStuck(h) \/ ResetSlow(h) \/ Sweep(h)
         \/ TurnedOff(h) \/ Crash(h)
         \/ \E p \in Calls : FinishFails(h, p)

(* A live process finishes what it has begun, and every host ticks. *)
Fairness ==
    \A h \in Hosts :
        WF_vars(Work(h)) /\ WF_vars(TakeRetries(h)) /\ WF_vars(ResetStuck(h)) /\ WF_vars(Sweep(h))

Spec == Init /\ [][Next]_vars /\ Fairness

-----------------------------------------------------------------------------
(* Every variable has its type; the retry queue keeps its cap and no progress entry waits
   for more jobs than there are devices (settle, resolve_messages). *)
TypeOK ==
    /\ msg.st \in {"absent", "pending", "sending"} \cup Ended /\ msg.delivered \in Nat
    /\ \A h \in Hosts :
         /\ \A p \in Paths :
              /\ work[h][p].pc \in {"idle", "claim", "send", "book"}
              /\ work[h][p].todo \subseteq Job /\ work[h][p].again \subseteq Job
         /\ queue[h] \subseteq Job
         /\ Cardinality(queue[h]) <= QueueCap
         /\ prog[h].outstanding <= Cardinality(Devices)

(* A device receives a message once, one more time for each fault at most, and one more
   for each push to it that was accepted and whose answer was lost: the claim is a
   compare-and-swap, a retry follows only a send that was not acknowledged, and a message
   is reset, by its age alone, only after its host was lost or when it is slow
   (process_message, sweep_messages). *)
OncePerFault == \A d \in Devices : got[d] <= 1 + spent + lost[d]

(* What the row records when it ends: never more than the sends that were acknowledged,
   and exactly those of the last claim, over first sends and retries, as long as no
   claim was taken from a live host and no retry ran before its call had written its
   progress (resolve_messages, finish_message). *)
Acknowledged == {d \in Devices : \E h \in Hosts : <<round, d>> \in hits[h]}
RecordsDeliveries ==
    msg.st \in {"sent", "failed"} =>
        /\ msg.delivered <= Cardinality(UNION {hits[h] : h \in Hosts})
        /\ mixed \/ msg.delivered = Cardinality(Acknowledged)

(* A message is found stuck in sending only when something failed, and failed again for
   every claim: as the comment on stuck_sending_ms has it, its host was lost. *)
StuckMeansLost == msg.st = "sending" /\ ~InHand => round <= spent

(* Every message comes to an end (sweep_messages takes up what everybody dropped). *)
EveryMessageEnds == msg.st \in {"pending", "sending"} ~> msg.st \in Ended
=============================================================================
