---------------------------- MODULE WorkflowRun ----------------------------
(***************************************************************************)
(* One workflow run of the schedule engine (packages/schedule-core): the   *)
(* schedule run that owns it, its step rows, the jobs of its steps, and    *)
(* the passes that drive them.  A pass is one call of advance_workflow,    *)
(* stop_workflow_run, spawn_workflow or retry_workflow, by the sweep of    *)
(* any scheduler process, by the observer of a finished job or by an       *)
(* operator.  Passes run concurrently and share only the database: every   *)
(* statement is one atomic step, and what a pass has read may be stale     *)
(* when it writes.  A process may die between any two statements.          *)
(*                                                                         *)
(* History is kept: neither the retention prune nor history mode           *)
(* failures-only deletes rows here.  No statement leaves a row dispatched  *)
(* without a job (TypeOK), so the branches of the code for rows in that    *)
(* state have no counterpart.                                              *)
(***************************************************************************)
EXTENDS Naturals, FiniteSets

CONSTANTS
    Steps,               \* the nodes of the DAG
    Deps,                \* depends_on of each step
    Passes,              \* how many passes may be in flight at once
    MaxDispatchAttempts, \* MAX_DISPATCH_ATTEMPTS
    Scenarios,           \* the sets of faults that may strike a run, each fault once
    MaxRetries           \* bound on retry_count

ASSUME DagAssumption == Deps \in [Steps -> SUBSET Steps] /\ Steps # {}

(* "crash": a process dies.  "create", "row": the database refuses a job, a row of the
   skeleton.  "kill", "retry": an operator calls it.  "reap": the reaper finds the run
   overdue.  "hasty": the retry does not wait for the passes that stop the run. *)
ASSUME ScenarioAssumption ==
    UNION Scenarios \subseteq {"crash", "create", "row", "kill", "reap", "retry", "hasty"}
ASSUME BoundsAssumption ==
    /\ MaxDispatchAttempts \in Nat
    /\ MaxRetries \in Nat

VARIABLES
    sched,   \* status of the _00_schedule_run row
    wf,      \* the _00_workflow_run row
    step,    \* the _00_step_run rows
    job,     \* the outbox rows, one per step and attempt
    pass,    \* what each pass in flight has read and where it is
    upset,   \* history: a pass set out to stop the run, or took it up half spawned
    spent    \* the faults and operator calls so far

vars == <<sched, wf, step, job, pass, upset, spent>>

Attempts == 0..MaxRetries
NoJob == MaxRetries + 1
Terminal == {"success", "failed", "skipped"}
RunEnded == {"success", "failed", "killed"}

Row(st) == [st |-> st, job |-> NoJob, tries |-> 0]
Idle ==
    [pc |-> "idle", snap |-> [s \in Steps |-> Row("absent")], todo |-> {},
     at |-> 0, out |-> "running"]

Init ==
    /\ sched = "absent"
    /\ wf \in [st : {"absent"}, kill : {FALSE}, retry : {0}, halt : BOOLEAN]
    /\ step = [s \in Steps |-> Row("absent")]
    /\ job = [s \in Steps |-> [k \in Attempts |-> "absent"]]
    /\ pass = [p \in Passes |-> Idle]
    /\ upset = FALSE
    /\ spent = {}

-----------------------------------------------------------------------------
(* Moving a pass on.  Where control stands is the next statement the pass will send to
   the database; what lies between two statements reads and writes only the pass. *)

At(p, pc) == pass[p].pc = pc
Becomes(p, q) == pass' = [pass EXCEPT ![p] = q]
Goto(p, pc) == Becomes(p, [pass[p] EXCEPT !.pc = pc])
End(p) == Becomes(p, Idle)
Enters(pc, out) == [Idle EXCEPT !.pc = pc, !.out = out]
Done(p, s) == [pass[p] EXCEPT !.todo = @ \ {s}, !.out = "running"]
Seen(q, sts) == {s \in Steps : q.snap[s].st \in sts}
RowsIn(sts) == {s \in Steps : step[s].st \in sts}
Fault(f) ==
    /\ f \notin spent /\ \E S \in Scenarios : spent \cup {f} \subseteq S
    /\ spent' = spent \cup {f}
KeepsRuns == UNCHANGED <<sched, wf, upset, spent>>

-----------------------------------------------------------------------------
(* spawn_workflow.  The schedule run is the gate of the fire and goes first; dag.steps()
   is name order, and names are arbitrary, so the step rows appear in any order. *)

CreateScheduleRun(p) ==
    /\ At(p, "idle") /\ sched = "absent"
    /\ sched' = "running"
    /\ Goto(p, "spawn")
    /\ UNCHANGED <<wf, step, job, upset, spent>>

CreateWorkflowRun(p) ==
    /\ At(p, "spawn")
    /\ wf' = [wf EXCEPT !.st = "running"]
    /\ Becomes(p, [Idle EXCEPT !.pc = "rows", !.todo = Steps])
    /\ UNCHANGED <<sched, step, job, upset, spent>>

CreateStepRow(p, s) ==
    /\ At(p, "rows") /\ s \in pass[p].todo
    /\ step' = [step EXCEPT ![s] = Row("blocked")]
    /\ Becomes(p, IF pass[p].todo = {s} THEN Enters("load", "running") ELSE Done(p, s))
    /\ KeepsRuns /\ UNCHANGED job

(* Bug: a refused write fails the schedule run only. *)
SkeletonHalfFailed(p) ==
    /\ pass[p].pc \in {"spawn", "rows"}
    /\ Fault("row")
    /\ Becomes(p, Enters("endSched", "failed"))
    /\ UNCHANGED <<sched, wf, step, job, upset>>

(* A write of the skeleton is refused: fail_unspawnable_run fails the workflow run and
   then the schedule run, whether or not there is a workflow run. *)
SkeletonRefused(p) ==
    /\ pass[p].pc \in {"spawn", "rows"}
    /\ Fault("row")
    /\ Becomes(p, Enters("stopRun", "failed"))
    /\ UNCHANGED <<sched, wf, step, job, upset>>

-----------------------------------------------------------------------------
(* advance_workflow. *)

Failing(q) == Seen(q, {"failed"}) # {}

(* doomed_steps: the steps not started that wait, through steps not started, for one
   that failed or was skipped.  One forward pass over the topological order computes
   the least set with this property. *)
Doomed(q) ==
    LET open == Seen(q, {"blocked", "ready"})
        lost == Seen(q, {"failed", "skipped"})
        Closed(D) == {s \in open : Deps[s] \cap (D \cup lost) # {}} \subseteq D
    IN  {s \in open : \A D \in SUBSET open : Closed(D) => s \in D}

ToSkip(q) == IF wf.halt THEN Seen(q, {"blocked", "ready"}) ELSE Doomed(q)

(* Bugs: a step is dispatched before its dependencies; stranded steps are forgotten. *)
EligibleIgnoringDeps(q, st) == Seen(q, {st})
EligibleBlockedOnly(q, st) ==
    {s \in Seen(q, {st} \cap {"blocked"}) : \A d \in Deps[s] : q.snap[d].st = "success"}

(* ready_steps, and the same condition for stranded steps. *)
Eligible(q, st) ==
    {s \in Seen(q, {st}) : \A d \in Deps[s] : q.snap[d].st = "success"}

(* The order of a pass: land finished jobs; on a failure skip what it dooms; recover the
   stranded steps, promoted by a pass that died before their job was stamped; claim the
   ready ones; close.  Under halt a failing run dispatches nothing more.  The snapshot is
   not looked at again once the steps to claim are known. *)
AfterClaims(q) == IF q.todo = {} THEN Enters("close", "running") ELSE q

AfterRecovery(q) ==
    IF q.todo = {} THEN AfterClaims([q EXCEPT !.pc = "claim", !.todo = Eligible(q, "blocked"),
                                              !.snap = Idle.snap])
                   ELSE q

AfterSkips(q) ==
    CASE q.todo # {} -> q
      [] q.todo = {} /\ wf.halt /\ Failing(q) -> Enters("close", "running")
      [] OTHER -> AfterRecovery([q EXCEPT !.pc = "recover", !.todo = Eligible(q, "ready")])

AfterLanding(q) ==
    IF q.todo = {}
    THEN AfterSkips([q EXCEPT !.pc = "skip", !.todo = IF Failing(q) THEN ToSkip(q) ELSE {}])
    ELSE q

(* The sweep, or the observer of a job, takes up a run it saw running. *)
Advance(p) ==
    /\ At(p, "idle") /\ wf.st = "running"
    /\ Goto(p, "load")
    /\ KeepsRuns /\ UNCHANGED <<step, job>>

LoadRun(p) ==
    /\ At(p, "load")
    /\ CASE wf.st # "running" -> End(p) /\ UNCHANGED upset
         [] wf.st = "running" /\ wf.kill -> Becomes(p, Enters("stop", "killed")) /\ upset' = TRUE
         [] OTHER -> Becomes(p, [Idle EXCEPT !.pc = "read", !.at = wf.retry]) /\ UNCHANGED upset
    /\ UNCHANGED <<sched, wf, step, job, spent>>

LoadSteps(p) ==
    /\ At(p, "read")
    /\ Becomes(p, AfterLanding([pass[p] EXCEPT !.pc = "land", !.snap = step,
                                               !.todo = RowsIn({"dispatched"})]))
    /\ upset' = (upset \/ RowsIn({"absent"}) # {})
    /\ UNCHANGED <<sched, wf, step, job, spent>>

(* load_job and, for a finished job, finalize_step: two statements.  The snapshot follows
   the job whether or not the guarded write finds the row still dispatched. *)
LandRead(p, s) ==
    /\ At(p, "land") /\ s \in pass[p].todo
    /\ LET read == job[s][pass[p].snap[s].job]
       IN  Becomes(p, IF read = "live"
                      THEN AfterLanding(Done(p, s))
                      ELSE [pass[p] EXCEPT !.pc = "landed", !.out = s, !.snap[s].st = read])
    /\ KeepsRuns /\ UNCHANGED <<step, job>>

(* Bug: the outcome is written whatever the row's status. *)
FinalizeStepUnguarded(s, st) == step' = [step EXCEPT ![s].st = st]

FinalizeStep(s, st) ==
    step' = IF step[s].st = "dispatched" THEN [step EXCEPT ![s].st = st] ELSE step

LandWrite(p) ==
    /\ At(p, "landed")
    /\ LET s == pass[p].out
       IN  /\ FinalizeStep(s, pass[p].snap[s].st)
           /\ Becomes(p, AfterLanding([Done(p, s) EXCEPT !.pc = "land"]))
    /\ KeepsRuns /\ UNCHANGED job

Skip(s) ==
    step' = IF step[s].st \in {"blocked", "ready"} THEN [step EXCEPT ![s].st = "skipped"]
                                                   ELSE step

SkipStep(p, s) ==
    /\ At(p, "skip") /\ s \in pass[p].todo
    /\ Skip(s)
    /\ Becomes(p, AfterSkips([Done(p, s) EXCEPT !.snap[s].st = "skipped"]))
    /\ KeepsRuns /\ UNCHANGED job

Spent(row) == row.tries >= MaxDispatchAttempts

GiveUp(p, s) ==
    /\ At(p, "recover") /\ s \in pass[p].todo
    /\ Spent(pass[p].snap[s])
    /\ step' = IF step[s].st = "ready" THEN [step EXCEPT ![s].st = "failed"] ELSE step
    /\ Becomes(p, AfterRecovery([Done(p, s) EXCEPT !.snap[s].st = "failed"]))
    /\ KeepsRuns /\ UNCHANGED job

(* The attempt is charged before it is made. *)
Recover(p, s) ==
    /\ At(p, "recover") /\ s \in pass[p].todo
    /\ ~Spent(pass[p].snap[s])
    /\ IF step[s].st \in {"ready", "dispatched"}
       THEN /\ step' = [step EXCEPT ![s].tries = @ + 1]
            /\ Becomes(p, [pass[p] EXCEPT !.pc = "create", !.out = s])
       ELSE /\ Becomes(p, AfterRecovery(Done(p, s)))
            /\ UNCHANGED step
    /\ KeepsRuns /\ UNCHANGED job

(* Winning blocked -> ready is the right to dispatch. *)
Claim(p, s) ==
    /\ At(p, "claim") /\ s \in pass[p].todo
    /\ IF step[s].st = "blocked"
       THEN /\ step' = [step EXCEPT ![s].st = "ready"]
            /\ Becomes(p, [pass[p] EXCEPT !.pc = "create", !.out = s])
       ELSE /\ Becomes(p, AfterClaims(Done(p, s)))
            /\ UNCHANGED step
    /\ KeepsRuns /\ UNCHANGED job

(* dispatch_step: the job's id is fixed by the step and the retry_count this pass read,
   and an existing row is taken as created. *)
CreateJob(p) ==
    /\ At(p, "create")
    /\ LET s == pass[p].out k == pass[p].at
       IN  job' = IF job[s][k] = "absent" THEN [job EXCEPT ![s][k] = "live"] ELSE job
    /\ Goto(p, "mark")
    /\ KeepsRuns /\ UNCHANGED step

CreateJobRefused(p) ==
    /\ At(p, "create")
    /\ Fault("create")
    /\ End(p)
    /\ UNCHANGED <<sched, wf, step, job, upset>>

(* Bug: the status is stamped and the job id is not. *)
MarkWithoutJob(p) ==
    /\ At(p, "mark")
    /\ step' = [step EXCEPT ![pass[p].out].st = "dispatched"]
    /\ End(p)
    /\ KeepsRuns /\ UNCHANGED job

MarkDispatched(p) ==
    /\ At(p, "mark")
    /\ LET s == pass[p].out
       IN  /\ step' = IF step[s].st \in {"ready", "dispatched"}
                      THEN [step EXCEPT ![s].st = "dispatched", ![s].job = pass[p].at]
                      ELSE step
           /\ Becomes(p, IF pass[p].snap[s].st = "ready"
                         THEN AfterRecovery([Done(p, s) EXCEPT !.pc = "recover",
                                                               !.snap[s].st = "dispatched"])
                         ELSE AfterClaims([Done(p, s) EXCEPT !.pc = "claim"]))
    /\ KeepsRuns /\ UNCHANGED job

(* Bug: one success makes the run a success. *)
OutcomeOfAny == IF RowsIn({"success"}) # {} THEN "success" ELSE "failed"

Outcome == IF RowsIn({"failed"}) # {} THEN "failed" ELSE "success"

(* The rows are read again; the run ends when there are rows and all are terminal. *)
Close(p) ==
    /\ At(p, "close")
    /\ LET there == Steps \ RowsIn({"absent"})
       IN  Becomes(p, IF there # {} /\ there = RowsIn(Terminal) THEN Enters("endRun", Outcome)
                                                                ELSE Idle)
    /\ KeepsRuns /\ UNCHANGED <<step, job>>

EndsRun(out) == IF wf.st = "running" THEN [wf EXCEPT !.st = out] ELSE wf

(* complete_workflow_run, fail_workflow_run: the pass that ended the run, and only that
   one, mirrors the outcome. *)
EndRun(p) ==
    /\ At(p, "endRun")
    /\ wf' = EndsRun(pass[p].out)
    /\ IF wf.st = "running" THEN Goto(p, "endSched") ELSE End(p)
    /\ UNCHANGED <<sched, step, job, upset, spent>>

(* finalize_schedule_run *)
EndSched(p) ==
    /\ At(p, "endSched")
    /\ sched' = IF sched = "running" THEN pass[p].out ELSE sched
    /\ End(p)
    /\ UNCHANGED <<wf, step, job, upset, spent>>

-----------------------------------------------------------------------------
(* stop_workflow_run: for an operator, for concurrency replace, for the reaper. *)

(* request_workflow_kill: the flag first, then the stop itself. *)
RequestKill(p) ==
    /\ At(p, "idle") /\ wf.st = "running"
    /\ Fault("kill")
    /\ wf' = [wf EXCEPT !.kill = TRUE]
    /\ Goto(p, "kill")
    /\ UNCHANGED <<sched, step, job, upset>>

KillLoad(p) ==
    /\ At(p, "kill")
    /\ IF wf.st = "running" THEN Becomes(p, Enters("stop", "killed")) /\ upset' = TRUE
                            ELSE End(p) /\ UNCHANGED upset
    /\ UNCHANGED <<sched, wf, step, job, spent>>

(* reap_pass: a run past its deadline. *)
Reap(p) ==
    /\ At(p, "idle") /\ wf.st = "running"
    /\ Fault("reap")
    /\ Becomes(p, Enters("stop", "failed"))
    /\ upset' = TRUE
    /\ UNCHANGED <<sched, wf, step, job>>

AfterStops(q) == IF q.todo = {} THEN Enters("stopRun", q.out) ELSE q

(* What has not started is to be skipped.  The jobs of dispatched steps are asked to die,
   best effort: a job may fail at any time (JobEnds), so the request is not a step. *)
StopRead(p) ==
    /\ At(p, "stop")
    /\ Becomes(p, AfterStops([pass[p] EXCEPT !.pc = "stopping",
                                             !.todo = RowsIn({"blocked", "ready"})]))
    /\ KeepsRuns /\ UNCHANGED <<step, job>>

StopStep(p, s) ==
    /\ At(p, "stopping") /\ s \in pass[p].todo
    /\ Skip(s)
    /\ Becomes(p, AfterStops([pass[p] EXCEPT !.todo = @ \ {s}]))
    /\ KeepsRuns /\ UNCHANGED job

(* Unlike EndRun, the schedule run is finalized even when another pass ended the run. *)
StopRun(p) ==
    /\ At(p, "stopRun")
    /\ wf' = EndsRun(pass[p].out)
    /\ Goto(p, "endSched")
    /\ UNCHANGED <<sched, step, job, upset, spent>>

-----------------------------------------------------------------------------
(* retry_workflow *)

Retrying == {p \in Passes : pass[p].pc \in {"retry", "settle", "reset", "reopen"}}

(* An operator's call.  Without "hasty" it comes when the passes that were stopping the run
   are through: one that is not would skip a step the retry has put back to blocked. *)
Retry(p) ==
    /\ At(p, "idle") /\ wf.st \in {"failed", "killed"}
    /\ "hasty" \in UNION Scenarios \/ \A q \in Passes : pass[q].pc \notin {"stop", "stopping", "stopRun"}
    /\ wf.retry + Cardinality(Retrying) < MaxRetries
    /\ Fault("retry")
    /\ Goto(p, "retry")
    /\ UNCHANGED <<sched, wf, step, job, upset>>

AfterResets(q) ==
    CASE q.todo # {} -> q
      [] q.todo = {} /\ Seen(q, {"landable", "reset"}) = {} -> Idle
      [] OTHER -> Enters("reopen", "running")

AfterSettling(q) ==
    IF q.todo = {}
    THEN AfterResets([q EXCEPT !.pc = "reset",
                               !.todo = Seen(q, {"failed", "skipped", "dispatched"})])
    ELSE q

RetryRead(p) ==
    /\ At(p, "retry")
    /\ Becomes(p, AfterSettling([pass[p] EXCEPT !.pc = "settle", !.snap = step,
                                                !.todo = RowsIn({"dispatched"})]))
    /\ KeepsRuns /\ UNCHANGED <<step, job>>

(* Pass A: refuse while a job of a dispatched step is in flight; a success will land. *)
Settle(p, s) ==
    /\ At(p, "settle") /\ s \in pass[p].todo
    /\ LET read == job[s][pass[p].snap[s].job]
       IN  Becomes(p, CASE read = "live" -> Idle
                        [] read = "success" ->
                             AfterSettling([Done(p, s) EXCEPT !.snap[s].st = "landable"])
                        [] OTHER -> AfterSettling(Done(p, s)))
    /\ KeepsRuns /\ UNCHANGED <<step, job>>

Resets(row, seen) ==
    \/ seen.st \in {"failed", "skipped"} /\ row.st \in {"failed", "skipped"}
    \/ seen.st = "dispatched" /\ row.st = "dispatched" /\ row.job = seen.job

(* Pass B: what did not work goes back to blocked.  With nothing reset and nothing to
   land there is nothing to retry. *)
ResetStep(p, s) ==
    /\ At(p, "reset") /\ s \in pass[p].todo
    /\ IF Resets(step[s], pass[p].snap[s])
       THEN /\ step' = [step EXCEPT ![s] = Row("blocked")]
            /\ Becomes(p, AfterResets([Done(p, s) EXCEPT !.snap[s].st = "reset"]))
       ELSE /\ Becomes(p, AfterResets(Done(p, s)))
            /\ UNCHANGED step
    /\ KeepsRuns /\ UNCHANGED job

(* One guarded write reopens the run; the schedule run follows. *)
Reopen(p) ==
    /\ At(p, "reopen")
    /\ IF wf.st \in {"failed", "killed"}
       THEN /\ wf' = [wf EXCEPT !.st = "running", !.kill = FALSE, !.retry = @ + 1]
            /\ Goto(p, "reopenSched")
       ELSE End(p) /\ UNCHANGED wf
    /\ UNCHANGED <<sched, step, job, upset, spent>>

ReopenSched(p) ==
    /\ At(p, "reopenSched")
    /\ sched' = IF sched \in {"failed", "killed"} THEN "running" ELSE sched
    /\ Goto(p, "load")
    /\ UNCHANGED <<wf, step, job, upset, spent>>

-----------------------------------------------------------------------------
(* The process running a pass dies. *)
Crash(p) ==
    /\ ~At(p, "idle")
    /\ Fault("crash")
    /\ End(p)
    /\ UNCHANGED <<sched, wf, step, job, upset>>

(* External: the job runner brings a job to its terminal status. *)
JobEnds(s, k) ==
    /\ job[s][k] = "live"
    /\ \E st \in {"success", "failed"} : job' = [job EXCEPT ![s][k] = st]
    /\ UNCHANGED <<sched, wf, step, pass, upset, spent>>

(* What a pass does by itself once it is under way. *)
Proceed(p) ==
    \/ CreateWorkflowRun(p) \/ LoadRun(p) \/ LoadSteps(p) \/ LandWrite(p)
    \/ CreateJob(p) \/ MarkDispatched(p) \/ Close(p) \/ EndRun(p) \/ EndSched(p)
    \/ KillLoad(p) \/ StopRead(p) \/ StopRun(p)
    \/ RetryRead(p) \/ Reopen(p) \/ ReopenSched(p)
    \/ \E s \in Steps :
         \/ CreateStepRow(p, s) \/ LandRead(p, s) \/ SkipStep(p, s) \/ GiveUp(p, s)
         \/ Recover(p, s) \/ Claim(p, s) \/ StopStep(p, s) \/ Settle(p, s)
         \/ ResetStep(p, s)

Next ==
    \/ \E p \in Passes :
         \/ Proceed(p)
         \/ CreateScheduleRun(p) \/ Advance(p)
         \/ SkeletonRefused(p) \/ CreateJobRefused(p)
         \/ RequestKill(p) \/ Reap(p) \/ Retry(p) \/ Crash(p)
    \/ \E s \in Steps, k \in Attempts : JobEnds(s, k)

(* A process that is not dead goes on with its pass; the sweep comes back every tick; a
   job ends, by its timeout and its bounded retries if not by itself. *)
Fairness ==
    /\ \A p \in Passes : WF_vars(Proceed(p))
    /\ WF_vars(\E p \in Passes : Advance(p))
    /\ WF_vars(\E s \in Steps, k \in Attempts : JobEnds(s, k))

Spec == Init /\ [][Next]_vars /\ Fairness

-----------------------------------------------------------------------------
(* Every row has a status of its table, and a dispatched step has its job: dispatch_step
   stamps the two together, and no stale pass parts them. *)
TypeOK ==
    /\ sched \in {"absent", "running"} \cup RunEnded
    /\ wf.st \in {"absent", "running"} \cup RunEnded
    /\ wf.kill \in BOOLEAN /\ wf.retry \in Attempts /\ wf.halt \in BOOLEAN
    /\ \A s \in Steps :
         /\ step[s].st \in {"absent", "blocked", "ready", "dispatched"} \cup Terminal
         /\ step[s].tries \in Nat
         /\ step[s].job \in Attempts \cup {NoJob}
         /\ step[s].st = "dispatched" => step[s].job \in Attempts
    /\ job \in [Steps -> [Attempts -> {"absent", "live", "success", "failed"}]]

(* A step's job is created only after a job of every dependency has succeeded, whatever
   the passes, retries and crashes in between (advance_workflow, phase 3). *)
DependenciesFirst ==
    \A s \in Steps, k \in Attempts : job[s][k] # "absent" =>
        \A d \in Deps[s] : \E j \in Attempts : job[d][j] = "success"

(* Nobody stopped or retried the run, and no pass took it up before spawn_workflow had
   written all its step rows. *)
Untroubled == wf.retry = 0 /\ ~upset

(* Then a run that ends in success has run every step to success: no interleaving of
   passes, lost dispatch or crash makes it skip one quietly (advance_workflow, phase 4). *)
SuccessIsComplete ==
    wf.st = "success" /\ Untroubled => \A s \in Steps : step[s].st = "success"

(* The schedule run ends as the workflow run did (finalize_owning_schedule_run). *)
ScheduleAgrees ==
    Untroubled /\ wf.st # "absent" /\ sched \in RunEnded => sched = wf.st

(* A step that succeeded stays so: a pass with a stale snapshot, or a retry, never takes
   its outcome back (FINALIZE_STEP, RESET_STEP_FOR_RETRY). *)
SuccessIsKept ==
    [][\A s \in Steps : step[s].st = "success" => step'[s].st = "success"]_vars

(* A run whose rows are all written comes to an end, though processes die with steps promoted
   and not dispatched (advance_workflow, 3a), and its schedule run with it.  The schedule run
   is excused when something failed or the run was retried: a process that dies between the
   two writes leaves it running, and so does a pass that found the run failed before a
   retry and ends it again ahead of ReopenSched. *)
RunTerminates ==
    wf.st = "running" /\ RowsIn({"absent"}) = {} ~>
        wf.st # "running" /\ (sched # "running" \/ spent # {})
=============================================================================
