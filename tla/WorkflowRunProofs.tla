------------------------- MODULE WorkflowRunProofs -------------------------
(***************************************************************************)
(* A workflow run, for any DAG, any number of concurrent passes, attempts  *)
(* and any set of faults: no job is created before its dependencies have   *)
(* succeeded, a success is never taken back, a run that nobody disturbed   *)
(* ends in success only when every step did, and its schedule run ends as  *)
(* it did.                                                                 *)
(*                                                                         *)
(* What makes these hard to keep is that a pass acts on rows it read some  *)
(* statements ago.  The inductive invariants therefore say, for each place *)
(* a pass may stand at, what of its snapshot is still true (PassDone,      *)
(* PassFresh), and that the rows of the skeleton are written by one pass,  *)
(* each once (Spawning).                                                   *)
(***************************************************************************)
EXTENDS WorkflowRun, FiniteSetTheorems, TLAPS

-----------------------------------------------------------------------------
(* Types *)

RowStates == {"absent", "blocked", "ready", "dispatched"} \cup Terminal
SeenStates == RowStates \cup {"landable", "reset", "live"}
JobStates == {"absent", "live", "success", "failed"}
StepRow == [st : RowStates, job : Attempts \cup {NoJob}, tries : Nat]
SeenRow == [st : SeenStates, job : Attempts \cup {NoJob}, tries : Nat]
Places == {"idle", "spawn", "rows", "load", "read", "land", "landed", "skip", "recover",
           "claim", "create", "mark", "close", "endRun", "endSched", "kill", "stop", "stopping",
           "stopRun", "retry", "settle", "reset", "reopen", "reopenSched"}
Pass == [pc : Places, snap : [Steps -> SeenRow], todo : SUBSET Steps, at : Attempts,
         out : {"running"} \cup RunEnded \cup Steps]

PassType(q, jb) ==
    /\ q \in Pass
    /\ q.pc \in {"landed", "create", "mark"} => q.out \in Steps
    /\ q.pc \in {"endRun", "endSched", "stop", "stopping", "stopRun"} => q.out \in RunEnded
    /\ q.pc \in {"land", "landed", "settle"} =>
          \A s \in q.todo : q.snap[s].job \in Attempts /\ jb[s][q.snap[s].job] # "absent"
    /\ q.pc = "landed" => q.snap[q.out].st \in {"success", "failed"}
    /\ q.pc = "mark" => jb[q.out][q.at] # "absent"

RowType(row, jobs) ==
    /\ row \in StepRow
    /\ row.st = "dispatched" => row.job \in Attempts /\ jobs[row.job] # "absent"

RunType ==
    /\ sched \in {"absent", "running"} \cup RunEnded
    /\ wf \in [st : {"absent", "running"} \cup RunEnded, kill : BOOLEAN, retry : Attempts,
               halt : BOOLEAN]
    /\ job \in [Steps -> [Attempts -> JobStates]]
    /\ step \in [Steps -> StepRow] /\ \A s \in Steps : RowType(step[s], job[s])
    /\ pass \in [Passes -> Pass] /\ \A p \in Passes : PassType(pass[p], job)
    /\ upset \in BOOLEAN

(* One retry at most: Fault lets an operator's call happen once. *)
RetryOnce ==
    /\ wf.retry \in {0, 1}
    /\ "retry" \notin spent => wf.retry = 0 /\ Retrying = {}
    /\ \A p, q \in Retrying : p = q
    /\ Retrying # {} => wf.retry = 0 /\ MaxRetries > 0
    /\ \A p \in Passes : At(p, "reopenSched") => wf.retry = 1

-----------------------------------------------------------------------------
(* The skeleton of a run is written by one pass, every row of it once. *)

Spawning ==
    /\ \A p, q \in Passes : pass[p].pc \in {"spawn", "rows"} /\ pass[q].pc \in {"spawn", "rows"}
                            => p = q
    /\ sched = "absent" => wf.st = "absent" /\ \A p \in Passes : At(p, "idle")
    /\ wf.st = "absent" =>
          /\ \A s \in Steps : step[s] = Row("absent")
          /\ \A p \in Passes : pass[p].pc \in {"idle", "spawn", "stopRun", "endSched"}
          /\ \A p, q \in Passes : ~At(p, "idle") /\ ~At(q, "idle") => p = q
    /\ \A p \in Passes : At(p, "spawn") => wf.st = "absent" /\ sched = "running"
    /\ \A p \in Passes : At(p, "rows") =>
          pass[p].todo # {} /\ \A s \in pass[p].todo : step[s] = Row("absent")

-----------------------------------------------------------------------------
(* Dependencies *)

Succeeded(d, jb) == \E j \in Attempts : jb[d][j] = "success"
DepsDone(s, jb) == \A d \in Deps[s] : Succeeded(d, jb)

PassDone(q, jb) ==
    /\ \A d \in Steps : q.snap[d].st = "success" => Succeeded(d, jb)
    /\ q.pc \in {"recover", "claim", "create", "mark"} => \A s \in q.todo : DepsDone(s, jb)
    /\ q.pc \in {"create", "mark"} => DepsDone(q.out, jb)

DepsInv ==
    /\ DependenciesFirst
    /\ \A s \in Steps : step[s].st = "success" => Succeeded(s, job)
    /\ \A p \in Passes : PassDone(pass[p], job)

PassOK(q, jb) == PassType(q, jb) /\ PassDone(q, jb)

CoreInv == RunType /\ RetryOnce /\ Spawning /\ DepsInv

-----------------------------------------------------------------------------
(* A run nobody stopped or retried *)

Past == {"land", "landed", "skip", "recover", "claim", "create", "mark", "close", "endRun"}

(* The two runs end alike. *)
AgreeInv == Untroubled =>
    /\ \A p \in Passes : pass[p].pc \notin {"stop", "stopping"}
    /\ \A p \in Passes : pass[p].pc \in Past => RowsIn({"absent"}) = {}
    /\ \A p \in Passes : At(p, "endSched") => wf.st \in {pass[p].out, "absent"}
    /\ \A p \in Passes : At(p, "stopRun") =>
          /\ pass[p].out = "failed" /\ wf.st \in {"absent", "running"}
          /\ RowsIn({"absent"}) # {}
          /\ \A q \in Passes : pass[q].pc \notin {"spawn", "rows"}
          /\ \A q \in Passes : At(q, "stopRun") => q = p
    /\ \A p \in Passes : At(p, "rows") => wf.st = "running"
    /\ sched \in RunEnded /\ wf.st # "absent" => sched = wf.st

(* No failure was recorded yet, or the run is still to record it. *)
Fresh == Untroubled /\ wf.st \notin {"failed", "killed"}
Settled == {"dispatched", "success", "failed"}

PassFresh(q, st, jb) ==
    /\ q.at = 0
    /\ q.pc \in {"land", "landed"} =>
          \A s \in q.todo : q.snap[s].job = 0 /\ st[s].st \in Settled
    /\ q.pc = "landed" => q.out \in q.todo /\ jb[q.out][0] = q.snap[q.out].st
    /\ q.pc \in {"land", "landed", "skip"} => \A s \in Steps :
          q.snap[s].st = "failed" /\ ~(q.pc = "landed" /\ s = q.out) => st[s].st = "failed"
    /\ q.pc = "skip" => \E s \in Steps : st[s].st = "failed"
    /\ q.pc = "endRun" /\ q.out = "success" => \A s \in Steps : st[s].st = "success"

FreshInv == Fresh =>
    /\ \A p \in Passes : PassFresh(pass[p], step, job)
    /\ \A p \in Passes : pass[p].pc \notin {"retry", "settle", "reset", "reopen"}
    /\ \A s \in Steps : /\ step[s].st = "success" => job[s][0] = "success"
                        /\ step[s].job \in {0, NoJob}
    /\ \A s \in Steps : step[s].st = "skipped" => \E o \in Steps : step[o].st = "failed"
    /\ wf.st = "success" => \A s \in Steps : step[s].st = "success"

-----------------------------------------------------------------------------
(* The pass between two statements *)

LEMMA Bounds == 0 \in Attempts /\ NoJob \notin Attempts
BY BoundsAssumption DEF Attempts, NoJob

LEMMA IdleFields ==
    /\ Idle \in Pass /\ Idle.pc = "idle" /\ Idle.todo = {} /\ Idle.at = 0 /\ Idle.out = "running"
    /\ \A s \in Steps : Idle.snap[s] = Row("absent") /\ Idle.snap[s].st = "absent"
<1>1. Row("absent") \in SeenRow /\ Row("absent").st = "absent"
  BY Bounds DEF Row, SeenRow, SeenStates, RowStates
<1> QED
  BY <1>1, Bounds DEF Idle, Pass, Places

(* A pass that starts anew keeps nothing it has read. *)
LEMMA EntersFields ==
    ASSUME NEW pc \in Places, NEW out \in {"running"} \cup RunEnded \cup Steps
    PROVE  /\ Enters(pc, out) \in Pass
           /\ Enters(pc, out).pc = pc /\ Enters(pc, out).out = out
           /\ Enters(pc, out).todo = {} /\ Enters(pc, out).at = 0
           /\ Enters(pc, out).snap = Idle.snap
BY IdleFields DEF Enters, Pass

LEMMA EntersOK ==
    ASSUME NEW jb, NEW pc \in Places \ {"landed", "create", "mark"},
           NEW out \in {"running"} \cup RunEnded,
           pc \in {"endRun", "endSched", "stop", "stopping", "stopRun"} => out \in RunEnded
    PROVE  PassOK(Enters(pc, out), jb)
BY EntersFields, IdleFields DEF PassOK, PassType, PassDone

LEMMA IdleOK == ASSUME NEW jb PROVE PassOK(Idle, jb)
BY IdleFields DEF PassOK, PassType, PassDone

LEMMA AfterClaimsOK ==
    ASSUME NEW jb, NEW q, PassOK(q, jb), q.pc = "claim"
    PROVE  PassOK(AfterClaims(q), jb) /\ AfterClaims(q).pc \in {"claim", "close"}
BY EntersOK, EntersFields DEF AfterClaims, Places

LEMMA AfterRecoveryOK ==
    ASSUME NEW jb, NEW q, PassOK(q, jb), q.pc = "recover"
    PROVE  PassOK(AfterRecovery(q), jb) /\ AfterRecovery(q).pc \in {"recover", "claim", "close"}
<1> DEFINE x == [q EXCEPT !.pc = "claim", !.todo = Eligible(q, "blocked"), !.snap = Idle.snap]
<1>1. q \in Pass
  BY DEF PassOK, PassType
<1>2. /\ Eligible(q, "blocked") \subseteq Steps
      /\ \A s \in Eligible(q, "blocked") : DepsDone(s, jb)
  BY DagAssumption DEF Eligible, Seen, DepsDone, PassOK, PassDone
<1>3. /\ x \in Pass /\ x.pc = "claim" /\ x.todo = Eligible(q, "blocked") /\ x.snap = Idle.snap
  BY <1>1, <1>2, IdleFields DEF Pass, Places
<1> HIDE DEF x
<1>4. PassOK(x, jb)
  BY <1>2, <1>3, IdleFields DEF PassOK, PassType, PassDone
<1> QED
  BY <1>3, <1>4, AfterClaimsOK DEF AfterRecovery, x

LEMMA AfterSkipsOK ==
    ASSUME NEW jb, NEW q, PassOK(q, jb), q.pc = "skip"
    PROVE  /\ PassOK(AfterSkips(q), jb)
           /\ AfterSkips(q).pc \in {"skip", "recover", "claim", "close"}
<1> DEFINE x == [q EXCEPT !.pc = "recover", !.todo = Eligible(q, "ready")]
<1>1. q \in Pass
  BY DEF PassOK, PassType
<1>2. /\ Eligible(q, "ready") \subseteq Steps
      /\ \A s \in Eligible(q, "ready") : DepsDone(s, jb)
  BY DagAssumption DEF Eligible, Seen, DepsDone, PassOK, PassDone
<1>3. x \in Pass /\ x.pc = "recover" /\ x.todo = Eligible(q, "ready") /\ x.snap = q.snap
  BY <1>1, <1>2 DEF Pass, Places
<1> HIDE DEF x
<1>4. PassOK(x, jb)
  BY <1>2, <1>3 DEF PassOK, PassType, PassDone
<1>5. PassOK(Enters("close", "running"), jb) /\ Enters("close", "running").pc = "close"
  BY EntersOK, EntersFields DEF Places
<1> QED
  BY <1>3, <1>4, <1>5, AfterRecoveryOK DEF AfterSkips, x

LEMMA ToSkipType == ASSUME NEW q PROVE ToSkip(q) \subseteq Steps
BY DEF ToSkip, Seen, Doomed

LEMMA AfterLandingOK ==
    ASSUME NEW jb, NEW q, PassOK(q, jb), q.pc = "land"
    PROVE  /\ PassOK(AfterLanding(q), jb)
           /\ AfterLanding(q).pc \in {"land", "skip", "recover", "claim", "close"}
<1> DEFINE T == IF Failing(q) THEN ToSkip(q) ELSE {}
           x == [q EXCEPT !.pc = "skip", !.todo = T]
<1>1. q \in Pass /\ T \subseteq Steps
  BY ToSkipType DEF PassOK, PassType
<1>2. x \in Pass /\ x.pc = "skip" /\ x.snap = q.snap
  BY <1>1 DEF Pass, Places
<1> HIDE DEF x
<1>3. PassOK(x, jb)
  BY <1>2 DEF PassOK, PassType, PassDone
<1> QED
  BY <1>2, <1>3, AfterSkipsOK DEF AfterLanding, x

LEMMA AfterStopsOK ==
    ASSUME NEW jb, NEW q, PassOK(q, jb), q.pc = "stopping"
    PROVE  PassOK(AfterStops(q), jb) /\ AfterStops(q).pc \in {"stopping", "stopRun"}
<1>1. q.out \in RunEnded
  BY DEF PassOK, PassType
<1>2. "stopRun" \in Places /\ "stopRun" \in Places \ {"landed", "create", "mark"}
  BY DEF Places
<1>3. PassOK(Enters("stopRun", q.out), jb)
  BY <1>1, <1>2, EntersOK
<1>4. Enters("stopRun", q.out).pc = "stopRun"
  BY <1>1, <1>2, EntersFields
<1> QED
  BY <1>3, <1>4 DEF AfterStops

LEMMA AfterResetsOK ==
    ASSUME NEW jb, NEW q, PassOK(q, jb), q.pc = "reset"
    PROVE  PassOK(AfterResets(q), jb) /\ AfterResets(q).pc \in {"reset", "idle", "reopen"}
<1>1. PassOK(Enters("reopen", "running"), jb) /\ Enters("reopen", "running").pc = "reopen"
  BY EntersOK, EntersFields DEF Places
<1> QED
  BY <1>1, IdleOK, IdleFields DEF AfterResets

LEMMA AfterSettlingOK ==
    ASSUME NEW jb, NEW q, PassOK(q, jb), q.pc = "settle"
    PROVE  /\ PassOK(AfterSettling(q), jb)
           /\ AfterSettling(q).pc \in {"settle", "reset", "idle", "reopen"}
<1> DEFINE T == Seen(q, {"failed", "skipped", "dispatched"})
           x == [q EXCEPT !.pc = "reset", !.todo = T]
<1>1. q \in Pass /\ T \subseteq Steps
  BY DEF PassOK, PassType, Seen
<1>2. x \in Pass /\ x.pc = "reset" /\ x.snap = q.snap
  BY <1>1 DEF Pass, Places
<1> HIDE DEF x
<1>3. PassOK(x, jb)
  BY <1>2 DEF PassOK, PassType, PassDone
<1> QED
  BY <1>2, <1>3, AfterResetsOK DEF AfterSettling, x

-----------------------------------------------------------------------------
(* What a statement does to the rest of the state *)

Later(jb, jb2) ==
    \A s \in Steps, k \in Attempts : /\ jb[s][k] = "success" => jb2[s][k] = "success"
                                     /\ jb[s][k] # "absent" => jb2[s][k] # "absent"

LEMMA LaterOK ==
    ASSUME NEW jb, NEW jb2, Later(jb, jb2), NEW q, PassOK(q, jb)
    PROVE  PassOK(q, jb2)
<1>1. q \in Pass /\ q.todo \subseteq Steps /\ q.at \in Attempts
  BY DEF PassOK, PassType, Pass
<1>2. \A d \in Steps : Succeeded(d, jb) => Succeeded(d, jb2)
  BY DEF Later, Succeeded
<1>3. \A s \in Steps : DepsDone(s, jb) => DepsDone(s, jb2)
  BY <1>2, DagAssumption DEF DepsDone
<1>4. PassType(q, jb2)
  BY <1>1 DEF PassOK, PassType, Later
<1>5. PassDone(q, jb2)
  BY <1>1, <1>2, <1>3 DEF PassOK, PassType, PassDone
<1> QED
  BY <1>4, <1>5 DEF PassOK

Wf == [st : {"absent", "running"} \cup RunEnded, kill : BOOLEAN, retry : Attempts, halt : BOOLEAN]
RunVars == sched \in {"absent", "running"} \cup RunEnded /\ wf \in Wf /\ upset \in BOOLEAN

TypedInv == RunType /\ DepsInv

LEMMA KeepsRunVars == RunType /\ UNCHANGED <<sched, wf, upset>> => RunVars'
BY DEF RunType, RunVars, Wf

(* The pass moves on and the rows and jobs stay as they are or get further. *)
LEMMA PassMoves ==
    ASSUME TypedInv, NEW p \in Passes, NEW q, pass' = [pass EXCEPT ![p] = q], PassOK(q, job'),
           RunVars', job' \in [Steps -> [Attempts -> JobStates]], Later(job, job'),
           DependenciesFirst', step' \in [Steps -> StepRow],
           \A s \in Steps : RowType(step'[s], job'[s]),
           \A s \in Steps : step'[s].st = "success" => Succeeded(s, job')
    PROVE  /\ TypedInv'
           /\ pass'[p] = q /\ \A o \in Passes : o # p => pass'[o] = pass[o]
<1>1. pass \in [Passes -> Pass] /\ \A o \in Passes : PassOK(pass[o], job)
  BY DEF TypedInv, RunType, DepsInv, PassOK
<1>2. \A o \in Passes : pass'[o] = IF o = p THEN q ELSE pass[o]
  BY <1>1
<1>3. \A o \in Passes : PassOK(pass'[o], job')
  BY <1>1, <1>2, LaterOK
<1>4. q \in Pass
  BY DEF PassOK, PassType
<1>5. pass' \in [Passes -> Pass]
  BY <1>1, <1>4
<1>6. RunType'
  BY <1>3, <1>5 DEF RunType, RunVars, Wf, PassOK
<1>7. DepsInv'
  BY <1>3 DEF DepsInv, PassOK
<1> QED
  BY <1>2, <1>6, <1>7 DEF TypedInv

LEMMA JobsKept ==
    ASSUME TypedInv, job' = job
    PROVE  /\ job' \in [Steps -> [Attempts -> JobStates]] /\ Later(job, job')
           /\ DependenciesFirst'
BY DEF TypedInv, RunType, DepsInv, DependenciesFirst, Later

(* A statement that writes no row and no job. *)
LEMMA PassOnly ==
    ASSUME TypedInv, NEW p \in Passes, NEW q, pass' = [pass EXCEPT ![p] = q], PassOK(q, job),
           RunVars', UNCHANGED <<step, job>>
    PROVE  /\ TypedInv'
           /\ pass'[p] = q /\ \A o \in Passes : o # p => pass'[o] = pass[o]
<1>1. /\ step' \in [Steps -> StepRow]
      /\ \A s \in Steps : RowType(step'[s], job'[s])
      /\ \A s \in Steps : step'[s].st = "success" => Succeeded(s, job')
  BY DEF TypedInv, RunType, DepsInv
<1> QED
  BY <1>1, JobsKept, PassMoves

(* No row comes into being or loses its success. *)
RowsKept ==
    \A s \in Steps : /\ step[s].st = "absent" => step'[s] = step[s]
                     /\ step[s].st # "absent" => step'[s].st # "absent"
                     /\ step[s].st = "success" => step'[s].st = "success"

(* A statement that writes one row. *)
LEMMA RowMoves ==
    ASSUME TypedInv, NEW p \in Passes, NEW q, pass' = [pass EXCEPT ![p] = q], PassOK(q, job),
           NEW s \in Steps, step' \in [Steps -> StepRow],
           \A o \in Steps : o # s => step'[o] = step[o],
           RowType(step'[s], job[s]), step'[s].st = "success" => Succeeded(s, job),
           RunVars', job' = job
    PROVE  /\ TypedInv'
           /\ pass'[p] = q /\ \A o \in Passes : o # p => pass'[o] = pass[o]
<1>1. /\ \A o \in Steps : RowType(step'[o], job'[o])
      /\ \A o \in Steps : step'[o].st = "success" => Succeeded(o, job')
  BY DEF TypedInv, RunType, DepsInv
<1> QED
  BY <1>1, JobsKept, PassMoves

(* A row whose status changes keeps the rest. *)
LEMMA SetStatus ==
    ASSUME TypedInv, NEW s \in Steps, NEW st \in RowStates \ {"dispatched"},
           step' = [step EXCEPT ![s].st = st]
    PROVE  /\ step' \in [Steps -> StepRow]
           /\ \A o \in Steps : o # s => step'[o] = step[o]
           /\ RowType(step'[s], job[s])
           /\ step'[s].st = st /\ step'[s].job = step[s].job
<1>1. step \in [Steps -> StepRow] /\ step[s] \in StepRow
  BY DEF TypedInv, RunType
<1>2. /\ step' \in [Steps -> StepRow]
      /\ \A o \in Steps : o # s => step'[o] = step[o]
      /\ step'[s].st = st /\ step'[s].job = step[s].job
  BY <1>1 DEF StepRow
<1> QED
  BY <1>2 DEF RowType

LEMMA DoneFields ==
    ASSUME TypedInv, NEW p \in Passes, NEW s
    PROVE  /\ Done(p, s) \in Pass
           /\ Done(p, s).pc = pass[p].pc /\ Done(p, s).todo = pass[p].todo \ {s}
           /\ Done(p, s).snap = pass[p].snap /\ Done(p, s).at = pass[p].at
           /\ Done(p, s).out = "running"
<1>1. pass[p] \in Pass
  BY DEF TypedInv, RunType
<1> QED
  BY <1>1 DEF Done, Pass

(* A pass that is through with a step goes on where it was. *)
LEMMA DoneOK ==
    ASSUME TypedInv, NEW p \in Passes, NEW s,
           pass[p].pc \in {"land", "skip", "recover", "claim", "settle", "reset"}
    PROVE  PassOK(Done(p, s), job)
<1>1. PassOK(pass[p], job)
  BY DEF TypedInv, RunType, DepsInv, PassOK
<1> QED
  BY <1>1, DoneFields DEF PassOK, PassType, PassDone

(* The pass p goes to one of these places and the others stay where they are. *)
Moves(p, to) == pass'[p].pc \in to /\ \A o \in Passes : o # p => pass'[o] = pass[o]

(* A pass notes in its snapshot what became of a step. *)
Noted(q, s, x) == [q EXCEPT !.snap[s].st = x]
NotedAt(q, pc, s, x) == [q EXCEPT !.pc = pc, !.snap[s].st = x]
Landing(q, s, x) == [q EXCEPT !.pc = "landed", !.out = s, !.snap[s].st = x]

Notes(r, q, s, x) ==
    /\ r \in Pass /\ r.todo = q.todo /\ r.at = q.at
    /\ r.snap[s].st = x /\ r.snap[s].job = q.snap[s].job
    /\ \A o \in Steps : o # s => r.snap[o] = q.snap[o]

LEMMA NotedSnap ==
    ASSUME NEW q \in Pass, NEW s \in Steps, NEW x \in SeenStates, NEW pc \in Places
    PROVE  /\ Notes(Noted(q, s, x), q, s, x)
           /\ Noted(q, s, x).pc = q.pc /\ Noted(q, s, x).out = q.out
           /\ Notes(NotedAt(q, pc, s, x), q, s, x)
           /\ NotedAt(q, pc, s, x).pc = pc /\ NotedAt(q, pc, s, x).out = q.out
           /\ Notes(Landing(q, s, x), q, s, x)
           /\ Landing(q, s, x).pc = "landed" /\ Landing(q, s, x).out = s
<1> DEFINE snap == [q.snap EXCEPT ![s].st = x]
<1>1. q.snap \in [Steps -> SeenRow] /\ q.snap[s] \in SeenRow
  BY DEF Pass
<1>2. /\ snap \in [Steps -> SeenRow] /\ snap[s].st = x /\ snap[s].job = q.snap[s].job
      /\ \A o \in Steps : o # s => snap[o] = q.snap[o]
  BY <1>1 DEF SeenRow
<1>3. Noted(q, s, x) = [q EXCEPT !.snap = snap]
  BY DEF Noted
<1>4. NotedAt(q, pc, s, x) = [q EXCEPT !.pc = pc, !.snap = snap]
  BY DEF NotedAt
<1>5. Landing(q, s, x) = [q EXCEPT !.pc = "landed", !.out = s, !.snap = snap]
  BY DEF Landing
<1> HIDE DEF snap
<1>6. /\ Notes(Noted(q, s, x), q, s, x)
      /\ Noted(q, s, x).pc = q.pc /\ Noted(q, s, x).out = q.out
  BY <1>2, <1>3 DEF Pass, Notes
<1>7. /\ Notes(NotedAt(q, pc, s, x), q, s, x)
      /\ NotedAt(q, pc, s, x).pc = pc /\ NotedAt(q, pc, s, x).out = q.out
  BY <1>2, <1>4 DEF Pass, Notes
<1>8. /\ Notes(Landing(q, s, x), q, s, x)
      /\ Landing(q, s, x).pc = "landed" /\ Landing(q, s, x).out = s
  BY <1>2, <1>5 DEF Pass, Notes, Places
<1> QED
  BY <1>6, <1>7, <1>8

LEMMA SpawnStep ==
    ASSUME TypedInv, NEW p \in Passes
    PROVE  /\ CreateScheduleRun(p) => TypedInv' /\ Moves(p, {"spawn"})
           /\ CreateWorkflowRun(p) => TypedInv' /\ Moves(p, {"rows"}) /\ pass'[p].todo = Steps
           /\ SkeletonRefused(p) => TypedInv' /\ Moves(p, {"stopRun"}) /\ pass'[p].out = "failed"
<1>0. pass[p] \in Pass /\ wf \in Wf
  BY DEF TypedInv, RunType, Wf
<1>1. ASSUME CreateScheduleRun(p) PROVE TypedInv' /\ Moves(p, {"spawn"})
  <2> DEFINE q == [pass[p] EXCEPT !.pc = "spawn"]
  <2>1. q \in Pass /\ q.pc = "spawn" /\ q.snap = pass[p].snap
    BY <1>0 DEF Pass, Places
  <2>2. pass' = [pass EXCEPT ![p] = q] /\ UNCHANGED <<step, job>>
    BY <1>1 DEF CreateScheduleRun, Goto, Becomes
  <2>3. RunVars'
    BY <1>1 DEF CreateScheduleRun, RunVars, TypedInv, RunType, Wf
  <2> HIDE DEF q
  <2>4. PassOK(q, job)
    BY <2>1 DEF PassOK, PassType, PassDone, TypedInv, DepsInv
  <2> QED
    BY <2>1, <2>2, <2>3, <2>4, PassOnly DEF Moves
<1>2. ASSUME CreateWorkflowRun(p)
      PROVE  TypedInv' /\ Moves(p, {"rows"}) /\ pass'[p].todo = Steps
  <2> DEFINE q == [Idle EXCEPT !.pc = "rows", !.todo = Steps]
  <2>1. q \in Pass /\ q.pc = "rows" /\ q.snap = Idle.snap /\ q.todo = Steps
    BY IdleFields DEF Pass, Places
  <2>2. pass' = [pass EXCEPT ![p] = q] /\ UNCHANGED <<step, job>>
    BY <1>2 DEF CreateWorkflowRun, Becomes
  <2>3. RunVars'
    BY <1>2 DEF CreateWorkflowRun, RunVars, TypedInv, RunType, Wf
  <2> HIDE DEF q
  <2>4. PassOK(q, job)
    BY <2>1, IdleFields DEF PassOK, PassType, PassDone
  <2> QED
    BY <2>1, <2>2, <2>3, <2>4, PassOnly DEF Moves
<1>3. ASSUME SkeletonRefused(p)
      PROVE  TypedInv' /\ Moves(p, {"stopRun"}) /\ pass'[p].out = "failed"
  <2>1. /\ pass' = [pass EXCEPT ![p] = Enters("stopRun", "failed")] /\ UNCHANGED <<step, job>>
        /\ UNCHANGED <<sched, wf, upset>>
    BY <1>3 DEF SkeletonRefused, Becomes
  <2>2. PassOK(Enters("stopRun", "failed"), job)
    BY EntersOK DEF Places, RunEnded
  <2>3. /\ Enters("stopRun", "failed").pc = "stopRun"
        /\ Enters("stopRun", "failed").out = "failed"
    BY EntersFields DEF Places, RunEnded
  <2>4. RunVars'
    BY <2>1, KeepsRunVars DEF TypedInv
  <2> QED
    BY <2>1, <2>2, <2>3, <2>4, PassOnly DEF Moves
<1> QED
  BY <1>1, <1>2, <1>3

LEMMA CreateStepRowStep ==
    ASSUME TypedInv, NEW p \in Passes, NEW s \in Steps, CreateStepRow(p, s)
    PROVE  /\ TypedInv' /\ Moves(p, {"rows", "load"})
           /\ pass'[p].pc = "rows" => /\ pass'[p].todo = pass[p].todo \ {s}
                                      /\ pass'[p].todo # {}
           /\ \A o \in Steps : step'[o] = IF o = s THEN Row("blocked") ELSE step[o]
<1> DEFINE q == IF pass[p].todo = {s} THEN Enters("load", "running") ELSE Done(p, s)
<1>1. /\ pass' = [pass EXCEPT ![p] = q] /\ step' = [step EXCEPT ![s] = Row("blocked")]
      /\ job' = job /\ UNCHANGED <<sched, wf, upset>>
      /\ pass[p].pc = "rows" /\ s \in pass[p].todo
  BY DEF CreateStepRow, Becomes, KeepsRuns, At
<1>2. RowType(Row("blocked"), job[s]) /\ Row("blocked").st = "blocked"
  BY Bounds DEF RowType, Row, StepRow, RowStates
<1>3. PassOK(Enters("load", "running"), job) /\ Enters("load", "running").pc = "load"
  BY EntersOK, EntersFields DEF Places
<1>4. PassOK(Done(p, s), job)
  BY <1>1, DoneFields DEF PassOK, PassType, PassDone, TypedInv, DepsInv
<1>5. PassOK(q, job) /\ q.pc \in {"rows", "load"}
  BY <1>1, <1>3, <1>4, DoneFields
<1>6. q.pc = "rows" => q.todo = pass[p].todo \ {s} /\ q.todo # {}
  BY <1>1, <1>3, DoneFields
<1> HIDE DEF q
<1>7. RunVars'
  BY <1>1, KeepsRunVars DEF TypedInv
<1>8. /\ step' \in [Steps -> StepRow]
      /\ \A o \in Steps : step'[o] = IF o = s THEN Row("blocked") ELSE step[o]
  BY <1>1, <1>2 DEF TypedInv, RunType, RowType
<1> QED
  BY ZenonT(60), <1>1, <1>2, <1>5, <1>6, <1>7, <1>8, RowMoves DEF Moves

(* The pass begins, is refused or dies. *)
LEMMA PlainStep ==
    ASSUME TypedInv, NEW p \in Passes
    PROVE  /\ Advance(p) => TypedInv' /\ Moves(p, {"load"})
           /\ CreateJobRefused(p) \/ Crash(p) => TypedInv' /\ Moves(p, {"idle"})
           /\ RequestKill(p) => TypedInv' /\ Moves(p, {"kill"})
           /\ Reap(p) => TypedInv' /\ Moves(p, {"stop"})
           /\ Retry(p) => TypedInv' /\ Moves(p, {"retry"})
<1>0. pass[p] \in Pass /\ wf \in Wf /\ PassDone(pass[p], job)
  BY DEF TypedInv, RunType, Wf, DepsInv
<1>1. ASSUME NEW pc \in {"load", "kill", "retry", "spawn", "reopenSched"}
      PROVE  LET q == [pass[p] EXCEPT !.pc = pc] IN PassOK(q, job) /\ q.pc = pc
  <2> DEFINE q == [pass[p] EXCEPT !.pc = pc]
  <2>1. q \in Pass /\ q.pc = pc /\ q.snap = pass[p].snap
    BY <1>0 DEF Pass, Places
  <2> HIDE DEF q
  <2>2. PassOK(q, job)
    BY <1>0, <2>1 DEF PassOK, PassType, PassDone
  <2> QED
    BY <2>1, <2>2 DEF q
<1>2. ASSUME Advance(p) PROVE TypedInv' /\ Moves(p, {"load"})
  <2>1. /\ pass' = [pass EXCEPT ![p] = [pass[p] EXCEPT !.pc = "load"]]
        /\ UNCHANGED <<sched, wf, upset, step, job>>
    BY <1>2 DEF Advance, Goto, Becomes, KeepsRuns
  <2> QED
    BY ZenonT(60), <1>1, <2>1, KeepsRunVars, PassOnly DEF Moves, TypedInv
<1>3. ASSUME CreateJobRefused(p) \/ Crash(p) PROVE TypedInv' /\ Moves(p, {"idle"})
  <2>1. /\ pass' = [pass EXCEPT ![p] = Idle] /\ UNCHANGED <<sched, wf, upset, step, job>>
    BY <1>3 DEF CreateJobRefused, Crash, End, Becomes
  <2> QED
    BY <2>1, IdleOK, IdleFields, KeepsRunVars, PassOnly DEF Moves, TypedInv
<1>4. ASSUME RequestKill(p) PROVE TypedInv' /\ Moves(p, {"kill"})
  <2>1. /\ pass' = [pass EXCEPT ![p] = [pass[p] EXCEPT !.pc = "kill"]]
        /\ UNCHANGED <<sched, upset, step, job>> /\ wf' = [wf EXCEPT !.kill = TRUE]
    BY <1>4 DEF RequestKill, Goto, Becomes
  <2>2. RunVars'
    BY <1>0, <2>1 DEF RunVars, Wf, TypedInv, RunType
  <2> QED
    BY <1>1, <2>1, <2>2, PassOnly DEF Moves
<1>5. ASSUME Reap(p) PROVE TypedInv' /\ Moves(p, {"stop"})
  <2>1. /\ pass' = [pass EXCEPT ![p] = Enters("stop", "failed")]
        /\ UNCHANGED <<sched, wf, step, job>> /\ upset' = TRUE
    BY <1>5 DEF Reap, Becomes
  <2>2. RunVars'
    BY <1>0, <2>1 DEF RunVars, Wf, TypedInv, RunType
  <2>3. PassOK(Enters("stop", "failed"), job) /\ Enters("stop", "failed").pc = "stop"
    BY EntersOK, EntersFields DEF Places, RunEnded
  <2> QED
    BY <2>1, <2>2, <2>3, PassOnly DEF Moves
<1>6. ASSUME Retry(p) PROVE TypedInv' /\ Moves(p, {"retry"})
  <2>1. /\ pass' = [pass EXCEPT ![p] = [pass[p] EXCEPT !.pc = "retry"]]
        /\ UNCHANGED <<sched, wf, upset, step, job>>
    BY <1>6 DEF Retry, Goto, Becomes
  <2> QED
    BY <1>1, <2>1, KeepsRunVars, PassOnly DEF Moves, TypedInv
<1> QED
  BY <1>2, <1>3, <1>4, <1>5, <1>6

LEMMA RowsSame == step' = step => RowsKept
BY DEF RowsKept

(* One row is written by a guarded statement, or none. *)
LEMMA RowWrite ==
    ASSUME TypedInv, NEW p \in Passes, NEW q, pass' = [pass EXCEPT ![p] = q], PassOK(q, job),
           NEW s \in Steps, NEW st \in RowStates \ {"absent", "dispatched"},
           st = "success" => Succeeded(s, job),
           step[s].st \notin {"absent", "success"},
           step' = [step EXCEPT ![s].st = st], job' = job, RunVars'
    PROVE  /\ TypedInv' /\ RowsKept
           /\ pass'[p] = q /\ \A o \in Passes : o # p => pass'[o] = pass[o]
           /\ step'[s].st = st /\ step'[s].job = step[s].job
           /\ \A o \in Steps : o # s => step'[o] = step[o]
<1>1. /\ step' \in [Steps -> StepRow]
      /\ \A o \in Steps : o # s => step'[o] = step[o]
      /\ RowType(step'[s], job[s])
      /\ step'[s].st = st /\ step'[s].job = step[s].job
  BY SetStatus
<1>2. /\ TypedInv'
      /\ pass'[p] = q /\ \A o \in Passes : o # p => pass'[o] = pass[o]
  BY ZenonT(60), <1>1, RowMoves
<1>3. RowsKept
  BY <1>1 DEF RowsKept
<1> QED
  BY <1>1, <1>2, <1>3

LEMMA LoadRunStep ==
    ASSUME TypedInv, NEW p \in Passes, LoadRun(p)
    PROVE  /\ TypedInv' /\ Moves(p, {"idle", "stop", "read"})
           /\ pass'[p].pc = "stop" => upset'
           /\ pass'[p].at = 0 \/ pass'[p].at = wf.retry
<1> DEFINE q == [Idle EXCEPT !.pc = "read", !.at = wf.retry]
<1>0. wf \in Wf
  BY DEF TypedInv, RunType, Wf
<1>1. q \in Pass /\ q.pc = "read" /\ q.snap = Idle.snap /\ q.at = wf.retry
  BY <1>0, IdleFields DEF Pass, Places, Wf
<1>2. /\ pass' \in {[pass EXCEPT ![p] = Idle], [pass EXCEPT ![p] = Enters("stop", "killed")],
                    [pass EXCEPT ![p] = q]}
      /\ pass' = [pass EXCEPT ![p] = Enters("stop", "killed")] => upset' \/ pass'[p] \in {Idle, q}
      /\ UNCHANGED <<sched, wf, step, job>> /\ upset' \in BOOLEAN
  BY DEF LoadRun, Becomes, End, TypedInv, RunType
<1>3. PassOK(q, job)
  BY <1>1, IdleFields DEF PassOK, PassType, PassDone
<1>4. /\ PassOK(Enters("stop", "killed"), job) /\ Enters("stop", "killed").pc = "stop"
      /\ Enters("stop", "killed").at = 0
  BY EntersOK, EntersFields DEF Places, RunEnded
<1>5. RunVars'
  BY <1>2 DEF RunVars, TypedInv, RunType, Wf
<1> HIDE DEF q
<1>6. CASE pass' = [pass EXCEPT ![p] = Idle]
  BY <1>2, <1>5, <1>6, IdleOK, IdleFields, PassOnly DEF Moves
<1>7. CASE pass' = [pass EXCEPT ![p] = Enters("stop", "killed")]
  BY <1>1, <1>2, <1>4, <1>5, <1>7, IdleFields, PassOnly DEF Moves
<1>8. CASE pass' = [pass EXCEPT ![p] = q]
  BY <1>1, <1>2, <1>3, <1>5, <1>8, PassOnly DEF Moves
<1> QED
  BY <1>2, <1>6, <1>7, <1>8

LoadedPass(p) ==
    [pass[p] EXCEPT !.pc = "land", !.snap = step, !.todo = RowsIn({"dispatched"})]

LEMMA LoadStepsStep ==
    ASSUME TypedInv, NEW p \in Passes, LoadSteps(p)
    PROVE  /\ TypedInv' /\ Moves(p, {"land", "skip", "recover", "claim", "close"})
           /\ UNCHANGED <<sched, wf, step, job>>
           /\ upset' = (upset \/ RowsIn({"absent"}) # {})
           /\ pass'[p] = AfterLanding(LoadedPass(p)) /\ LoadedPass(p) \in Pass
           /\ LoadedPass(p).pc = "land" /\ LoadedPass(p).snap = step
           /\ LoadedPass(p).todo = RowsIn({"dispatched"}) /\ LoadedPass(p).at = pass[p].at
<1> DEFINE q == LoadedPass(p)
<1>1. /\ pass[p] \in Pass /\ step \in [Steps -> StepRow] /\ StepRow \subseteq SeenRow
      /\ upset \in BOOLEAN
  BY DEF TypedInv, RunType, StepRow, SeenRow, SeenStates
<1>2. /\ q \in Pass /\ q.pc = "land" /\ q.snap = step /\ q.todo = RowsIn({"dispatched"})
      /\ q.at = pass[p].at
  <2>1. step \in [Steps -> SeenRow] /\ RowsIn({"dispatched"}) \subseteq Steps
    BY <1>1 DEF RowsIn
  <2> QED
    BY <1>1, <2>1 DEF LoadedPass, Pass, Places
<1>3. /\ pass' = [pass EXCEPT ![p] = AfterLanding(q)] /\ UNCHANGED <<sched, wf, step, job>>
      /\ upset' = (upset \/ RowsIn({"absent"}) # {})
  BY DEF LoadSteps, Becomes, LoadedPass
<1>u. upset' \in BOOLEAN
  BY <1>3, Zenon
<1> HIDE DEF q
<1>4. PassType(q, job)
  BY <1>2 DEF PassType, TypedInv, RunType, RowType, RowsIn
<1>5. PassDone(q, job)
  BY <1>2 DEF PassDone, TypedInv, DepsInv
<1>6. PassOK(q, job)
  BY <1>4, <1>5 DEF PassOK
<1>7. RunVars'
  BY <1>3, <1>u DEF RunVars, TypedInv, RunType, Wf
<1>8. /\ PassOK(AfterLanding(q), job)
      /\ AfterLanding(q).pc \in {"land", "skip", "recover", "claim", "close"}
  BY <1>2, <1>6, AfterLandingOK
<1>9. TypedInv' /\ pass'[p] = AfterLanding(q) /\ \A o \in Passes : o # p => pass'[o] = pass[o]
  BY <1>3, <1>7, <1>8, PassOnly
<1> QED
  BY <1>2, <1>3, <1>8, <1>9 DEF Moves, q

LEMMA LandReadStep ==
    ASSUME TypedInv, NEW p \in Passes, NEW s \in Steps, LandRead(p, s)
    PROVE  LET read == job[s][pass[p].snap[s].job] IN
           /\ TypedInv' /\ Moves(p, {"land", "landed", "skip", "recover", "claim", "close"})
           /\ UNCHANGED <<sched, wf, step, job, upset>>
           /\ s \in pass[p].todo /\ pass[p].pc = "land"
           /\ \/ pass'[p] = AfterLanding(Done(p, s))
              \/ /\ pass'[p] = Landing(pass[p], s, read) /\ read \in {"success", "failed"}
                 /\ pass'[p] \in Pass /\ pass'[p].pc = "landed"
<1> DEFINE read == job[s][pass[p].snap[s].job]
           q == Landing(pass[p], s, read)
<1>1. /\ pass[p].pc = "land" /\ s \in pass[p].todo /\ UNCHANGED <<sched, wf, upset, step, job>>
      /\ pass' = [pass EXCEPT ![p] = IF read = "live" THEN AfterLanding(Done(p, s)) ELSE q]
  BY DEF LandRead, At, Becomes, KeepsRuns, Landing
<1>2. PassOK(pass[p], job) /\ pass[p] \in Pass
  BY DEF TypedInv, RunType, DepsInv, PassOK
<1>3. /\ pass[p].snap[s].job \in Attempts /\ read \in JobStates \ {"absent"}
      /\ read = "success" => Succeeded(s, job)
  BY <1>1, <1>2 DEF PassOK, PassType, TypedInv, RunType, Succeeded
<1>4. RunVars'
  BY <1>1, KeepsRunVars DEF TypedInv
<1>5. CASE read = "live"
  <2>1. PassOK(Done(p, s), job) /\ Done(p, s).pc = "land"
    BY <1>1, DoneOK, DoneFields
  <2>2. /\ PassOK(AfterLanding(Done(p, s)), job)
        /\ AfterLanding(Done(p, s)).pc \in {"land", "skip", "recover", "claim", "close"}
    BY <2>1, AfterLandingOK
  <2>3. TypedInv' /\ pass'[p] = AfterLanding(Done(p, s))
        /\ \A o \in Passes : o # p => pass'[o] = pass[o]
    BY <1>1, <1>4, <1>5, <2>2, PassOnly
  <2> QED
    BY <1>1, <2>2, <2>3 DEF Moves
<1>6. CASE read # "live"
  <2>1. read \in {"success", "failed"} /\ read \in SeenStates /\ "landed" \in Places
    BY <1>3, <1>6 DEF JobStates, SeenStates, RowStates, Terminal, Places
  <2>2. /\ q \in Pass /\ q.pc = "landed" /\ q.todo = pass[p].todo /\ q.at = pass[p].at
        /\ q.out = s /\ q.snap[s].st = read /\ q.snap[s].job = pass[p].snap[s].job
        /\ \A o \in Steps : o # s => q.snap[o] = pass[p].snap[o]
    <3>1. PICK x \in SeenStates : x = read
      BY <2>1
    <3>2. Notes(Landing(pass[p], s, x), pass[p], s, x)
          /\ Landing(pass[p], s, x).pc = "landed" /\ Landing(pass[p], s, x).out = s
      <4>1. x \in SeenStates /\ s \in Steps /\ pass[p] \in Pass /\ "landed" \in Places
        BY <1>2, <2>1, <3>1
      <4> QED
        BY <4>1, NotedSnap
    <3>3. Notes(q, pass[p], s, read) /\ q.pc = "landed" /\ q.out = s
      BY <3>1, <3>2
    <3> HIDE DEF q, read
    <3> QED
      BY <3>3 DEF Notes
  <2> HIDE DEF q, read
  <2>3. PassType(q, job)
    <3>1. \A o \in q.todo : o \in Steps /\ q.snap[o].job = pass[p].snap[o].job
      BY <1>2, <2>2 DEF Pass
    <3> QED
      BY <1>1, <1>2, <2>1, <2>2, <3>1 DEF PassOK, PassType
  <2>4. PassDone(q, job)
    BY <1>2, <1>3, <2>2 DEF PassOK, PassDone
  <2>5. TypedInv' /\ pass'[p] = q /\ \A o \in Passes : o # p => pass'[o] = pass[o]
    BY <1>1, <1>4, <1>6, <2>3, <2>4, PassOnly DEF PassOK
  <2> QED
    BY <1>1, <2>1, <2>2, <2>5 DEF Moves, q, read
<1> QED
  BY <1>5, <1>6

LandedPass(p, s) == [Done(p, s) EXCEPT !.pc = "land"]

LEMMA LandWriteStep ==
    ASSUME TypedInv, NEW p \in Passes, LandWrite(p)
    PROVE  LET s == pass[p].out IN
           /\ TypedInv' /\ RowsKept /\ Moves(p, {"land", "skip", "recover", "claim", "close"})
           /\ UNCHANGED <<sched, wf, job, upset>>
           /\ pass[p].pc = "landed" /\ s \in Steps
           /\ pass'[p] = AfterLanding(LandedPass(p, s))
           /\ LandedPass(p, s) \in Pass /\ LandedPass(p, s).pc = "land"
           /\ LandedPass(p, s).todo = pass[p].todo \ {s}
           /\ LandedPass(p, s).snap = pass[p].snap /\ LandedPass(p, s).at = pass[p].at
           /\ step[s].st # "dispatched" => step' = step
           /\ step[s].st = "dispatched" => step'[s].st = pass[p].snap[s].st
           /\ step'[s].job = step[s].job /\ \A o \in Steps : o # s => step'[o] = step[o]
<1> DEFINE s == pass[p].out
           q == LandedPass(p, s)
           st == pass[p].snap[s].st
<1>1. /\ pass[p].pc = "landed" /\ UNCHANGED <<sched, wf, upset, job>>
      /\ pass' = [pass EXCEPT ![p] = AfterLanding(q)]
      /\ step' = IF step[s].st = "dispatched" THEN [step EXCEPT ![s].st = st] ELSE step
  BY DEF LandWrite, At, Becomes, KeepsRuns, LandedPass, FinalizeStep
<1>2. PassOK(pass[p], job) /\ pass[p] \in Pass
  BY DEF TypedInv, RunType, DepsInv, PassOK
<1>3. s \in Steps /\ st \in {"success", "failed"} /\ (st = "success" => Succeeded(s, job))
  BY <1>1, <1>2 DEF PassOK, PassType, PassDone
<1>4. RunVars'
  BY <1>1, KeepsRunVars DEF TypedInv
<1>5. /\ q \in Pass /\ q.pc = "land" /\ q.todo = pass[p].todo \ {s} /\ q.snap = pass[p].snap
      /\ q.at = pass[p].at
  BY DoneFields DEF LandedPass, Pass, Places
<1> HIDE DEF q, s, st
<1>6. PassOK(q, job)
  BY <1>1, <1>2, <1>5 DEF PassOK, PassType, PassDone
<1>7. /\ PassOK(AfterLanding(q), job)
      /\ AfterLanding(q).pc \in {"land", "skip", "recover", "claim", "close"}
  BY <1>5, <1>6, AfterLandingOK
<1>8. CASE step[s].st = "dispatched"
  <2>1. st \in RowStates \ {"absent", "dispatched"} /\ step[s].st \notin {"absent", "success"}
    BY <1>3, <1>8 DEF RowStates, Terminal
  <2>2. step' = [step EXCEPT ![s].st = st]
    BY <1>1, <1>8
  <2>3. /\ TypedInv' /\ RowsKept
        /\ pass'[p] = AfterLanding(q) /\ \A o \in Passes : o # p => pass'[o] = pass[o]
        /\ step'[s].st = st /\ step'[s].job = step[s].job
        /\ \A o \in Steps : o # s => step'[o] = step[o]
    BY <1>1, <1>3, <1>4, <1>7, <2>1, <2>2, RowWrite
  <2> QED
    BY <1>1, <1>3, <1>5, <1>7, <1>8, <2>3 DEF Moves, q, s, st
<1>9. CASE step[s].st # "dispatched"
  <2>1. /\ TypedInv'
        /\ pass'[p] = AfterLanding(q) /\ \A o \in Passes : o # p => pass'[o] = pass[o]
    BY <1>1, <1>4, <1>7, <1>9, PassOnly
  <2> QED
    BY <1>1, <1>3, <1>5, <1>7, <1>9, <2>1, RowsSame DEF Moves, q, s, st
<1> QED
  BY <1>8, <1>9

LEMMA SkipWrite ==
    ASSUME TypedInv, NEW p \in Passes, NEW q, pass' = [pass EXCEPT ![p] = q], PassOK(q, job),
           NEW s \in Steps, Skip(s), job' = job, RunVars'
    PROVE  /\ TypedInv' /\ RowsKept
           /\ pass'[p] = q /\ \A o \in Passes : o # p => pass'[o] = pass[o]
           /\ \A o \in Steps : o # s => step'[o] = step[o]
           /\ step'[s].job = step[s].job
           /\ step'[s].st = step[s].st \/ (step[s].st \in {"blocked", "ready"} /\ step'[s].st = "skipped")
<1>1. CASE step[s].st \in {"blocked", "ready"}
  <2>1. step' = [step EXCEPT ![s].st = "skipped"]
    BY <1>1 DEF Skip
  <2>2. "skipped" \in RowStates \ {"absent", "dispatched"} /\ step[s].st \notin {"absent", "success"}
    BY <1>1 DEF RowStates, Terminal
  <2>3. "skipped" = "success" => Succeeded(s, job)
    OBVIOUS
  <2>4. /\ TypedInv' /\ RowsKept
        /\ pass'[p] = q /\ \A o \in Passes : o # p => pass'[o] = pass[o]
        /\ step'[s].st = "skipped" /\ step'[s].job = step[s].job
        /\ \A o \in Steps : o # s => step'[o] = step[o]
    BY <2>1, <2>2, <2>3, RowWrite
  <2> QED
    BY <1>1, <2>4
<1>2. CASE step[s].st \notin {"blocked", "ready"}
  <2>1. step' = step
    BY <1>2 DEF Skip
  <2> QED
    BY <2>1, PassOnly, RowsSame
<1> QED
  BY <1>1, <1>2

SkippedPass(p, s) == Noted(Done(p, s), s, "skipped")

LEMMA SkipStepStep ==
    ASSUME TypedInv, NEW p \in Passes, NEW s \in Steps, SkipStep(p, s)
    PROVE  /\ TypedInv' /\ RowsKept /\ Moves(p, {"skip", "recover", "claim", "close"})
           /\ UNCHANGED <<sched, wf, job, upset>>
           /\ pass[p].pc = "skip" /\ s \in pass[p].todo
           /\ pass'[p] = AfterSkips(SkippedPass(p, s))
           /\ Notes(SkippedPass(p, s), Done(p, s), s, "skipped")
           /\ SkippedPass(p, s).pc = "skip"
           /\ \A o \in Steps : o # s => step'[o] = step[o]
           /\ step'[s].job = step[s].job
           /\ step'[s].st = step[s].st \/ (step[s].st \in {"blocked", "ready"} /\ step'[s].st = "skipped")
<1> DEFINE q == SkippedPass(p, s)
<1>1. /\ pass[p].pc = "skip" /\ s \in pass[p].todo /\ Skip(s)
      /\ pass' = [pass EXCEPT ![p] = AfterSkips(q)] /\ UNCHANGED <<sched, wf, job, upset>>
  BY DEF SkipStep, At, Becomes, KeepsRuns, SkippedPass, Noted
<1>2. "skipped" \in SeenStates /\ Done(p, s) \in Pass /\ Done(p, s).pc = "skip" /\ "skip" \in Places
  BY <1>1, DoneFields DEF SeenStates, RowStates, Terminal, Places
<1>3. Notes(q, Done(p, s), s, "skipped") /\ q.pc = "skip"
  BY <1>2, NotedSnap DEF SkippedPass
<1>4. PassOK(Done(p, s), job)
  BY <1>1, DoneOK
<1> HIDE DEF q
<1>5. PassOK(q, job)
  BY <1>2, <1>3, <1>4 DEF PassOK, PassType, PassDone, Notes
<1>6. /\ PassOK(AfterSkips(q), job)
      /\ AfterSkips(q).pc \in {"skip", "recover", "claim", "close"}
  BY <1>3, <1>5, AfterSkipsOK
<1>7. RunVars'
  BY <1>1, KeepsRunVars DEF TypedInv
<1>8. /\ TypedInv' /\ RowsKept
      /\ pass'[p] = AfterSkips(q) /\ \A o \in Passes : o # p => pass'[o] = pass[o]
      /\ \A o \in Steps : o # s => step'[o] = step[o]
      /\ step'[s].job = step[s].job
      /\ step'[s].st = step[s].st \/ (step[s].st \in {"blocked", "ready"} /\ step'[s].st = "skipped")
  BY <1>1, <1>6, <1>7, SkipWrite
<1> QED
  BY <1>1, <1>3, <1>6, <1>8 DEF Moves, q

GivenUpPass(p, s) == Noted(Done(p, s), s, "failed")

LEMMA GiveUpStep ==
    ASSUME TypedInv, NEW p \in Passes, NEW s \in Steps, GiveUp(p, s)
    PROVE  /\ TypedInv' /\ RowsKept /\ Moves(p, {"recover", "claim", "close"})
           /\ UNCHANGED <<sched, wf, job, upset>>
           /\ pass[p].pc = "recover"
           /\ pass'[p] = AfterRecovery(GivenUpPass(p, s))
           /\ Notes(GivenUpPass(p, s), Done(p, s), s, "failed")
           /\ GivenUpPass(p, s).pc = "recover"
           /\ \A o \in Steps : o # s => step'[o] = step[o]
           /\ step'[s].job = step[s].job
           /\ step'[s].st = step[s].st \/ (step[s].st = "ready" /\ step'[s].st = "failed")
<1> DEFINE q == GivenUpPass(p, s)
<1>1. /\ pass[p].pc = "recover"
      /\ step' = IF step[s].st = "ready" THEN [step EXCEPT ![s].st = "failed"] ELSE step
      /\ pass' = [pass EXCEPT ![p] = AfterRecovery(q)] /\ UNCHANGED <<sched, wf, job, upset>>
  BY DEF GiveUp, At, Becomes, KeepsRuns, GivenUpPass, Noted
<1>2. "failed" \in SeenStates /\ Done(p, s) \in Pass /\ Done(p, s).pc = "recover" /\ "recover" \in Places
  BY <1>1, DoneFields DEF SeenStates, RowStates, Terminal, Places
<1>3. Notes(q, Done(p, s), s, "failed") /\ q.pc = "recover"
  BY <1>2, NotedSnap DEF GivenUpPass
<1>4. PassOK(Done(p, s), job)
  BY <1>1, DoneOK
<1> HIDE DEF q
<1>5. PassOK(q, job)
  BY <1>2, <1>3, <1>4 DEF PassOK, PassType, PassDone, Notes
<1>6. /\ PassOK(AfterRecovery(q), job)
      /\ AfterRecovery(q).pc \in {"recover", "claim", "close"}
  BY <1>3, <1>5, AfterRecoveryOK
<1>7. RunVars'
  BY <1>1, KeepsRunVars DEF TypedInv
<1>8. CASE step[s].st = "ready"
  <2>1. step' = [step EXCEPT ![s].st = "failed"]
    BY <1>1, <1>8
  <2>2. /\ "failed" \in RowStates \ {"absent", "dispatched"} /\ step[s].st \notin {"absent", "success"}
        /\ "failed" = "success" => Succeeded(s, job)
    BY <1>8 DEF RowStates, Terminal
  <2>3. /\ TypedInv' /\ RowsKept
        /\ pass'[p] = AfterRecovery(q) /\ \A o \in Passes : o # p => pass'[o] = pass[o]
        /\ step'[s].st = "failed" /\ step'[s].job = step[s].job
        /\ \A o \in Steps : o # s => step'[o] = step[o]
    BY <1>1, <1>6, <1>7, <1>8, <2>1, <2>2, RowWrite
  <2> QED
    BY <1>1, <1>3, <1>6, <1>8, <2>3 DEF Moves, q
<1>9. CASE step[s].st # "ready"
  <2>1. /\ TypedInv'
        /\ pass'[p] = AfterRecovery(q) /\ \A o \in Passes : o # p => pass'[o] = pass[o]
    BY <1>1, <1>6, <1>7, <1>9, PassOnly
  <2> QED
    BY <1>1, <1>3, <1>6, <1>9, <2>1, RowsSame DEF Moves, q
<1> QED
  BY <1>8, <1>9

(* A pass that has won a step goes on to create its job. *)
Dispatching(p, s) == [pass[p] EXCEPT !.pc = "create", !.out = s]

LEMMA DispatchingOK ==
    ASSUME TypedInv, NEW p \in Passes, NEW s \in pass[p].todo, pass[p].pc \in {"recover", "claim"}
    PROVE  /\ PassOK(Dispatching(p, s), job) /\ Dispatching(p, s).pc = "create"
           /\ Dispatching(p, s).at = pass[p].at /\ s \in Steps
<1>1. pass[p] \in Pass /\ PassOK(pass[p], job) /\ s \in Steps
  BY DEF TypedInv, RunType, DepsInv, PassOK, Pass
<1> DEFINE q == Dispatching(p, s)
<1>2. /\ q \in Pass /\ q.pc = "create" /\ q.out = s /\ q.todo = pass[p].todo /\ q.at = pass[p].at
      /\ q.snap = pass[p].snap
  BY <1>1 DEF Dispatching, Pass, Places
<1> HIDE DEF q
<1>3. PassOK(q, job)
  BY <1>1, <1>2 DEF PassOK, PassType, PassDone
<1> QED
  BY <1>1, <1>2, <1>3 DEF q

LEMMA RecoverStep ==
    ASSUME TypedInv, NEW p \in Passes, NEW s \in Steps, Recover(p, s)
    PROVE  /\ TypedInv' /\ RowsKept /\ Moves(p, {"recover", "create", "claim", "close"})
           /\ UNCHANGED <<sched, wf, job, upset>>
           /\ pass[p].pc = "recover"
           /\ pass'[p] \in {Dispatching(p, s), AfterRecovery(Done(p, s))}
           /\ \A o \in Steps : step'[o].st = step[o].st /\ step'[o].job = step[o].job
<1>1. /\ pass[p].pc = "recover" /\ s \in pass[p].todo /\ UNCHANGED <<sched, wf, job, upset>>
      /\ \/ /\ step[s].st \in {"ready", "dispatched"}
            /\ step' = [step EXCEPT ![s].tries = @ + 1]
            /\ pass' = [pass EXCEPT ![p] = Dispatching(p, s)]
         \/ /\ pass' = [pass EXCEPT ![p] = AfterRecovery(Done(p, s))] /\ step' = step
  BY DEF Recover, At, Becomes, KeepsRuns, Dispatching
<1>2. RunVars'
  BY <1>1, KeepsRunVars DEF TypedInv
<1>3. CASE /\ step[s].st \in {"ready", "dispatched"}
           /\ step' = [step EXCEPT ![s].tries = @ + 1]
           /\ pass' = [pass EXCEPT ![p] = Dispatching(p, s)]
  <2>1. /\ step \in [Steps -> StepRow] /\ step[s] \in StepRow /\ step[s].tries \in Nat
        /\ RowType(step[s], job[s])
    BY DEF TypedInv, RunType, StepRow
  <2>2. /\ step' \in [Steps -> StepRow]
        /\ \A o \in Steps : o # s => step'[o] = step[o]
        /\ step'[s].st = step[s].st /\ step'[s].job = step[s].job
    BY <1>3, <2>1 DEF StepRow
  <2>3. RowType(step'[s], job[s])
    BY <2>1, <2>2 DEF RowType
  <2>4. PassOK(Dispatching(p, s), job) /\ Dispatching(p, s).pc = "create"
    BY <1>1, DispatchingOK
  <2>5. /\ TypedInv' /\ pass'[p] = Dispatching(p, s)
        /\ \A o \in Passes : o # p => pass'[o] = pass[o]
    BY <1>1, <1>2, <1>3, <2>2, <2>3, <2>4, RowMoves DEF TypedInv, DepsInv
  <2>6. RowsKept
    BY <1>3, <2>2 DEF RowsKept
  <2> QED
    BY <1>1, <2>2, <2>4, <2>5, <2>6 DEF Moves
<1>4. CASE pass' = [pass EXCEPT ![p] = AfterRecovery(Done(p, s))] /\ step' = step
  <2>1. PassOK(Done(p, s), job) /\ Done(p, s).pc = "recover"
    BY <1>1, DoneOK, DoneFields
  <2>2. /\ PassOK(AfterRecovery(Done(p, s)), job)
        /\ AfterRecovery(Done(p, s)).pc \in {"recover", "claim", "close"}
    BY <2>1, AfterRecoveryOK
  <2>3. /\ TypedInv' /\ pass'[p] = AfterRecovery(Done(p, s))
        /\ \A o \in Passes : o # p => pass'[o] = pass[o]
    BY <1>1, <1>2, <1>4, <2>2, PassOnly
  <2> QED
    BY <1>1, <1>4, <2>2, <2>3, RowsSame DEF Moves
<1> QED
  BY <1>1, <1>3, <1>4

LEMMA ClaimStep ==
    ASSUME TypedInv, NEW p \in Passes, NEW s \in Steps, Claim(p, s)
    PROVE  /\ TypedInv' /\ RowsKept /\ Moves(p, {"create", "claim", "close"})
           /\ UNCHANGED <<sched, wf, job, upset>>
           /\ pass[p].pc = "claim"
           /\ pass'[p] \in {Dispatching(p, s), AfterClaims(Done(p, s))}
           /\ \A o \in Steps : o # s => step'[o] = step[o]
           /\ step'[s].job = step[s].job
           /\ step'[s].st = step[s].st \/ (step[s].st = "blocked" /\ step'[s].st = "ready")
<1>1. /\ pass[p].pc = "claim" /\ s \in pass[p].todo /\ UNCHANGED <<sched, wf, job, upset>>
      /\ \/ /\ step[s].st = "blocked"
            /\ step' = [step EXCEPT ![s].st = "ready"]
            /\ pass' = [pass EXCEPT ![p] = Dispatching(p, s)]
         \/ /\ pass' = [pass EXCEPT ![p] = AfterClaims(Done(p, s))] /\ step' = step
  BY DEF Claim, At, Becomes, KeepsRuns, Dispatching
<1>2. RunVars'
  BY <1>1, KeepsRunVars DEF TypedInv
<1>3. CASE /\ step[s].st = "blocked"
           /\ step' = [step EXCEPT ![s].st = "ready"]
           /\ pass' = [pass EXCEPT ![p] = Dispatching(p, s)]
  <2>1. PassOK(Dispatching(p, s), job) /\ Dispatching(p, s).pc = "create"
    BY <1>1, DispatchingOK
  <2>2. /\ "ready" \in RowStates \ {"absent", "dispatched"} /\ step[s].st \notin {"absent", "success"}
        /\ "ready" = "success" => Succeeded(s, job)
    BY <1>3 DEF RowStates
  <2>3. /\ TypedInv' /\ RowsKept
        /\ pass'[p] = Dispatching(p, s) /\ \A o \in Passes : o # p => pass'[o] = pass[o]
        /\ step'[s].st = "ready" /\ step'[s].job = step[s].job
        /\ \A o \in Steps : o # s => step'[o] = step[o]
    BY <1>1, <1>2, <1>3, <2>1, <2>2, RowWrite
  <2> QED
    BY <1>1, <1>3, <2>1, <2>3 DEF Moves
<1>4. CASE pass' = [pass EXCEPT ![p] = AfterClaims(Done(p, s))] /\ step' = step
  <2>1. PassOK(Done(p, s), job) /\ Done(p, s).pc = "claim"
    BY <1>1, DoneOK, DoneFields
  <2>2. /\ PassOK(AfterClaims(Done(p, s)), job)
        /\ AfterClaims(Done(p, s)).pc \in {"claim", "close"}
    BY <2>1, AfterClaimsOK
  <2>3. /\ TypedInv' /\ pass'[p] = AfterClaims(Done(p, s))
        /\ \A o \in Passes : o # p => pass'[o] = pass[o]
    BY <1>1, <1>2, <1>4, <2>2, PassOnly
  <2> QED
    BY <1>1, <1>4, <2>2, <2>3, RowsSame DEF Moves
<1> QED
  BY <1>1, <1>3, <1>4

(* A job that has ended stays as it is, and none goes away. *)
JobsGrow ==
    \A s \in Steps, k \in Attempts : /\ job[s][k] # "absent" => job'[s][k] # "absent"
                                     /\ job[s][k] \notin {"absent", "live"} => job'[s][k] = job[s][k]

LEMMA JobsGrowLater == JobsGrow => Later(job, job')
BY DEF JobsGrow, Later

(* A pass that only goes to another place keeps what it has read. *)
Placed(q, pc) == [q EXCEPT !.pc = pc]

LEMMA PlacedFields ==
    ASSUME NEW q \in Pass, NEW pc \in Places
    PROVE  /\ Placed(q, pc) \in Pass /\ Placed(q, pc).pc = pc /\ Placed(q, pc).snap = q.snap
           /\ Placed(q, pc).todo = q.todo /\ Placed(q, pc).at = q.at /\ Placed(q, pc).out = q.out
BY DEF Placed, Pass

LEMMA CreateJobStep ==
    ASSUME TypedInv, NEW p \in Passes, CreateJob(p)
    PROVE  /\ TypedInv' /\ Moves(p, {"mark"}) /\ JobsGrow
           /\ UNCHANGED <<sched, wf, step, upset, spent>>
           /\ pass[p].pc = "create" /\ pass'[p] = Placed(pass[p], "mark")
<1> DEFINE s == pass[p].out
           k == pass[p].at
           q == Placed(pass[p], "mark")
<1>1. /\ pass[p].pc = "create" /\ UNCHANGED <<sched, wf, step, upset, spent>>
      /\ pass' = [pass EXCEPT ![p] = q]
      /\ job' = IF job[s][k] = "absent" THEN [job EXCEPT ![s][k] = "live"] ELSE job
  BY DEF CreateJob, At, Goto, Becomes, KeepsRuns, Placed
<1>2. /\ PassOK(pass[p], job) /\ pass[p] \in Pass
      /\ job \in [Steps -> [Attempts -> JobStates]]
  BY DEF TypedInv, RunType, DepsInv, PassOK
<1>3. s \in Steps /\ k \in Attempts /\ DepsDone(s, job) /\ \A o \in pass[p].todo : DepsDone(o, job)
  BY <1>1, <1>2 DEF PassOK, PassType, PassDone, Pass
<1>4. /\ q \in Pass /\ q.pc = "mark" /\ q.snap = pass[p].snap /\ q.todo = pass[p].todo
      /\ q.at = k /\ q.out = s
  BY <1>2, PlacedFields DEF Places
<1> HIDE DEF q, s, k
<1>5. /\ job' \in [Steps -> [Attempts -> JobStates]] /\ job'[s][k] # "absent"
      /\ \A o \in Steps, j \in Attempts : job'[o][j] = job[o][j] \/ (o = s /\ j = k /\ job[s][k] = "absent")
  BY <1>1, <1>2, <1>3 DEF JobStates
<1>6. JobsGrow /\ Later(job, job')
  BY <1>5, JobsGrowLater DEF JobsGrow
<1>7. DependenciesFirst'
  <2> SUFFICES ASSUME NEW o \in Steps, NEW j \in Attempts, job'[o][j] # "absent",
                      NEW d \in Deps[o]
               PROVE  \E i \in Attempts : job'[d][i] = "success"
    BY DEF DependenciesFirst
  <2>1. d \in Steps
    BY DagAssumption
  <2>2. \E i \in Attempts : job[d][i] = "success"
    BY <1>3, <1>5 DEF TypedInv, DepsInv, DependenciesFirst, DepsDone, Succeeded
  <2> QED
    BY <1>6, <2>1, <2>2 DEF Later
<1>8. PassOK(q, job')
  <2>1. \A o \in Steps : DepsDone(o, job) => DepsDone(o, job')
    BY <1>6, DagAssumption DEF DepsDone, Succeeded, Later
  <2>2. \A d \in Steps : Succeeded(d, job) => Succeeded(d, job')
    BY <1>6 DEF Succeeded, Later
  <2>3. q.todo \subseteq Steps
    BY <1>4 DEF Pass
  <2>4. PassDone(q, job')
    BY <1>2, <1>3, <1>4, <2>1, <2>2, <2>3 DEF PassOK, PassDone
  <2> QED
    BY <1>3, <1>4, <1>5, <2>4 DEF PassOK, PassType
<1>9. /\ step' \in [Steps -> StepRow]
      /\ \A o \in Steps : RowType(step'[o], job'[o])
      /\ \A o \in Steps : step'[o].st = "success" => Succeeded(o, job')
  BY <1>1, <1>6 DEF TypedInv, RunType, DepsInv, RowType, Later, Succeeded
<1>10. RunVars'
  BY <1>1, KeepsRunVars DEF TypedInv
<1>11. TypedInv' /\ pass'[p] = q /\ \A o \in Passes : o # p => pass'[o] = pass[o]
  BY <1>1, <1>5, <1>6, <1>7, <1>8, <1>9, <1>10, PassMoves
<1> QED
  BY <1>1, <1>4, <1>6, <1>11 DEF Moves, q

MarkedPass(p, s) == NotedAt(Done(p, s), "recover", s, "dispatched")
ClaimedPass(p, s) == Placed(Done(p, s), "claim")

LEMMA MarkDispatchedStep ==
    ASSUME TypedInv, NEW p \in Passes, MarkDispatched(p)
    PROVE  LET s == pass[p].out IN
           /\ TypedInv' /\ RowsKept /\ Moves(p, {"recover", "claim", "close"})
           /\ UNCHANGED <<sched, wf, job, upset, spent>>
           /\ pass[p].pc = "mark" /\ s \in Steps
           /\ pass'[p] \in {AfterRecovery(MarkedPass(p, s)), AfterClaims(ClaimedPass(p, s))}
           /\ MarkedPass(p, s).at = pass[p].at /\ ClaimedPass(p, s).at = pass[p].at
           /\ \A o \in Steps : o # s => step'[o] = step[o]
           /\ \/ step'[s] = step[s]
              \/ /\ step[s].st \in {"ready", "dispatched"} /\ step'[s].st = "dispatched"
                 /\ step'[s].job = pass[p].at
<1> DEFINE s == pass[p].out
           x == MarkedPass(p, s)
           y == ClaimedPass(p, s)
           q == IF pass[p].snap[s].st = "ready" THEN AfterRecovery(x) ELSE AfterClaims(y)
<1>1. /\ pass[p].pc = "mark" /\ UNCHANGED <<sched, wf, job, upset, spent>>
      /\ pass' = [pass EXCEPT ![p] = q]
      /\ step' = IF step[s].st \in {"ready", "dispatched"}
                 THEN [step EXCEPT ![s].st = "dispatched", ![s].job = pass[p].at] ELSE step
  BY DEF MarkDispatched, At, Becomes, KeepsRuns, MarkedPass, ClaimedPass, NotedAt, Placed
<1>2. PassOK(pass[p], job) /\ pass[p] \in Pass
  BY DEF TypedInv, RunType, DepsInv, PassOK
<1>3. /\ s \in Steps /\ pass[p].at \in Attempts /\ job[s][pass[p].at] # "absent"
      /\ \A o \in pass[p].todo : DepsDone(o, job)
  BY <1>1, <1>2 DEF PassOK, PassType, PassDone, Pass
<1>4. /\ Notes(x, Done(p, s), s, "dispatched") /\ x.pc = "recover"
      /\ y \in Pass /\ y.pc = "claim" /\ y.snap = Done(p, s).snap /\ y.todo = Done(p, s).todo
      /\ y.at = Done(p, s).at
  <2>1. Done(p, s) \in Pass /\ "recover" \in Places /\ "claim" \in Places /\ "dispatched" \in SeenStates
    BY DoneFields DEF Places, SeenStates, RowStates
  <2>2. Notes(x, Done(p, s), s, "dispatched") /\ x.pc = "recover"
    BY <1>3, <2>1, NotedSnap DEF MarkedPass
  <2>3. /\ y \in Pass /\ y.pc = "claim" /\ y.snap = Done(p, s).snap /\ y.todo = Done(p, s).todo
        /\ y.at = Done(p, s).at
    BY <2>1, PlacedFields DEF ClaimedPass
  <2> QED
    BY <2>2, <2>3
<1>5. /\ Done(p, s).todo = pass[p].todo \ {s} /\ Done(p, s).snap = pass[p].snap
      /\ Done(p, s).at = pass[p].at
  BY DoneFields
<1> HIDE DEF s, x, y
<1>6. PassOK(x, job) /\ x.at = pass[p].at
  BY <1>2, <1>3, <1>4, <1>5 DEF PassOK, PassType, PassDone, Notes
<1>7. PassOK(y, job) /\ y.at = pass[p].at
  BY <1>2, <1>3, <1>4, <1>5 DEF PassOK, PassType, PassDone
<1>8. PassOK(q, job) /\ q.pc \in {"recover", "claim", "close"}
  BY <1>4, <1>6, <1>7, AfterRecoveryOK, AfterClaimsOK
<1>9. q \in {AfterRecovery(x), AfterClaims(y)}
  OBVIOUS
<1> HIDE DEF q
<1>10. RunVars'
  BY <1>1, KeepsRunVars DEF TypedInv
<1>11. CASE step[s].st \in {"ready", "dispatched"}
  <2>1. step \in [Steps -> StepRow] /\ step[s] \in StepRow
    BY <1>3 DEF TypedInv, RunType
  <2>2. step' = [step EXCEPT ![s] = [[step[s] EXCEPT !.st = "dispatched"] EXCEPT !.job = pass[p].at]]
    BY <1>1, <1>3, <1>11, <2>1
  <2> DEFINE row == [[step[s] EXCEPT !.st = "dispatched"] EXCEPT !.job = pass[p].at]
  <2>3. row \in StepRow /\ row.st = "dispatched" /\ row.job = pass[p].at
    BY <1>3, <2>1 DEF StepRow, RowStates
  <2> HIDE DEF row
  <2>4. /\ step' \in [Steps -> StepRow] /\ step'[s] = row
        /\ \A o \in Steps : o # s => step'[o] = step[o]
    BY <1>3, <2>1, <2>2, <2>3 DEF row
  <2>5. RowType(step'[s], job[s]) /\ step'[s].st # "success"
    BY <1>3, <2>3, <2>4 DEF RowType
  <2>6. TypedInv' /\ pass'[p] = q /\ \A o \in Passes : o # p => pass'[o] = pass[o]
    BY <1>1, <1>3, <1>8, <1>10, <2>4, <2>5, RowMoves
  <2>7. RowsKept
    BY <1>11, <2>3, <2>4 DEF RowsKept
  <2> QED
    BY <1>1, <1>3, <1>6, <1>7, <1>8, <1>9, <1>11, <2>3, <2>4, <2>6, <2>7 DEF Moves, s, x, y
<1>12. CASE step[s].st \notin {"ready", "dispatched"}
  <2>1. TypedInv' /\ pass'[p] = q /\ \A o \in Passes : o # p => pass'[o] = pass[o]
    BY <1>1, <1>8, <1>10, <1>12, PassOnly
  <2> QED
    BY <1>1, <1>3, <1>6, <1>7, <1>8, <1>9, <1>12, <2>1, RowsSame DEF Moves, s, x, y
<1> QED
  BY <1>11, <1>12

LEMMA CloseStep ==
    ASSUME TypedInv, NEW p \in Passes, Close(p)
    PROVE  /\ TypedInv' /\ Moves(p, {"endRun", "idle"})
           /\ UNCHANGED <<sched, wf, step, job, upset, spent>> /\ pass[p].pc = "close"
           /\ pass'[p].at = 0
           /\ pass'[p].pc = "endRun" => /\ pass'[p].out = Outcome
                                        /\ Steps \ RowsIn({"absent"}) = RowsIn(Terminal)
<1> DEFINE there == Steps \ RowsIn({"absent"})
           ended == there # {} /\ there = RowsIn(Terminal)
<1>1. /\ pass[p].pc = "close" /\ UNCHANGED <<sched, wf, step, job, upset, spent>>
      /\ pass' = [pass EXCEPT ![p] = IF ended THEN Enters("endRun", Outcome) ELSE Idle]
  BY DEF Close, At, Becomes, KeepsRuns
<1>2. Outcome \in RunEnded /\ "endRun" \in Places /\ "endRun" \in Places \ {"landed", "create", "mark"}
  BY DEF Outcome, RunEnded, Places
<1>3. PassOK(Enters("endRun", Outcome), job)
  BY <1>2, EntersOK
<1>4. /\ Enters("endRun", Outcome).pc = "endRun" /\ Enters("endRun", Outcome).out = Outcome
      /\ Enters("endRun", Outcome).at = 0
  BY DEF Enters, Idle
<1>5. RunVars'
  BY <1>1, KeepsRunVars DEF TypedInv
<1>6. CASE ended
  BY <1>1, <1>3, <1>4, <1>5, <1>6, PassOnly DEF Moves
<1>7. CASE ~ended
  BY <1>1, <1>5, <1>7, IdleOK, IdleFields, PassOnly DEF Moves
<1> QED
  BY <1>6, <1>7

LEMMA PlacedOK ==
    ASSUME TypedInv, NEW p \in Passes,
           NEW pc \in Places \ {"landed", "create", "mark", "land", "settle", "recover", "claim"},
           pc \in {"endRun", "endSched", "stop", "stopping", "stopRun"} => pass[p].out \in RunEnded
    PROVE  PassOK(Placed(pass[p], pc), job)
<1>1. pass[p] \in Pass /\ PassDone(pass[p], job)
  BY DEF TypedInv, RunType, DepsInv
<1> QED
  BY <1>1, PlacedFields DEF PassOK, PassType, PassDone

(* Ending a run that is running. *)
LEMMA EndsRunType ==
    ASSUME wf \in Wf, NEW out \in RunEnded
    PROVE  /\ EndsRun(out) \in Wf
           /\ EndsRun(out).retry = wf.retry /\ EndsRun(out).kill = wf.kill
           /\ EndsRun(out).st = IF wf.st = "running" THEN out ELSE wf.st
BY DEF EndsRun, Wf

LEMMA EndRunStep ==
    ASSUME TypedInv, NEW p \in Passes, EndRun(p)
    PROVE  /\ TypedInv' /\ Moves(p, {"endSched", "idle"})
           /\ UNCHANGED <<sched, step, job, upset, spent>> /\ pass[p].pc = "endRun"
           /\ wf'.retry = wf.retry
           /\ wf'.st = IF wf.st = "running" THEN pass[p].out ELSE wf.st
           /\ pass'[p] = IF wf.st = "running" THEN Placed(pass[p], "endSched") ELSE Idle
<1>1. /\ pass[p].pc = "endRun" /\ UNCHANGED <<sched, step, job, upset, spent>>
      /\ wf' = EndsRun(pass[p].out)
      /\ pass' = [pass EXCEPT ![p] = IF wf.st = "running" THEN Placed(pass[p], "endSched") ELSE Idle]
  BY DEF EndRun, At, Goto, End, Becomes, Placed
<1>2. wf \in Wf /\ pass[p] \in Pass /\ pass[p].out \in RunEnded
  BY <1>1 DEF TypedInv, RunType, Wf, PassType
<1>3. "endSched" \in Places
  BY DEF Places
<1>4. PassOK(Placed(pass[p], "endSched"), job) /\ Placed(pass[p], "endSched").pc = "endSched"
  BY <1>2, <1>3, PlacedOK, PlacedFields
<1>5. /\ wf' \in Wf /\ wf'.retry = wf.retry
      /\ wf'.st = IF wf.st = "running" THEN pass[p].out ELSE wf.st
  BY <1>1, <1>2, EndsRunType
<1>6. RunVars'
  BY <1>1, <1>5 DEF RunVars, TypedInv, RunType
<1>7. CASE wf.st = "running"
  BY ZenonT(60), <1>1, <1>4, <1>5, <1>6, <1>7, PassOnly DEF Moves
<1>8. CASE wf.st # "running"
  BY ZenonT(60), <1>1, <1>5, <1>6, <1>8, IdleOK, IdleFields, PassOnly DEF Moves
<1> QED
  BY <1>7, <1>8

LEMMA StopRunStep ==
    ASSUME TypedInv, NEW p \in Passes, StopRun(p)
    PROVE  /\ TypedInv' /\ Moves(p, {"endSched"})
           /\ UNCHANGED <<sched, step, job, upset, spent>> /\ pass[p].pc = "stopRun"
           /\ wf'.retry = wf.retry
           /\ wf'.st = IF wf.st = "running" THEN pass[p].out ELSE wf.st
           /\ pass'[p] = Placed(pass[p], "endSched")
<1>1. /\ pass[p].pc = "stopRun" /\ UNCHANGED <<sched, step, job, upset, spent>>
      /\ wf' = EndsRun(pass[p].out)
      /\ pass' = [pass EXCEPT ![p] = Placed(pass[p], "endSched")]
  BY DEF StopRun, At, Goto, End, Becomes, Placed
<1>2. wf \in Wf /\ pass[p] \in Pass /\ pass[p].out \in RunEnded
  BY <1>1 DEF TypedInv, RunType, Wf, PassType
<1>3. "endSched" \in Places
  BY DEF Places
<1>4. PassOK(Placed(pass[p], "endSched"), job) /\ Placed(pass[p], "endSched").pc = "endSched"
  BY <1>2, <1>3, PlacedOK, PlacedFields
<1>5. /\ wf' \in Wf /\ wf'.retry = wf.retry
      /\ wf'.st = IF wf.st = "running" THEN pass[p].out ELSE wf.st
  BY <1>1, <1>2, EndsRunType
<1>6. RunVars'
  BY <1>1, <1>5 DEF RunVars, TypedInv, RunType
<1> QED
  BY <1>1, <1>4, <1>5, <1>6, PassOnly DEF Moves

LEMMA EndSchedStep ==
    ASSUME TypedInv, NEW p \in Passes, EndSched(p)
    PROVE  /\ TypedInv' /\ Moves(p, {"idle"})
           /\ UNCHANGED <<wf, step, job, upset, spent>> /\ pass[p].pc = "endSched"
           /\ sched' = IF sched = "running" THEN pass[p].out ELSE sched
           /\ pass'[p] = Idle
<1>1. /\ pass[p].pc = "endSched" /\ UNCHANGED <<wf, step, job, upset, spent>>
      /\ sched' = IF sched = "running" THEN pass[p].out ELSE sched
      /\ pass' = [pass EXCEPT ![p] = Idle]
  BY DEF EndSched, At, End, Becomes
<1>2. RunVars'
  BY <1>1 DEF RunVars, TypedInv, RunType, Wf, PassType
<1> QED
  BY <1>1, <1>2, IdleOK, IdleFields, PassOnly DEF Moves

LEMMA KillLoadStep ==
    ASSUME TypedInv, NEW p \in Passes, KillLoad(p)
    PROVE  /\ TypedInv' /\ Moves(p, {"stop", "idle"})
           /\ UNCHANGED <<sched, wf, step, job, spent>> /\ pass[p].pc = "kill"
           /\ pass'[p].pc = "stop" => upset'
           /\ pass'[p].at = 0
           /\ upset => upset'
<1>1. /\ pass[p].pc = "kill" /\ UNCHANGED <<sched, wf, step, job, spent>>
      /\ \/ pass' = [pass EXCEPT ![p] = Enters("stop", "killed")] /\ upset' = TRUE
         \/ pass' = [pass EXCEPT ![p] = Idle] /\ upset' = upset
  BY DEF KillLoad, At, End, Becomes
<1>2. /\ PassOK(Enters("stop", "killed"), job) /\ Enters("stop", "killed").pc = "stop"
      /\ Enters("stop", "killed").at = 0
  BY EntersOK, EntersFields DEF Places, RunEnded
<1>3. RunVars'
  BY <1>1 DEF RunVars, TypedInv, RunType, Wf
<1>4. CASE pass' = [pass EXCEPT ![p] = Enters("stop", "killed")] /\ upset' = TRUE
  BY <1>1, <1>2, <1>3, <1>4, PassOnly DEF Moves
<1>5. CASE pass' = [pass EXCEPT ![p] = Idle] /\ upset' = upset
  BY <1>1, <1>3, <1>5, IdleOK, IdleFields, PassOnly DEF Moves
<1> QED
  BY <1>1, <1>4, <1>5

StoppingPass(p) == [pass[p] EXCEPT !.pc = "stopping", !.todo = RowsIn({"blocked", "ready"})]

LEMMA StopReadStep ==
    ASSUME TypedInv, NEW p \in Passes, StopRead(p)
    PROVE  /\ TypedInv' /\ Moves(p, {"stopping", "stopRun"})
           /\ UNCHANGED <<sched, wf, step, job, upset, spent>> /\ pass[p].pc = "stop"
           /\ pass'[p] = AfterStops(StoppingPass(p)) /\ StoppingPass(p).at = pass[p].at
<1> DEFINE q == StoppingPass(p)
<1>1. /\ pass[p].pc = "stop" /\ UNCHANGED <<sched, wf, step, job, upset, spent>>
      /\ pass' = [pass EXCEPT ![p] = AfterStops(q)]
  BY DEF StopRead, At, Becomes, KeepsRuns, StoppingPass
<1>2. PassOK(pass[p], job) /\ pass[p] \in Pass /\ RowsIn({"blocked", "ready"}) \subseteq Steps
  BY DEF TypedInv, RunType, DepsInv, PassOK, RowsIn
<1>3. /\ q \in Pass /\ q.pc = "stopping" /\ q.snap = pass[p].snap /\ q.at = pass[p].at
      /\ q.out = pass[p].out
  BY <1>2 DEF StoppingPass, Pass, Places
<1> HIDE DEF q
<1>4. PassOK(q, job)
  BY <1>1, <1>2, <1>3 DEF PassOK, PassType, PassDone
<1>5. PassOK(AfterStops(q), job) /\ AfterStops(q).pc \in {"stopping", "stopRun"}
  BY <1>3, <1>4, AfterStopsOK
<1>6. RunVars'
  BY <1>1, KeepsRunVars DEF TypedInv
<1>7. TypedInv' /\ pass'[p] = AfterStops(q) /\ \A o \in Passes : o # p => pass'[o] = pass[o]
  BY <1>1, <1>5, <1>6, PassOnly
<1> QED
  BY <1>1, <1>3, <1>5, <1>7 DEF Moves, q

StoppedPass(p, s) == [pass[p] EXCEPT !.todo = @ \ {s}]

LEMMA StopStepStep ==
    ASSUME TypedInv, NEW p \in Passes, NEW s \in Steps, StopStep(p, s)
    PROVE  /\ TypedInv' /\ RowsKept /\ Moves(p, {"stopping", "stopRun"})
           /\ UNCHANGED <<sched, wf, job, upset, spent>> /\ pass[p].pc = "stopping"
<1> DEFINE q == StoppedPass(p, s)
<1>1. /\ pass[p].pc = "stopping" /\ UNCHANGED <<sched, wf, job, upset, spent>> /\ Skip(s)
      /\ pass' = [pass EXCEPT ![p] = AfterStops(q)]
  BY DEF StopStep, At, Becomes, KeepsRuns, StoppedPass
<1>2. PassOK(pass[p], job) /\ pass[p] \in Pass
  BY DEF TypedInv, RunType, DepsInv, PassOK
<1>3. /\ q \in Pass /\ q.pc = "stopping" /\ q.snap = pass[p].snap /\ q.out = pass[p].out
  BY <1>1, <1>2 DEF StoppedPass, Pass
<1> HIDE DEF q
<1>4. PassOK(q, job)
  BY <1>1, <1>2, <1>3 DEF PassOK, PassType, PassDone
<1>5. PassOK(AfterStops(q), job) /\ AfterStops(q).pc \in {"stopping", "stopRun"}
  BY <1>3, <1>4, AfterStopsOK
<1>6. RunVars'
  BY <1>1, KeepsRunVars DEF TypedInv
<1>7. TypedInv' /\ RowsKept
      /\ pass'[p] = AfterStops(q) /\ \A o \in Passes : o # p => pass'[o] = pass[o]
  BY <1>1, <1>5, <1>6, SkipWrite
<1> QED
  BY <1>1, <1>5, <1>7 DEF Moves

RetriedPass(p) == [pass[p] EXCEPT !.pc = "settle", !.snap = step, !.todo = RowsIn({"dispatched"})]

LEMMA RetryReadStep ==
    ASSUME TypedInv, NEW p \in Passes, RetryRead(p)
    PROVE  /\ TypedInv' /\ Moves(p, {"settle", "reset", "idle", "reopen"})
           /\ UNCHANGED <<sched, wf, step, job, upset, spent>> /\ pass[p].pc = "retry"
<1> DEFINE q == RetriedPass(p)
<1>1. /\ pass[p].pc = "retry" /\ UNCHANGED <<sched, wf, step, job, upset, spent>>
      /\ pass' = [pass EXCEPT ![p] = AfterSettling(q)]
  BY DEF RetryRead, At, Becomes, KeepsRuns, RetriedPass
<1>2. /\ pass[p] \in Pass /\ step \in [Steps -> SeenRow] /\ RowsIn({"dispatched"}) \subseteq Steps
  <2>1. step \in [Steps -> StepRow] /\ StepRow \subseteq SeenRow
    BY DEF TypedInv, RunType, StepRow, SeenRow, SeenStates
  <2> QED
    BY <2>1 DEF TypedInv, RunType, RowsIn
<1>3. /\ q \in Pass /\ q.pc = "settle" /\ q.snap = step /\ q.todo = RowsIn({"dispatched"})
  BY <1>2 DEF RetriedPass, Pass, Places
<1> HIDE DEF q
<1>4. PassType(q, job)
  BY <1>3 DEF PassType, TypedInv, RunType, RowType, RowsIn
<1>5. PassDone(q, job)
  BY <1>3 DEF PassDone, TypedInv, DepsInv
<1>6. /\ PassOK(AfterSettling(q), job)
      /\ AfterSettling(q).pc \in {"settle", "reset", "idle", "reopen"}
  BY <1>3, <1>4, <1>5, AfterSettlingOK DEF PassOK
<1>7. RunVars'
  BY <1>1, KeepsRunVars DEF TypedInv
<1> QED
  BY <1>1, <1>6, <1>7, PassOnly DEF Moves

SettledPass(p, s) == Noted(Done(p, s), s, "landable")

LEMMA SettleStep ==
    ASSUME TypedInv, NEW p \in Passes, NEW s \in Steps, Settle(p, s)
    PROVE  /\ TypedInv' /\ Moves(p, {"settle", "reset", "idle", "reopen"})
           /\ UNCHANGED <<sched, wf, step, job, upset, spent>> /\ pass[p].pc = "settle"
<1> DEFINE q == SettledPass(p, s)
           d == Done(p, s)
<1>1. /\ pass[p].pc = "settle" /\ UNCHANGED <<sched, wf, step, job, upset, spent>>
      /\ pass' \in {[pass EXCEPT ![p] = Idle], [pass EXCEPT ![p] = AfterSettling(q)],
                    [pass EXCEPT ![p] = AfterSettling(d)]}
  BY DEF Settle, At, Becomes, KeepsRuns, SettledPass, Noted
<1>2. PassOK(d, job) /\ d \in Pass /\ d.pc = "settle"
  BY <1>1, DoneOK, DoneFields
<1>3. "landable" \in SeenStates /\ "settle" \in Places
  BY DEF SeenStates, Places
<1>4. Notes(q, d, s, "landable") /\ q.pc = "settle"
  BY <1>2, <1>3, NotedSnap DEF SettledPass
<1> HIDE DEF q, d
<1>5. PassOK(q, job)
  <2>1. \A o \in q.todo : o \in Steps /\ q.snap[o].job = d.snap[o].job
    BY <1>4 DEF Notes, Pass
  <2> QED
    BY <1>2, <1>4, <2>1 DEF PassOK, PassType, PassDone, Notes
<1>6. /\ PassOK(AfterSettling(q), job)
      /\ AfterSettling(q).pc \in {"settle", "reset", "idle", "reopen"}
      /\ PassOK(AfterSettling(d), job)
      /\ AfterSettling(d).pc \in {"settle", "reset", "idle", "reopen"}
  BY <1>2, <1>4, <1>5, AfterSettlingOK
<1>7. RunVars'
  BY <1>1, KeepsRunVars DEF TypedInv
<1>8. PICK r \in {Idle, AfterSettling(q), AfterSettling(d)} : pass' = [pass EXCEPT ![p] = r]
  BY <1>1
<1>9. PassOK(r, job) /\ r.pc \in {"settle", "reset", "idle", "reopen"}
  BY <1>6, IdleOK, IdleFields
<1> QED
  BY <1>1, <1>7, <1>8, <1>9, PassOnly DEF Moves

ResetPass(p, s) == Noted(Done(p, s), s, "reset")

LEMMA ResetStepStep ==
    ASSUME TypedInv, NEW p \in Passes, NEW s \in Steps, ResetStep(p, s)
    PROVE  /\ TypedInv' /\ RowsKept /\ Moves(p, {"reset", "idle", "reopen"})
           /\ UNCHANGED <<sched, wf, job, upset, spent>> /\ pass[p].pc = "reset"
<1> DEFINE q == ResetPass(p, s)
           d == Done(p, s)
<1>1. /\ pass[p].pc = "reset" /\ UNCHANGED <<sched, wf, job, upset, spent>>
      /\ \/ /\ step[s].st \in {"failed", "skipped", "dispatched"}
            /\ step' = [step EXCEPT ![s] = Row("blocked")]
            /\ pass' = [pass EXCEPT ![p] = AfterResets(q)]
         \/ pass' = [pass EXCEPT ![p] = AfterResets(d)] /\ step' = step
  BY DEF ResetStep, At, Becomes, KeepsRuns, ResetPass, Noted, Resets
<1>2. PassOK(d, job) /\ d \in Pass /\ d.pc = "reset"
  BY <1>1, DoneOK, DoneFields
<1>3. "reset" \in SeenStates /\ "reset" \in Places
  BY DEF SeenStates, Places
<1>4. Notes(q, d, s, "reset") /\ q.pc = "reset"
  BY <1>2, <1>3, NotedSnap DEF ResetPass
<1> HIDE DEF q, d
<1>5. PassOK(q, job)
  BY <1>2, <1>4 DEF PassOK, PassType, PassDone, Notes
<1>6. /\ PassOK(AfterResets(q), job) /\ AfterResets(q).pc \in {"reset", "idle", "reopen"}
      /\ PassOK(AfterResets(d), job) /\ AfterResets(d).pc \in {"reset", "idle", "reopen"}
  BY <1>2, <1>4, <1>5, AfterResetsOK
<1>7. RunVars'
  BY <1>1, KeepsRunVars DEF TypedInv
<1>8. CASE /\ step[s].st \in {"failed", "skipped", "dispatched"}
           /\ step' = [step EXCEPT ![s] = Row("blocked")]
           /\ pass' = [pass EXCEPT ![p] = AfterResets(q)]
  <2>1. RowType(Row("blocked"), job[s]) /\ Row("blocked").st = "blocked"
    BY Bounds DEF RowType, Row, StepRow, RowStates
  <2>2. /\ step' \in [Steps -> StepRow]
        /\ step'[s] = Row("blocked") /\ \A o \in Steps : o # s => step'[o] = step[o]
    BY <1>8, <2>1 DEF TypedInv, RunType, RowType
  <2>r. RowType(step'[s], job[s]) /\ step'[s].st # "success"
    BY <2>1, <2>2
  <2>3. TypedInv' /\ pass'[p] = AfterResets(q) /\ \A o \in Passes : o # p => pass'[o] = pass[o]
    BY <1>1, <1>6, <1>7, <1>8, <2>1, <2>2, <2>r, RowMoves
  <2>4. RowsKept
    BY <1>8, <2>1, <2>2 DEF RowsKept
  <2> QED
    BY <1>1, <1>6, <2>3, <2>4 DEF Moves
<1>9. CASE pass' = [pass EXCEPT ![p] = AfterResets(d)] /\ step' = step
  BY <1>1, <1>6, <1>7, <1>9, PassOnly, RowsSame DEF Moves
<1> QED
  BY <1>1, <1>8, <1>9

LEMMA ReopenStep ==
    ASSUME TypedInv, RetryOnce, NEW p \in Passes, Reopen(p)
    PROVE  /\ TypedInv' /\ Moves(p, {"reopenSched", "idle"})
           /\ UNCHANGED <<sched, step, job, upset, spent>> /\ pass[p].pc = "reopen"
           /\ \/ pass'[p].pc = "idle" /\ wf' = wf
              \/ /\ pass'[p].pc = "reopenSched" /\ wf.st # "absent"
                 /\ wf'.retry = 1 /\ wf'.st = "running"
<1>1. /\ pass[p].pc = "reopen" /\ UNCHANGED <<sched, step, job, upset, spent>>
      /\ \/ /\ wf' = [wf EXCEPT !.st = "running", !.kill = FALSE, !.retry = @ + 1]
            /\ wf.st \in {"failed", "killed"}
            /\ pass' = [pass EXCEPT ![p] = Placed(pass[p], "reopenSched")]
         \/ wf' = wf /\ pass' = [pass EXCEPT ![p] = Idle]
  BY DEF Reopen, At, Goto, End, Becomes, Placed
<1>2. wf \in Wf /\ pass[p] \in Pass /\ "reopenSched" \in Places
  BY DEF TypedInv, RunType, Wf, Places
<1>3. wf.retry = 0 /\ MaxRetries > 0 /\ MaxRetries \in Nat
  BY <1>1, BoundsAssumption DEF RetryOnce, Retrying
<1>4. /\ PassOK(Placed(pass[p], "reopenSched"), job)
      /\ Placed(pass[p], "reopenSched").pc = "reopenSched"
  BY <1>2, PlacedOK, PlacedFields
<1>5. CASE /\ wf' = [wf EXCEPT !.st = "running", !.kill = FALSE, !.retry = @ + 1]
           /\ wf.st \in {"failed", "killed"}
           /\ pass' = [pass EXCEPT ![p] = Placed(pass[p], "reopenSched")]
  <2>1. 1 \in Attempts
    BY <1>3 DEF Attempts
  <2>2. wf' = [[[wf EXCEPT !.st = "running"] EXCEPT !.kill = FALSE] EXCEPT !.retry = 1]
    BY <1>2, <1>3, <1>5 DEF Wf
  <2>3. wf' \in Wf /\ wf'.retry = 1 /\ wf'.st = "running"
    BY <1>2, <2>1, <2>2 DEF Wf
  <2>4. RunVars'
    BY <1>1, <2>3 DEF RunVars, TypedInv, RunType
  <2> QED
    BY <1>1, <1>4, <1>5, <2>3, <2>4, PassOnly DEF Moves
<1>6. CASE wf' = wf /\ pass' = [pass EXCEPT ![p] = Idle]
  <2>1. RunVars'
    BY <1>1, <1>6, KeepsRunVars DEF TypedInv
  <2> QED
    BY <1>1, <1>6, <2>1, IdleOK, IdleFields, PassOnly DEF Moves
<1> QED
  BY <1>1, <1>5, <1>6

LEMMA ReopenSchedStep ==
    ASSUME TypedInv, NEW p \in Passes, ReopenSched(p)
    PROVE  /\ TypedInv' /\ Moves(p, {"load"})
           /\ UNCHANGED <<wf, step, job, upset, spent>> /\ pass[p].pc = "reopenSched"
           /\ sched' = sched \/ sched' = "running"
<1>1. /\ pass[p].pc = "reopenSched" /\ UNCHANGED <<wf, step, job, upset, spent>>
      /\ sched' = sched \/ sched' = "running"
      /\ pass' = [pass EXCEPT ![p] = Placed(pass[p], "load")]
  BY DEF ReopenSched, At, Goto, Becomes, Placed
<1>2. RunVars'
  BY <1>1 DEF RunVars, TypedInv, RunType, Wf
<1>3. pass[p] \in Pass /\ "load" \in Places
  BY DEF TypedInv, RunType, Places
<1>4. PassOK(Placed(pass[p], "load"), job) /\ Placed(pass[p], "load").pc = "load"
  BY <1>3, PlacedOK, PlacedFields
<1> QED
  BY <1>1, <1>2, <1>4, PassOnly DEF Moves

LEMMA JobEndsStep ==
    ASSUME TypedInv, NEW s \in Steps, NEW k \in Attempts, JobEnds(s, k)
    PROVE  TypedInv' /\ UNCHANGED <<sched, wf, step, pass, upset, spent>> /\ JobsGrow
<1>1. PICK st \in {"success", "failed"} :
        job[s][k] = "live" /\ job' = [job EXCEPT ![s][k] = st]
  BY DEF JobEnds
<1>2. UNCHANGED <<sched, wf, step, pass, upset, spent>>
  BY DEF JobEnds
<1>3. job \in [Steps -> [Attempts -> JobStates]]
  BY DEF TypedInv, RunType
<1>4. /\ job' \in [Steps -> [Attempts -> JobStates]]
      /\ \A o \in Steps, j \in Attempts :
            \/ job'[o][j] = job[o][j]
            \/ job[o][j] = "live" /\ job'[o][j] \in {"success", "failed"}
  BY <1>1, <1>3 DEF JobStates
<1>5. JobsGrow /\ Later(job, job')
  BY <1>4, JobsGrowLater DEF JobsGrow
<1>6. \A o \in Passes : PassOK(pass'[o], job')
  BY <1>2, <1>5, LaterOK DEF TypedInv, RunType, DepsInv, PassOK
<1>7. /\ \A o \in Steps : RowType(step'[o], job'[o])
      /\ \A o \in Steps : step'[o].st = "success" => Succeeded(o, job')
  BY <1>2, <1>5 DEF TypedInv, RunType, DepsInv, RowType, Later, Succeeded
<1>8. DependenciesFirst'
  <2> SUFFICES ASSUME NEW o \in Steps, NEW j \in Attempts, job'[o][j] # "absent",
                      NEW d \in Deps[o]
               PROVE  \E i \in Attempts : job'[d][i] = "success"
    BY DEF DependenciesFirst
  <2>1. d \in Steps
    BY DagAssumption
  <2>2. \E i \in Attempts : job[d][i] = "success"
    BY <1>4 DEF TypedInv, DepsInv, DependenciesFirst
  <2> QED
    BY <1>5, <2>1, <2>2 DEF Later
<1>9. RunType'
  BY <1>2, <1>4, <1>6, <1>7 DEF TypedInv, RunType, PassOK
<1>10. DepsInv'
  BY <1>6, <1>7, <1>8 DEF DepsInv, PassOK
<1> QED
  BY <1>2, <1>5, <1>9, <1>10 DEF TypedInv

-----------------------------------------------------------------------------
(* A statement of a run that is spawned, or that ends what could not be spawned. *)
Kept(p) ==
    /\ RowsKept /\ sched # "absent" /\ sched' # "absent"
    /\ wf'.st = "absent" <=> wf.st = "absent"
    /\ pass'[p].pc \notin {"spawn", "rows"}
    /\ wf.st # "absent" \/ (pass'[p].pc \in {"idle", "endSched", "stopRun"} /\ pass[p].pc # "idle")
    /\ \A o \in Passes : o # p => pass'[o] = pass[o]

RetryPlaces == {"retry", "settle", "reset", "reopen"}

(* A statement that takes no part in a retry, or a read of one. *)
NoRetry(p) ==
    /\ wf'.retry = wf.retry /\ spent \subseteq spent' /\ pass'[p].pc # "reopenSched"
    /\ pass'[p].pc \in RetryPlaces => pass[p].pc \in RetryPlaces
    /\ \A o \in Passes : o # p => pass'[o] = pass[o]

LEMMA NoRetryStep == ASSUME RetryOnce, NEW p \in Passes, NoRetry(p) PROVE RetryOnce'
<1>1. \A o \in Passes : pass'[o].pc \in RetryPlaces => pass[o].pc \in RetryPlaces
  BY DEF NoRetry
<1>2. Retrying' \subseteq Retrying
  BY <1>1 DEF Retrying, RetryPlaces
<1>3. \A o \in Passes : At(o, "reopenSched")' => At(o, "reopenSched")
  BY DEF NoRetry, At
<1> QED
  BY <1>2, <1>3 DEF RetryOnce, NoRetry

LEMMA KeptSpawning == ASSUME TypedInv, Spawning, NEW p \in Passes, Kept(p) PROVE Spawning'
<1>1. \A o \in Passes : pass'[o].pc \in {"spawn", "rows"} => o # p /\ pass'[o] = pass[o]
  BY DEF Kept
<1>2. \A s \in Steps : step[s] = Row("absent") => step'[s] = Row("absent")
  BY DEF Kept, RowsKept, Row
<1>3. \A o, r \in Passes : /\ pass'[o].pc \in {"spawn", "rows"} /\ pass'[r].pc \in {"spawn", "rows"}
                           => o = r
  BY <1>1 DEF Spawning
<1>4. \A o \in Passes : pass'[o].pc = "rows" =>
          pass'[o].todo # {} /\ \A s \in pass'[o].todo : step'[s] = Row("absent")
  BY <1>1, <1>2 DEF Spawning, At, TypedInv, RunType, Pass
<1>5. \A o \in Passes : pass'[o].pc # "spawn"
  BY <1>1 DEF Spawning, At, Kept
<1>6. ASSUME wf'.st = "absent"
      PROVE  /\ \A s \in Steps : step'[s] = Row("absent")
             /\ \A o \in Passes : pass'[o].pc \in {"idle", "spawn", "stopRun", "endSched"}
             /\ \A o, r \in Passes : pass'[o].pc # "idle" /\ pass'[r].pc # "idle" => o = r
  <2>1. wf.st = "absent" /\ pass[p].pc # "idle" /\ pass'[p].pc \in {"idle", "endSched", "stopRun"}
    BY <1>6 DEF Kept
  <2>2. \A o \in Passes : o # p => pass[o].pc = "idle" /\ pass'[o].pc = "idle"
    BY <2>1 DEF Spawning, At, Kept
  <2> QED
    BY <1>2, <2>1, <2>2 DEF Spawning
<1>7. sched' # "absent"
  BY DEF Kept
<1> QED
  BY <1>3, <1>4, <1>5, <1>6, <1>7 DEF Spawning, At

(* A pass under way has a run to work on, or is its spawner. *)
LEMMA UnderWay ==
    ASSUME Spawning, NEW p \in Passes
    PROVE  /\ pass[p].pc # "idle" \/ wf.st # "absent" => sched # "absent"
           /\ pass[p].pc \notin {"idle", "spawn", "stopRun", "endSched"} => wf.st # "absent"
BY DEF Spawning, At

LEMMA KeepsStep ==
    ASSUME Spawning, NEW p \in Passes, RowsKept,
           Moves(p, Places \ {"spawn", "rows", "reopenSched"}),
           pass'[p].pc \in RetryPlaces => pass[p].pc \in RetryPlaces,
           wf'.st = "absent" <=> wf.st = "absent", wf'.retry = wf.retry,
           sched' = sched \/ sched' # "absent", spent \subseteq spent',
           \/ wf.st # "absent"
           \/ pass[p].pc \notin {"idle", "spawn", "stopRun", "endSched"}
           \/ pass'[p].pc \in {"idle", "endSched", "stopRun"} /\ pass[p].pc # "idle"
    PROVE  Kept(p) /\ NoRetry(p)
<1>1. sched # "absent"
  BY UnderWay
<1>2. wf.st # "absent" \/ (pass'[p].pc \in {"idle", "endSched", "stopRun"} /\ pass[p].pc # "idle")
  BY UnderWay
<1> QED
  BY <1>1, <1>2 DEF Kept, NoRetry, Moves

LEMMA AdvanceKeeps ==
    ASSUME TypedInv, Spawning, NEW p \in Passes,
           \/ LoadRun(p) \/ LoadSteps(p) \/ LandWrite(p) \/ CreateJob(p) \/ MarkDispatched(p) \/ Close(p)
           \/ \E s \in Steps : \/ LandRead(p, s) \/ SkipStep(p, s) \/ GiveUp(p, s)
                               \/ Recover(p, s) \/ Claim(p, s)
    PROVE  /\ TypedInv' /\ Kept(p) /\ NoRetry(p) /\ UNCHANGED <<sched, wf>> /\ (upset => upset')
<1>0. ASSUME TypedInv', RowsKept, Moves(p, Places \ ({"spawn", "rows", "reopenSched"} \cup RetryPlaces)),
             UNCHANGED <<sched, wf, spent>>, upset => upset',
             pass[p].pc \notin {"idle", "spawn", "stopRun", "endSched"}
      PROVE  TypedInv' /\ Kept(p) /\ NoRetry(p) /\ UNCHANGED <<sched, wf>> /\ (upset => upset')
  <2>1. /\ RowsKept /\ UNCHANGED <<sched, wf, spent>>
        /\ Moves(p, Places \ ({"spawn", "rows", "reopenSched"} \cup RetryPlaces))
        /\ pass[p].pc \notin {"idle", "spawn", "stopRun", "endSched"}
    BY <1>0, Zenon
  <2>2. /\ Moves(p, Places \ {"spawn", "rows", "reopenSched"})
        /\ pass'[p].pc \notin RetryPlaces
    BY <2>1 DEF Moves
  <2>3. Kept(p) /\ NoRetry(p)
    BY <2>1, <2>2, KeepsStep
  <2> QED
    BY <1>0, <2>3, Zenon
<1> DEFINE On == {"land", "landed", "skip", "recover", "claim", "create", "mark", "close",
                  "idle", "stop", "read", "endRun"}
<1>p. On \subseteq Places \ ({"spawn", "rows", "reopenSched"} \cup RetryPlaces)
  BY DEF Places, RetryPlaces
<1>m. ASSUME NEW S \in SUBSET On, Moves(p, S)
      PROVE  Moves(p, Places \ ({"spawn", "rows", "reopenSched"} \cup RetryPlaces))
  BY <1>m, <1>p DEF Moves
<1>1. CASE LoadRun(p)
  <2>1. /\ pass[p].pc = "load" /\ UNCHANGED <<sched, wf, step, job, spent>> /\ (upset => upset')
    BY <1>1 DEF LoadRun, At
  <2>2. TypedInv' /\ Moves(p, {"idle", "stop", "read"})
    BY <1>1, LoadRunStep
  <2> QED
    BY <1>0, <1>m, <2>1, <2>2, RowsSame
<1>2. CASE LoadSteps(p)
  <2>1. /\ pass[p].pc = "read" /\ UNCHANGED <<sched, wf, step, job, spent>> /\ (upset => upset')
    BY <1>2 DEF LoadSteps, At
  <2>2. TypedInv' /\ Moves(p, {"land", "skip", "recover", "claim", "close"})
    BY <1>2, LoadStepsStep
  <2> QED
    BY <1>0, <1>m, <2>1, <2>2, RowsSame
<1>3. CASE LandWrite(p)
  <2>1. UNCHANGED spent
    BY <1>3 DEF LandWrite, KeepsRuns
  <2> QED
    BY <1>0, <1>3, <1>m, <2>1, LandWriteStep
<1>4. CASE CreateJob(p)
  BY <1>0, <1>4, <1>m, CreateJobStep, RowsSame
<1>5. CASE MarkDispatched(p)
  BY <1>0, <1>5, <1>m, MarkDispatchedStep
<1>6. CASE Close(p)
  BY <1>0, <1>6, <1>m, CloseStep, RowsSame
<1>7. ASSUME NEW s \in Steps, LandRead(p, s)
      PROVE  TypedInv' /\ Kept(p) /\ NoRetry(p) /\ UNCHANGED <<sched, wf>> /\ (upset => upset')
  <2>1. UNCHANGED spent
    BY <1>7 DEF LandRead, KeepsRuns
  <2> QED
    BY <1>0, <1>7, <1>m, <2>1, LandReadStep, RowsSame
<1>8. ASSUME NEW s \in Steps, SkipStep(p, s)
      PROVE  TypedInv' /\ Kept(p) /\ NoRetry(p) /\ UNCHANGED <<sched, wf>> /\ (upset => upset')
  <2>1. UNCHANGED spent
    BY <1>8 DEF SkipStep, KeepsRuns
  <2> QED
    BY <1>0, <1>8, <1>m, <2>1, SkipStepStep
<1>9. ASSUME NEW s \in Steps, GiveUp(p, s)
      PROVE  TypedInv' /\ Kept(p) /\ NoRetry(p) /\ UNCHANGED <<sched, wf>> /\ (upset => upset')
  <2>1. UNCHANGED spent
    BY <1>9 DEF GiveUp, KeepsRuns
  <2> QED
    BY <1>0, <1>9, <1>m, <2>1, GiveUpStep
<1>10. ASSUME NEW s \in Steps, Recover(p, s)
      PROVE  TypedInv' /\ Kept(p) /\ NoRetry(p) /\ UNCHANGED <<sched, wf>> /\ (upset => upset')
  <2>1. UNCHANGED spent
    BY <1>10 DEF Recover, KeepsRuns
  <2> QED
    BY <1>0, <1>10, <1>m, <2>1, RecoverStep
<1>11. ASSUME NEW s \in Steps, Claim(p, s)
      PROVE  TypedInv' /\ Kept(p) /\ NoRetry(p) /\ UNCHANGED <<sched, wf>> /\ (upset => upset')
  <2>1. UNCHANGED spent
    BY <1>11 DEF Claim, KeepsRuns
  <2> QED
    BY <1>0, <1>11, <1>m, <2>1, ClaimStep
<1> QED
  BY <1>1, <1>2, <1>3, <1>4, <1>5, <1>6, <1>7, <1>8, <1>9, <1>10, <1>11

(* The statements that stop a run, settle a retry, or end what cannot go on. *)
LEMMA StopKeeps ==
    ASSUME TypedInv, Spawning, NEW p \in Passes,
           \/ KillLoad(p) \/ StopRead(p) \/ RetryRead(p) \/ CreateJobRefused(p) \/ Advance(p)
           \/ RequestKill(p) \/ Reap(p) \/ Crash(p) \/ SkeletonRefused(p) \/ ReopenSched(p)
           \/ EndRun(p) \/ StopRun(p) \/ EndSched(p)
           \/ \E s \in Steps : StopStep(p, s) \/ Settle(p, s) \/ ResetStep(p, s)
    PROVE  TypedInv' /\ Kept(p) /\ NoRetry(p)
<1> DEFINE Goal == TypedInv' /\ Kept(p) /\ NoRetry(p)
           Elsewhere == Places \ {"spawn", "rows", "reopenSched"}
<1>p. {"idle", "load", "kill", "stop", "stopping", "stopRun", "endSched"} \cup RetryPlaces \subseteq Elsewhere
  BY DEF Places, RetryPlaces
<1>m. ASSUME NEW S \in SUBSET Elsewhere, Moves(p, S)
      PROVE  Moves(p, Elsewhere) /\ pass'[p].pc \in S
  BY <1>m DEF Moves
<1>1. CASE KillLoad(p)
  <2>1. TypedInv' /\ Moves(p, {"stop", "idle"}) /\ pass[p].pc = "kill"
        /\ UNCHANGED <<sched, wf, step, spent>>
    BY <1>1, KillLoadStep
  <2> QED
    BY <1>m, <1>p, <2>1, RowsSame, KeepsStep DEF RetryPlaces
<1>2. CASE StopRead(p)
  <2>1. TypedInv' /\ Moves(p, {"stopping", "stopRun"}) /\ pass[p].pc = "stop"
        /\ UNCHANGED <<sched, wf, step, spent>>
    BY <1>2, StopReadStep
  <2> QED
    BY <1>m, <1>p, <2>1, RowsSame, KeepsStep DEF RetryPlaces
<1>3. CASE RetryRead(p)
  <2>1. TypedInv' /\ Moves(p, {"settle", "reset", "idle", "reopen"}) /\ pass[p].pc = "retry"
        /\ UNCHANGED <<sched, wf, step, spent>>
    BY <1>3, RetryReadStep
  <2> QED
    BY <1>m, <1>p, <2>1, RowsSame, KeepsStep DEF RetryPlaces
<1>4. CASE CreateJobRefused(p)
  <2>1. pass[p].pc = "create" /\ UNCHANGED <<sched, wf, step>> /\ spent \subseteq spent'
    BY <1>4 DEF CreateJobRefused, At, Fault
  <2>2. TypedInv' /\ Moves(p, {"idle"})
    BY <1>4, PlainStep
  <2> QED
    BY <1>m, <1>p, <2>1, <2>2, RowsSame, KeepsStep DEF RetryPlaces
<1>5. CASE Advance(p)
  <2>1. wf.st # "absent" /\ UNCHANGED <<sched, wf, step, spent>>
    BY <1>5 DEF Advance, KeepsRuns
  <2>2. TypedInv' /\ Moves(p, {"load"})
    BY <1>5, PlainStep
  <2> QED
    BY <1>m, <1>p, <2>1, <2>2, RowsSame, KeepsStep DEF RetryPlaces
<1>6. CASE RequestKill(p)
  <2>1. /\ wf.st # "absent" /\ UNCHANGED <<sched, step>> /\ spent \subseteq spent'
        /\ wf'.st = wf.st /\ wf'.retry = wf.retry
    BY <1>6 DEF RequestKill, Fault, TypedInv, RunType
  <2>2. TypedInv' /\ Moves(p, {"kill"})
    BY <1>6, PlainStep
  <2> QED
    BY <1>m, <1>p, <2>1, <2>2, RowsSame, KeepsStep DEF RetryPlaces
<1>7. CASE Reap(p)
  <2>1. wf.st # "absent" /\ UNCHANGED <<sched, wf, step>> /\ spent \subseteq spent'
    BY <1>7 DEF Reap, Fault
  <2>2. TypedInv' /\ Moves(p, {"stop"})
    BY <1>7, PlainStep
  <2> QED
    BY <1>m, <1>p, <2>1, <2>2, RowsSame, KeepsStep DEF RetryPlaces
<1>8. CASE Crash(p)
  <2>1. pass[p].pc # "idle" /\ UNCHANGED <<sched, wf, step>> /\ spent \subseteq spent'
    BY <1>8 DEF Crash, At, Fault
  <2>2. TypedInv' /\ Moves(p, {"idle"})
    BY <1>8, PlainStep
  <2> QED
    BY <1>m, <1>p, <2>1, <2>2, RowsSame, KeepsStep DEF RetryPlaces
<1>9. CASE SkeletonRefused(p)
  <2>1. /\ pass[p].pc \in {"spawn", "rows"} /\ UNCHANGED <<sched, wf, step>> /\ spent \subseteq spent'
    BY <1>9 DEF SkeletonRefused, Fault
  <2>2. TypedInv' /\ Moves(p, {"stopRun"})
    BY <1>9, SpawnStep
  <2> QED
    BY SMTT(60), <1>m, <1>p, <2>1, <2>2, RowsSame, KeepsStep DEF RetryPlaces
<1>10. CASE ReopenSched(p)
  <2>1. /\ TypedInv' /\ Moves(p, {"load"}) /\ UNCHANGED <<wf, step, spent>>
        /\ pass[p].pc = "reopenSched" /\ (sched' = sched \/ sched' # "absent")
    BY <1>10, ReopenSchedStep
  <2> QED
    BY <1>m, <1>p, <2>1, RowsSame, KeepsStep DEF RetryPlaces
<1>o. pass[p].pc \in {"endRun", "stopRun", "endSched"} => pass[p].out \in RunEnded /\ pass[p].out # "absent"
  BY DEF TypedInv, RunType, PassType, RunEnded
<1>11. CASE EndRun(p)
  <2>1. /\ TypedInv' /\ Moves(p, {"endSched", "idle"}) /\ UNCHANGED <<sched, step, spent>>
        /\ pass[p].pc = "endRun" /\ wf'.retry = wf.retry
        /\ wf'.st = IF wf.st = "running" THEN pass[p].out ELSE wf.st
    BY <1>11, EndRunStep
  <2> QED
    BY <1>m, <1>o, <1>p, <2>1, RowsSame, KeepsStep DEF RetryPlaces
<1>12. CASE StopRun(p)
  <2>1. /\ TypedInv' /\ Moves(p, {"endSched"}) /\ UNCHANGED <<sched, step, spent>>
        /\ pass[p].pc = "stopRun" /\ wf'.retry = wf.retry
        /\ wf'.st = IF wf.st = "running" THEN pass[p].out ELSE wf.st
    BY <1>12, StopRunStep
  <2> QED
    BY <1>m, <1>o, <1>p, <2>1, RowsSame, KeepsStep DEF RetryPlaces
<1>13. CASE EndSched(p)
  <2>1. /\ TypedInv' /\ Moves(p, {"idle"}) /\ UNCHANGED <<wf, step, spent>>
        /\ pass[p].pc = "endSched" /\ sched' = IF sched = "running" THEN pass[p].out ELSE sched
    BY <1>13, EndSchedStep
  <2> QED
    BY <1>m, <1>o, <1>p, <2>1, RowsSame, KeepsStep DEF RetryPlaces
<1>14. ASSUME NEW s \in Steps, StopStep(p, s) PROVE Goal
  <2>1. TypedInv' /\ RowsKept /\ Moves(p, {"stopping", "stopRun"}) /\ pass[p].pc = "stopping"
        /\ UNCHANGED <<sched, wf, spent>>
    BY <1>14, StopStepStep
  <2> QED
    BY <1>m, <1>p, <2>1, KeepsStep DEF RetryPlaces
<1>15. ASSUME NEW s \in Steps, Settle(p, s) PROVE Goal
  <2>1. TypedInv' /\ Moves(p, {"settle", "reset", "idle", "reopen"}) /\ pass[p].pc = "settle"
        /\ UNCHANGED <<sched, wf, step, spent>>
    BY <1>15, SettleStep
  <2> QED
    BY <1>m, <1>p, <2>1, RowsSame, KeepsStep DEF RetryPlaces
<1>16. ASSUME NEW s \in Steps, ResetStep(p, s) PROVE Goal
  <2>1. TypedInv' /\ RowsKept /\ Moves(p, {"reset", "idle", "reopen"}) /\ pass[p].pc = "reset"
        /\ UNCHANGED <<sched, wf, spent>>
    BY <1>16, ResetStepStep
  <2> QED
    BY <1>m, <1>p, <2>1, KeepsStep DEF RetryPlaces
<1> QED
  BY <1>1, <1>2, <1>3, <1>4, <1>5, <1>6, <1>7, <1>8, <1>9, <1>10, <1>11, <1>12, <1>13, <1>14,
     <1>15, <1>16

LEMMA RetryKeeps ==
    ASSUME TypedInv, RetryOnce, Spawning, NEW p \in Passes, Retry(p)
    PROVE  TypedInv' /\ Kept(p) /\ RetryOnce'
<1>1. /\ wf.st \in {"failed", "killed"} /\ UNCHANGED <<sched, wf, step>>
      /\ "retry" \notin spent /\ spent' = spent \cup {"retry"}
      /\ wf.retry + Cardinality(Retrying) < MaxRetries
  BY DEF Retry, Fault
<1>2. TypedInv' /\ Moves(p, {"retry"})
  BY PlainStep
<1>3. Kept(p)
  BY <1>1, <1>2, RowsSame, UnderWay DEF Kept, Moves
<1>4. wf.retry = 0 /\ Retrying = {}
  BY <1>1 DEF RetryOnce
<1>5. MaxRetries > 0
  BY <1>1, <1>4, FS_EmptySet, BoundsAssumption
<1>6. \A o \in Retrying' : o = p
  BY <1>2, <1>4 DEF Retrying, Moves
<1>7. \A o \in Passes : pass'[o].pc # "reopenSched"
  BY <1>2, <1>4 DEF RetryOnce, At, Moves
<1>8. RetryOnce'
  BY <1>1, <1>4, <1>5, <1>6, <1>7 DEF RetryOnce, At
<1> QED
  BY <1>2, <1>3, <1>8

LEMMA ReopenKeeps ==
    ASSUME TypedInv, RetryOnce, Spawning, NEW p \in Passes, Reopen(p)
    PROVE  TypedInv' /\ Kept(p) /\ RetryOnce'
<1>1. /\ TypedInv' /\ Moves(p, {"reopenSched", "idle"})
      /\ UNCHANGED <<sched, step, job, upset, spent>> /\ pass[p].pc = "reopen"
      /\ \/ pass'[p].pc = "idle" /\ wf' = wf
         \/ /\ pass'[p].pc = "reopenSched" /\ wf.st # "absent"
            /\ wf'.retry = 1 /\ wf'.st = "running"
  BY ReopenStep
<1>2. sched # "absent" /\ wf.st # "absent" /\ RowsKept
  BY <1>1, UnderWay, RowsSame
<1>3. Kept(p)
  BY <1>1, <1>2 DEF Kept, Moves
<1>4. p \in Retrying /\ "retry" \in spent /\ wf.retry = 0 /\ Retrying = {p}
  BY <1>1 DEF RetryOnce, Retrying
<1>5. Retrying' = {}
  <2>1. \A o \in Passes : o # p => o \notin Retrying
    BY <1>4
  <2> QED
    BY <1>1, <2>1 DEF Retrying, Moves
<1>6. \A o \in Passes : o # p => pass'[o].pc # "reopenSched"
  BY <1>1, <1>4 DEF RetryOnce, At, Moves
<1>7. RetryOnce'
  BY <1>1, <1>4, <1>5, <1>6 DEF RetryOnce, At
<1> QED
  BY <1>1, <1>3, <1>7

(* The spawner's statements. *)
LEMMA SpawnKeeps ==
    ASSUME TypedInv, RetryOnce, Spawning, NEW p \in Passes,
           CreateScheduleRun(p) \/ CreateWorkflowRun(p) \/ \E s \in Steps : CreateStepRow(p, s)
    PROVE  /\ TypedInv' /\ RetryOnce' /\ Spawning' /\ wf'.retry = wf.retry
           /\ \A s \in Steps : step'[s] = step[s] \/ step[s].st = "absent"
<1>a. Row("absent").st = "absent"
  BY DEF Row
<1>1. CASE CreateScheduleRun(p)
  <2>1. /\ pass[p].pc = "idle" /\ sched = "absent" /\ sched' = "running"
        /\ UNCHANGED <<wf, step, spent>>
    BY <1>1 DEF CreateScheduleRun, At
  <2>2. TypedInv' /\ Moves(p, {"spawn"})
    BY <1>1, SpawnStep
  <2>3. NoRetry(p)
    BY <2>1, <2>2 DEF NoRetry, Moves, RetryPlaces
  <2>4. wf.st = "absent" /\ \A o \in Passes : pass[o].pc = "idle"
    BY <2>1 DEF Spawning, At
  <2>5. \A o \in Passes : pass'[o].pc = IF o = p THEN "spawn" ELSE "idle"
    BY <2>2, <2>4 DEF Moves
  <2>6. Spawning'
    BY <2>1, <2>4, <2>5 DEF Spawning, At
  <2> QED
    BY <2>1, <2>2, <2>3, <2>6, NoRetryStep
<1>2. CASE CreateWorkflowRun(p)
  <2>1. pass[p].pc = "spawn" /\ wf' = [wf EXCEPT !.st = "running"] /\ UNCHANGED <<sched, step, spent>>
    BY <1>2 DEF CreateWorkflowRun, At
  <2>2. wf'.st = "running" /\ wf'.retry = wf.retry
    BY <2>1 DEF TypedInv, RunType
  <2>3. TypedInv' /\ Moves(p, {"rows"}) /\ pass'[p].todo = Steps
    BY <1>2, SpawnStep
  <2>4. NoRetry(p)
    BY <2>1, <2>2, <2>3 DEF NoRetry, Moves, RetryPlaces
  <2>5. /\ wf.st = "absent" /\ sched = "running" /\ \A s \in Steps : step[s] = Row("absent")
        /\ \A o \in Passes : o # p => pass[o].pc = "idle"
    BY <2>1 DEF Spawning, At
  <2>6. \A o \in Passes : pass'[o].pc = IF o = p THEN "rows" ELSE "idle"
    BY <2>3, <2>5 DEF Moves
  <2>7. Spawning'
    BY <2>1, <2>2, <2>3, <2>5, <2>6, DagAssumption DEF Spawning, At
  <2> QED
    BY <2>1, <2>2, <2>3, <2>4, <2>7, NoRetryStep
<1>3. ASSUME NEW s \in Steps, CreateStepRow(p, s)
      PROVE  /\ TypedInv' /\ RetryOnce' /\ Spawning' /\ wf'.retry = wf.retry
             /\ \A o \in Steps : step'[o] = step[o] \/ step[o].st = "absent"
  <2>1. pass[p].pc = "rows" /\ s \in pass[p].todo /\ UNCHANGED <<sched, wf, spent>>
    BY <1>3 DEF CreateStepRow, At, KeepsRuns
  <2>2. /\ TypedInv' /\ Moves(p, {"rows", "load"})
        /\ pass'[p].pc = "rows" => pass'[p].todo = pass[p].todo \ {s} /\ pass'[p].todo # {}
        /\ \A o \in Steps : step'[o] = IF o = s THEN Row("blocked") ELSE step[o]
    BY <1>3, CreateStepRowStep
  <2>3. NoRetry(p)
    BY <2>1, <2>2 DEF NoRetry, Moves, RetryPlaces
  <2>4. /\ wf.st # "absent" /\ sched # "absent"
        /\ \A o \in Passes : o # p => pass[o].pc \notin {"spawn", "rows"}
        /\ \A o \in pass[p].todo : step[o] = Row("absent")
    BY <2>1, UnderWay DEF Spawning, At
  <2>5. \A o \in Passes : o # p => pass'[o].pc \notin {"spawn", "rows"}
    BY <2>2, <2>4 DEF Moves
  <2>6. pass'[p].pc = "rows" => \A o \in pass'[p].todo : step'[o] = Row("absent")
    BY <2>2, <2>4 DEF TypedInv, RunType, Pass
  <2>7. pass'[p].pc # "spawn"
    BY <2>2 DEF Moves
  <2>8. Spawning'
    BY <2>1, <2>2, <2>4, <2>5, <2>6, <2>7 DEF Spawning, At
  <2> QED
    BY <1>a, <2>1, <2>2, <2>3, <2>4, <2>8, NoRetryStep
<1> QED
  BY <1>1, <1>2, <1>3

-----------------------------------------------------------------------------
(* Types, dependencies, and a success that lasts *)

LEMMA CoreInit == Init => CoreInv
<1> SUFFICES ASSUME Init PROVE CoreInv
  OBVIOUS
<1>1. /\ sched = "absent" /\ wf \in [st : {"absent"}, kill : {FALSE}, retry : {0}, halt : BOOLEAN]
      /\ \A s \in Steps : step[s] = Row("absent") /\ step[s].st = "absent"
      /\ step \in [Steps -> StepRow] /\ \A s \in Steps : RowType(step[s], job[s])
      /\ job \in [Steps -> [Attempts -> JobStates]]
      /\ \A s \in Steps, k \in Attempts : job[s][k] = "absent"
      /\ upset \in BOOLEAN
  BY Bounds DEF Init, Row, RowType, StepRow, RowStates, JobStates
<1>2. pass \in [Passes -> Pass] /\ \A p \in Passes : pass[p] = Idle /\ pass[p].pc = "idle"
  BY IdleFields DEF Init
<1>3. \A p \in Passes : PassOK(pass[p], job)
  BY <1>2, IdleOK
<1>4. wf \in Wf /\ wf.retry = 0 /\ wf.st = "absent"
  BY <1>1, Bounds DEF Wf
<1>5. RunType
  BY <1>1, <1>2, <1>3, <1>4 DEF RunType, PassOK, Wf
<1>6. Retrying = {}
  BY <1>2 DEF Retrying
<1>7. RetryOnce
  BY <1>2, <1>4, <1>6 DEF RetryOnce, At
<1>8. Spawning
  BY <1>1, <1>2, <1>4 DEF Spawning, At
<1>9. DepsInv
  BY <1>1, <1>3 DEF DepsInv, DependenciesFirst, PassOK
<1> QED
  BY <1>5, <1>7, <1>8, <1>9 DEF CoreInv

SuccessStays == \A s \in Steps : step[s].st = "success" => step'[s].st = "success"

LEMMA CoreStep == CoreInv /\ [Next]_vars => CoreInv' /\ SuccessStays
<1> SUFFICES ASSUME CoreInv, [Next]_vars PROVE CoreInv' /\ SuccessStays
  OBVIOUS
<1>1. TypedInv /\ RetryOnce /\ Spawning
  BY DEF CoreInv, TypedInv
<1>2. ASSUME TypedInv', RetryOnce', Spawning' PROVE CoreInv'
  BY <1>2 DEF CoreInv, TypedInv
<1>3. ASSUME NEW p \in Passes, TypedInv', Kept(p), RetryOnce' PROVE CoreInv' /\ SuccessStays
  <2>1. Spawning'
    BY <1>1, <1>3, KeptSpawning
  <2>2. SuccessStays
    BY <1>3 DEF Kept, RowsKept, SuccessStays
  <2> QED
    BY <1>2, <1>3, <2>1, <2>2
<1>4. CASE UNCHANGED vars
  <2>1. TypedInv'
    BY <1>1, <1>4 DEF vars, TypedInv, RunType, DepsInv, DependenciesFirst
  <2>2. RetryOnce' /\ Spawning'
    BY <1>1, <1>4 DEF vars, RetryOnce, Spawning, Retrying, At
  <2> QED
    BY <1>2, <1>4, <2>1, <2>2 DEF vars, SuccessStays
<1>5. ASSUME NEW s \in Steps, NEW k \in Attempts, JobEnds(s, k) PROVE CoreInv' /\ SuccessStays
  <2>1. TypedInv' /\ UNCHANGED <<sched, wf, step, pass, upset, spent>>
    BY <1>1, <1>5, JobEndsStep
  <2>2. RetryOnce' /\ Spawning'
    BY <1>1, <2>1 DEF RetryOnce, Spawning, Retrying, At
  <2> QED
    BY <1>2, <2>1, <2>2 DEF SuccessStays
<1>6. ASSUME NEW p \in Passes, Proceed(p) PROVE CoreInv' /\ SuccessStays
  <2>1. CASE CreateWorkflowRun(p) \/ \E s \in Steps : CreateStepRow(p, s)
    <3>1. /\ TypedInv' /\ RetryOnce' /\ Spawning'
          /\ \A s \in Steps : step'[s] = step[s] \/ step[s].st = "absent"
      BY <1>1, <2>1, SpawnKeeps
    <3> QED
      BY <1>2, <3>1 DEF SuccessStays
  <2>2. CASE Reopen(p)
    BY <1>1, <1>3, <2>2, ReopenKeeps
  <2>3. CASE \/ LoadRun(p) \/ LoadSteps(p) \/ LandWrite(p) \/ CreateJob(p) \/ MarkDispatched(p) \/ Close(p)
             \/ \E s \in Steps : \/ LandRead(p, s) \/ SkipStep(p, s) \/ GiveUp(p, s)
                                 \/ Recover(p, s) \/ Claim(p, s)
    <3>1. TypedInv' /\ Kept(p) /\ NoRetry(p)
      BY <1>1, <2>3, AdvanceKeeps, Zenon
    <3> QED
      BY <1>1, <1>3, <3>1, NoRetryStep
  <2>4. CASE \/ KillLoad(p) \/ StopRead(p) \/ RetryRead(p) \/ ReopenSched(p)
             \/ EndRun(p) \/ StopRun(p) \/ EndSched(p)
             \/ \E s \in Steps : StopStep(p, s) \/ Settle(p, s) \/ ResetStep(p, s)
    <3>1. TypedInv' /\ Kept(p) /\ NoRetry(p)
      BY <1>1, <2>4, StopKeeps
    <3> QED
      BY <1>1, <1>3, <3>1, NoRetryStep
  <2> QED
    BY <1>6, <2>1, <2>2, <2>3, <2>4 DEF Proceed
<1>7. ASSUME NEW p \in Passes, CreateScheduleRun(p) PROVE CoreInv' /\ SuccessStays
  <2>1. /\ TypedInv' /\ RetryOnce' /\ Spawning'
        /\ \A s \in Steps : step'[s] = step[s] \/ step[s].st = "absent"
    BY <1>1, <1>7, SpawnKeeps
  <2> QED
    BY <1>2, <2>1 DEF SuccessStays
<1>8. ASSUME NEW p \in Passes, Retry(p) PROVE CoreInv' /\ SuccessStays
  BY <1>1, <1>3, <1>8, RetryKeeps
<1>9. ASSUME NEW p \in Passes,
             \/ Advance(p) \/ SkeletonRefused(p) \/ CreateJobRefused(p) \/ RequestKill(p)
             \/ Reap(p) \/ Crash(p)
      PROVE  CoreInv' /\ SuccessStays
  <2>1. TypedInv' /\ Kept(p) /\ NoRetry(p)
    BY <1>1, <1>9, StopKeeps
  <2> QED
    BY <1>1, <1>3, <2>1, NoRetryStep
<1> QED
  BY <1>4, <1>5, <1>6, <1>7, <1>8, <1>9 DEF Next

LEMMA CoreAlways == Spec => []CoreInv
<1>1. CoreInv /\ [Next]_vars => CoreInv'
  BY CoreStep
<1> QED
  BY <1>1, CoreInit, PTL DEF Spec

(* Every row has a status of its table, and a dispatched step has its job, whatever passes,
   crashes, refusals, kills and retries come together. *)
THEOREM TypeCorrect == Spec => []TypeOK
<1>1. CoreInv => TypeOK
  BY DEF CoreInv, RunType, TypeOK, RowType, StepRow, RowStates, JobStates
<1> QED
  BY <1>1, CoreAlways, PTL

(* A job of a step is created only after a job of every dependency has succeeded: what a
   stale pass has read of its dependencies as success was one, and no success is taken back. *)
THEOREM DependenciesComeFirst == Spec => []DependenciesFirst
<1>1. CoreInv => DependenciesFirst
  BY DEF CoreInv, DepsInv
<1> QED
  BY <1>1, CoreAlways, PTL

(* A step that succeeded stays so: every guarded write spares it, and the skeleton, the one
   unguarded write, finds only rows that are not there yet. *)
THEOREM SuccessLasts == Spec => SuccessIsKept
<1>1. CoreInv /\ [Next]_vars => [SuccessStays]_vars
  BY CoreStep
<1>2. Spec => [][SuccessStays]_vars
  BY <1>1, CoreAlways, PTL DEF Spec
<1> QED
  BY <1>2 DEF SuccessIsKept, SuccessStays

-----------------------------------------------------------------------------
(* The schedule run of an untroubled run ends as the run does *)

(* A statement that neither ends a run nor troubles it. *)
Calm(p) ==
    Untroubled' =>
        /\ Untroubled /\ wf'.st = wf.st /\ sched' = sched
        /\ pass'[p].pc \notin {"stop", "stopping", "endSched", "stopRun"}
        /\ pass'[p].pc \in Past => pass[p].pc \in Past \/ RowsIn({"absent"}) = {}

LEMMA TroubleStays ==
    ASSUME wf'.retry = wf.retry, upset => upset'
    PROVE  Untroubled' => Untroubled
BY Zenon DEF Untroubled

LEMMA AbsentRows ==
    ASSUME RowsKept
    PROVE  /\ RowsIn({"absent"}) = {} => RowsIn({"absent"})' = {}
           /\ RowsIn({"absent"}) # {} => RowsIn({"absent"})' # {}
BY DEF RowsKept, RowsIn

LEMMA CalmAgrees ==
    ASSUME AgreeInv, NEW p \in Passes, Kept(p), Calm(p)
    PROVE  AgreeInv'
<1> SUFFICES ASSUME Untroubled'
             PROVE  /\ \A o \in Passes : pass'[o].pc \notin {"stop", "stopping"}
                    /\ \A o \in Passes : pass'[o].pc \in Past => RowsIn({"absent"})' = {}
                    /\ \A o \in Passes : pass'[o].pc = "endSched" => wf'.st \in {pass'[o].out, "absent"}
                    /\ \A o \in Passes : pass'[o].pc = "stopRun" =>
                          /\ pass'[o].out = "failed" /\ wf'.st \in {"absent", "running"}
                          /\ RowsIn({"absent"})' # {}
                          /\ \A q \in Passes : pass'[q].pc \notin {"spawn", "rows"}
                          /\ \A q \in Passes : pass'[q].pc = "stopRun" => q = o
                    /\ \A o \in Passes : pass'[o].pc = "rows" => wf'.st = "running"
                    /\ sched' \in RunEnded /\ wf'.st # "absent" => sched' = wf'.st
  BY DEF AgreeInv, At
<1>1. /\ wf'.st = wf.st /\ sched' = sched
      /\ pass'[p].pc \notin {"stop", "stopping", "endSched", "stopRun", "spawn", "rows"}
      /\ pass'[p].pc \in Past => pass[p].pc \in Past \/ RowsIn({"absent"}) = {}
      /\ \A o \in Passes : o # p => pass'[o] = pass[o]
      /\ Untroubled /\ RowsKept
  BY DEF Calm, Kept
<1> USE DEF AgreeInv, At
<1>2. \A o \in Passes : pass'[o].pc \in {"endSched", "stopRun", "rows", "stop", "stopping"} =>
                           o # p /\ pass'[o] = pass[o]
  BY <1>1
<1>3. \A o \in Passes : pass'[o].pc \notin {"stop", "stopping"}
  BY <1>1, <1>2
<1>4. \A o \in Passes : pass'[o].pc \in Past => RowsIn({"absent"})' = {}
  BY <1>1, AbsentRows
<1>5. \A o \in Passes : pass'[o].pc = "stopRun" =>
          /\ pass'[o].out = "failed" /\ wf'.st \in {"absent", "running"}
          /\ RowsIn({"absent"})' # {}
          /\ \A q \in Passes : pass'[q].pc \notin {"spawn", "rows"}
          /\ \A q \in Passes : pass'[q].pc = "stopRun" => q = o
  BY <1>1, <1>2, AbsentRows
<1>6. \A o \in Passes : pass'[o].pc = "endSched" => wf'.st \in {pass'[o].out, "absent"}
  BY <1>1, <1>2
<1>7. \A o \in Passes : pass'[o].pc = "rows" => wf'.st = "running"
  BY <1>1, <1>2
<1>8. sched' \in RunEnded /\ wf'.st # "absent" => sched' = wf'.st
  BY <1>1
<1> QED
  BY <1>3, <1>4, <1>5, <1>6, <1>7, <1>8

LEMMA AdvanceCalm ==
    ASSUME TypedInv, Spawning, AgreeInv, NEW p \in Passes,
           \/ LoadRun(p) \/ LoadSteps(p) \/ LandWrite(p) \/ CreateJob(p) \/ MarkDispatched(p) \/ Close(p)
           \/ \E s \in Steps : \/ LandRead(p, s) \/ SkipStep(p, s) \/ GiveUp(p, s)
                               \/ Recover(p, s) \/ Claim(p, s)
    PROVE  Calm(p)
<1>1. UNCHANGED <<sched, wf>> /\ (upset => upset')
  BY AdvanceKeeps, Zenon
<1>2. UNCHANGED <<sched, wf>> /\ (Untroubled' => Untroubled)
  BY <1>1, TroubleStays, Zenon
<1>3. ASSUME pass[p].pc \in Past, Moves(p, Past \cup {"idle"}) PROVE Calm(p)
  BY <1>2, <1>3 DEF Calm, Moves, Past
<1>m. ASSUME NEW S \in SUBSET (Past \cup {"idle"}), Moves(p, S) PROVE Moves(p, Past \cup {"idle"})
  BY <1>m DEF Moves
<1>4. CASE LoadRun(p)
  <2>1. Moves(p, {"idle", "stop", "read"}) /\ (pass'[p].pc = "stop" => upset')
    BY <1>4, LoadRunStep
  <2>2. pass'[p].pc = "stop" => ~Untroubled'
    BY <2>1, Zenon DEF Untroubled
  <2>3. pass'[p].pc \in {"idle", "stop", "read"}
    BY <2>1, Zenon DEF Moves
  <2> QED
    BY <1>2, <2>2, <2>3 DEF Calm, Past
<1>5. CASE LoadSteps(p)
  <2>1. /\ Moves(p, {"land", "skip", "recover", "claim", "close"})
        /\ upset' = (upset \/ RowsIn({"absent"}) # {})
    BY <1>5, LoadStepsStep
  <2>2. Untroubled' => RowsIn({"absent"}) = {}
    BY <2>1, Zenon DEF Untroubled
  <2>3. pass'[p].pc \in {"land", "skip", "recover", "claim", "close"}
    BY <2>1, Zenon DEF Moves
  <2> QED
    BY <1>2, <2>2, <2>3 DEF Calm, Past
<1>6. CASE LandWrite(p)
  <2>1. Moves(p, {"land", "skip", "recover", "claim", "close"}) /\ pass[p].pc = "landed"
    BY <1>6, LandWriteStep
  <2> QED
    BY <1>3, <1>m, <2>1 DEF Past
<1>7. CASE CreateJob(p)
  <2>1. Moves(p, {"mark"}) /\ pass[p].pc = "create"
    BY <1>7, CreateJobStep
  <2> QED
    BY <1>3, <1>m, <2>1 DEF Past
<1>8. CASE MarkDispatched(p)
  <2>1. Moves(p, {"recover", "claim", "close"}) /\ pass[p].pc = "mark"
    BY <1>8, MarkDispatchedStep
  <2> QED
    BY <1>3, <1>m, <2>1 DEF Past
<1>9. CASE Close(p)
  <2>1. Moves(p, {"endRun", "idle"}) /\ pass[p].pc = "close"
    BY <1>9, CloseStep
  <2> QED
    BY <1>3, <1>m, <2>1 DEF Past
<1>10. ASSUME NEW s \in Steps, LandRead(p, s) PROVE Calm(p)
  <2>1. Moves(p, {"land", "landed", "skip", "recover", "claim", "close"}) /\ pass[p].pc = "land"
    BY <1>10, LandReadStep
  <2> QED
    BY <1>3, <1>m, <2>1 DEF Past
<1>11. ASSUME NEW s \in Steps, SkipStep(p, s) PROVE Calm(p)
  <2>1. Moves(p, {"skip", "recover", "claim", "close"}) /\ pass[p].pc = "skip"
    BY <1>11, SkipStepStep
  <2> QED
    BY <1>3, <1>m, <2>1 DEF Past
<1>12. ASSUME NEW s \in Steps, GiveUp(p, s) PROVE Calm(p)
  <2>1. Moves(p, {"recover", "claim", "close"}) /\ pass[p].pc = "recover"
    BY <1>12, GiveUpStep
  <2> QED
    BY <1>3, <1>m, <2>1 DEF Past
<1>13. ASSUME NEW s \in Steps, Recover(p, s) PROVE Calm(p)
  <2>1. Moves(p, {"recover", "create", "claim", "close"}) /\ pass[p].pc = "recover"
    BY <1>13, RecoverStep
  <2> QED
    BY <1>3, <1>m, <2>1 DEF Past
<1>14. ASSUME NEW s \in Steps, Claim(p, s) PROVE Calm(p)
  <2>1. Moves(p, {"create", "claim", "close"}) /\ pass[p].pc = "claim"
    BY <1>14, ClaimStep
  <2> QED
    BY <1>3, <1>m, <2>1 DEF Past
<1> QED
  BY <1>4, <1>5, <1>6, <1>7, <1>8, <1>9, <1>10, <1>11, <1>12, <1>13, <1>14

LEMMA StopCalm ==
    ASSUME TypedInv, RetryOnce, AgreeInv, NEW p \in Passes,
           \/ KillLoad(p) \/ StopRead(p) \/ RetryRead(p) \/ CreateJobRefused(p) \/ Advance(p)
           \/ RequestKill(p) \/ Reap(p) \/ Crash(p) \/ Retry(p) \/ Reopen(p) \/ ReopenSched(p)
           \/ \E s \in Steps : StopStep(p, s) \/ Settle(p, s) \/ ResetStep(p, s)
    PROVE  Calm(p)
<1>1. ASSUME UNCHANGED <<sched, wf, upset>>,
             pass'[p].pc \in {"idle", "load", "kill"} \cup RetryPlaces
      PROVE  Calm(p)
  <2>1. Untroubled' => Untroubled
    BY <1>1, Zenon DEF Untroubled
  <2>2. /\ wf' = wf /\ sched' = sched
        /\ pass'[p].pc \notin {"stop", "stopping", "endSched", "stopRun"} \cup Past
    BY <1>1 DEF RetryPlaces, Past
  <2> QED
    BY <2>1, <2>2 DEF Calm
<1>2. CASE KillLoad(p)
  <2>1. /\ Moves(p, {"stop", "idle"}) /\ UNCHANGED <<sched, wf>>
        /\ (pass'[p].pc = "stop" => upset') /\ (upset => upset')
    BY <1>2, KillLoadStep
  <2>2. (pass'[p].pc = "stop" => ~Untroubled') /\ (Untroubled' => Untroubled)
    BY <2>1, Zenon DEF Untroubled
  <2>3. pass'[p].pc \in {"stop", "idle"} /\ UNCHANGED <<sched, wf>>
    BY <2>1, Zenon DEF Moves
  <2> QED
    BY <2>2, <2>3 DEF Calm, Past
<1>3. ASSUME pass[p].pc \in {"stop", "stopping"}, UNCHANGED <<sched, wf, upset>> PROVE Calm(p)
  <2>1. ~Untroubled
    BY <1>3 DEF AgreeInv
  <2>2. ~Untroubled'
    BY <1>3, <2>1, Zenon DEF Untroubled
  <2> QED
    BY <2>2 DEF Calm
<1>4. CASE StopRead(p)
  BY <1>3, <1>4, StopReadStep
<1>5. ASSUME NEW s \in Steps, StopStep(p, s) PROVE Calm(p)
  BY <1>3, <1>5, StopStepStep
<1>6. CASE RetryRead(p)
  <2>1. /\ Moves(p, {"settle", "reset", "idle", "reopen"}) /\ UNCHANGED <<sched, wf, upset>>
    BY <1>6, RetryReadStep
  <2> QED
    BY <1>1, <2>1 DEF Moves, RetryPlaces
<1>7. CASE CreateJobRefused(p) \/ Crash(p)
  <2>1. UNCHANGED <<sched, wf, upset>>
    BY <1>7 DEF CreateJobRefused, Crash
  <2>2. Moves(p, {"idle"})
    BY <1>7, PlainStep
  <2> QED
    BY <1>1, <2>1, <2>2 DEF Moves
<1>8. CASE Advance(p)
  <2>1. UNCHANGED <<sched, wf, upset>>
    BY <1>8 DEF Advance, KeepsRuns
  <2>2. Moves(p, {"load"})
    BY <1>8, PlainStep
  <2> QED
    BY <1>1, <2>1, <2>2 DEF Moves
<1>9. CASE RequestKill(p)
  <2>1. UNCHANGED <<sched, upset>> /\ wf' = [wf EXCEPT !.kill = TRUE]
    BY <1>9 DEF RequestKill
  <2>2. wf'.st = wf.st /\ wf'.retry = wf.retry
    BY <2>1 DEF TypedInv, RunType
  <2>3. Moves(p, {"kill"})
    BY <1>9, PlainStep
  <2>4. Untroubled' => Untroubled
    BY <2>1, <2>2, Zenon DEF Untroubled
  <2> QED
    BY <2>1, <2>2, <2>3, <2>4 DEF Calm, Moves, Past
<1>10. CASE Reap(p)
  <2>1. upset' = TRUE
    BY <1>10 DEF Reap
  <2>2. ~Untroubled'
    BY <2>1, Zenon DEF Untroubled
  <2> QED
    BY <2>2 DEF Calm
<1>11. CASE Retry(p)
  <2>1. UNCHANGED <<sched, wf, upset>>
    BY <1>11 DEF Retry
  <2>2. Moves(p, {"retry"})
    BY <1>11, PlainStep
  <2> QED
    BY <1>1, <2>1, <2>2 DEF Moves, RetryPlaces
<1>12. CASE Reopen(p)
  <2>1. /\ UNCHANGED <<sched, upset>>
        /\ (pass'[p].pc = "idle" /\ wf' = wf) \/ wf'.retry = 1
    BY <1>12, ReopenStep
  <2>2. CASE pass'[p].pc = "idle" /\ wf' = wf
    BY <1>1, <2>1, <2>2
  <2>3. CASE wf'.retry = 1
    <3>1. ~Untroubled'
      BY <2>3 DEF Untroubled
    <3> QED
      BY <3>1 DEF Calm
  <2> QED
    BY <2>1, <2>2, <2>3
<1>13. CASE ReopenSched(p)
  <2>1. wf' = wf /\ wf.retry = 1
    BY <1>13, ReopenSchedStep DEF RetryOnce, At
  <2>2. ~Untroubled'
    BY <2>1 DEF Untroubled
  <2> QED
    BY <2>2 DEF Calm
<1>14. ASSUME NEW s \in Steps, Settle(p, s) PROVE Calm(p)
  <2>1. /\ Moves(p, {"settle", "reset", "idle", "reopen"}) /\ UNCHANGED <<sched, wf, upset>>
    BY <1>14, SettleStep
  <2> QED
    BY <1>1, <2>1 DEF Moves, RetryPlaces
<1>15. ASSUME NEW s \in Steps, ResetStep(p, s) PROVE Calm(p)
  <2>1. /\ Moves(p, {"reset", "idle", "reopen"}) /\ UNCHANGED <<sched, wf, upset>>
    BY <1>15, ResetStepStep
  <2> QED
    BY <1>1, <2>1 DEF Moves, RetryPlaces
<1> QED
  BY <1>2, <1>4, <1>5, <1>6, <1>7, <1>8, <1>9, <1>10, <1>11, <1>12, <1>13, <1>14, <1>15

(* Spawning a run, and giving that up. *)
LEMMA SpawnAgrees ==
    ASSUME TypedInv, RetryOnce, Spawning, AgreeInv, NEW p \in Passes,
           \/ CreateScheduleRun(p) \/ CreateWorkflowRun(p) \/ SkeletonRefused(p)
           \/ \E s \in Steps : CreateStepRow(p, s)
    PROVE  AgreeInv'
<1>1. CASE CreateScheduleRun(p)
  <2>1. sched = "absent" /\ sched' = "running"
    BY <1>1 DEF CreateScheduleRun
  <2>2. Moves(p, {"spawn"})
    BY <1>1, SpawnStep
  <2>3. \A o \in Passes : pass'[o].pc \in {"idle", "spawn"}
    BY <2>1, <2>2 DEF Spawning, At, Moves
  <2> QED
    BY <2>1, <2>3 DEF AgreeInv, At, Past, RunEnded
<1>2. CASE CreateWorkflowRun(p)
  <2>1. pass[p].pc = "spawn" /\ wf' = [wf EXCEPT !.st = "running"] /\ sched' = sched
    BY <1>2 DEF CreateWorkflowRun, At
  <2>2. wf'.st = "running" /\ sched' = "running"
    BY <2>1 DEF TypedInv, RunType, Spawning, At
  <2>3. Moves(p, {"rows"})
    BY <1>2, SpawnStep
  <2>4. \A o \in Passes : pass'[o].pc \in {"idle", "rows"}
    BY <2>1, <2>3 DEF Spawning, At, Moves
  <2> QED
    BY <2>2, <2>4 DEF AgreeInv, At, Past, RunEnded
<1>3. CASE SkeletonRefused(p)
  <2>1. pass[p].pc \in {"spawn", "rows"} /\ UNCHANGED <<sched, wf, step, upset>>
    BY <1>3 DEF SkeletonRefused
  <2>2. Moves(p, {"stopRun"}) /\ pass'[p].out = "failed"
    BY <1>3, SpawnStep
  <2> SUFFICES ASSUME Untroubled' PROVE AgreeInv'
    BY DEF AgreeInv
  <2>3. Untroubled
    BY <2>1, Zenon DEF Untroubled
  <2>4. RowsIn({"absent"}) # {}
    <3>1. \E s \in Steps : step[s] = Row("absent")
      BY <2>1, DagAssumption DEF Spawning, At, TypedInv, RunType, Pass
    <3> QED
      BY <3>1 DEF RowsIn, Row
  <2>5. RowsIn({"absent"})' = RowsIn({"absent"})
    BY <2>1 DEF RowsIn
  <2>6. wf.st \in {"absent", "running"}
    BY <2>1, <2>3 DEF Spawning, At, AgreeInv
  <2>7. \A o \in Passes : o # p => pass'[o] = pass[o] /\ pass[o].pc \notin {"stopRun", "spawn", "rows"}
    BY <2>1, <2>2, <2>3 DEF Spawning, At, AgreeInv, Moves
  <2>8. pass'[p].pc = "stopRun"
    BY <2>2 DEF Moves
  <2> QED
    BY <2>1, <2>2, <2>3, <2>4, <2>5, <2>6, <2>7, <2>8 DEF AgreeInv, At, Past
<1>4. ASSUME NEW s \in Steps, CreateStepRow(p, s) PROVE AgreeInv'
  <2>1. pass[p].pc = "rows" /\ s \in pass[p].todo /\ UNCHANGED <<sched, wf, upset>>
    BY <1>4 DEF CreateStepRow, At, KeepsRuns
  <2>2. /\ Moves(p, {"rows", "load"})
        /\ \A o \in Steps : step'[o] = IF o = s THEN Row("blocked") ELSE step[o]
    BY <1>4, CreateStepRowStep
  <2> SUFFICES ASSUME Untroubled' PROVE AgreeInv'
    BY DEF AgreeInv
  <2>3. Untroubled
    BY <2>1, Zenon DEF Untroubled
  <2>4. step[s].st = "absent"
    BY <2>1 DEF Spawning, At, Row
  <2>5. RowsIn({"absent"}) # {}
    BY <2>4 DEF RowsIn
  <2>6. \A o \in Passes : o # p => /\ pass'[o] = pass[o]
                                   /\ pass[o].pc \notin {"stopRun", "spawn", "rows"} \cup Past
    BY <2>1, <2>2, <2>3, <2>5 DEF Spawning, At, AgreeInv, Moves
  <2>7. pass'[p].pc \in {"rows", "load"}
    BY <2>2 DEF Moves
  <2> QED
    BY <2>1, <2>3, <2>6, <2>7 DEF AgreeInv, At, Past
<1> QED
  BY <1>1, <1>2, <1>3, <1>4

(* Ending a run and its schedule run. *)
LEMMA EndAgrees ==
    ASSUME TypedInv, Spawning, AgreeInv, NEW p \in Passes, EndRun(p) \/ StopRun(p) \/ EndSched(p)
    PROVE  AgreeInv'
<1> SUFFICES ASSUME Untroubled' PROVE AgreeInv'
  BY DEF AgreeInv
<1>0. "running" \notin RunEnded /\ "absent" \notin RunEnded
  BY DEF RunEnded
<1>a. \A o \in Passes : pass[o].pc \in {"endRun", "stopRun", "endSched"} => pass[o].out \in RunEnded
  BY DEF TypedInv, RunType, PassType
<1>b. \A o \in Passes : pass[o].pc = "rows" => RowsIn({"absent"}) # {}
  <2>1. \A o \in Passes : pass[o].pc = "rows" => \E s \in Steps : step[s] = Row("absent")
    BY DEF Spawning, At, TypedInv, RunType, Pass
  <2> QED
    BY <2>1 DEF RowsIn, Row
<1>p. /\ Placed(pass[p], "endSched").out = pass[p].out /\ Placed(pass[p], "endSched").pc = "endSched"
  BY PlacedFields DEF TypedInv, RunType, Places
<1>1. CASE EndRun(p)
  <2>1. /\ Moves(p, {"endSched", "idle"}) /\ UNCHANGED <<sched, step, upset>>
        /\ pass[p].pc = "endRun" /\ wf'.retry = wf.retry
        /\ wf'.st = IF wf.st = "running" THEN pass[p].out ELSE wf.st
        /\ pass'[p] = IF wf.st = "running" THEN Placed(pass[p], "endSched") ELSE Idle
    BY <1>1, EndRunStep
  <2>2. Untroubled
    BY <2>1, Zenon DEF Untroubled
  <2>3. RowsIn({"absent"}) = {} /\ RowsIn({"absent"})' = RowsIn({"absent"})
    BY <2>1, <2>2 DEF AgreeInv, Past, RowsIn
  <2>4. \A o \in Passes : pass[o].pc \notin {"stopRun", "rows"}
    BY <1>b, <2>2, <2>3 DEF AgreeInv, At
  <2>5. \A o \in Passes : o # p => pass'[o] = pass[o]
    BY <2>1 DEF Moves
  <2>6. CASE wf.st = "running"
    <3>1. sched \notin RunEnded /\ \A o \in Passes : pass[o].pc # "endSched"
      BY <1>0, <1>a, <2>2, <2>6 DEF AgreeInv, At
    <3>2. wf'.st = pass[p].out /\ pass'[p].pc = "endSched" /\ pass'[p].out = pass[p].out
      BY <1>p, <2>1, <2>6
    <3> QED
      BY <2>1, <2>2, <2>3, <2>4, <2>5, <3>1, <3>2 DEF AgreeInv, At, Past
  <2>7. CASE wf.st # "running"
    <3>1. wf'.st = wf.st /\ pass'[p].pc = "idle"
      BY <2>1, <2>7, IdleFields
    <3> QED
      BY <2>1, <2>2, <2>3, <2>4, <2>5, <3>1 DEF AgreeInv, At, Past
  <2> QED
    BY <2>6, <2>7
<1>2. CASE StopRun(p)
  <2>1. /\ Moves(p, {"endSched"}) /\ UNCHANGED <<sched, step, upset>>
        /\ pass[p].pc = "stopRun" /\ wf'.retry = wf.retry
        /\ wf'.st = IF wf.st = "running" THEN pass[p].out ELSE wf.st
        /\ pass'[p] = Placed(pass[p], "endSched")
    BY <1>2, StopRunStep
  <2>2. Untroubled
    BY <2>1, Zenon DEF Untroubled
  <2>3. RowsIn({"absent"}) # {} /\ RowsIn({"absent"})' = RowsIn({"absent"})
    BY <2>1, <2>2 DEF AgreeInv, At, RowsIn
  <2>4. /\ \A o \in Passes : pass[o].pc \notin {"spawn", "rows"} \cup Past
        /\ \A o \in Passes : o # p => pass[o].pc # "stopRun"
        /\ wf.st \in {"absent", "running"}
    BY <2>1, <2>2, <2>3 DEF AgreeInv, At
  <2>5. /\ \A o \in Passes : o # p => pass'[o] = pass[o]
        /\ pass'[p].pc = "endSched" /\ pass'[p].out = pass[p].out
    BY <1>p, <2>1 DEF Moves
  <2>6. \A o \in Passes : pass'[o].pc \notin {"stop", "stopping", "rows", "stopRun"} \cup Past
    BY <2>2, <2>4, <2>5 DEF AgreeInv, Past
  <2>7. wf'.st \in {"absent", pass[p].out} /\ (wf'.st # "absent" => wf.st = "running")
    BY <2>1, <2>4
  <2>8. \A o \in Passes : o # p /\ pass[o].pc = "endSched" => wf.st = "absent"
    BY <1>0, <1>a, <2>2, <2>4 DEF AgreeInv, At
  <2>9. \A o \in Passes : pass'[o].pc = "endSched" => wf'.st \in {pass'[o].out, "absent"}
    BY <2>5, <2>7, <2>8
  <2>10. sched' \in RunEnded /\ wf'.st # "absent" => sched' = wf'.st
    BY <1>0, <2>1, <2>2, <2>7 DEF AgreeInv
  <2> QED
    BY <2>6, <2>9, <2>10 DEF AgreeInv, At, Past
<1>3. CASE EndSched(p)
  <2>1. /\ Moves(p, {"idle"}) /\ UNCHANGED <<wf, step, upset>> /\ pass[p].pc = "endSched"
        /\ sched' = IF sched = "running" THEN pass[p].out ELSE sched
    BY <1>3, EndSchedStep
  <2>2. Untroubled
    BY <2>1, Zenon DEF Untroubled
  <2>3. pass'[p].pc = "idle" /\ \A o \in Passes : o # p => pass'[o] = pass[o]
    BY <2>1 DEF Moves
  <2>4. RowsIn({"absent"})' = RowsIn({"absent"})
    BY <2>1 DEF RowsIn
  <2>5. sched' \in RunEnded /\ wf'.st # "absent" => sched' = wf'.st
    BY <2>1, <2>2 DEF AgreeInv, At
  <2> QED
    BY <2>1, <2>2, <2>3, <2>4, <2>5 DEF AgreeInv, At, Past
<1> QED
  BY <1>1, <1>2, <1>3

LEMMA AgreeInit == Init => AgreeInv
<1> SUFFICES ASSUME Init PROVE AgreeInv
  OBVIOUS
<1>1. sched = "absent" /\ \A p \in Passes : pass[p].pc = "idle"
  BY IdleFields DEF Init
<1> QED
  BY <1>1 DEF AgreeInv, At, Past, RunEnded

LEMMA AgreeStep == CoreInv /\ AgreeInv /\ [Next]_vars => AgreeInv'
<1> SUFFICES ASSUME CoreInv, AgreeInv, [Next]_vars PROVE AgreeInv'
  OBVIOUS
<1>1. TypedInv /\ RetryOnce /\ Spawning
  BY DEF CoreInv, TypedInv
<1>2. ASSUME UNCHANGED <<sched, wf, step, pass, upset>> PROVE AgreeInv'
  <2>1. Untroubled' => Untroubled
    BY <1>2, Zenon DEF Untroubled
  <2> QED
    BY <1>2, <2>1 DEF AgreeInv, At, RowsIn
<1>3. CASE UNCHANGED vars
  BY <1>2, <1>3 DEF vars
<1>4. ASSUME NEW s \in Steps, NEW k \in Attempts, JobEnds(s, k) PROVE AgreeInv'
  BY <1>1, <1>2, <1>4, JobEndsStep
<1>5. ASSUME NEW p \in Passes, Proceed(p) PROVE AgreeInv'
  <2>1. CASE CreateWorkflowRun(p) \/ \E s \in Steps : CreateStepRow(p, s)
    BY <1>1, <2>1, SpawnAgrees
  <2>2. CASE Reopen(p)
    <3>1. Kept(p)
      BY <1>1, <2>2, ReopenKeeps
    <3>2. Calm(p)
      BY <1>1, <2>2, StopCalm
    <3> QED
      BY <3>1, <3>2, CalmAgrees
  <2>3. CASE \/ LoadRun(p) \/ LoadSteps(p) \/ LandWrite(p) \/ CreateJob(p) \/ MarkDispatched(p) \/ Close(p)
             \/ \E s \in Steps : \/ LandRead(p, s) \/ SkipStep(p, s) \/ GiveUp(p, s)
                                 \/ Recover(p, s) \/ Claim(p, s)
    <3>1. Kept(p)
      BY <1>1, <2>3, AdvanceKeeps, Zenon
    <3>2. Calm(p)
      BY <1>1, <2>3, AdvanceCalm
    <3> QED
      BY <3>1, <3>2, CalmAgrees
  <2>4. CASE \/ KillLoad(p) \/ StopRead(p) \/ RetryRead(p) \/ ReopenSched(p)
             \/ \E s \in Steps : StopStep(p, s) \/ Settle(p, s) \/ ResetStep(p, s)
    <3>1. Kept(p)
      BY <1>1, <2>4, StopKeeps
    <3>2. Calm(p)
      BY <1>1, <2>4, StopCalm
    <3> QED
      BY <3>1, <3>2, CalmAgrees
  <2>5. CASE EndRun(p) \/ StopRun(p) \/ EndSched(p)
    BY <1>1, <2>5, EndAgrees
  <2> QED
    BY <1>5, <2>1, <2>2, <2>3, <2>4, <2>5 DEF Proceed
<1>6. ASSUME NEW p \in Passes, CreateScheduleRun(p) \/ SkeletonRefused(p) PROVE AgreeInv'
  BY <1>1, <1>6, SpawnAgrees
<1>7. ASSUME NEW p \in Passes, Retry(p) PROVE AgreeInv'
  <2>1. Kept(p)
    BY <1>1, <1>7, RetryKeeps
  <2>2. Calm(p)
    BY <1>1, <1>7, StopCalm
  <2> QED
    BY <2>1, <2>2, CalmAgrees
<1>8. ASSUME NEW p \in Passes,
             Advance(p) \/ CreateJobRefused(p) \/ RequestKill(p) \/ Reap(p) \/ Crash(p)
      PROVE  AgreeInv'
  <2>1. Kept(p)
    BY <1>1, <1>8, StopKeeps
  <2>2. Calm(p)
    BY <1>1, <1>8, StopCalm
  <2> QED
    BY <2>1, <2>2, CalmAgrees
<1> QED
  BY <1>3, <1>4, <1>5, <1>6, <1>7, <1>8 DEF Next

LEMMA AgreeAlways == Spec => []AgreeInv
<1>1. CoreInv /\ AgreeInv /\ [Next]_vars => AgreeInv'
  BY AgreeStep
<1> QED
  BY <1>1, AgreeInit, CoreAlways, PTL DEF Spec

(* The schedule run of an untroubled run ends as the run itself did, though every pass
   that ends a run and every spawner that gives up writes the two rows one after the other. *)
THEOREM SchedulesAgree == Spec => []ScheduleAgrees
<1>1. AgreeInv => ScheduleAgrees
  BY DEF AgreeInv, ScheduleAgrees
<1> QED
  BY <1>1, AgreeAlways, PTL

-----------------------------------------------------------------------------
(* A run that nobody troubled and that has not failed *)

LEMMA PlainFresh ==
    ASSUME NEW q, NEW st, NEW jb, q.at = 0, q.pc \notin {"land", "landed", "skip", "endRun"}
    PROVE  PassFresh(q, st, jb)
BY DEF PassFresh

LEMMA EntersFresh ==
    ASSUME NEW st, NEW jb, NEW pc \in Places \ {"land", "landed", "skip", "endRun"},
           NEW out \in {"running"} \cup RunEnded
    PROVE  PassFresh(Enters(pc, out), st, jb)
BY EntersFields, PlainFresh

LEMMA AfterClaimsFresh ==
    ASSUME NEW st, NEW jb, NEW q \in Pass, q.at = 0, q.pc = "claim"
    PROVE  PassFresh(AfterClaims(q), st, jb)
<1>1. PassFresh(Enters("close", "running"), st, jb)
  BY EntersFresh DEF Places
<1> QED
  BY <1>1, PlainFresh DEF AfterClaims

LEMMA AfterRecoveryFresh ==
    ASSUME NEW st, NEW jb, NEW q \in Pass, q.at = 0, q.pc = "recover"
    PROVE  PassFresh(AfterRecovery(q), st, jb)
<1> DEFINE x == [q EXCEPT !.pc = "claim", !.todo = Eligible(q, "blocked"), !.snap = Idle.snap]
<1>1. Eligible(q, "blocked") \subseteq Steps
  BY DEF Eligible, Seen
<1>2. x \in Pass /\ x.pc = "claim" /\ x.at = 0
  BY <1>1, IdleFields DEF Pass, Places
<1> HIDE DEF x
<1>3. PassFresh(AfterClaims(x), st, jb) /\ PassFresh(q, st, jb)
  BY <1>2, AfterClaimsFresh, PlainFresh
<1> QED
  BY <1>3 DEF AfterRecovery, x

LEMMA AfterSkipsFresh ==
    ASSUME NEW st, NEW jb, NEW q \in Pass, PassFresh(q, st, jb), q.pc = "skip"
    PROVE  PassFresh(AfterSkips(q), st, jb)
<1> DEFINE x == [q EXCEPT !.pc = "recover", !.todo = Eligible(q, "ready")]
<1>1. Eligible(q, "ready") \subseteq Steps /\ q.at = 0
  BY DEF Eligible, Seen, PassFresh
<1>2. x \in Pass /\ x.pc = "recover" /\ x.at = 0
  BY <1>1 DEF Pass, Places
<1> HIDE DEF x
<1>3. PassFresh(AfterRecovery(x), st, jb) /\ PassFresh(Enters("close", "running"), st, jb)
  BY <1>2, AfterRecoveryFresh, EntersFresh DEF Places
<1> QED
  BY <1>3 DEF AfterSkips, x

(* A pass goes to skip steps only when a row has failed: what its snapshot calls failed is. *)
LEMMA AfterLandingFresh ==
    ASSUME NEW st, NEW jb, NEW q \in Pass, PassFresh(q, st, jb), q.pc = "land"
    PROVE  PassFresh(AfterLanding(q), st, jb)
<1> DEFINE T == IF Failing(q) THEN ToSkip(q) ELSE {}
           x == [q EXCEPT !.pc = "skip", !.todo = T]
<1>1. q.at = 0 /\ T \subseteq Steps
  BY ToSkipType DEF PassFresh
<1>2. x \in Pass /\ x.pc = "skip" /\ x.at = 0 /\ x.snap = q.snap /\ x.todo = T
  BY <1>1 DEF Pass, Places
<1>3. Failing(q) => \E s \in Steps : st[s].st = "failed"
  BY DEF Failing, Seen, PassFresh
<1> HIDE DEF x, T
<1>4. CASE Failing(q)
  <2>1. PassFresh(x, st, jb)
    BY <1>2, <1>3, <1>4 DEF PassFresh
  <2> QED
    BY <1>2, <2>1, AfterSkipsFresh DEF AfterLanding, x, T
<1>5. CASE ~Failing(q)
  <2> DEFINE y == [x EXCEPT !.pc = "recover", !.todo = Eligible(x, "ready")]
  <2>1. x.todo = {}
    BY <1>2, <1>5 DEF T
  <2>2. Eligible(x, "ready") \subseteq Steps
    BY DEF Eligible, Seen
  <2>3. y \in Pass /\ y.pc = "recover" /\ y.at = 0
    BY <1>2, <2>2 DEF Pass, Places
  <2> HIDE DEF y
  <2>4. PassFresh(AfterRecovery(y), st, jb)
    BY <2>3, AfterRecoveryFresh
  <2>5. PassFresh(Enters("close", "running"), st, jb)
    BY EntersFresh DEF Places
  <2>6. PassFresh(AfterSkips(x), st, jb)
    BY <2>1, <2>4, <2>5 DEF AfterSkips, y
  <2> QED
    BY <2>6 DEF AfterLanding, x, T
<1> QED
  BY <1>4, <1>5

(* Rows that have ended stay, and dispatched ones end or stay. *)
RowsSettle ==
    \A s \in Steps : /\ step[s].st \in Terminal => step'[s].st = step[s].st
                     /\ step[s].st = "dispatched" => step'[s].st \in Settled

LEMMA OthersFresh ==
    ASSUME RowsSettle, JobsGrow, NEW q, PassType(q, job), PassFresh(q, step, job)
    PROVE  PassFresh(q, step', job')
<1>1. q.todo \subseteq Steps /\ (q.pc = "landed" => q.out \in Steps)
  BY DEF PassType, Pass
<1>2. \A s \in Steps : /\ step[s].st \in Settled => step'[s].st \in Settled
                       /\ step[s].st = "failed" => step'[s].st = "failed"
                       /\ step[s].st = "success" => step'[s].st = "success"
  BY DEF RowsSettle, Settled, Terminal
<1>3. q.pc = "landed" => job'[q.out][0] = job[q.out][0]
  BY <1>1, Bounds DEF PassType, PassFresh, JobsGrow
<1> QED
  BY <1>1, <1>2, <1>3 DEF PassFresh

LEMMA FreshMoves ==
    ASSUME TypedInv, FreshInv, Fresh, NEW p \in Passes, RowsSettle, JobsGrow,
           \A o \in Passes : o # p => pass'[o] = pass[o],
           PassFresh(pass'[p], step', job'), pass'[p].pc \notin RetryPlaces,
           \A s \in Steps : step'[s].st = "success" => step[s].st = "success" \/ job'[s][0] = "success",
           \A s \in Steps : step'[s].job \in {0, NoJob},
           \A s \in Steps : step'[s].st = "skipped" =>
               step[s].st = "skipped" \/ \E o \in Steps : step'[o].st = "failed",
           wf'.st = "success" => \A s \in Steps : step'[s].st = "success"
    PROVE  FreshInv'
<1>1. \A o \in Passes : PassFresh(pass'[o], step', job')
  <2>1. \A o \in Passes : PassType(pass[o], job) /\ PassFresh(pass[o], step, job)
    BY DEF TypedInv, RunType, FreshInv
  <2>2. \A o \in Passes : PassFresh(pass[o], step', job')
    BY <2>1, OthersFresh
  <2> QED
    BY <2>2
<1>2. \A o \in Passes : pass'[o].pc \notin RetryPlaces
  BY DEF FreshInv, RetryPlaces
<1>3. \A s \in Steps : step'[s].st = "success" => job'[s][0] = "success"
  BY Bounds DEF FreshInv, JobsGrow
<1>4. \A s \in Steps : step'[s].st = "skipped" => \E o \in Steps : step'[o].st = "failed"
  BY DEF FreshInv, RowsSettle, Terminal
<1> QED
  BY <1>1, <1>2, <1>3, <1>4 DEF FreshInv, RetryPlaces

LEMMA FreshQuiet ==
    ASSUME TypedInv, FreshInv, Fresh, NEW p \in Passes, UNCHANGED <<step, job>>,
           \A o \in Passes : o # p => pass'[o] = pass[o],
           PassFresh(pass'[p], step, job), pass'[p].pc \notin RetryPlaces,
           wf'.st = "success" => \A s \in Steps : step[s].st = "success"
    PROVE  FreshInv'
<1>1. RowsSettle /\ JobsGrow
  BY DEF RowsSettle, JobsGrow, Settled
<1>2. /\ \A s \in Steps : step'[s].st = "success" => step[s].st = "success"
      /\ \A s \in Steps : step'[s].job \in {0, NoJob}
      /\ \A s \in Steps : step'[s].st = "skipped" => step[s].st = "skipped"
      /\ PassFresh(pass'[p], step', job')
  BY DEF FreshInv
<1> QED
  BY <1>1, <1>2, FreshMoves

LEMMA JobsSame == job' = job => JobsGrow
BY DEF JobsGrow

(* What a fresh state says of the pass that takes the step. *)
LEMMA FreshFacts ==
    ASSUME TypedInv, FreshInv, Fresh, NEW p \in Passes
    PROVE  /\ pass[p] \in Pass /\ PassType(pass[p], job) /\ PassFresh(pass[p], step, job)
           /\ pass[p].at = 0 /\ pass[p].pc \notin RetryPlaces
           /\ wf.retry = 0 /\ wf.st \notin {"failed", "killed"}
           /\ wf.st = "success" => \A s \in Steps : step[s].st = "success"
           /\ \A s \in Steps : /\ step[s].st = "success" => job[s][0] = "success"
                               /\ step[s].job \in {0, NoJob}
BY DEF TypedInv, RunType, FreshInv, Fresh, Untroubled, PassFresh, RetryPlaces

LEMMA LoadRunFresh ==
    ASSUME TypedInv, FreshInv, Fresh, NEW p \in Passes, LoadRun(p)
    PROVE  FreshInv'
<1>1. UNCHANGED <<wf, step, job>>
  BY DEF LoadRun
<1>2. Moves(p, {"idle", "stop", "read"}) /\ (pass'[p].at = 0 \/ pass'[p].at = wf.retry)
  BY LoadRunStep, Zenon
<1>3. /\ pass'[p].pc \in {"idle", "stop", "read"} /\ pass'[p].at = 0
      /\ \A o \in Passes : o # p => pass'[o] = pass[o]
  BY <1>2, FreshFacts DEF Moves
<1>4. PassFresh(pass'[p], step, job)
  BY <1>3, PlainFresh
<1> QED
  BY <1>1, <1>3, <1>4, FreshFacts, FreshQuiet DEF RetryPlaces

LEMMA LoadStepsFresh ==
    ASSUME TypedInv, FreshInv, Fresh, NEW p \in Passes, LoadSteps(p)
    PROVE  FreshInv'
<1> DEFINE q == LoadedPass(p)
<1>1. /\ Moves(p, {"land", "skip", "recover", "claim", "close"}) /\ UNCHANGED <<wf, step, job>>
      /\ pass'[p] = AfterLanding(q) /\ q \in Pass /\ q.pc = "land" /\ q.snap = step
      /\ q.todo = RowsIn({"dispatched"}) /\ q.at = pass[p].at
  BY LoadStepsStep
<1> HIDE DEF q
<1>2. \A s \in q.todo : s \in Steps /\ step[s].st = "dispatched" /\ step[s].job \in Attempts
  BY <1>1 DEF RowsIn, TypedInv, RunType, RowType
<1>3. \A s \in q.todo : q.snap[s].job = 0 /\ step[s].st \in Settled
  BY <1>1, <1>2, FreshFacts, Bounds DEF Settled
<1>4. PassFresh(q, step, job)
  BY <1>1, <1>3, FreshFacts DEF PassFresh
<1>5. PassFresh(pass'[p], step, job)
  BY <1>1, <1>4, AfterLandingFresh
<1> QED
  BY <1>1, <1>5, FreshFacts, FreshQuiet DEF Moves, RetryPlaces

LEMMA LandReadFresh ==
    ASSUME TypedInv, FreshInv, Fresh, NEW p \in Passes, NEW s \in Steps, LandRead(p, s)
    PROVE  FreshInv'
<1> DEFINE read == job[s][pass[p].snap[s].job]
           q == Landing(pass[p], s, read)
<1>1. /\ Moves(p, {"land", "landed", "skip", "recover", "claim", "close"})
      /\ UNCHANGED <<wf, step, job>> /\ s \in pass[p].todo /\ pass[p].pc = "land"
      /\ \/ pass'[p] = AfterLanding(Done(p, s))
         \/ pass'[p] = q /\ read \in {"success", "failed"}
  BY LandReadStep
<1>2. PassFresh(pass[p], step, job) /\ pass[p] \in Pass /\ pass[p].snap[s].job = 0
  BY <1>1, FreshFacts DEF PassFresh
<1>3. CASE pass'[p] = AfterLanding(Done(p, s))
  <2>1. /\ Done(p, s) \in Pass /\ Done(p, s).pc = "land" /\ Done(p, s).todo = pass[p].todo \ {s}
        /\ Done(p, s).snap = pass[p].snap /\ Done(p, s).at = pass[p].at
    BY <1>1, DoneFields
  <2>2. PassFresh(Done(p, s), step, job)
    BY <1>1, <1>2, <2>1 DEF PassFresh
  <2>3. PassFresh(pass'[p], step, job)
    BY <1>3, <2>1, <2>2, AfterLandingFresh
  <2> QED
    BY <1>1, <2>3, FreshFacts, FreshQuiet DEF Moves, RetryPlaces
<1>4. CASE pass'[p] = q /\ read \in {"success", "failed"}
  <2>1. read \in SeenStates /\ "landed" \in Places
    BY <1>4 DEF SeenStates, RowStates, Terminal, Places
  <2>2. /\ q \in Pass /\ q.pc = "landed" /\ q.todo = pass[p].todo /\ q.at = pass[p].at
        /\ q.out = s /\ q.snap[s].st = read /\ q.snap[s].job = pass[p].snap[s].job
        /\ \A o \in Steps : o # s => q.snap[o] = pass[p].snap[o]
    BY <1>2, <2>1, NotedSnap DEF Notes
  <2>3. job[s][0] = read
    BY <1>2
  <2> HIDE DEF q, read
  <2>4. \A o \in q.todo : o \in Steps /\ q.snap[o].job = pass[p].snap[o].job
    BY <2>2 DEF Pass
  <2>5. PassFresh(q, step, job)
    BY <1>1, <1>2, <2>2, <2>3, <2>4 DEF PassFresh
  <2> QED
    BY <1>1, <1>4, <2>5, FreshFacts, FreshQuiet DEF Moves, RetryPlaces
<1> QED
  BY <1>1, <1>3, <1>4

LEMMA LandWriteFresh ==
    ASSUME TypedInv, FreshInv, Fresh, NEW p \in Passes, LandWrite(p)
    PROVE  FreshInv'
<1> DEFINE s == pass[p].out
           q == LandedPass(p, s)
           st == pass[p].snap[s].st
<1>1. /\ Moves(p, {"land", "skip", "recover", "claim", "close"}) /\ UNCHANGED <<wf, job>>
      /\ pass[p].pc = "landed" /\ s \in Steps /\ pass'[p] = AfterLanding(q)
      /\ q \in Pass /\ q.pc = "land" /\ q.todo = pass[p].todo \ {s}
      /\ q.snap = pass[p].snap /\ q.at = pass[p].at
      /\ step[s].st # "dispatched" => step' = step
      /\ step[s].st = "dispatched" => step'[s].st = st
      /\ step'[s].job = step[s].job /\ \A o \in Steps : o # s => step'[o] = step[o]
  BY LandWriteStep
<1>2. /\ PassFresh(pass[p], step, job) /\ s \in pass[p].todo /\ job[s][0] = st
      /\ st \in {"success", "failed"} /\ step[s].st \in Settled
  BY <1>1, FreshFacts DEF PassFresh, PassType
<1> HIDE DEF q, st, s
<1>3. RowsSettle /\ JobsGrow
  BY <1>1, <1>2, JobsSame DEF RowsSettle, Settled, Terminal
<1>4. st = "failed" => step'[s].st = "failed"
  BY <1>1, <1>2, FreshFacts DEF Settled
<1>5. PassFresh(q, step', job')
  <2>1. \A o \in Steps : /\ step[o].st \in Settled => step'[o].st \in Settled
                         /\ step[o].st = "failed" => step'[o].st = "failed"
    BY <1>3 DEF RowsSettle, Settled, Terminal
  <2>2. \A o \in Steps : q.snap[o].st = "failed" => step'[o].st = "failed"
    BY <1>1, <1>2, <1>4, <2>1 DEF PassFresh, st, s
  <2>3. \A o \in q.todo : o \in Steps /\ o \in pass[p].todo
    BY <1>1 DEF Pass
  <2> QED
    BY <1>1, <1>2, <2>1, <2>2, <2>3 DEF PassFresh
<1>6. PassFresh(pass'[p], step', job')
  BY <1>1, <1>5, AfterLandingFresh
<1>7. /\ \A o \in Steps : step'[o].st = "success" => step[o].st = "success" \/ job'[o][0] = "success"
      /\ \A o \in Steps : step'[o].job \in {0, NoJob}
      /\ \A o \in Steps : step'[o].st = "skipped" => step[o].st = "skipped"
  BY <1>1, <1>2, FreshFacts DEF Settled
<1>8. wf'.st = "success" => \A o \in Steps : step'[o].st = "success"
  BY <1>1, <1>3, FreshFacts DEF RowsSettle, Terminal
<1> QED
  BY <1>1, <1>3, <1>6, <1>7, <1>8, FreshMoves DEF Moves, RetryPlaces

(* A row that changes before its end, while no row starts to succeed or to be skipped. *)
LEMMA RowFresh ==
    ASSUME TypedInv, FreshInv, Fresh, NEW p \in Passes, NEW s \in Steps,
           \A o \in Steps : o # s => step'[o] = step[o], UNCHANGED <<wf, job>>,
           \/ step'[s].st = step[s].st
           \/ /\ step[s].st \in {"absent", "blocked", "ready"}
              /\ step'[s].st \in {"blocked", "ready", "failed", "dispatched"},
           step'[s].job \in {0, NoJob},
           \A o \in Passes : o # p => pass'[o] = pass[o],
           PassFresh(pass'[p], step', job'), pass'[p].pc \notin RetryPlaces
    PROVE  FreshInv'
<1>1. RowsSettle /\ JobsGrow
  BY JobsSame DEF RowsSettle, Settled, Terminal
<1>2. /\ \A o \in Steps : step'[o].st = "success" => step[o].st = "success"
      /\ \A o \in Steps : step'[o].job \in {0, NoJob}
      /\ \A o \in Steps : step'[o].st = "skipped" => step[o].st = "skipped"
  BY FreshFacts
<1>3. wf'.st = "success" => \A o \in Steps : step'[o].st = "success"
  BY <1>1, FreshFacts DEF RowsSettle, Terminal
<1> QED
  BY <1>1, <1>2, <1>3, FreshMoves

LEMMA SkipStepFresh ==
    ASSUME TypedInv, FreshInv, Fresh, NEW p \in Passes, NEW s \in Steps, SkipStep(p, s)
    PROVE  FreshInv'
<1> DEFINE q == SkippedPass(p, s)
<1>1. /\ Moves(p, {"skip", "recover", "claim", "close"}) /\ UNCHANGED <<wf, job>>
      /\ pass[p].pc = "skip" /\ pass'[p] = AfterSkips(q)
      /\ Notes(q, Done(p, s), s, "skipped") /\ q.pc = "skip"
      /\ \A o \in Steps : o # s => step'[o] = step[o]
      /\ step'[s].job = step[s].job
      /\ step'[s].st = step[s].st \/ (step[s].st \in {"blocked", "ready"} /\ step'[s].st = "skipped")
  BY SkipStepStep
<1> HIDE DEF q
<1>2. /\ PassFresh(pass[p], step, job) /\ \E o \in Steps : step[o].st = "failed"
  BY <1>1, FreshFacts DEF PassFresh
<1>3. RowsSettle /\ JobsGrow
  BY <1>1, JobsSame DEF RowsSettle, Settled, Terminal
<1>4. /\ \E o \in Steps : step'[o].st = "failed"
      /\ \A o \in Steps : step[o].st = "failed" => step'[o].st = "failed"
  BY <1>2, <1>3 DEF RowsSettle, Terminal
<1>5. /\ q \in Pass /\ q.at = 0 /\ q.snap[s].st = "skipped"
      /\ \A o \in Steps : o # s => q.snap[o] = pass[p].snap[o]
  BY <1>1, DoneFields, FreshFacts DEF Notes
<1>6. PassFresh(q, step', job')
  BY <1>1, <1>2, <1>4, <1>5 DEF PassFresh
<1>7. PassFresh(pass'[p], step', job')
  BY <1>1, <1>5, <1>6, AfterSkipsFresh
<1>8. /\ \A o \in Steps : step'[o].st = "success" => step[o].st = "success"
      /\ \A o \in Steps : step'[o].job \in {0, NoJob}
  BY <1>1, FreshFacts
<1>9. wf'.st = "success" => \A o \in Steps : step'[o].st = "success"
  BY <1>1, <1>3, FreshFacts DEF RowsSettle, Terminal
<1> QED
  BY <1>1, <1>3, <1>4, <1>7, <1>8, <1>9, FreshMoves DEF Moves, RetryPlaces

LEMMA GiveUpFresh ==
    ASSUME TypedInv, FreshInv, Fresh, NEW p \in Passes, NEW s \in Steps, GiveUp(p, s)
    PROVE  FreshInv'
<1> DEFINE q == GivenUpPass(p, s)
<1>1. /\ Moves(p, {"recover", "claim", "close"}) /\ UNCHANGED <<wf, job>>
      /\ pass'[p] = AfterRecovery(q)
      /\ Notes(q, Done(p, s), s, "failed") /\ q.pc = "recover"
      /\ \A o \in Steps : o # s => step'[o] = step[o]
      /\ step'[s].job = step[s].job
      /\ step'[s].st = step[s].st \/ (step[s].st = "ready" /\ step'[s].st = "failed")
  BY GiveUpStep
<1> HIDE DEF q
<1>2. q \in Pass /\ q.at = 0
  BY <1>1, DoneFields, FreshFacts DEF Notes
<1>3. PassFresh(pass'[p], step', job')
  BY <1>1, <1>2, AfterRecoveryFresh
<1> QED
  BY <1>1, <1>3, FreshFacts, RowFresh DEF Moves, RetryPlaces

LEMMA DispatchingFresh ==
    ASSUME TypedInv, FreshInv, Fresh, NEW p \in Passes, NEW s, NEW st, NEW jb
    PROVE  PassFresh(Dispatching(p, s), st, jb)
<1>1. pass[p] \in Pass /\ pass[p].at = 0
  BY FreshFacts
<1>2. Dispatching(p, s).pc = "create" /\ Dispatching(p, s).at = 0
  BY <1>1 DEF Dispatching, Pass
<1> QED
  BY <1>2, PlainFresh

LEMMA RecoverFresh ==
    ASSUME TypedInv, FreshInv, Fresh, NEW p \in Passes, NEW s \in Steps, Recover(p, s)
    PROVE  FreshInv'
<1>1. /\ Moves(p, {"recover", "create", "claim", "close"}) /\ UNCHANGED <<wf, job>>
      /\ pass[p].pc = "recover"
      /\ pass'[p] \in {Dispatching(p, s), AfterRecovery(Done(p, s))}
      /\ \A o \in Steps : step'[o].st = step[o].st /\ step'[o].job = step[o].job
  BY RecoverStep
<1>2. Done(p, s) \in Pass /\ Done(p, s).at = 0 /\ Done(p, s).pc = "recover"
  BY <1>1, DoneFields, FreshFacts
<1>3. PassFresh(pass'[p], step', job')
  BY <1>1, <1>2, DispatchingFresh, AfterRecoveryFresh
<1>4. RowsSettle /\ JobsGrow
  BY <1>1, JobsSame DEF RowsSettle, Settled
<1>5. /\ \A o \in Steps : step'[o].st = "success" => step[o].st = "success"
      /\ \A o \in Steps : step'[o].job \in {0, NoJob}
      /\ \A o \in Steps : step'[o].st = "skipped" => step[o].st = "skipped"
      /\ wf'.st = "success" => \A o \in Steps : step'[o].st = "success"
  BY <1>1, FreshFacts
<1> QED
  BY <1>1, <1>3, <1>4, <1>5, FreshMoves DEF Moves, RetryPlaces

LEMMA ClaimFresh ==
    ASSUME TypedInv, FreshInv, Fresh, NEW p \in Passes, NEW s \in Steps, Claim(p, s)
    PROVE  FreshInv'
<1>1. /\ Moves(p, {"create", "claim", "close"}) /\ UNCHANGED <<wf, job>>
      /\ pass[p].pc = "claim"
      /\ pass'[p] \in {Dispatching(p, s), AfterClaims(Done(p, s))}
      /\ \A o \in Steps : o # s => step'[o] = step[o]
      /\ step'[s].job = step[s].job
      /\ step'[s].st = step[s].st \/ (step[s].st = "blocked" /\ step'[s].st = "ready")
  BY ClaimStep
<1>2. Done(p, s) \in Pass /\ Done(p, s).at = 0 /\ Done(p, s).pc = "claim"
  BY <1>1, DoneFields, FreshFacts
<1>3. PassFresh(pass'[p], step', job')
  BY <1>1, <1>2, DispatchingFresh, AfterClaimsFresh
<1> QED
  BY <1>1, <1>3, FreshFacts, RowFresh DEF Moves, RetryPlaces

LEMMA CreateJobFresh ==
    ASSUME TypedInv, FreshInv, Fresh, NEW p \in Passes, CreateJob(p)
    PROVE  FreshInv'
<1>1. /\ Moves(p, {"mark"}) /\ JobsGrow /\ UNCHANGED <<wf, step>>
      /\ pass'[p] = Placed(pass[p], "mark")
  BY CreateJobStep
<1>2. pass'[p].at = 0 /\ pass'[p].pc = "mark"
  BY <1>1, FreshFacts, PlacedFields DEF Places
<1>3. PassFresh(pass'[p], step', job')
  BY <1>2, PlainFresh
<1>4. RowsSettle
  BY <1>1 DEF RowsSettle, Settled
<1>5. /\ \A o \in Steps : step'[o].st = "success" => step[o].st = "success"
      /\ \A o \in Steps : step'[o].job \in {0, NoJob}
      /\ \A o \in Steps : step'[o].st = "skipped" => step[o].st = "skipped"
      /\ wf'.st = "success" => \A o \in Steps : step'[o].st = "success"
  BY <1>1, FreshFacts
<1> QED
  BY <1>1, <1>2, <1>3, <1>4, <1>5, FreshMoves DEF Moves, RetryPlaces

LEMMA MarkDispatchedFresh ==
    ASSUME TypedInv, FreshInv, Fresh, NEW p \in Passes, MarkDispatched(p)
    PROVE  FreshInv'
<1> DEFINE s == pass[p].out
           x == MarkedPass(p, s)
           y == ClaimedPass(p, s)
<1>1. /\ Moves(p, {"recover", "claim", "close"}) /\ UNCHANGED <<wf, job>> /\ s \in Steps
      /\ pass'[p] \in {AfterRecovery(x), AfterClaims(y)}
      /\ x.at = pass[p].at /\ y.at = pass[p].at
      /\ \A o \in Steps : o # s => step'[o] = step[o]
      /\ \/ step'[s] = step[s]
         \/ /\ step[s].st \in {"ready", "dispatched"} /\ step'[s].st = "dispatched"
            /\ step'[s].job = pass[p].at
  BY MarkDispatchedStep
<1>2. x \in Pass /\ x.pc = "recover" /\ y \in Pass /\ y.pc = "claim"
  <2>1. Done(p, s) \in Pass /\ "recover" \in Places /\ "claim" \in Places /\ "dispatched" \in SeenStates
    BY DoneFields DEF Places, SeenStates, RowStates
  <2>2. x \in Pass /\ x.pc = "recover"
    BY <1>1, <2>1, NotedSnap DEF MarkedPass, Notes
  <2>3. y \in Pass /\ y.pc = "claim"
    BY <2>1, PlacedFields DEF ClaimedPass
  <2> QED
    BY <2>2, <2>3
<1>3. pass[p].at = 0
  BY FreshFacts
<1> HIDE DEF x, y, s
<1>4. PassFresh(pass'[p], step', job')
  BY <1>1, <1>2, <1>3, AfterRecoveryFresh, AfterClaimsFresh
<1>5. step'[s].job \in {0, NoJob}
  BY <1>1, <1>3, FreshFacts
<1>6. \/ step'[s].st = step[s].st
      \/ step[s].st \in {"absent", "blocked", "ready"} /\ step'[s].st = "dispatched"
  BY <1>1
<1>7. pass'[p].pc \notin RetryPlaces /\ \A o \in Passes : o # p => pass'[o] = pass[o]
  BY <1>1 DEF Moves, RetryPlaces
<1> QED
  BY <1>1, <1>4, <1>5, <1>6, <1>7, RowFresh

(* The rows are read again at the close: all are there and terminal, none has failed, and
   then none was skipped either. *)
LEMMA CloseFresh ==
    ASSUME TypedInv, AgreeInv, FreshInv, Fresh, NEW p \in Passes, Close(p)
    PROVE  FreshInv'
<1>1. /\ Moves(p, {"endRun", "idle"}) /\ UNCHANGED <<wf, step, job>> /\ pass[p].pc = "close"
      /\ pass'[p].at = 0
      /\ pass'[p].pc = "endRun" => /\ pass'[p].out = Outcome
                                   /\ Steps \ RowsIn({"absent"}) = RowsIn(Terminal)
  BY CloseStep
<1>2. RowsIn({"absent"}) = {}
  BY <1>1 DEF AgreeInv, Fresh, Past
<1>3. ASSUME pass'[p].pc = "endRun", pass'[p].out = "success"
      PROVE  \A s \in Steps : step[s].st = "success"
  <2>1. \A s \in Steps : step[s].st \in Terminal
    BY <1>1, <1>2, <1>3 DEF RowsIn
  <2>2. \A s \in Steps : step[s].st # "failed"
    BY <1>1, <1>3 DEF Outcome, RowsIn
  <2>3. \A s \in Steps : step[s].st # "skipped"
    BY <2>2 DEF FreshInv
  <2> QED
    BY <2>1, <2>2, <2>3 DEF Terminal
<1>4. pass'[p].pc \in {"endRun", "idle"} /\ \A o \in Passes : o # p => pass'[o] = pass[o]
  BY <1>1 DEF Moves
<1>5. PassFresh(pass'[p], step, job)
  BY <1>1, <1>3, <1>4 DEF PassFresh
<1> QED
  BY <1>1, <1>4, <1>5, FreshFacts, FreshQuiet DEF RetryPlaces

LEMMA AdvanceFresh ==
    ASSUME TypedInv, AgreeInv, FreshInv, Fresh, NEW p \in Passes,
           \/ LoadRun(p) \/ LoadSteps(p) \/ LandWrite(p) \/ CreateJob(p) \/ MarkDispatched(p) \/ Close(p)
           \/ \E s \in Steps : \/ LandRead(p, s) \/ SkipStep(p, s) \/ GiveUp(p, s)
                               \/ Recover(p, s) \/ Claim(p, s)
    PROVE  FreshInv'
BY LoadRunFresh, LoadStepsFresh, LandWriteFresh, CreateJobFresh, MarkDispatchedFresh, CloseFresh,
   LandReadFresh, SkipStepFresh, GiveUpFresh, RecoverFresh, ClaimFresh

(* A pass that only goes elsewhere, or starts anew. *)
LEMMA PlacedFresh ==
    ASSUME TypedInv, FreshInv, Fresh, NEW p \in Passes, UNCHANGED <<step, job>>,
           wf'.st = "success" => wf.st = "success",
           NEW pc \in Places \ ({"land", "landed", "skip", "endRun"} \cup RetryPlaces),
           pass' = [pass EXCEPT ![p] = Placed(pass[p], pc)]
    PROVE  FreshInv'
<1>1. pass \in [Passes -> Pass] /\ pass[p] \in Pass /\ pass[p].at = 0
  BY FreshFacts DEF TypedInv, RunType
<1>2. Placed(pass[p], pc).pc = pc /\ Placed(pass[p], pc).at = 0
  BY <1>1, PlacedFields
<1>3. PassFresh(Placed(pass[p], pc), step, job)
  BY <1>2, PlainFresh
<1>4. pass'[p] = Placed(pass[p], pc) /\ \A o \in Passes : o # p => pass'[o] = pass[o]
  BY <1>1
<1> QED
  BY <1>2, <1>3, <1>4, FreshFacts, FreshQuiet

LEMMA StartsFresh ==
    ASSUME TypedInv, FreshInv, Fresh, NEW p \in Passes, UNCHANGED <<step, job>>,
           wf'.st = "success" => wf.st = "success", NEW q, q.at = 0,
           q.pc \notin {"land", "landed", "skip", "endRun"} \cup RetryPlaces,
           pass' = [pass EXCEPT ![p] = q]
    PROVE  FreshInv'
<1>1. pass'[p] = q /\ \A o \in Passes : o # p => pass'[o] = pass[o]
  BY DEF TypedInv, RunType
<1>2. PassFresh(q, step, job)
  BY PlainFresh
<1> QED
  BY <1>1, <1>2, FreshFacts, FreshQuiet

LEMMA StopFresh ==
    ASSUME TypedInv, RetryOnce, AgreeInv, FreshInv, Fresh, Fresh', NEW p \in Passes,
           \/ KillLoad(p) \/ StopRead(p) \/ RetryRead(p) \/ CreateJobRefused(p) \/ Advance(p)
           \/ RequestKill(p) \/ Reap(p) \/ Crash(p) \/ Retry(p) \/ Reopen(p) \/ ReopenSched(p)
           \/ \E s \in Steps : StopStep(p, s) \/ Settle(p, s) \/ ResetStep(p, s)
    PROVE  FreshInv'
<1>0. /\ pass[p].pc \notin RetryPlaces \cup {"stop", "stopping"} /\ wf.retry = 0
      /\ wf.st \notin {"failed", "killed"}
  BY FreshFacts DEF AgreeInv, Fresh
<1>1. CASE KillLoad(p)
  <2>1. Moves(p, {"stop", "idle"}) /\ UNCHANGED <<wf, step, job>> /\ pass'[p].at = 0
    BY <1>1, KillLoadStep, Zenon
  <2>2. /\ pass'[p].pc \in {"stop", "idle"} /\ \A o \in Passes : o # p => pass'[o] = pass[o]
    BY <2>1 DEF Moves
  <2>3. PassFresh(pass'[p], step, job)
    BY <2>1, <2>2, PlainFresh
  <2> QED
    BY <2>1, <2>2, <2>3, FreshFacts, FreshQuiet DEF RetryPlaces
<1>2. ~StopRead(p) /\ \A s \in Steps : ~StopStep(p, s)
  BY <1>0, StopReadStep, StopStepStep
<1>3. ~RetryRead(p) /\ ~Reopen(p) /\ \A s \in Steps : ~Settle(p, s) /\ ~ResetStep(p, s)
  BY <1>0, RetryReadStep, ReopenStep, SettleStep, ResetStepStep DEF RetryPlaces
<1>4. ~ReopenSched(p) /\ ~Retry(p)
  BY <1>0, ReopenSchedStep DEF RetryOnce, At, Retry
<1>5. CASE CreateJobRefused(p) \/ Crash(p)
  <2>1. pass' = [pass EXCEPT ![p] = Idle] /\ UNCHANGED <<wf, step, job>>
    BY <1>5 DEF CreateJobRefused, Crash, End, Becomes
  <2> QED
    BY <2>1, IdleFields, StartsFresh DEF RetryPlaces
<1>6. CASE Advance(p)
  <2>1. pass' = [pass EXCEPT ![p] = Placed(pass[p], "load")] /\ UNCHANGED <<wf, step, job>>
    BY <1>6 DEF Advance, Goto, Becomes, KeepsRuns, Placed
  <2>2. "load" \in Places \ ({"land", "landed", "skip", "endRun"} \cup RetryPlaces)
    BY DEF Places, RetryPlaces
  <2> QED
    BY <2>1, <2>2, PlacedFresh
<1>7. CASE RequestKill(p)
  <2>1. /\ pass' = [pass EXCEPT ![p] = Placed(pass[p], "kill")] /\ UNCHANGED <<step, job>>
        /\ wf' = [wf EXCEPT !.kill = TRUE]
    BY <1>7 DEF RequestKill, Goto, Becomes, Placed
  <2>2. wf'.st = wf.st
    BY <2>1 DEF TypedInv, RunType
  <2>3. "kill" \in Places \ ({"land", "landed", "skip", "endRun"} \cup RetryPlaces)
    BY DEF Places, RetryPlaces
  <2> QED
    BY <2>1, <2>2, <2>3, PlacedFresh
<1>8. ~Reap(p)
  <2>1. ~upset'
    BY Zenon DEF Fresh, Untroubled
  <2> QED
    BY <2>1, Zenon DEF Reap
<1> QED
  BY <1>1, <1>2, <1>3, <1>4, <1>5, <1>6, <1>7, <1>8

LEMMA SpawnFresh ==
    ASSUME TypedInv, Spawning, FreshInv, Fresh, NEW p \in Passes,
           \/ CreateScheduleRun(p) \/ CreateWorkflowRun(p) \/ SkeletonRefused(p)
           \/ \E s \in Steps : CreateStepRow(p, s)
    PROVE  FreshInv'
<1>1. CASE CreateScheduleRun(p)
  <2>1. pass' = [pass EXCEPT ![p] = Placed(pass[p], "spawn")] /\ UNCHANGED <<wf, step, job>>
    BY <1>1 DEF CreateScheduleRun, Goto, Becomes, Placed
  <2>2. "spawn" \in Places \ ({"land", "landed", "skip", "endRun"} \cup RetryPlaces)
    BY DEF Places, RetryPlaces
  <2> QED
    BY <2>1, <2>2, PlacedFresh
<1>2. CASE CreateWorkflowRun(p)
  <2> DEFINE q == [Idle EXCEPT !.pc = "rows", !.todo = Steps]
  <2>1. /\ pass' = [pass EXCEPT ![p] = q] /\ UNCHANGED <<step, job>>
        /\ wf' = [wf EXCEPT !.st = "running"]
    BY <1>2 DEF CreateWorkflowRun, Becomes
  <2>2. q.pc = "rows" /\ q.at = 0
    BY IdleFields DEF Pass
  <2>3. wf'.st = "running"
    BY <2>1 DEF TypedInv, RunType
  <2> HIDE DEF q
  <2> QED
    BY <2>1, <2>2, <2>3, StartsFresh DEF RetryPlaces
<1>3. CASE SkeletonRefused(p)
  <2>1. pass' = [pass EXCEPT ![p] = Enters("stopRun", "failed")] /\ UNCHANGED <<wf, step, job>>
    BY <1>3 DEF SkeletonRefused, Becomes
  <2>2. Enters("stopRun", "failed").pc = "stopRun" /\ Enters("stopRun", "failed").at = 0
    BY EntersFields DEF Places, RunEnded
  <2> QED
    BY <2>1, <2>2, StartsFresh DEF RetryPlaces
<1>4. ASSUME NEW s \in Steps, CreateStepRow(p, s) PROVE FreshInv'
  <2> DEFINE q == IF pass[p].todo = {s} THEN Enters("load", "running") ELSE Done(p, s)
  <2>1. /\ pass[p].pc = "rows" /\ s \in pass[p].todo /\ UNCHANGED <<wf, job>>
        /\ pass' = [pass EXCEPT ![p] = q]
    BY <1>4 DEF CreateStepRow, At, KeepsRuns, Becomes
  <2>2. /\ Moves(p, {"rows", "load"})
        /\ \A o \in Steps : step'[o] = IF o = s THEN Row("blocked") ELSE step[o]
    BY <1>4, CreateStepRowStep
  <2>3. Enters("load", "running").at = 0 /\ Done(p, s).at = 0
    BY EntersFields, DoneFields, FreshFacts DEF Places
  <2>4. q.at = 0
    BY <2>3
  <2> HIDE DEF q
  <2>5. pass'[p] = q /\ q.pc \in {"rows", "load"} /\ \A o \in Passes : o # p => pass'[o] = pass[o]
    BY <2>1, <2>2 DEF TypedInv, RunType, Moves
  <2>6. PassFresh(pass'[p], step', job')
    BY <2>4, <2>5, PlainFresh
  <2>7. step[s].st = "absent" /\ step'[s].st = "blocked" /\ step'[s].job = NoJob
    BY <2>1, <2>2 DEF Spawning, At, Row
  <2> QED
    BY <2>1, <2>2, <2>5, <2>6, <2>7, RowFresh DEF RetryPlaces
<1> QED
  BY <1>1, <1>2, <1>3, <1>4

LEMMA EndFresh ==
    ASSUME TypedInv, AgreeInv, FreshInv, Fresh, NEW p \in Passes, EndRun(p) \/ StopRun(p) \/ EndSched(p)
    PROVE  FreshInv'
<1>p. /\ Placed(pass[p], "endSched").pc = "endSched" /\ Placed(pass[p], "endSched").at = 0
  BY FreshFacts, PlacedFields DEF Places
<1>1. CASE EndRun(p)
  <2>1. /\ Moves(p, {"endSched", "idle"}) /\ UNCHANGED <<step, job>> /\ pass[p].pc = "endRun"
        /\ wf'.st = IF wf.st = "running" THEN pass[p].out ELSE wf.st
        /\ pass'[p] = IF wf.st = "running" THEN Placed(pass[p], "endSched") ELSE Idle
    BY <1>1, EndRunStep
  <2>2. pass'[p].at = 0 /\ pass'[p].pc \in {"endSched", "idle"}
    BY <1>p, <2>1, IdleFields
  <2>3. PassFresh(pass'[p], step, job)
    BY <2>2, PlainFresh
  <2>4. wf'.st = "success" => \A s \in Steps : step[s].st = "success"
    BY <2>1, FreshFacts DEF PassFresh
  <2> QED
    BY <2>1, <2>2, <2>3, <2>4, FreshQuiet DEF Moves, RetryPlaces
<1>2. CASE StopRun(p)
  <2>1. /\ Moves(p, {"endSched"}) /\ UNCHANGED <<step, job>> /\ pass[p].pc = "stopRun"
        /\ wf'.st = IF wf.st = "running" THEN pass[p].out ELSE wf.st
        /\ pass'[p] = Placed(pass[p], "endSched")
    BY <1>2, StopRunStep
  <2>2. PassFresh(pass'[p], step, job)
    BY <1>p, <2>1, PlainFresh
  <2>3. wf'.st # "success"
    BY <2>1 DEF AgreeInv, Fresh, At
  <2> QED
    BY <1>p, <2>1, <2>2, <2>3, FreshQuiet DEF Moves, RetryPlaces
<1>3. CASE EndSched(p)
  <2>1. pass' = [pass EXCEPT ![p] = Idle] /\ UNCHANGED <<wf, step, job>>
    BY <1>3 DEF EndSched, End, Becomes
  <2> QED
    BY <2>1, IdleFields, StartsFresh DEF RetryPlaces
<1> QED
  BY <1>1, <1>2, <1>3

LEMMA FreshInit == Init => FreshInv
<1> SUFFICES ASSUME Init PROVE FreshInv
  OBVIOUS
<1>1. /\ \A p \in Passes : pass[p] = Idle /\ pass[p].pc = "idle"
      /\ \A s \in Steps : step[s].st = "absent" /\ step[s].job = NoJob
      /\ wf.st = "absent"
  BY IdleFields DEF Init, Row
<1>2. \A p \in Passes : PassFresh(pass[p], step, job)
  BY <1>1, IdleFields, PlainFresh
<1> QED
  BY <1>1, <1>2 DEF FreshInv

LEMMA FreshStep == CoreInv /\ AgreeInv /\ FreshInv /\ [Next]_vars => FreshInv'
<1> SUFFICES ASSUME CoreInv, AgreeInv, FreshInv, [Next]_vars, Fresh' PROVE FreshInv'
  BY DEF FreshInv
<1>1. TypedInv /\ RetryOnce /\ Spawning
  BY DEF CoreInv, TypedInv
<1>2. Untroubled' /\ wf'.st \notin {"failed", "killed"}
  BY DEF Fresh
<1>3. ASSUME NEW p \in Passes, Calm(p) PROVE Fresh
  BY <1>2, <1>3 DEF Calm, Fresh
<1>4. ASSUME wf'.retry = wf.retry, upset' = upset, wf.st \in {"failed", "killed"} => wf'.st = wf.st
      PROVE  Fresh
  <2>1. Untroubled
    BY <1>2, <1>4, Zenon DEF Untroubled
  <2> QED
    BY <1>2, <1>4, <2>1 DEF Fresh
<1>5. ASSUME UNCHANGED <<wf, step, pass, upset>>, JobsGrow PROVE FreshInv'
  <2>1. Fresh
    BY <1>4, <1>5
  <2>2. RowsSettle
    BY <1>5 DEF RowsSettle, Settled
  <2>3. \A p \in Passes : PassFresh(pass'[p], step', job')
    BY <1>1, <1>5, <2>1, <2>2, FreshFacts, OthersFresh
  <2>4. \A s \in Steps : step'[s].st = "success" => job'[s][0] = "success"
    BY <1>5, <2>1, Bounds DEF FreshInv, JobsGrow
  <2> QED
    BY <1>5, <2>1, <2>3, <2>4 DEF FreshInv
<1>6. CASE UNCHANGED vars
  BY <1>5, <1>6, JobsSame DEF vars
<1>7. ASSUME NEW s \in Steps, NEW k \in Attempts, JobEnds(s, k) PROVE FreshInv'
  BY <1>1, <1>5, <1>7, JobEndsStep
<1>8. ASSUME NEW p \in Passes, Proceed(p) PROVE FreshInv'
  <2>1. CASE CreateWorkflowRun(p)
    <3>1. wf' = [wf EXCEPT !.st = "running"] /\ upset' = upset /\ pass[p].pc = "spawn"
      BY <2>1 DEF CreateWorkflowRun, At
    <3>2. wf'.retry = wf.retry /\ wf.st = "absent"
      BY <1>1, <3>1 DEF TypedInv, RunType, Spawning, At
    <3> QED
      BY <1>1, <1>4, <2>1, <3>1, <3>2, SpawnFresh
  <2>2. ASSUME NEW s \in Steps, CreateStepRow(p, s) PROVE FreshInv'
    <3>1. UNCHANGED <<wf, upset>>
      BY <2>2 DEF CreateStepRow, KeepsRuns
    <3> QED
      BY <1>1, <1>4, <2>2, <3>1, SpawnFresh
  <2>3. CASE \/ LoadRun(p) \/ LoadSteps(p) \/ LandWrite(p) \/ CreateJob(p) \/ MarkDispatched(p) \/ Close(p)
             \/ \E s \in Steps : \/ LandRead(p, s) \/ SkipStep(p, s) \/ GiveUp(p, s)
                                 \/ Recover(p, s) \/ Claim(p, s)
    <3>1. Fresh
      BY <1>1, <1>3, <2>3, AdvanceCalm
    <3> QED
      BY <1>1, <2>3, <3>1, AdvanceFresh
  <2>4. CASE \/ KillLoad(p) \/ StopRead(p) \/ RetryRead(p) \/ ReopenSched(p) \/ Reopen(p)
             \/ \E s \in Steps : StopStep(p, s) \/ Settle(p, s) \/ ResetStep(p, s)
    <3>1. Fresh
      BY <1>1, <1>3, <2>4, StopCalm
    <3> QED
      BY <1>1, <2>4, <3>1, StopFresh
  <2>5. CASE EndRun(p)
    <3>1. Fresh
      BY <1>1, <1>4, <2>5, EndRunStep
    <3> QED
      BY <1>1, <2>5, <3>1, EndFresh
  <2>6. CASE StopRun(p)
    <3>1. Fresh
      BY <1>1, <1>4, <2>6, StopRunStep
    <3> QED
      BY <1>1, <2>6, <3>1, EndFresh
  <2>7. CASE EndSched(p)
    <3>1. Fresh
      BY <1>1, <1>4, <2>7, EndSchedStep
    <3> QED
      BY <1>1, <2>7, <3>1, EndFresh
  <2> QED
    BY <1>8, <2>1, <2>2, <2>3, <2>4, <2>5, <2>6, <2>7 DEF Proceed
<1>9. ASSUME NEW p \in Passes, CreateScheduleRun(p) \/ SkeletonRefused(p) PROVE FreshInv'
  <2>1. UNCHANGED <<wf, upset>>
    BY <1>9 DEF CreateScheduleRun, SkeletonRefused
  <2> QED
    BY <1>1, <1>4, <1>9, <2>1, SpawnFresh
<1>10. ASSUME NEW p \in Passes,
              \/ Advance(p) \/ CreateJobRefused(p) \/ RequestKill(p) \/ Reap(p) \/ Crash(p) \/ Retry(p)
       PROVE  FreshInv'
  <2>1. Fresh
    BY <1>1, <1>3, <1>10, StopCalm
  <2> QED
    BY <1>1, <1>10, <2>1, StopFresh
<1> QED
  BY <1>6, <1>7, <1>8, <1>9, <1>10 DEF Next

(* An untroubled run that ends in success has run every step to success: whatever the
   interleaving of stale passes, no row is skipped without one that failed. *)
THEOREM SuccessMeansComplete == Spec => []SuccessIsComplete
<1>1. CoreInv /\ AgreeInv /\ FreshInv /\ [Next]_vars => FreshInv'
  BY FreshStep
<1>2. FreshInv => SuccessIsComplete
  BY DEF FreshInv, Fresh, SuccessIsComplete
<1> QED
  BY <1>1, <1>2, FreshInit, CoreAlways, AgreeAlways, PTL DEF Spec
=============================================================================
