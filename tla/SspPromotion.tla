---------------------------- MODULE SspPromotion ----------------------------
(***************************************************************************)
(* Blue/green replacement of an SSP (apps/scheduler ssp_handover.rs,       *)
(* router.rs, query.rs; packages/ssp-node handover.rs, node.rs, edges.rs). *)
(* Green registers as blue's standby, boots, follows ingest and the view   *)
(* registrations without writing to the database; once caught up the       *)
(* scheduler swaps them: it holds registrations, takes blue off the live   *)
(* path, retires it, promotes green with the digests of what blue          *)
(* published, and moves blue's views over.  A swap that fails is           *)
(* abandoned: blue is resumed and gets back the events it missed.          *)
(*                                                                         *)
(* Every event changes the membership of every view, so a membership, its  *)
(* digest and a circuit are the number of the last event in them.  The     *)
(* edges of a view in the database are right after event n only if the     *)
(* deltas 1 .. n, or a snapshot and the deltas after it, were written in   *)
(* this order; Garbled stands for any other membership, which only a       *)
(* snapshot repairs.  The bootstrap of an SSP (module SspSync) is the two  *)
(* steps that matter here: it reads the registered views, then is current. *)
(* There is no third SSP, so a promoted green keeps every view.            *)
(***************************************************************************)
EXTENDS Naturals, SequencesExt

CONSTANTS
    Views,     \* view registrations (`_00_query` ids)
    Old,       \* the views blue serves at the start
    MaxEvents, \* bound on the ingested events
    Faults,    \* which of the faults below may happen
    MaxFaults  \* bound on the faults of a run

(* "drop": a live delivery is refused.  "retire": that call fails, before or after blue took
   it.  "refuse": green refuses the promotion, or never gets the call.  "promote": its answer
   is lost.  "resume": that call is lost.  "undrained": blue answers before its publications
   are out.  "shadow": a shadow copy is lost.  "died": blue's process dies outside a swap.
   "restart": it dies during one.  "comeback": it registers during one.  "stale": a
   redelivery outlasts the boot of the SSP it is for.  "release": a client releases a view. *)
ASSUME PromotionAssumption ==
    /\ IsFiniteSet(Views) /\ Old \subseteq Views
    /\ MaxEvents \in Nat /\ MaxFaults \in Nat
    /\ Faults \subseteq {"drop", "retire", "refuse", "promote", "resume", "undrained",
                         "shadow", "died", "restart", "comeback", "stale",
                         "release"}

VARIABLES
    events,  \* events handed to the fan-out
    sent,    \* events fanned out
    out,     \* what became of the delivery of event sent + 1 to each SSP
    pool,    \* SspPool: the state of each SSP
    standby, \* SspPool.standby_of: green is blue's standby
    replaced,\* SspPool.replaced_by: blue was replaced by green
    buf,     \* SspPool.message_buffers
    task,    \* the redelivery tasks: the SSP they serve and the batch they hold
    tracker, \* QueryTracker: the SSP each view is assigned to
    reg,     \* the view registration the scheduler has sent on, or NoReg
    msgs,    \* teardowns and shadow copies under way
    swap,    \* promote: its phase, whether blue was serving, the fan-out to wait for, digests
    node,    \* each SSP: status, standby flag, circuit, registrations
    pub,     \* each SSP: its publication queue
    rows,    \* the views with a `_00_query` row
    released,\* views whose row was deleted
    edges,   \* the membership each view's edges in the database say
    faults   \* faults so far

vars == <<events, sent, out, pool, standby, replaced, buf, task, tracker, reg, msgs, swap,
          node, pub, rows, released, edges, faults>>
scheduler == <<pool, standby, replaced, buf, task>>
views == <<tracker, reg, msgs, rows, released>>

Ssps == {"blue", "green"}
Tasks == 1 .. 3
NoEdges == MaxEvents + 1
Garbled == MaxEvents + 2
NoReg == [view |-> "none", ssp |-> "none"]
Off == [ssp |-> "none", batch |-> <<>>]
Unknown == [v \in Views |-> NoEdges]

----------------------------------------------------------------------------
(* Initially blue serves the old views, all published, and green is not there yet. *)
Init ==
    /\ events = 0 /\ sent = 0 /\ out = [s \in Ssps |-> "no"]
    /\ pool = [s \in Ssps |-> IF s = "blue" THEN "ready" ELSE "out"]
    /\ standby = FALSE /\ replaced = FALSE
    /\ buf = [s \in Ssps |-> <<>>] /\ task = [t \in Tasks |-> Off]
    /\ tracker = [v \in Views |-> IF v \in Old THEN "blue" ELSE "none"]
    /\ reg = NoReg /\ msgs = {}
    /\ swap = [at |-> "none", pred |-> FALSE, upto |-> 0, trusted |-> FALSE, digests |-> Unknown]
    /\ node = [s \in Ssps |-> IF s = "blue"
                 THEN [status |-> "ready", standby |-> FALSE, circuit |-> 0, regs |-> Old]
                 ELSE [status |-> "gone", standby |-> FALSE, circuit |-> 0, regs |-> {}]]
    /\ pub = [s \in Ssps |-> <<>>]
    /\ rows = Old /\ released = {}
    /\ edges = [v \in Views |-> IF v \in Old THEN 0 ELSE NoEdges]
    /\ faults = 0

Fault(f) == f \in Faults /\ faults < MaxFaults /\ faults' = faults + 1

Serving(s) == pool[s] \in {"ready", "lagging"} /\ ~(s = "green" /\ standby)
ComingUp(s) == pool[s] = "coming"
Swapping == swap.at \notin {"none", "wait", "done", "failed"}

(* start a redelivery task for s *)
Spawned(tt, s) ==
    LET t == CHOOSE u \in Tasks : tt[u] = Off /\ \A w \in Tasks : tt[w] = Off => u <= w
    IN  [tt EXCEPT ![t] = [ssp |-> s, batch |-> <<>>]]

----------------------------------------------------------------------------
(* Fan-out: one event at a time; SSPs on the live path get it, the others' copies are queued. *)

Ingest ==
    /\ events < MaxEvents
    /\ events' = events + 1
    /\ UNCHANGED <<sent, out, scheduler, views, swap, node, pub, edges, faults>>

(* Bug: nothing is queued for a retiring SSP. *)
BufferedUnlessRetiring(s) == pool[s] \in {"coming", "lagging"}

(* buffer_message *)
Buffered(s) == pool[s] \in {"coming", "lagging", "retiring"}

FanOut ==
    /\ sent < events /\ \A s \in Ssps : out[s] = "no"
    /\ out' = [s \in Ssps |-> IF pool[s] = "ready" THEN "sent" ELSE "off"]
    /\ buf' = [s \in Ssps |-> IF Buffered(s) THEN Append(buf[s], sent + 1) ELSE buf[s]]
    /\ UNCHANGED <<events, sent, pool, standby, replaced, task, views, swap, node, pub, edges,
                   faults>>

(* ingest_handler: the circuit step and its deltas, enqueued under the circuit lock *)
Deltas(s, e) ==
    LET held == SetToSeq(node[s].regs)
    IN  [i \in DOMAIN held |-> [op |-> "delta", view |-> held[i], at |-> e]]
Taken(s, e) ==
    /\ node' = [node EXCEPT ![s].circuit = e]
    /\ pub' = [pub EXCEPT ![s] = IF node[s].standby THEN @ ELSE @ \o Deltas(s, e)]

Deliver(s) ==
    /\ out[s] = "sent"
    /\ \/ /\ node[s].status = "ready"
          /\ Taken(s, sent + 1)
          /\ out' = [out EXCEPT ![s] = "ok"]
          /\ UNCHANGED faults
       \/ /\ IF node[s].status = "ready" THEN Fault("drop") ELSE UNCHANGED faults
          /\ out' = [out EXCEPT ![s] = "failed"]
          /\ UNCHANGED <<node, pub>>
    /\ UNCHANGED <<events, sent, scheduler, views, swap, edges>>

(* Every SSP has answered: one that did not take the event lags and the event is queued. *)
Lags(s) == out[s] = "failed" /\ pool[s] = "ready"
FanOutDone ==
    /\ \A s \in Ssps : out[s] \in {"ok", "failed", "off"}
    /\ pool' = [s \in Ssps |-> IF Lags(s) THEN "lagging" ELSE pool[s]]
    /\ buf' = [s \in Ssps |-> IF out[s] = "failed" /\ (Lags(s) \/ Buffered(s))
                              THEN Append(buf[s], sent + 1) ELSE buf[s]]
    /\ task' = LET one == IF Lags("blue") THEN Spawned(task, "blue") ELSE task
               IN  IF Lags("green") THEN Spawned(one, "green") ELSE one
    /\ sent' = sent + 1 /\ out' = [s \in Ssps |-> "no"]
    /\ UNCHANGED <<events, standby, replaced, views, swap, node, pub, edges, faults>>

(* redeliver_to_lagging_ssp: take what is queued, deliver it in order, until nothing is left *)
Redeliver(t) ==
    LET s == task[t].ssp IN
    /\ task[t] # Off /\ task[t].batch = <<>>
    /\ \/ /\ pool[s] # "lagging"
          /\ task' = [task EXCEPT ![t] = Off]
          /\ UNCHANGED <<pool, buf>>
       \/ /\ pool[s] = "lagging" /\ buf[s] = <<>>
          /\ pool' = [pool EXCEPT ![s] = "ready"]
          /\ task' = [task EXCEPT ![t] = Off]
          /\ UNCHANGED buf
       \/ /\ pool[s] = "lagging" /\ buf[s] # <<>>
          /\ task' = [task EXCEPT ![t].batch = buf[s]]
          /\ buf' = [buf EXCEPT ![s] = <<>>]
          /\ UNCHANGED pool
    /\ UNCHANGED <<events, sent, out, standby, replaced, views, swap, node, pub, edges, faults>>

(* Bug: the batch goes back to the queue and stays in the task's hands. *)
RedeliverOneKeeps(t) ==
    LET s == task[t].ssp IN
    /\ task[t].batch # <<>>
    /\ IF node[s].status = "ready"
       THEN /\ Taken(s, Head(task[t].batch))
            /\ task' = [task EXCEPT ![t].batch = Tail(@)]
            /\ UNCHANGED buf
       ELSE /\ buf' = [buf EXCEPT ![s] = task[t].batch \o @]
            /\ UNCHANGED <<node, pub, task>>
    /\ UNCHANGED <<events, sent, out, pool, standby, replaced, views, swap, edges, faults>>

(* One event is posted; on a failure what is left goes back to the front of the queue. *)
RedeliverOne(t) ==
    LET s == task[t].ssp IN
    /\ task[t].batch # <<>>
    /\ IF node[s].status = "ready"
       THEN /\ Taken(s, Head(task[t].batch))
            /\ task' = [task EXCEPT ![t].batch = Tail(@)]
            /\ UNCHANGED buf
       ELSE /\ task' = [task EXCEPT ![t].batch = <<>>]
            /\ buf' = [buf EXCEPT ![s] = task[t].batch \o @]
            /\ UNCHANGED <<node, pub>>
    /\ UNCHANGED <<events, sent, out, pool, standby, replaced, views, swap, edges, faults>>

----------------------------------------------------------------------------
(* The publisher of an SSP, in whatever status it is: the head of the queue is written. *)

Written(old, w) ==
    CASE w.op = "drop" -> NoEdges
      [] w.op = "snapshot" -> w.at
      [] w.op = "delta" -> IF old + 1 = w.at \/ old = w.at THEN w.at ELSE Garbled

Publish(s) ==
    /\ pub[s] # <<>>
    /\ LET w == Head(pub[s])
           writes == IF w.op = "drop" THEN TRUE ELSE w.view \in node[s].regs \cap rows
       IN  edges' = IF writes THEN [edges EXCEPT ![w.view] = Written(@, w)] ELSE edges
    /\ pub' = [pub EXCEPT ![s] = Tail(@)]
    /\ UNCHANGED <<events, sent, out, scheduler, views, swap, node, faults>>

InOrder(S) ==
    CHOOSE p \in [1 .. Cardinality(S) -> S] : \A i, j \in DOMAIN p : i < j => p[i] < p[j]

(* the queue of s with a view's epoch moved on: what is left keeps its order *)
Without(q, v) ==
    LET p == InOrder({i \in DOMAIN q : q[i].view # v}) IN  [i \in DOMAIN p |-> q[p[i]]]

----------------------------------------------------------------------------
(* View registrations: forwarded to the SSP that has the view, else to a serving one, and     *)
(* copied to its standby.  Clients repeat them, so a view that is held is registered again.   *)

GateOpen == swap.at \in {"none", "wait", "done", "failed"}
TargetOf(v) ==
    IF tracker[v] # "none" /\ pool[tracker[v]] \in {"ready", "lagging"} THEN {tracker[v]}
    ELSE {s \in Ssps : pool[s] = "ready" /\ ~(s = "green" /\ standby)}

(* a repeat to an SSP that holds the view, published, only refreshes its row *)
Stranded(s, v) ==
    (v \notin rows \/ edges[v] = NoEdges) /\ \A i \in DOMAIN pub[s] : pub[s][i].view # v
Matters(s, v) ==
    \/ tracker[v] # s \/ node[s].status # "ready" \/ v \notin node[s].regs \/ Stranded(s, v)
    \/ s = "blue" /\ standby /\ v \notin node["green"].regs

Register(v) ==
    /\ GateOpen /\ reg = NoReg /\ v \notin released
    /\ \E s \in TargetOf(v) :
         /\ Matters(s, v)
         /\ reg' = [view |-> v, ssp |-> s]
         /\ tracker' = [tracker EXCEPT ![v] = s]
    /\ UNCHANGED <<events, sent, out, scheduler, msgs, swap, node, pub, rows, released, edges,
                   faults>>

(* register_view_handler: a new view is built from the circuit and its snapshot enqueued; one
   that is held is published again if its row or its edges are gone and nothing is queued. *)
Registered(s, v) ==
    LET snapshot == [op |-> "snapshot", view |-> v, at |-> node[s].circuit] IN
    /\ node' = [node EXCEPT ![s].regs = @ \cup {v}]
    /\ rows' = IF node[s].standby THEN rows ELSE rows \cup {v}
    /\ pub' = [pub EXCEPT ![s] =
                 IF node[s].standby \/ (v \in node[s].regs /\ ~Stranded(s, v)) THEN @
                 ELSE Append(IF v \in node[s].regs THEN @ ELSE Without(@, v), snapshot)]

(* shadow_to_standbys: only blue can have one *)
Shadow(owner, op, v) ==
    IF owner = "blue" THEN {[op |-> op, view |-> v, to |-> "standby"]} ELSE {}

RegisterEnds ==
    /\ reg # NoReg
    /\ IF node[reg.ssp].status = "ready"
       THEN /\ Registered(reg.ssp, reg.view)
            /\ msgs' = msgs \cup Shadow(reg.ssp, "register", reg.view)
            /\ UNCHANGED tracker
       ELSE /\ tracker' = [tracker EXCEPT ![reg.view] = "none"]
            /\ UNCHANGED <<node, rows, pub, msgs>>
    /\ reg' = NoReg
    /\ UNCHANGED <<events, sent, out, scheduler, swap, released, edges, faults>>

(* the row is deleted; unregister_local clears the assignment and forwards the teardown *)
Release(v) ==
    /\ v \in rows /\ reg.view # v /\ Fault("release")
    /\ rows' = rows \ {v} /\ released' = released \cup {v}
    /\ tracker' = [tracker EXCEPT ![v] = "none"]
    /\ msgs' = IF tracker[v] = "none" \/ pool[tracker[v]] = "out" THEN msgs
               ELSE msgs \cup Shadow(tracker[v], "unregister", v)
                         \cup {[op |-> "unregister", view |-> v, to |-> tracker[v]]}
    /\ UNCHANGED <<events, sent, out, scheduler, reg, swap, node, pub, edges>>

(* unregister_view_handler: what is queued for the view is void and a drop follows.  A
   standby has nothing queued and only frees the circuit's state. *)
Unregistered(s, v) ==
    /\ node' = [node EXCEPT ![s].regs = @ \ {v}]
    /\ pub' = [pub EXCEPT ![s] =
                 IF node[s].standby THEN @
                 ELSE Append(Without(@, v), [op |-> "drop", view |-> v, at |-> 0])]
    /\ UNCHANGED rows

(* A teardown or a shadow copy arrives; a shadow goes to blue's standby if that is ready now.
   Nobody repeats one that is refused. *)
Arrives(m) ==
    LET to == IF m.to # "standby" THEN m.to
              ELSE IF standby /\ pool["green"] = "ready" THEN "green" ELSE "nobody"
    IN
    /\ msgs' = msgs \ {m}
    /\ \/ /\ to \in Ssps
          /\ node[to].status = "ready"
          /\ IF m.op = "register" THEN Registered(to, m.view) ELSE Unregistered(to, m.view)
          /\ UNCHANGED faults
       \/ /\ IF to \in Ssps /\ node[to].status = "ready"
             THEN m.to = "standby" /\ Fault("shadow") ELSE UNCHANGED faults
          /\ UNCHANGED <<node, pub, rows>>
    /\ UNCHANGED <<events, sent, out, scheduler, tracker, reg, swap, released, edges>>
Arrive == \E m \in msgs : Arrives(m)

----------------------------------------------------------------------------
(* An SSP registers with the scheduler, boots and is caught up. *)

(* handle_register: green comes in as a standby while blue is there, else in its place *)
RegisterSsp(s) ==
    LET beside == s = "green" /\ (Serving("blue") \/ ComingUp("blue")) IN
    /\ node[s].status = "gone"
    /\ s = "blue" => ~replaced
    /\ IF s = "blue" /\ Swapping THEN Fault("comeback") ELSE UNCHANGED faults
    /\ pool' = [pool EXCEPT ![s] = "coming"]
    /\ buf' = [buf EXCEPT ![s] = <<>>]
    /\ standby' = IF s = "green" THEN beside ELSE standby
    /\ replaced' = (replaced \/ (s = "green" /\ ~beside))
    /\ node' = [node EXCEPT ![s] = [status |-> "boot", standby |-> beside, circuit |-> sent,
                                    regs |-> {}]]
    /\ UNCHANGED <<events, sent, out, task, views, swap, pub, edges>>

(* every `_00_query` row is registered *)
BootViews(s) ==
    /\ node[s].status = "boot"
    /\ node' = [node EXCEPT ![s].status = "loaded", ![s].regs = rows]
    /\ UNCHANGED <<events, sent, out, scheduler, views, swap, pub, edges, faults>>

(* Republished (not by a standby), replayed and ready; a standby's promotion starts. *)
BootEnds(s) ==
    LET now == IF \A r \in Ssps : out[r] = "no" THEN sent ELSE sent + 1 IN
    /\ node[s].status = "loaded"
    /\ "stale" \in Faults \/ \A t \in Tasks : task[t].ssp # s
    /\ node' = [node EXCEPT ![s].status = "ready", ![s].circuit = now]
    /\ edges' = IF node[s].standby THEN edges
                ELSE [v \in Views |-> IF v \in node[s].regs \cap rows THEN now ELSE edges[v]]
    /\ pool' = [pool EXCEPT ![s] = "ready"]
    /\ buf' = [buf EXCEPT ![s] = <<>>]
    /\ swap' = IF s = "green" /\ standby THEN [swap EXCEPT !.at = "wait"] ELSE swap
    /\ UNCHANGED <<events, sent, out, standby, replaced, task, views, pub, faults>>

(* blue's process dies; its supervisor starts it again (RegisterSsp) *)
Dies ==
    /\ node["blue"].status \in {"ready", "retired"}
    /\ IF Swapping THEN Fault("restart") ELSE Fault("died")
    /\ node' = [node EXCEPT !["blue"].status = "gone", !["blue"].regs = {}]
    /\ pub' = [pub EXCEPT !["blue"] = <<>>]
    /\ UNCHANGED <<events, sent, out, scheduler, views, swap, edges>>

(* the stale sweep removes an SSP that stopped answering *)
Evict ==
    /\ node["blue"].status = "gone" /\ pool["blue"] # "out"
    /\ pool' = [pool EXCEPT !["blue"] = "out"]
    /\ buf' = [buf EXCEPT !["blue"] = <<>>]
    /\ UNCHANGED <<events, sent, out, standby, replaced, task, views, swap, node, pub, edges,
                   faults>>

----------------------------------------------------------------------------
(* promote *)

At(a) == swap.at = a
To(a) == swap' = [swap EXCEPT !.at = a]

(* While blue is coming up the standby waits.  The write side of view_gate is asked for. *)
Hold ==
    /\ At("wait") /\ ~ComingUp("blue")
    /\ swap' = [swap EXCEPT !.at = IF pool["green"] = "ready" THEN "hold" ELSE "failed",
                            !.pred = Serving("blue")]
    /\ UNCHANGED <<events, sent, out, scheduler, views, node, pub, edges, faults>>

(* No registration is in flight.  Blue, if it was serving, leaves the live path; else there is
   nothing to retire and nothing to trust. *)
MarkRetiring ==
    /\ At("hold") /\ reg = NoReg
    /\ IF swap.pred
       THEN /\ pool' = [pool EXCEPT !["blue"] = IF @ = "out" THEN @ ELSE "retiring"]
            /\ swap' = [swap EXCEPT !.at = "idle", !.upto = events]
       ELSE /\ To("promote")
            /\ UNCHANGED pool
    /\ UNCHANGED <<events, sent, out, standby, replaced, buf, task, views, node, pub, edges,
                   faults>>

(* Bug: waits for blue's queue to be empty too. *)
FanOutIdleAndEmpty ==
    /\ At("idle") /\ sent >= swap.upto /\ buf["blue"] = <<>>
    /\ To("retire")
    /\ UNCHANGED <<events, sent, out, scheduler, views, node, pub, edges, faults>>

(* Fanout::idle *)
FanOutIdle ==
    /\ At("idle") /\ sent >= swap.upto
    /\ To("retire")
    /\ UNCHANGED <<events, sent, out, scheduler, views, node, pub, edges, faults>>

(* handover_retire: no more work; once the publications are out, the digests *)
Retire ==
    /\ At("retire")
    /\ IF node["blue"].status = "ready"
       THEN node' = [node EXCEPT !["blue"].status = "retired"] /\ To("drain")
       ELSE To("abandon") /\ UNCHANGED node
    /\ UNCHANGED <<events, sent, out, scheduler, views, pub, edges, faults>>

Digests == [v \in Views |-> IF v \in node["blue"].regs THEN node["blue"].circuit ELSE NoEdges]

(* Bug: blue answers without waiting for its publisher. *)
DrainedAtOnce == TRUE

(* wait_drained *)
Drained == pub["blue"] = <<>>

RetireAnswered ==
    /\ At("drain")
    /\ \/ /\ Drained
          /\ swap' = [swap EXCEPT !.at = "promote", !.trusted = TRUE, !.digests = Digests]
          /\ UNCHANGED faults
       \/ /\ ~Drained /\ Fault("undrained")
          /\ To("promote")
    /\ UNCHANGED <<events, sent, out, scheduler, views, node, pub, edges>>

RetireFails ==
    /\ swap.at \in {"retire", "drain"} /\ Fault("retire")
    /\ To("abandon")
    /\ UNCHANGED <<events, sent, out, scheduler, views, node, pub, edges>>

(* handover_promote, in one critical section: views green missed are registered from their
   rows, those gone are dropped, those the digests do not vouch for are republished. *)
Vouched(v) == swap.trusted /\ swap.digests[v] # NoEdges
Missed == IF swap.trusted THEN {v \in rows : Vouched(v)} ELSE {}

(* Bug: a digest that differs is not looked at. *)
RepublishedUnvouched(held) == {v \in held : ~Vouched(v) /\ v \in rows}

Republished(held) ==
    {v \in held : IF Vouched(v) THEN swap.digests[v] # node["green"].circuit ELSE v \in rows}
Kept(held) == {v \in held : Vouched(v) \/ v \in rows}
Promoted ==
    LET held == node["green"].regs \cup Missed
        again == SetToSeq(Republished(held))
    IN  IF ~node["green"].standby THEN UNCHANGED <<node, pub>>
        ELSE /\ node' = [node EXCEPT !["green"].regs = Kept(held), !["green"].standby = FALSE]
             /\ pub' = [pub EXCEPT !["green"] = @ \o
                          [i \in DOMAIN again |-> [op |-> "snapshot", view |-> again[i],
                                                   at |-> node["green"].circuit]]]

(* An answer commits, no answer abandons; with no predecessor to resume it only fails. *)
GivenUp == IF swap.pred THEN "abandon" ELSE "failed"
Promote ==
    /\ At("promote")
    /\ \/ /\ Promoted
          /\ \/ To("commit") /\ UNCHANGED faults
             \/ To(GivenUp) /\ Fault("promote")
       \/ /\ To(GivenUp) /\ Fault("refuse")
          /\ UNCHANGED <<node, pub>>
    /\ UNCHANGED <<events, sent, out, scheduler, views, edges>>

(* commit_or_fail: blue's views and its place go to green; the events queued for it are dropped *)
Commit ==
    /\ At("commit")
    /\ tracker' = [v \in Views |-> IF tracker[v] = "blue" THEN "green" ELSE tracker[v]]
    /\ standby' = FALSE /\ replaced' = TRUE
    /\ pool' = [pool EXCEPT !["blue"] = IF @ = "out" THEN @ ELSE "retired"]
    /\ buf' = [buf EXCEPT !["blue"] = <<>>]
    /\ To("done")
    /\ UNCHANGED <<events, sent, out, task, reg, msgs, node, pub, rows, released, edges, faults>>

(* abandon: blue serves again, behind by what was queued for it *)
Resume ==
    /\ At("abandon")
    /\ \/ /\ node' = [node EXCEPT !["blue"].status = IF @ = "retired" THEN "ready" ELSE @]
          /\ UNCHANGED faults
       \/ /\ Fault("resume")
          /\ UNCHANGED node
    /\ To("unretire")
    /\ UNCHANGED <<events, sent, out, scheduler, views, pub, edges>>

Unretire ==
    /\ At("unretire")
    /\ IF pool["blue"] = "retiring"
       THEN /\ pool' = [pool EXCEPT !["blue"] = "lagging"]
            /\ task' = Spawned(task, "blue")
       ELSE UNCHANGED <<pool, task>>
    /\ To("failed")
    /\ UNCHANGED <<events, sent, out, standby, replaced, buf, views, node, pub, edges, faults>>

----------------------------------------------------------------------------
Next ==
    \/ Ingest \/ FanOut \/ FanOutDone
    \/ \E s \in Ssps : Deliver(s) \/ Publish(s) \/ RegisterSsp(s) \/ BootViews(s) \/ BootEnds(s)
    \/ \E t \in Tasks : Redeliver(t) \/ RedeliverOne(t)
    \/ \E v \in Views : Register(v) \/ Release(v)
    \/ RegisterEnds \/ Arrive \/ Dies \/ Evict
    \/ Hold \/ MarkRetiring \/ FanOutIdle \/ Retire \/ RetireAnswered \/ RetireFails \/ Promote
    \/ Commit \/ Resume \/ Unretire

(* Calls end in an answer or a timeout, tasks run on, publications are retried until written,
   a process that died is started again and clients repeat their registrations. *)
Fairness ==
    /\ WF_vars(FanOut) /\ WF_vars(FanOutDone)
    /\ \A s \in Ssps : /\ WF_vars(Deliver(s)) /\ WF_vars(Publish(s)) /\ WF_vars(BootViews(s))
                       /\ WF_vars(BootEnds(s))
    /\ WF_vars(RegisterSsp("blue"))
    /\ \A t \in Tasks : WF_vars(Redeliver(t)) /\ WF_vars(RedeliverOne(t))
    /\ \A v \in Views : SF_vars(Register(v))
    /\ WF_vars(RegisterEnds) /\ WF_vars(Arrive) /\ WF_vars(Evict)
    /\ WF_vars(Hold) /\ WF_vars(MarkRetiring) /\ WF_vars(FanOutIdle) /\ WF_vars(Retire)
    /\ WF_vars(RetireAnswered) /\ WF_vars(Promote) /\ WF_vars(Commit)
    /\ WF_vars(Resume) /\ WF_vars(Unretire)

Spec == Init /\ [][Next]_vars /\ Fairness

----------------------------------------------------------------------------
Work == [op : {"delta", "snapshot", "drop"}, view : Views, at : 0 .. MaxEvents]

(* The values the state may take; no queue is longer than the events are many. *)
TypeOK ==
    /\ events \in 0 .. MaxEvents /\ sent \in 0 .. events
    /\ out \in [Ssps -> {"no", "sent", "ok", "failed", "off"}]
    /\ pool \in [Ssps -> {"out", "coming", "ready", "lagging", "retiring", "retired"}]
    /\ standby \in BOOLEAN /\ replaced \in BOOLEAN
    /\ \A s \in Ssps : buf[s] \in Seq(1 .. MaxEvents) /\ Len(buf[s]) <= MaxEvents
    /\ \A t \in Tasks : task[t].ssp \in Ssps \cup {"none"}
    /\ tracker \in [Views -> Ssps \cup {"none"}]
    /\ reg = NoReg \/ reg \in [view : Views, ssp : Ssps]
    /\ swap.at \in {"none", "wait", "hold", "idle", "retire", "drain", "promote", "commit",
                    "abandon", "unretire", "done", "failed"}
    /\ \A s \in Ssps :
         /\ node[s].status \in {"gone", "boot", "loaded", "ready", "retired"}
         /\ node[s].circuit \in 0 .. MaxEvents /\ node[s].regs \subseteq Views
         /\ pub[s] \in Seq(Work)
    /\ rows \subseteq Views /\ released \subseteq Views
    /\ edges \in [Views -> 0 .. Garbled] /\ faults \in 0 .. MaxFaults

(* The SSP writes view edges, now or when its queue is taken up. *)
Writes(s) == pub[s] # <<>> \/ (node[s].status = "ready" /\ ~node[s].standby)

(* At no time may both SSPs write view edges: while one is serving out of standby, or still has
   publications queued, the other is not and has none (ssp_management.rs registration: "Either
   way, never both serving"; ssp_handover.rs retires blue before it promotes green). *)
OneWriter == ~(Writes("blue") /\ Writes("green"))

(* An SSP that is up takes the events in order and skips none, whatever the live path, the
   queues of a retiring or lagging SSP and the redelivery tasks do to them (abandon: blue "gets
   back every event it missed"). *)
EventsInOrder ==
    [][\A s \in Ssps : node[s].status \in {"ready", "retired"} =>
         node'[s].circuit \in {node[s].circuit, node[s].circuit + 1}]_vars

(* Once the events end, the edges of every view that still has its row say the membership
   after the last of them, whichever SSP came out of the swap serving. *)
EdgesConverge == <>[](\A v \in rows \ released : edges[v] = events)

(* A swap ends, one way or the other, and registrations are taken again. *)
GateReopens == Swapping ~> ~Swapping
=============================================================================
