--------------------------- MODULE EdgePublisher ---------------------------
(***************************************************************************)
(* How an SSP keeps the edges of its views in the database (packages/      *)
(* ssp-node: the publication queue of edges.rs and the handlers of node.rs *)
(* that feed it).  The circuit is changed under one lock and every change  *)
(* queues its deltas there; a single task takes rounds off the queue and   *)
(* writes them, under the publication gate and without the circuit's lock, *)
(* while views are registered, joined and released.                        *)
(*                                                                         *)
(* A view lists all rows of a table; a row is the version it was last      *)
(* written with, and an edge is a count (RELATE adds one, the table has no *)
(* unique index) and the version it shows.  Merged views, per-user tables, *)
(* children of subqueries, the standby and the reset are not modelled; the *)
(* byte and operation limits bound the same queue the slots do.            *)
(***************************************************************************)
EXTENDS Naturals, Sequences, FiniteSets, SequencesExt

CONSTANTS
    Views, Records,
    Handlers,     \* registration requests in flight
    Nobody,       \* not a handler
    Slots,        \* PublicationLimits.slots
    RoundItems,   \* MAX_ROUND_ITEMS
    MaxEvents,    \* bound on ingested events
    MaxRequests,  \* bound on registrations and releases
    Faults,       \* "meta", "write", "cleanup", "cancel", "early", "slow"
    MaxFaults     \* bound on faults

ASSUME BoundsAssumption ==
    /\ Slots \in Nat \ {0} /\ RoundItems \in Nat \ {0}
    /\ MaxEvents \in Nat /\ MaxRequests \in Nat /\ MaxFaults \in Nat
ASSUME NobodyAssumption == Nobody \notin Handlers
ASSUME SetsAssumption ==
    IsFiniteSet(Handlers) /\ IsFiniteSet(Records) /\ Views # {} /\ Views \cap Records = {}

VARIABLES
    store,    \* the circuit's rows: version, 0 when there is none
    live,     \* the views registered in the circuit
    row,      \* state of each view's _00_query row, "none" without one
    edges,    \* the list_ref edges of each view
    owed,     \* views whose row was deleted and whose unregister is on its way
    queue,    \* PublicationState.queue
    round,    \* the works taken, the phase, and the views whose write failed
    hdl,      \* the registration handlers
    count     \* events, requests and faults so far

vars == <<store, live, row, edges, owed, queue, round, hdl, count>>

NoEdge == [n |-> 0, ver |-> 0]
NoEdges == [r \in Records |-> NoEdge]
NoRound == [phase |-> "idle", works |-> <<>>, poisoned |-> {}]
Idle == [pc |-> "idle", view |-> CHOOSE v \in Views : TRUE, rows |-> 0,
         created |-> FALSE, current |-> FALSE]

Init ==
    /\ store \in [Records -> {0, 1}]
    /\ live = {}
    /\ row = [v \in Views |-> "none"]
    /\ edges = [v \in Views |-> NoEdges]
    /\ owed = {}
    /\ queue = <<>>
    /\ round = NoRound
    /\ hdl = [h \in Handlers |-> Idle]
    /\ count = [events |-> 0, requests |-> 0, faults |-> 0]

Members == {r \in Records : store[r] > 0}
ViewsOf(w) == {d.view : d \in w.deltas}
Held == queue \o round.works
Serving(h) == hdl[h].pc # "idle"
Goto(h, pc) == hdl' = [hdl EXCEPT ![h].pc = pc]
Answer(h) == hdl' = [hdl EXCEPT ![h] = Idle]
Requests == count.requests < MaxRequests /\ count' = [count EXCEPT !.requests = @ + 1]
Fault(f) ==
    /\ f \in Faults /\ count.faults < MaxFaults
    /\ count' = [count EXCEPT !.faults = @ + 1]

-----------------------------------------------------------------------------
(* Admission.  A lease is held by every request that will publish and by every work that
   is queued or being written; a cold registration hands its lease to its work. *)

Leases ==
    Len(Held) + Cardinality({h \in Handlers : hdl[h].pc \notin {"idle", "meta", "rollback"}})

(* Bug: registrations may fill the queue. *)
RoomForAll == Leases <= Slots

(* try_reserve_registration: half of the queue. *)
RoomToRegister == Leases < Slots \div 2

(* try_reserve *)
RoomToIngest == Leases < Slots

-----------------------------------------------------------------------------
(* The queue.  A delta's epoch is kept as the fact it is compared for: whether the view
   has been invalidated since. *)

Delta(v, op, recs) == [view |-> v, op |-> op, recs |-> recs, current |-> TRUE]

(* enqueue, with the versions the circuit shows at that point. *)
Work(deltas, drops, rows, by, src) ==
    [deltas |-> deltas, drops |-> drops,
     vers |-> [r \in Records |-> IF \E d \in deltas : r \in d.recs THEN rows[r] ELSE 0],
     by |-> by, ready |-> IF by = Nobody THEN "yes" ELSE "no",
     src |-> src, parked |-> FALSE]

Outdated(ws, v) ==
    [i \in DOMAIN ws |-> [ws[i] EXCEPT !.deltas =
        {IF d.view = v THEN [d EXCEPT !.current = FALSE] ELSE d : d \in @}]]

(* invalidate_view: what is queued, being written or being registered for v. *)
HandlersOutdated(v) ==
    [h \in Handlers |-> IF hdl[h].view = v THEN [hdl[h] EXCEPT !.current = FALSE] ELSE hdl[h]]

Readied(ws, h, r) ==
    [i \in DOMAIN ws |-> IF ws[i].by = h THEN [ws[i] EXCEPT !.by = Nobody, !.ready = r]
                                         ELSE ws[i]]

-----------------------------------------------------------------------------
(* The handlers. *)

(* ingest_handler: one row created, updated or deleted.  A deletion also drops whatever
   edges point at the row; anything else waits until the row can be read. *)
Ingest(r) ==
    /\ RoomToIngest
    /\ count.events < MaxEvents
    /\ count' = [count EXCEPT !.events = @ + 1]
    /\ \E op \in IF store[r] = 0 THEN {"add"} ELSE {"update", "remove"} :
         /\ store' = [store EXCEPT ![r] = IF op = "remove" THEN 0 ELSE count.events + 2]
         /\ LET deltas == {Delta(v, op, {r}) : v \in live}
                drops == IF op = "remove" THEN {r} ELSE {}
            IN  queue' = IF deltas = {} /\ drops = {} THEN queue
                         ELSE Append(queue, Work(deltas, drops, store', Nobody, op = "remove"))
    /\ UNCHANGED <<live, row, edges, owed, round, hdl>>

(* register_view_handler for a view the circuit does not have: one step under the circuit
   lock.  The work waits for the _00_query row. *)
RegisterCold(h, v) ==
    /\ ~Serving(h) /\ v \notin live
    /\ RoomToRegister /\ Requests
    /\ live' = live \cup {v}
    /\ queue' = Append(Outdated(queue, v),
                       Work({Delta(v, "full", Members)}, {}, store, h, TRUE))
    /\ round' = [round EXCEPT !.works = Outdated(@, v)]
    /\ hdl' = [HandlersOutdated(v) EXCEPT ![h] =
                 [Idle EXCEPT !.pc = "meta", !.view = v, !.rows = Cardinality(Members),
                              !.current = TRUE]]
    /\ owed' = owed \ {v}
    /\ UNCHANGED <<store, row, edges>>

StateFor(rows) == IF rows = 0 THEN "ready" ELSE "materializing"

(* Bug: the publication is not told that the row is there. *)
MetaWrittenQuietly(h) ==
    /\ hdl[h].pc = "meta"
    /\ row' = [row EXCEPT ![hdl[h].view] = StateFor(hdl[h].rows)]
    /\ Answer(h)
    /\ UNCHANGED <<store, live, edges, owed, queue, round, count>>

(* The row is written, then PublicationReady.complete. *)
MetaWritten(h) ==
    /\ hdl[h].pc = "meta"
    /\ row' = [row EXCEPT ![hdl[h].view] = StateFor(hdl[h].rows)]
    /\ queue' = Readied(queue, h, "yes")
    /\ Answer(h)
    /\ UNCHANGED <<store, live, edges, owed, round, count>>

GateFree == round.phase \in {"idle", "taken"}

(* PublicationReady dropped before it is complete: its work is never published, nor is
   what was queued for the view since, unless a later registration has taken the id over. *)
Abandon(h) ==
    LET v == hdl[h].view
    IN  IF hdl[h].current
        THEN /\ queue' = Readied(Outdated(queue, v), h, "never")
             /\ round' = [round EXCEPT !.works = Outdated(@, v)]
             /\ hdl' = [HandlersOutdated(v) EXCEPT ![h] = Idle]
        ELSE /\ queue' = Readied(queue, h, "never")
             /\ Answer(h)
             /\ UNCHANGED round

(* The write is refused, and the registration will be rolled back; or the caller has gone
   away and the handler with it: the view then stays in the circuit. *)
MetaFails(h) ==
    /\ hdl[h].pc = "meta"
    /\ \E f \in {"meta", "cancel"} :
         /\ Fault(f)
         /\ IF f = "meta" THEN Goto(h, "rollback") /\ UNCHANGED <<queue, round>> ELSE Abandon(h)
    /\ UNCHANGED <<store, live, row, edges, owed>>

(* Under the gate. *)
Rollback(h) ==
    /\ hdl[h].pc = "rollback" /\ GateFree
    /\ live' = IF hdl[h].current THEN live \ {hdl[h].view} ELSE live
    /\ Abandon(h)
    /\ UNCHANGED <<store, row, edges, owed, count>>

(* join_registered_view.  A release the scheduler has not sent on by then is older than
   this registration and is dropped; without "early" it has always arrived. *)
Join(h, v) ==
    /\ ~Serving(h) /\ v \in live
    /\ v \in owed => "early" \in Faults
    /\ RoomToRegister /\ Requests
    /\ hdl' = [hdl EXCEPT ![h] = [Idle EXCEPT !.pc = "join", !.view = v,
                                              !.rows = Cardinality(Members)]]
    /\ owed' = owed \ {v}
    /\ UNCHANGED <<store, live, row, edges, queue, round>>

(* The row is created if it is not there; its state is left alone otherwise. *)
JoinMeta(h) ==
    /\ hdl[h].pc = "join"
    /\ LET v == hdl[h].view
       IN  /\ row' = IF row[v] = "none" THEN [row EXCEPT ![v] = StateFor(hdl[h].rows)] ELSE row
           /\ hdl' = [hdl EXCEPT ![h].pc = "probe", ![h].created = row[v] = "none"]
    /\ UNCHANGED <<store, live, edges, owed, queue, round, count>>

EdgeCount(v) == FoldSet(LAMBDA r, n : n + edges[v][r].n, 0, Records)

(* repair_stranded_view: the rows the view has, then what the database shows. *)
Healthy(h) ==
    LET v == hdl[h].view
    IN  ~hdl[h].created /\ row[v] # "none" /\ (Members = {} \/ EdgeCount(v) > 0)

Probe(h) ==
    /\ hdl[h].pc = "probe"
    /\ IF hdl[h].view \notin live \/ Healthy(h) THEN Answer(h)
       ELSE hdl' = [hdl EXCEPT ![h].pc = IF row[hdl[h].view] = "none" THEN "repair" ELSE "check",
                               ![h].rows = Cardinality(Members)]
    /\ UNCHANGED <<store, live, row, edges, owed, queue, round, count>>

HasPending(v) == \E i \in DOMAIN Held : v \in ViewsOf(Held[i])

(* A publication under way is taken to be the repair. *)
Check(h) ==
    /\ hdl[h].pc = "check"
    /\ IF HasPending(hdl[h].view) THEN Answer(h) ELSE Goto(h, "repair")
    /\ UNCHANGED <<store, live, row, edges, owed, queue, round, count>>

RepairRow(h) ==
    /\ hdl[h].pc = "repair"
    /\ row' = [row EXCEPT ![hdl[h].view] = StateFor(hdl[h].rows)]
    /\ IF hdl[h].rows = 0 THEN Answer(h) ELSE Goto(h, "snapshot")
    /\ UNCHANGED <<store, live, edges, owed, queue, round, count>>

RepairSnapshot(h) ==
    /\ hdl[h].pc = "snapshot"
    /\ queue' = IF hdl[h].view \in live
                THEN Append(queue, Work({Delta(hdl[h].view, "full", Members)}, {}, store,
                                        Nobody, TRUE))
                ELSE queue
    /\ Answer(h)
    /\ UNCHANGED <<store, live, row, edges, owed, round, count>>

(* External: the row of a view nobody watches is deleted, its edges with it; the SSP hears
   of it later.  Without "slow" no registration that is about to write the row is left. *)
DeleteRow(v) ==
    /\ row[v] # "none" /\ Requests
    /\ "slow" \in Faults \/ \A h \in Handlers : ~(hdl[h].pc = "meta" /\ hdl[h].view = v)
    /\ row' = [row EXCEPT ![v] = "none"]
    /\ edges' = [edges EXCEPT ![v] = NoEdges]
    /\ owed' = owed \cup {v}
    /\ UNCHANGED <<store, live, queue, round, hdl>>

(* unregister_view_handler: admitted however full the queue is. *)
Unregister(v) ==
    /\ v \in owed
    /\ owed' = owed \ {v}
    /\ live' = live \ {v}
    /\ queue' = Append(Outdated(queue, v), Work({}, {v}, store, Nobody, TRUE))
    /\ round' = [round EXCEPT !.works = Outdated(@, v)]
    /\ hdl' = HandlersOutdated(v)
    /\ UNCHANGED <<store, row, edges, count>>

-----------------------------------------------------------------------------
(* The publisher, EdgePublisher::run. *)

(* The source row can be read, or five seconds have passed. *)
SourceSeen(i) ==
    /\ i \in DOMAIN queue /\ ~queue[i].src
    /\ queue' = [queue EXCEPT ![i].src = TRUE]
    /\ UNCHANGED <<store, live, row, edges, owed, round, hdl, count>>

(* A parked work's delay passes. *)
RetryDue(i) ==
    /\ i \in DOMAIN queue /\ queue[i].parked
    /\ queue' = [queue EXCEPT ![i].parked = FALSE]
    /\ UNCHANGED <<store, live, row, edges, owed, round, hdl, count>>

(* work_obsolete, work_selectable *)
Obsolete(w) == w.ready = "never" \/ (w.drops = {} /\ \A d \in w.deltas : ~d.current)
Selectable(w) == w.ready = "yes" /\ w.src /\ ~w.parked

(* Bug: a work waits for nothing ahead of it. *)
BlockedByNone(i) == {}

(* The views of the works ahead. *)
Blocked(i) == UNION {ViewsOf(queue[j]) : j \in 1..(i - 1)}

Choosable(i) ==
    \/ Obsolete(queue[i])
    \/ /\ Selectable(queue[i])
       /\ ViewsOf(queue[i]) \cap Blocked(i) = {}
       /\ queue[i].drops = {} \/ i = 1

(* The scan ends at the first that can go, and at a work with a drop: a barrier. *)
Chosen(i) ==
    /\ i \in DOMAIN queue /\ Choosable(i)
    /\ \A j \in 1..(i - 1) : ~Choosable(j) /\ queue[j].drops = {}

(* How many works a round takes: from the head of the queue as many as can go. *)
Taken(i) ==
    IF i > 1 \/ Obsolete(queue[1]) THEN {1}
    ELSE {k \in 1..Len(queue) :
            /\ k <= RoundItems
            /\ \A j \in 2..k : ~Obsolete(queue[j]) /\ Selectable(queue[j])
            /\ k = Len(queue) \/ k = RoundItems
               \/ Obsolete(queue[k + 1]) \/ ~Selectable(queue[k + 1])}

Take(i) ==
    /\ round.phase = "idle" /\ Chosen(i)
    /\ \E n \in Taken(i) :
         /\ queue' = SubSeq(queue, 1, i - 1) \o SubSeq(queue, i + n, Len(queue))
         /\ round' = IF Obsolete(queue[i]) THEN NoRound
                     ELSE [NoRound EXCEPT !.phase = "taken",
                                          !.works = SubSeq(queue, i, i + n - 1)]
    /\ UNCHANGED <<store, live, row, edges, owed, hdl, count>>

Finished(w) == w.deltas = {} /\ w.drops = {}
Ended(ws) == \A i \in DOMAIN ws : Finished(ws[i])

(* Under the gate: what the circuit still has, under the epoch it was queued with. *)
Filtered(w) == [w EXCEPT !.deltas = {d \in @ : d.current /\ d.view \in live}]

Filter ==
    /\ round.phase = "taken"
    /\ LET ws == [i \in DOMAIN round.works |-> Filtered(round.works[i])]
       IN  round' = IF Ended(ws) THEN NoRound
                    ELSE [round EXCEPT !.phase = "cleanup", !.works = ws]
    /\ UNCHANGED <<store, live, row, edges, owed, queue, hdl, count>>

(* run_cleanup: the drops of the whole round before its deltas. *)
Dropped(drops) ==
    [v \in Views |-> [r \in Records |-> IF v \in drops \/ r \in drops THEN NoEdge
                                                                      ELSE edges[v][r]]]

Cleanup ==
    /\ round.phase = "cleanup"
    /\ edges' = Dropped(UNION {w.drops : w \in Range(round.works)})
    /\ round' = [round EXCEPT !.phase = "write",
                              !.works = [i \in DOMAIN @ |-> [@[i] EXCEPT !.drops = {}]]]
    /\ UNCHANGED <<store, live, row, owed, queue, hdl, count>>

(* What is not finished is parked at the front, in order. *)
Park(ws) ==
    LET left == {i \in DOMAIN ws : ~Finished(ws[i])}
    IN  \E p \in [1..Cardinality(left) -> left] :
          /\ Range(p) = left /\ \A i, j \in DOMAIN p : i < j => p[i] < p[j]
          /\ queue' = [i \in DOMAIN p |-> [ws[p[i]] EXCEPT !.parked = TRUE]] \o queue

CleanupFails ==
    /\ round.phase = "cleanup"
    /\ Fault("cleanup")
    /\ Park(round.works)
    /\ round' = NoRound
    /\ UNCHANGED <<store, live, row, edges, owed, hdl>>

(* The deltas still to be tried, and the next one: the first work's first. *)
Todo(i) == {d \in round.works[i].deltas : d.view \notin round.poisoned}
Written == {i \in DOMAIN round.works : Todo(i) # {}}
Turn(i) == round.phase = "write" /\ i \in Written /\ \A j \in Written : i <= j

(* Newest captured version of a row in the round. *)
Version(r) ==
    LET vs == {w.vers[r] : w \in Range(round.works)}
    IN  CHOOSE n \in vs : \A m \in vs : m <= n

(* build_edge_batch.  Without the view's row RELATE writes nothing; a full publish drops
   the view's edges first. *)
Related(e, v, recs) ==
    [r \in Records |-> IF r \in recs /\ row[v] # "none"
                       THEN [n |-> e[r].n + 1, ver |-> Version(r)] ELSE e[r]]

Applied(d) ==
    LET e == edges[d.view]
    IN  CASE d.op = "full"   -> Related(NoEdges, d.view, d.recs)
          [] d.op = "add"    -> Related(e, d.view, d.recs)
          [] d.op = "remove" -> [r \in Records |-> IF r \in d.recs THEN NoEdge ELSE e[r]]
          [] d.op = "update" -> [r \in Records |->
                IF r \in d.recs /\ e[r].n > 0 THEN [e[r] EXCEPT !.ver = Version(r)] ELSE e[r]]

Without(i, d) == [round EXCEPT !.works[i].deltas = @ \ {d}]

Write(i) ==
    /\ Turn(i)
    /\ \E d \in Todo(i) :
         /\ edges' = [edges EXCEPT ![d.view] = Applied(d)]
         /\ row' = IF d.op = "full" /\ row[d.view] # "none"
                   THEN [row EXCEPT ![d.view] = "ready"] ELSE row
         /\ round' = Without(i, d)
    /\ UNCHANGED <<store, live, owed, queue, hdl, count>>

(* Nothing more is tried for the view in this round.  A full publish may have been split
   and have landed in part; the others land whole or not at all.  A delta whose view has
   no row any more is given up (view_is_gone). *)
WriteFails(i) ==
    /\ Turn(i)
    /\ Fault("write")
    /\ \E d \in Todo(i) :
         /\ \/ UNCHANGED edges
            \/ /\ d.op = "full"
               /\ \E part \in SUBSET d.recs \ {d.recs} :
                    edges' = [edges EXCEPT ![d.view] = Related(NoEdges, d.view, part)]
         /\ round' = [IF row[d.view] = "none" THEN Without(i, d) ELSE round
                        EXCEPT !.poisoned = @ \cup {d.view}]
    /\ UNCHANGED <<store, live, row, owed, queue, hdl>>

EndRound ==
    /\ round.phase = "write" /\ Written = {}
    /\ Park(round.works)
    /\ round' = NoRound
    /\ UNCHANGED <<store, live, row, edges, owed, hdl, count>>

-----------------------------------------------------------------------------
Handle(h) ==
    \/ MetaWritten(h) \/ Rollback(h) \/ JoinMeta(h) \/ Probe(h) \/ Check(h)
    \/ RepairRow(h) \/ RepairSnapshot(h)

Publish ==
    \/ \E i \in DOMAIN queue : Take(i)
    \/ \E i \in DOMAIN round.works : Write(i)
    \/ Filter \/ Cleanup \/ EndRound

Next ==
    \/ \E r \in Records : Ingest(r)
    \/ \E h \in Handlers :
         \/ Handle(h) \/ MetaFails(h)
         \/ \E v \in Views : RegisterCold(h, v) \/ Join(h, v)
    \/ \E v \in Views : DeleteRow(v) \/ Unregister(v)
    \/ \E i \in DOMAIN queue : SourceSeen(i) \/ RetryDue(i)
    \/ Publish
    \/ CleanupFails
    \/ \E i \in DOMAIN round.works : WriteFails(i)

(* The publisher's task never stops; a wait for a source row and a retry delay end; a
   handler goes on; the scheduler sends the unregister on. *)
Fairness ==
    /\ WF_vars(Publish)
    /\ WF_vars(\E i \in DOMAIN queue : SourceSeen(i))
    /\ WF_vars(\E i \in DOMAIN queue : RetryDue(i))
    /\ \A h \in Handlers : WF_vars(Handle(h))
    /\ \A v \in Views : WF_vars(Unregister(v))

Spec == Init /\ [][Next]_vars /\ Fairness

-----------------------------------------------------------------------------
(* Every variable has its type, and what is admitted fits the queue: registrations and
   changes never hold more than its slots, only releases come on top (reserve). *)
TypeOK ==
    /\ store \in [Records -> 0..MaxEvents + 1]
    /\ live \subseteq Views /\ owed \subseteq Views
    /\ row \in [Views -> {"none", "materializing", "ready"}]
    /\ \A v \in Views, r \in Records : edges[v][r].n \in Nat /\ edges[v][r].ver \in 0..MaxEvents + 1
    /\ \A i \in DOMAIN Held : ViewsOf(Held[i]) \subseteq Views
    /\ Leases - Cardinality({i \in DOMAIN Held : Held[i].deltas = {}}) <= Slots

(* Nothing is on its way for the view. *)
Settled(v) ==
    /\ v \in live \ owed /\ row[v] = "ready"
    /\ ~HasPending(v)
    /\ \A h \in Handlers : ~(Serving(h) /\ hdl[h].view = v)

(* What a client reads: once the row says ready and nothing is queued for the view, its
   edges are the view's rows, each once and with its version (EdgePublisher::run). *)
EdgesFollow ==
    \A v \in Views : Settled(v) =>
        edges[v] = [r \in Records |-> IF store[r] > 0 THEN [n |-> 1, ver |-> store[r]] ELSE NoEdge]

(* A registered view whose row says materializing gets ready, unless it is released: no
   failed write, failed drop or late registration leaves a client waiting. *)
EveryViewIsServed ==
    \A v \in Views :
        (v \in live /\ row[v] = "materializing")
            ~> (v \notin live \/ row[v] # "materializing")
=============================================================================
