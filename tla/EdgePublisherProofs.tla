------------------------ MODULE EdgePublisherProofs ------------------------
(***************************************************************************)
(* The edges of a view follow its rows, for any views, rows, handlers,     *)
(* queue length, round length and bounds, and admission keeps to the slots *)
(* of the queue.  The faults left out are the ones with which TLC finds    *)
(* the edges to go wrong: a registration cut off by its caller, and a view *)
(* joined again before its release is sent on.                             *)
(*                                                                         *)
(* EdgesFollow speaks of a view with nothing on its way, so it says        *)
(* nothing of the steps that lead there.  What does is Chain: the works of *)
(* the round and the queue, in the order they reach the database (Line),   *)
(* lead an edge from what it is to what the row is, each taking it up      *)
(* where the one before leaves it.  Every step of the publisher either     *)
(* renumbers the line without losing or overtaking anything of a view      *)
(* (Renumbered, Keeps, Carried) or writes the first delta the view has     *)
(* left.                                                                   *)
(*                                                                         *)
(* Four things threaten the chain, and each has its invariant.  A drop     *)
(* takes an edge away out of turn: a reset comes with it or after it       *)
(* (Covered).  The round still holds what was queued for an earlier        *)
(* registration of the view: the whole content comes later, and any edge   *)
(* will do until then (StaleCovered, ChainAnyEdge).  RELATE writes nothing *)
(* without the view's row: a row that is missing is being written, and     *)
(* until it is there its registration holds back all that the view has     *)
(* (RowThere, Pinned).  And the version written is the newest the round    *)
(* has: no work is dated after the row (WorksOK).                          *)
(***************************************************************************)
EXTENDS EdgePublisher, FiniteSetTheorems, SequenceTheorems, WellFoundedInduction, TLAPS

-----------------------------------------------------------------------------
(* What the variables hold. *)

Ops == {"full", "add", "update", "remove"}

DeltaRecord == [view : Views, op : Ops, recs : SUBSET Records, current : BOOLEAN]

WorkRecord ==
    [deltas : SUBSET DeltaRecord, drops : SUBSET (Views \cup Records),
     vers : [Records -> 0..MaxEvents + 1], by : Handlers \cup {Nobody},
     ready : {"yes", "no", "never"}, src : BOOLEAN, parked : BOOLEAN]

RoundRecord ==
    [phase : {"idle", "taken", "cleanup", "write"}, works : Seq(WorkRecord),
     poisoned : SUBSET Views]

Phases == {"idle", "meta", "rollback", "join", "probe", "check", "repair", "snapshot"}

HandlerRecord ==
    [pc : Phases, view : Views, rows : Nat, created : BOOLEAN, current : BOOLEAN]

EdgeRecord == [n : Nat, ver : 0..MaxEvents + 1]

-----------------------------------------------------------------------------
(* The operators of the model. *)

(* What a work still has for a view. *)
Current(w, v) == {d \in w.deltas : d.current /\ d.view = v}

LEMMA DeltaFields ==
    ASSUME NEW v \in Views, NEW op \in Ops, NEW recs \in SUBSET Records
    PROVE  LET d == Delta(v, op, recs)
           IN  /\ d \in DeltaRecord
               /\ d.view = v /\ d.op = op /\ d.recs = recs /\ d.current
BY DEF Delta, DeltaRecord

LEMMA StaleFields ==
    ASSUME NEW d \in DeltaRecord
    PROVE  LET e == [d EXCEPT !.current = FALSE]
           IN  /\ e \in DeltaRecord
               /\ e.view = d.view /\ e.op = d.op /\ e.recs = d.recs /\ ~e.current
BY DEF DeltaRecord

OutdatedWork(w, v) ==
    [w EXCEPT !.deltas = {IF d.view = v THEN [d EXCEPT !.current = FALSE] ELSE d : d \in @}]

LEMMA OutdatedWorkFields ==
    ASSUME NEW w \in WorkRecord, NEW v \in Views
    PROVE  LET x == OutdatedWork(w, v)
           IN  /\ x \in WorkRecord
               /\ x.drops = w.drops /\ x.vers = w.vers /\ x.by = w.by /\ x.ready = w.ready
               /\ x.src = w.src /\ x.parked = w.parked
               /\ x.deltas = {IF d.view = v THEN [d EXCEPT !.current = FALSE] ELSE d : d \in w.deltas}
<1> DEFINE D == {IF d.view = v THEN [d EXCEPT !.current = FALSE] ELSE d : d \in w.deltas}
<1>1. D \in SUBSET DeltaRecord
  BY StaleFields DEF WorkRecord
<1>2. OutdatedWork(w, v) = [w EXCEPT !.deltas = D]
  BY Zenon DEF OutdatedWork
<1> HIDE DEF D
<1>3. /\ [w EXCEPT !.deltas = D] \in WorkRecord
      /\ LET x == [w EXCEPT !.deltas = D]
         IN  /\ x.drops = w.drops /\ x.vers = w.vers /\ x.by = w.by /\ x.ready = w.ready
             /\ x.src = w.src /\ x.parked = w.parked /\ x.deltas = D
  BY <1>1 DEF WorkRecord
<1> QED  BY <1>2, <1>3 DEF D


LEMMA OutdatedWorkDeltas ==
    ASSUME NEW w \in WorkRecord, NEW v \in Views, NEW u \in Views
    PROVE  LET x == OutdatedWork(w, v)
           IN  /\ Current(x, u) = IF u = v THEN {} ELSE Current(w, u)
               /\ ViewsOf(x) = ViewsOf(w)
               /\ x.deltas = {} <=> w.deltas = {}
               /\ \A e \in x.deltas : \E d \in w.deltas :
                    d.view = e.view /\ (e.current => d = e)
               /\ (\A d, e \in w.deltas : d.view = e.view => d = e) =>
                      \A d, e \in x.deltas : d.view = e.view => d = e
<1> DEFINE x == OutdatedWork(w, v)
           Stale(d) == [d EXCEPT !.current = FALSE]
<1>1. x.deltas = {IF d.view = v THEN Stale(d) ELSE d : d \in w.deltas}
  BY OutdatedWorkFields
<1>2. \A d \in w.deltas : /\ d \in DeltaRecord /\ Stale(d).view = d.view
                          /\ ~Stale(d).current
  BY StaleFields DEF WorkRecord
<1> HIDE DEF x, Stale
<1>3. Current(x, u) = IF u = v THEN {} ELSE Current(w, u)
  BY <1>1, <1>2 DEF Current
<1>4. ViewsOf(x) = ViewsOf(w)
  BY <1>1, <1>2 DEF ViewsOf
<1>5. x.deltas = {} <=> w.deltas = {}
  BY <1>1
<1>6. \A e \in x.deltas : \E d \in w.deltas : d.view = e.view /\ (e.current => d = e)
  BY <1>1, <1>2
<1>7. ASSUME \A d, e \in w.deltas : d.view = e.view => d = e
      PROVE  \A d, e \in x.deltas : d.view = e.view => d = e
  BY <1>1, <1>2, <1>7
<1> QED  BY <1>3, <1>4, <1>5, <1>6, <1>7 DEF x

LEMMA OutdatedSeq ==
    ASSUME NEW ws \in Seq(WorkRecord), NEW v \in Views
    PROVE  /\ Outdated(ws, v) \in Seq(WorkRecord)
           /\ Len(Outdated(ws, v)) = Len(ws)
           /\ \A i \in 1..Len(ws) : Outdated(ws, v)[i] = OutdatedWork(ws[i], v)
<1>1. Outdated(ws, v) = [i \in 1..Len(ws) |-> OutdatedWork(ws[i], v)]
  BY Zenon, LenProperties DEF Outdated, OutdatedWork
<1>2. \A i \in 1..Len(ws) : OutdatedWork(ws[i], v) \in WorkRecord
  BY OutdatedWorkFields, ElementOfSeq
<1> QED  BY <1>1, <1>2

(* What enqueue makes of deltas, drops and the rows it captures. *)
Carries(w, deltas, drops, rows, by) ==
    /\ w \in WorkRecord
    /\ w.deltas = deltas /\ w.drops = drops /\ w.by = by
    /\ w.ready = IF by = Nobody THEN "yes" ELSE "no"
    /\ \A r \in Records : w.vers[r] = 0 \/ w.vers[r] = rows[r]
    /\ \A r \in Records : (\E d \in deltas : r \in d.recs) => w.vers[r] = rows[r]

LEMMA WorkFields ==
    ASSUME NEW deltas \in SUBSET DeltaRecord, NEW drops \in SUBSET (Views \cup Records),
           NEW rows \in [Records -> 0..MaxEvents + 1], NEW by \in Handlers \cup {Nobody},
           NEW src \in BOOLEAN
    PROVE  Carries(Work(deltas, drops, rows, by, src), deltas, drops, rows, by)
<1> DEFINE vers == [r \in Records |-> IF \E d \in deltas : r \in d.recs THEN rows[r] ELSE 0]
           ready == IF by = Nobody THEN "yes" ELSE "no"
           no == FALSE
           w == [deltas |-> deltas, drops |-> drops, vers |-> vers, by |-> by,
                 ready |-> ready, src |-> src, parked |-> no]
<1>1. Work(deltas, drops, rows, by, src) = w
  BY Zenon DEF Work
<1>2. /\ vers \in [Records -> 0..MaxEvents + 1]
      /\ \A r \in Records : vers[r] = 0 \/ vers[r] = rows[r]
      /\ \A r \in Records : (\E d \in deltas : r \in d.recs) => vers[r] = rows[r]
  BY BoundsAssumption
<1>3. ready \in {"yes", "no", "never"} /\ no \in BOOLEAN
  OBVIOUS
<1> HIDE DEF vers, no, ready
<1>4. /\ w \in WorkRecord /\ w.deltas = deltas /\ w.drops = drops /\ w.by = by
      /\ w.ready = ready /\ w.vers = vers
  BY <1>2, <1>3 DEF WorkRecord
<1> HIDE DEF w
<1> QED  BY <1>1, <1>2, <1>4 DEF ready, Carries


ReadiedWork(w, h, r) == IF w.by = h THEN [w EXCEPT !.by = Nobody, !.ready = r] ELSE w

LEMMA ReadiedSeq ==
    ASSUME NEW ws \in Seq(WorkRecord), NEW h \in Handlers, NEW r \in {"yes", "never"}
    PROVE  /\ Readied(ws, h, r) \in Seq(WorkRecord)
           /\ Len(Readied(ws, h, r)) = Len(ws)
           /\ \A i \in 1..Len(ws) : LET x == Readied(ws, h, r)[i]
                                        w == ws[i]
                 IN  /\ x.deltas = w.deltas /\ x.drops = w.drops /\ x.vers = w.vers
                     /\ w.by = h => x.by = Nobody /\ x.ready = r
                     /\ w.by # h => x = w
<1>1. Readied(ws, h, r) = [i \in 1..Len(ws) |-> ReadiedWork(ws[i], h, r)]
  BY Zenon, LenProperties DEF Readied, ReadiedWork
<1>2. ASSUME NEW w \in WorkRecord
      PROVE  LET x == ReadiedWork(w, h, r)
             IN  /\ x \in WorkRecord
                 /\ x.deltas = w.deltas /\ x.drops = w.drops /\ x.vers = w.vers
                 /\ w.by = h => x.by = Nobody /\ x.ready = r
                 /\ w.by # h => x = w
  BY <1>2 DEF ReadiedWork, WorkRecord
<1>3. \A i \in 1..Len(ws) : ws[i] \in WorkRecord
  BY ElementOfSeq
<1> HIDE DEF ReadiedWork
<1> QED  BY <1>1, <1>2, <1>3

LEMMA IdleType == Idle \in HandlerRecord /\ Idle.pc = "idle"
<1> DEFINE v0 == CHOOSE v \in Views : TRUE
           no == FALSE
           x == [pc |-> "idle", view |-> v0, rows |-> 0, created |-> no, current |-> no]
<1>1. v0 \in Views /\ no \in BOOLEAN
  BY SetsAssumption
<1>2. Idle = x
  BY Zenon DEF Idle
<1> HIDE DEF v0, no
<1>3. x \in HandlerRecord /\ x.pc = "idle"
  BY <1>1 DEF HandlerRecord, Phases
<1> QED  BY <1>2, <1>3

LEMMA NoRoundType ==
    /\ NoRound \in RoundRecord /\ NoRound.phase = "idle" /\ NoRound.works = <<>>
    /\ NoRound.poisoned = {}
BY DEF NoRound, RoundRecord

LEMMA NoEdgesType == NoEdge \in EdgeRecord /\ NoEdges \in [Records -> EdgeRecord]
BY BoundsAssumption DEF NoEdge, NoEdges, EdgeRecord

-----------------------------------------------------------------------------
(* The type invariant, with the contents of the queue, the round and the handlers. *)

Types ==
    /\ store \in [Records -> 0..MaxEvents + 1]
    /\ live \in SUBSET Views /\ owed \in SUBSET Views
    /\ row \in [Views -> {"none", "materializing", "ready"}]
    /\ edges \in [Views -> [Records -> EdgeRecord]]
    /\ queue \in Seq(WorkRecord)
    /\ round \in RoundRecord
    /\ hdl \in [Handlers -> HandlerRecord]
    /\ count \in [events : 0..MaxEvents, requests : Nat, faults : Nat]
    /\ round.phase = "idle" => round.works = <<>>

LEMMA InitTypes == Init => Types
<1> SUFFICES ASSUME Init PROVE Types
  OBVIOUS
<1>1. store \in [Records -> 0..MaxEvents + 1]
  BY BoundsAssumption DEF Init
<1>2. queue \in Seq(WorkRecord) /\ hdl \in [Handlers -> HandlerRecord]
  BY IdleType DEF Init
<1>3. edges \in [Views -> [Records -> EdgeRecord]]
  BY NoEdgesType DEF Init
<1>4. count \in [events : 0..MaxEvents, requests : Nat, faults : Nat]
  BY BoundsAssumption DEF Init
<1> QED  BY <1>1, <1>2, <1>3, <1>4, NoRoundType DEF Init, Types

LEMMA HandlersOutdatedFields ==
    ASSUME Types, NEW v \in Views
    PROVE  /\ HandlersOutdated(v) \in [Handlers -> HandlerRecord]
           /\ \A h \in Handlers :
                LET x == HandlersOutdated(v)[h]
                IN  /\ x.pc = hdl[h].pc /\ x.view = hdl[h].view
                    /\ hdl[h].view = v => ~x.current
                    /\ hdl[h].view # v => x = hdl[h]
<1> DEFINE Off(x) == IF x.view = v THEN [x EXCEPT !.current = FALSE] ELSE x
<1>1. HandlersOutdated(v) = [h \in Handlers |-> Off(hdl[h])]
  BY Zenon DEF HandlersOutdated
<1>2. ASSUME NEW x \in HandlerRecord
      PROVE  /\ Off(x) \in HandlerRecord /\ Off(x).pc = x.pc /\ Off(x).view = x.view
             /\ x.view = v => ~Off(x).current
             /\ x.view # v => Off(x) = x
  BY <1>2 DEF HandlerRecord
<1>3. \A h \in Handlers : hdl[h] \in HandlerRecord
  BY DEF Types
<1> HIDE DEF Off
<1> QED  BY <1>1, <1>2, <1>3

LEMMA SetPc ==
    ASSUME Types, NEW h \in Handlers, NEW pc \in Phases, Goto(h, pc)
    PROVE  /\ hdl' \in [Handlers -> HandlerRecord]
           /\ hdl'[h].pc = pc /\ hdl'[h].view = hdl[h].view
           /\ hdl'[h].current <=> hdl[h].current
           /\ \A g \in Handlers : g # h => hdl'[g] = hdl[g]
<1> DEFINE x == [hdl[h] EXCEPT !.pc = pc]
<1>1. hdl[h] \in HandlerRecord
  BY DEF Types
<1>2. x \in HandlerRecord /\ x.pc = pc /\ x.view = hdl[h].view /\ x.current = hdl[h].current
  BY <1>1 DEF HandlerRecord
<1>3. hdl' = [hdl EXCEPT ![h] = x]
  BY DEF Goto
<1> HIDE DEF x
<1> QED  BY <1>2, <1>3 DEF Types

LEMMA AnswerIdle ==
    ASSUME Types, NEW h \in Handlers, Answer(h)
    PROVE  /\ hdl' \in [Handlers -> HandlerRecord]
           /\ hdl'[h].pc = "idle"
           /\ \A g \in Handlers : g # h => hdl'[g] = hdl[g]
BY IdleType DEF Answer, Types


LEMMA MembersCount == Members \subseteq Records /\ Cardinality(Members) \in Nat
<1>1. Members \subseteq Records
  BY DEF Members
<1> QED  BY <1>1, SetsAssumption, FS_Subset, FS_CardinalityType

LEMMA FaultCounted ==
    ASSUME Types, NEW f, Fault(f)
    PROVE  /\ count' \in [events : 0..MaxEvents, requests : Nat, faults : Nat]
           /\ count'.events = count.events /\ f \in Faults
BY DEF Fault, Types

LEMMA RequestCounted ==
    ASSUME Types, Requests
    PROVE  /\ count' \in [events : 0..MaxEvents, requests : Nat, faults : Nat]
           /\ count'.events = count.events
<1>1. count' = [count EXCEPT !.requests = @ + 1]
  BY DEF Requests
<1>2. count \in [events : 0..MaxEvents, requests : Nat, faults : Nat]
  BY DEF Types
<1> QED  BY <1>1, <1>2

(* A registration of a view the circuit does not have, as its handler keeps it. *)
LEMMA ColdHandler ==
    ASSUME Types, NEW v \in Views, NEW h \in Handlers,
           hdl' = [HandlersOutdated(v) EXCEPT ![h] =
                     [Idle EXCEPT !.pc = "meta", !.view = v, !.rows = Cardinality(Members),
                                  !.current = TRUE]]
    PROVE  /\ hdl' \in [Handlers -> HandlerRecord]
           /\ hdl'[h].pc = "meta" /\ hdl'[h].view = v /\ hdl'[h].current
           /\ \A g \in Handlers : g # h =>
                /\ hdl'[g].pc = hdl[g].pc /\ hdl'[g].view = hdl[g].view
                /\ hdl[g].view = v => ~hdl'[g].current
                /\ hdl[g].view # v => hdl'[g] = hdl[g]
<1> DEFINE yes == TRUE
           n == Cardinality(Members)
           x == [Idle EXCEPT !.pc = "meta", !.view = v, !.rows = n, !.current = yes]
<1>1. n \in Nat /\ yes \in BOOLEAN
  BY MembersCount
<1>2. hdl' = [HandlersOutdated(v) EXCEPT ![h] = x]
  BY Zenon
<1> HIDE DEF n, yes
<1>3. x \in HandlerRecord /\ x.pc = "meta" /\ x.view = v /\ x.current = yes
  BY <1>1, IdleType DEF HandlerRecord, Phases
<1>4. x.current
  BY <1>3 DEF yes
<1> HIDE DEF x
<1> QED  BY <1>2, <1>3, <1>4, HandlersOutdatedFields

LEMMA JoinHandler ==
    ASSUME Types, NEW v \in Views, NEW h \in Handlers, Join(h, v)
    PROVE  /\ hdl' \in [Handlers -> HandlerRecord]
           /\ hdl'[h].pc = "join"
           /\ \A g \in Handlers : g # h => hdl'[g] = hdl[g]
<1> DEFINE n == Cardinality(Members)
           x == [Idle EXCEPT !.pc = "join", !.view = v, !.rows = n]
<1>1. n \in Nat
  BY MembersCount
<1>2. hdl' = [hdl EXCEPT ![h] = x]
  BY Zenon DEF Join
<1> HIDE DEF n
<1>3. x \in HandlerRecord /\ x.pc = "join"
  BY <1>1, IdleType DEF HandlerRecord, Phases
<1> HIDE DEF x
<1> QED  BY <1>2, <1>3 DEF Types

LEMMA JoinMetaHandler ==
    ASSUME Types, NEW h \in Handlers, JoinMeta(h)
    PROVE  /\ hdl' \in [Handlers -> HandlerRecord]
           /\ hdl'[h].pc = "probe"
           /\ \A g \in Handlers : g # h => hdl'[g] = hdl[g]
<1> DEFINE new == row[hdl[h].view] = "none"
           x == [hdl[h] EXCEPT !.pc = "probe", !.created = new]
<1>1. new \in BOOLEAN /\ hdl[h] \in HandlerRecord
  BY DEF Types
<1>2. hdl' = [hdl EXCEPT ![h] = x]
  <2>1. hdl' = [hdl EXCEPT ![h].pc = "probe", ![h].created = new]
    BY Zenon DEF JoinMeta
  <2> HIDE DEF new
  <2> QED  BY <2>1 DEF Types
<1> HIDE DEF new
<1>3. x \in HandlerRecord /\ x.pc = "probe"
  BY <1>1 DEF HandlerRecord, Phases
<1> HIDE DEF x
<1> QED  BY <1>2, <1>3 DEF Types

LEMMA ProbeHandler ==
    ASSUME Types, NEW h \in Handlers, Probe(h)
    PROVE  /\ hdl' \in [Handlers -> HandlerRecord]
           /\ hdl'[h].pc \in {"idle", "repair", "check"}
           /\ \A g \in Handlers : g # h => hdl'[g] = hdl[g]
<1>1. CASE Answer(h)
  BY <1>1, AnswerIdle
<1>2. CASE ~Answer(h)
  <2> DEFINE n == Cardinality(Members)
             pc == IF row[hdl[h].view] = "none" THEN "repair" ELSE "check"
             x == [hdl[h] EXCEPT !.pc = pc, !.rows = n]
  <2>1. n \in Nat /\ hdl[h] \in HandlerRecord /\ pc \in {"repair", "check"}
    BY MembersCount DEF Types
  <2>2. hdl' = [hdl EXCEPT ![h].pc = pc, ![h].rows = n]
    BY <1>2 DEF Probe
  <2> HIDE DEF n, pc
  <2>3. hdl' = [hdl EXCEPT ![h] = x]
    BY <2>2 DEF Types
  <2>4. x \in HandlerRecord /\ x.pc = pc
    BY <2>1 DEF HandlerRecord, Phases
  <2> HIDE DEF x
  <2> QED  BY <2>1, <2>3, <2>4 DEF Types
<1> QED  BY <1>1, <1>2


(* A nonempty set of bounded naturals has a maximum. *)
LEMMA MaximumOf ==
    ASSUME NEW N \in Nat, NEW S, S \subseteq 0..N, S # {}
    PROVE  \E m \in S : \A n \in S : n <= m
<1> DEFINE T == {k \in Nat : k <= N /\ N - k \in S}
<1>1. PICK s \in S : TRUE
  OBVIOUS
<1>2. T \subseteq Nat /\ N - s \in T
  BY <1>1
<1>3. PICK x \in T : \A y \in T : ~ (<<y, x>> \in OpToRel(<, Nat))
  BY <1>2, WFMin, NatLessThanWellFounded
<1>4. \A y \in T : x <= y
  <2> SUFFICES ASSUME NEW y \in T, y < x PROVE FALSE
    OBVIOUS
  <2>1. <<y, x>> \in OpToRel(<, Nat)
    BY Zenon DEF OpToRel
  <2> QED  BY <2>1, <1>3
<1>5. ASSUME NEW n \in S PROVE n <= N - x
  <2>1. N - n \in T
    OBVIOUS
  <2>2. x <= N - n
    BY <2>1, <1>4
  <2> QED  BY <2>2
<1> QED  BY <1>5

(* The version a round writes is one that some work of it carries, and none is newer. *)
LEMMA VersionIsNewest ==
    ASSUME Types, NEW i \in DOMAIN round.works, NEW r \in Records
    PROVE  /\ Version(r) \in 0..MaxEvents + 1
           /\ \E j \in DOMAIN round.works : Version(r) = round.works[j].vers[r]
           /\ round.works[i].vers[r] <= Version(r)
<1> DEFINE vs == {w.vers[r] : w \in Range(round.works)}
<1>1. ASSUME NEW j \in DOMAIN round.works
      PROVE  round.works[j].vers[r] \in 0..MaxEvents + 1
  <2>1. round.works[j] \in WorkRecord
    BY ElementOfSeq DEF Types, RoundRecord
  <2> QED  BY <2>1 DEF WorkRecord
<1>2. vs = {round.works[j].vers[r] : j \in DOMAIN round.works}
  BY DEF Range, vs
<1> HIDE DEF vs
<1>3. vs \subseteq 0..MaxEvents + 1 /\ vs # {} /\ MaxEvents + 1 \in Nat
  <2>1. vs \subseteq 0..MaxEvents + 1 /\ vs # {}
    BY <1>1, <1>2
  <2> QED  BY <2>1, BoundsAssumption
<1>4. \E m \in vs : \A n \in vs : n <= m
  BY <1>3, MaximumOf
<1>5. Version(r) = CHOOSE n \in vs : \A m \in vs : m <= n
  BY DEF Version, vs
<1>6. Version(r) \in vs /\ \A m \in vs : m <= Version(r)
  BY <1>4, <1>5
<1> QED  BY <1>1, <1>2, <1>3, <1>6

LEMMA RelatedType ==
    ASSUME Types, NEW i \in DOMAIN round.works, NEW v \in Views,
           NEW e \in [Records -> EdgeRecord], NEW recs
    PROVE  Related(e, v, recs) \in [Records -> EdgeRecord]
<1> SUFFICES ASSUME NEW r \in Records
             PROVE  (IF r \in recs /\ row[v] # "none"
                     THEN [n |-> e[r].n + 1, ver |-> Version(r)] ELSE e[r]) \in EdgeRecord
  BY DEF Related
<1>1. Version(r) \in 0..MaxEvents + 1
  BY VersionIsNewest
<1> QED  BY <1>1 DEF EdgeRecord

LEMMA AppliedType ==
    ASSUME Types, NEW i \in DOMAIN round.works, NEW d \in round.works[i].deltas
    PROVE  /\ d \in DeltaRecord
           /\ Applied(d) \in [Records -> EdgeRecord]
<1>1. round.works[i] \in WorkRecord
  BY ElementOfSeq DEF Types, RoundRecord
<1>2. d \in DeltaRecord
  BY <1>1 DEF WorkRecord
<1>3. d.view \in Views /\ d.op \in Ops
  BY <1>2 DEF DeltaRecord
<1> DEFINE e == edges[d.view]
<1>4. e \in [Records -> EdgeRecord]
  BY <1>3 DEF Types
<1>5. CASE d.op \in {"full", "add"}
  <2>1. Related(NoEdges, d.view, d.recs) \in [Records -> EdgeRecord]
    BY <1>3, NoEdgesType, RelatedType
  <2>2. Related(e, d.view, d.recs) \in [Records -> EdgeRecord]
    BY <1>3, <1>4, RelatedType
  <2> QED  BY <1>2, <1>5, <2>1, <2>2 DEF Applied
<1>6. CASE d.op = "remove"
  BY <1>2, <1>4, <1>6, NoEdgesType DEF Applied
<1>7. CASE d.op = "update"
  <2>1. Applied(d) = [r \in Records |->
            IF r \in d.recs /\ e[r].n > 0 THEN [e[r] EXCEPT !.ver = Version(r)] ELSE e[r]]
    BY <1>7 DEF Applied
  <2> HIDE DEF e
  <2>2. ASSUME NEW r \in Records PROVE [e[r] EXCEPT !.ver = Version(r)] \in EdgeRecord
    BY <1>4, VersionIsNewest DEF EdgeRecord
  <2> QED  BY <1>2, <1>4, <2>1, <2>2
<1> QED  BY <1>3, <1>5, <1>6, <1>7 DEF Ops

LEMMA DroppedType ==
    ASSUME Types, NEW drops
    PROVE  Dropped(drops) \in [Views -> [Records -> EdgeRecord]]
BY NoEdgesType DEF Types, Dropped

LEMMA FilteredFields ==
    ASSUME Types, NEW w \in WorkRecord
    PROVE  /\ Filtered(w) \in WorkRecord
           /\ Filtered(w).drops = w.drops /\ Filtered(w).vers = w.vers
           /\ Filtered(w).by = w.by /\ Filtered(w).ready = w.ready
           /\ Filtered(w).deltas = {d \in w.deltas : d.current /\ d.view \in live}
<1> DEFINE D == {d \in w.deltas : d.current /\ d.view \in live}
<1>1. D \in SUBSET DeltaRecord
  BY DEF WorkRecord
<1>2. Filtered(w) = [w EXCEPT !.deltas = D]
  BY Zenon DEF Filtered
<1> HIDE DEF D
<1>3. /\ [w EXCEPT !.deltas = D] \in WorkRecord
      /\ LET x == [w EXCEPT !.deltas = D]
         IN  /\ x.drops = w.drops /\ x.vers = w.vers /\ x.by = w.by /\ x.ready = w.ready
             /\ x.deltas = D
  BY <1>1 DEF WorkRecord
<1> QED  BY <1>2, <1>3 DEF D


-----------------------------------------------------------------------------
(* The works in the order in which they reach the database: those of the round, then the
   queue. *)
Line == round.works \o queue

LEMMA RoundFields ==
    ASSUME Types
    PROVE  /\ round.works \in Seq(WorkRecord) /\ round.poisoned \in SUBSET Views
           /\ round.phase \in {"idle", "taken", "cleanup", "write"}
BY DEF Types, RoundRecord

(* L is the works of a, then those of b. *)
Parts(L, a, b) ==
    /\ a \in Seq(WorkRecord) /\ b \in Seq(WorkRecord)
    /\ L \in Seq(WorkRecord) /\ Len(L) = Len(a) + Len(b)
    /\ Len(a) \in Nat /\ Len(b) \in Nat
    /\ DOMAIN L = 1..Len(a) + Len(b) /\ DOMAIN a = 1..Len(a) /\ DOMAIN b = 1..Len(b)
    /\ \A i \in DOMAIN a : i \in DOMAIN L /\ L[i] = a[i]
    /\ \A i \in DOMAIN b : Len(a) + i \in DOMAIN L /\ L[Len(a) + i] = b[i]
    /\ \A j \in DOMAIN L :
         \/ j \in DOMAIN a /\ L[j] = a[j]
         \/ j - Len(a) \in DOMAIN b /\ j > Len(a) /\ L[j] = b[j - Len(a)]
    /\ \A j \in DOMAIN L : L[j] \in WorkRecord

LEMMA PartsOf ==
    ASSUME NEW a \in Seq(WorkRecord), NEW b \in Seq(WorkRecord)
    PROVE  Parts(a \o b, a, b)
<1>1. /\ Len(a) \in Nat /\ Len(b) \in Nat
      /\ DOMAIN a = 1..Len(a) /\ DOMAIN b = 1..Len(b)
  OBVIOUS
<1>2. a \o b \in Seq(WorkRecord) /\ Len(a \o b) = Len(a) + Len(b)
  OBVIOUS
<1>3. DOMAIN (a \o b) = 1..Len(a) + Len(b)
  BY <1>2
<1>4. \A i \in 1..Len(a) : i \in 1..Len(a) + Len(b) /\ (a \o b)[i] = a[i]
  BY <1>1
<1>5. \A i \in 1..Len(b) : Len(a) + i \in 1..Len(a) + Len(b) /\ (a \o b)[Len(a) + i] = b[i]
  BY <1>1
<1>6. ASSUME NEW j \in 1..Len(a) + Len(b)
      PROVE  \/ j \in 1..Len(a) /\ (a \o b)[j] = a[j]
             \/ /\ j - Len(a) \in 1..Len(b) /\ j > Len(a)
                /\ (a \o b)[j] = b[j - Len(a)]
  BY <1>1
<1>7. \A j \in DOMAIN (a \o b) : (a \o b)[j] \in WorkRecord
  BY <1>2, ElementOfSeq
<1> QED  BY <1>1, <1>2, <1>3, <1>4, <1>5, <1>6, <1>7 DEF Parts

LEMMA LineParts == Types => Parts(Line, round.works, queue)
<1> SUFFICES ASSUME Types PROVE Parts(Line, round.works, queue)
  OBVIOUS
<1>1. round.works \in Seq(WorkRecord) /\ queue \in Seq(WorkRecord)
  BY RoundFields DEF Types
<1> QED  BY <1>1, PartsOf DEF Line

LEMMA LinePartsNext == Types' => Parts(Line', round'.works, queue')
<1> SUFFICES ASSUME Types' PROVE Parts(Line', round'.works, queue')
  OBVIOUS
<1>1. round'.works \in Seq(WorkRecord) /\ queue' \in Seq(WorkRecord)
  BY DEF Types, RoundRecord
<1> QED  BY <1>1, PartsOf DEF Line


-----------------------------------------------------------------------------
(* Every action keeps the types. *)

LEMMA RowSet ==
    ASSUME Types, NEW h \in Handlers
    PROVE  /\ hdl[h].view \in Views
           /\ [row EXCEPT ![hdl[h].view] = StateFor(hdl[h].rows)]
                 \in [Views -> {"none", "materializing", "ready"}]
BY DEF Types, HandlerRecord, StateFor

LEMMA OutdatedRound ==
    ASSUME Types, NEW v \in Views, round' = [round EXCEPT !.works = Outdated(@, v)]
    PROVE  /\ round' \in RoundRecord
           /\ round'.works = Outdated(round.works, v)
           /\ round'.phase = round.phase /\ round'.poisoned = round.poisoned
           /\ round'.phase = "idle" => round'.works = <<>>
<1> DEFINE W == Outdated(round.works, v)
<1>1. W \in Seq(WorkRecord) /\ Len(W) = Len(round.works)
  BY RoundFields, OutdatedSeq
<1>2. round' = [round EXCEPT !.works = W]
  OBVIOUS
<1> HIDE DEF W
<1>3. /\ round' \in RoundRecord /\ round'.works = W
      /\ round'.phase = round.phase /\ round'.poisoned = round.poisoned
  BY <1>1, <1>2 DEF Types, RoundRecord
<1>4. ASSUME round'.phase = "idle" PROVE W = <<>>
  <2>1. Len(W) = 0
    BY <1>1, <1>3, <1>4 DEF Types
  <2> QED  BY <1>1, <2>1, EmptySeq
<1> QED  BY <1>3, <1>4 DEF W

(* What a change of a row queues. *)
IngestWork(op, r, rows) ==
    Work({Delta(v, op, {r}) : v \in live}, IF op = "remove" THEN {r} ELSE {}, rows, Nobody,
         op = "remove")

(* The work a change of row r leaves: a delta for every registered view. *)
ChangeOf(w, op, r, rows) ==
    /\ w \in WorkRecord /\ w.by = Nobody /\ w.ready = "yes"
    /\ w.drops = IF op = "remove" THEN {r} ELSE {}
    /\ \A s \in Records : w.vers[s] = 0 \/ w.vers[s] = rows[s]
    /\ live # {} => w.vers[r] = rows[r]
    /\ \A d, e \in w.deltas : d.view = e.view => d = e
    /\ \A d \in w.deltas : d.view \in live /\ d.op = op /\ d.recs = {r} /\ d.current
    /\ \A v \in live : \E d \in w.deltas : d.view = v

LEMMA IngestWorkFields ==
    ASSUME Types, NEW r \in Records, NEW op \in {"add", "update", "remove"},
           NEW rows \in [Records -> 0..MaxEvents + 1]
    PROVE  ChangeOf(IngestWork(op, r, rows), op, r, rows)
<1> DEFINE deltas == {Delta(v, op, {r}) : v \in live}
           drops == IF op = "remove" THEN {r} ELSE {}
<1>1. ASSUME NEW v \in live
      PROVE  /\ Delta(v, op, {r}) \in DeltaRecord /\ Delta(v, op, {r}).recs = {r}
             /\ Delta(v, op, {r}).view = v /\ Delta(v, op, {r}).op = op
             /\ Delta(v, op, {r}).current
  <2>1. v \in Views /\ op \in Ops /\ {r} \in SUBSET Records
    BY DEF Ops, Types
  <2> QED  BY <2>1, DeltaFields
<1>2. deltas \in SUBSET DeltaRecord /\ drops \in SUBSET (Views \cup Records)
  BY <1>1
<1>3. /\ \A d, e \in deltas : d.view = e.view => d = e
      /\ \A d \in deltas : d.view \in live /\ d.op = op /\ d.recs = {r} /\ d.current
      /\ \A v \in live : \E d \in deltas : d.view = v
  <2>1. \A d \in deltas : \E v \in live : d = Delta(v, op, {r})
    BY Zenon
  <2>2. \A v \in live : Delta(v, op, {r}) \in deltas
    BY Zenon
  <2> HIDE DEF deltas
  <2>3. ASSUME NEW d \in deltas
        PROVE  /\ d.view \in live /\ d = Delta(d.view, op, {r})
               /\ d.op = op /\ d.recs = {r} /\ d.current
    <3>1. PICK v \in live : d = Delta(v, op, {r})
      BY <2>1
    <3> QED  BY <1>1, <3>1
  <2>4. \A d, e \in deltas : d.view = e.view => d = e
    <3> SUFFICES ASSUME NEW d \in deltas, NEW e \in deltas, d.view = e.view PROVE d = e
      OBVIOUS
    <3>1. d = Delta(d.view, op, {r}) /\ e = Delta(e.view, op, {r})
      BY <2>3
    <3> QED  BY <3>1
  <2>5. \A v \in live : \E d \in deltas : d.view = v
    BY <1>1, <2>2
  <2> QED  BY <2>3, <2>4, <2>5
<1>4. PICK D, X, b : D = deltas /\ X = drops /\ b = (op = "remove")
  OBVIOUS
<1>5. IngestWork(op, r, rows) = Work(D, X, rows, Nobody, b)
  BY <1>4, Zenon DEF IngestWork
<1>6. b \in BOOLEAN
  BY <1>4, Zenon
<1>7. /\ D \in SUBSET DeltaRecord /\ X \in SUBSET (Views \cup Records)
      /\ Nobody \in Handlers \cup {Nobody}
  BY <1>2, <1>4
<1>8. Carries(Work(D, X, rows, Nobody, b), D, X, rows, Nobody)
  BY <1>6, <1>7, WorkFields
<1>9. /\ \A d, e \in D : d.view = e.view => d = e
      /\ \A d \in D : d.view \in live /\ d.op = op /\ d.recs = {r} /\ d.current
      /\ \A v \in live : \E d \in D : d.view = v
  BY <1>3, <1>4
<1>10. X = IF op = "remove" THEN {r} ELSE {}
  BY <1>4, Zenon
<1> HIDE <1>4
<1>11. live # {} => \E d \in D : r \in d.recs
  BY <1>9
<1>12. PICK w : w = IngestWork(op, r, rows)
  OBVIOUS
<1>13. Carries(w, D, X, rows, Nobody)
  BY <1>5, <1>8, <1>12
<1>14. /\ w \in WorkRecord /\ w.by = Nobody /\ w.ready = "yes" /\ w.deltas = D /\ w.drops = X
       /\ \A s \in Records : w.vers[s] = 0 \/ w.vers[s] = rows[s]
       /\ live # {} => w.vers[r] = rows[r]
  BY <1>11, <1>13 DEF Carries
<1>15. ChangeOf(w, op, r, rows)
  BY <1>9, <1>10, <1>14 DEF ChangeOf
<1> QED  BY <1>12, <1>15

LEMMA IngestStep ==
    ASSUME Types, NEW r \in Records, Ingest(r)
    PROVE  \E op \in {"add", "update", "remove"}, rows \in [Records -> 0..MaxEvents + 1],
              w \in WorkRecord :
             /\ op = "add" <=> store[r] = 0
             /\ rows = [store EXCEPT ![r] = IF op = "remove" THEN 0 ELSE count.events + 2]
             /\ store' = rows
             /\ w = IngestWork(op, r, rows)
             /\ IF live = {} /\ op # "remove" THEN queue' = queue ELSE queue' = Append(queue, w)
<1>1. PICK op \in (IF store[r] = 0 THEN {"add"} ELSE {"update", "remove"}) :
         /\ store' = [store EXCEPT ![r] = IF op = "remove" THEN 0 ELSE count.events + 2]
         /\ queue' = IF {Delta(v, op, {r}) : v \in live} = {}
                           /\ (IF op = "remove" THEN {r} ELSE {}) = {}
                     THEN queue ELSE Append(queue, IngestWork(op, r, store'))
  BY Zenon DEF Ingest, IngestWork
<1>2. PICK rows, w : /\ rows = [store EXCEPT ![r] = IF op = "remove" THEN 0 ELSE count.events + 2]
                     /\ store' = rows /\ w = IngestWork(op, r, rows)
                     /\ queue' = IF {Delta(v, op, {r}) : v \in live} = {}
                                       /\ (IF op = "remove" THEN {r} ELSE {}) = {}
                                 THEN queue ELSE Append(queue, w)
  BY <1>1, Zenon
<1>3. count.events < MaxEvents
  BY Zenon DEF Ingest
<1> HIDE <1>1
<1>4. op \in {"add", "update", "remove"} /\ (op = "add" <=> store[r] = 0)
  OBVIOUS
<1>5. rows \in [Records -> 0..MaxEvents + 1]
  <2>1. count.events + 2 \in 0..MaxEvents + 1 /\ 0 \in 0..MaxEvents + 1
    BY <1>3, BoundsAssumption DEF Types
  <2>2. store \in [Records -> 0..MaxEvents + 1]
    BY DEF Types
  <2> QED  BY <1>2, <2>1, <2>2
<1>6. IF live = {} /\ op # "remove" THEN queue' = queue ELSE queue' = Append(queue, w)
  BY <1>2
<1>7. w \in WorkRecord
  <2>1. ChangeOf(IngestWork(op, r, rows), op, r, rows)
    BY <1>4, <1>5, IngestWorkFields
  <2>2. IngestWork(op, r, rows) \in WorkRecord
    BY <2>1 DEF ChangeOf
  <2> QED  BY <1>2, <2>2
<1> QED  BY <1>2, <1>4, <1>5, <1>6, <1>7

LEMMA IngestTypes == ASSUME Types, NEW r \in Records, Ingest(r) PROVE Types'
<1>1. PICK rows \in [Records -> 0..MaxEvents + 1], w \in WorkRecord :
         store' = rows /\ (queue' = queue \/ queue' = Append(queue, w))
  BY IngestStep
<1>2. queue' \in Seq(WorkRecord)
  <2>1. queue \in Seq(WorkRecord)
    BY DEF Types
  <2> QED  BY <1>1, <2>1
<1>3. /\ count.events < MaxEvents /\ count' = [count EXCEPT !.events = @ + 1]
      /\ UNCHANGED <<live, row, edges, owed, round, hdl>>
  BY Zenon DEF Ingest
<1>4. count' \in [events : 0..MaxEvents, requests : Nat, faults : Nat]
  <2> DEFINE n == count.events + 1
  <2>1. n \in 0..MaxEvents /\ count' = [count EXCEPT !.events = n]
    BY <1>3, BoundsAssumption DEF Types
  <2> HIDE DEF n
  <2> QED  BY <2>1 DEF Types
<1> QED  BY <1>1, <1>2, <1>3, <1>4 DEF Types

(* A full publication, and the release of a view. *)
FullWork(v, by) == Work({Delta(v, "full", Members)}, {}, store, by, TRUE)
DropWork(v) == Work({}, {v}, store, Nobody, TRUE)

LEMMA FullWorkFields ==
    ASSUME Types, NEW v \in Views, NEW by \in Handlers \cup {Nobody}
    PROVE  LET w == FullWork(v, by)
           IN  /\ w \in WorkRecord /\ w.by = by
               /\ w.ready = IF by = Nobody THEN "yes" ELSE "no"
               /\ w.deltas = {Delta(v, "full", Members)} /\ w.drops = {}
               /\ \A r \in Records : w.vers[r] = 0 \/ w.vers[r] = store[r]
               /\ \A r \in Members : w.vers[r] = store[r]
<1>1. Delta(v, "full", Members) \in DeltaRecord /\ Delta(v, "full", Members).recs = Members
  <2>1. "full" \in Ops /\ Members \in SUBSET Records
    BY MembersCount DEF Ops
  <2> QED  BY <2>1, DeltaFields
<1>2. PICK D, b, st : D = {Delta(v, "full", Members)} /\ b = TRUE /\ st = store
  OBVIOUS
<1>3. FullWork(v, by) = Work(D, {}, st, by, b)
  BY <1>2, Zenon DEF FullWork
<1>4. D = {Delta(v, "full", Members)} /\ b \in BOOLEAN /\ st = store
  BY <1>2, Zenon
<1> HIDE <1>2
<1>5. /\ D \in SUBSET DeltaRecord /\ {} \in SUBSET (Views \cup Records)
      /\ st \in [Records -> 0..MaxEvents + 1]
  BY <1>1, <1>4 DEF Types
<1>6. Carries(Work(D, {}, st, by, b), D, {}, st, by)
  BY <1>4, <1>5, WorkFields
<1>7. \A s \in Members : s \in Records /\ \E d \in D : s \in d.recs
  BY <1>1, <1>4, MembersCount
<1> QED  BY <1>3, <1>4, <1>6, <1>7 DEF Carries

LEMMA DropWorkFields ==
    ASSUME Types, NEW v \in Views
    PROVE  LET w == DropWork(v)
           IN  /\ w \in WorkRecord /\ w.by = Nobody /\ w.ready = "yes"
               /\ w.deltas = {} /\ w.drops = {v}
               /\ \A r \in Records : w.vers[r] = 0 \/ w.vers[r] = store[r]
<1>1. PICK b, st : b = TRUE /\ st = store
  OBVIOUS
<1>2. DropWork(v) = Work({}, {v}, st, Nobody, b)
  BY <1>1, Zenon DEF DropWork
<1>3. b \in BOOLEAN /\ st = store
  BY <1>1, Zenon
<1> HIDE <1>1
<1>4. /\ {} \in SUBSET DeltaRecord /\ {v} \in SUBSET (Views \cup Records)
      /\ Nobody \in Handlers \cup {Nobody} /\ st \in [Records -> 0..MaxEvents + 1]
  BY <1>3 DEF Types
<1>5. Carries(Work({}, {v}, st, Nobody, b), {}, {v}, st, Nobody)
  BY <1>3, <1>4, WorkFields
<1> QED  BY <1>2, <1>3, <1>5 DEF Carries


LEMMA RegisterColdStep ==
    ASSUME Types, NEW h \in Handlers, NEW v \in Views, RegisterCold(h, v)
    PROVE  /\ hdl[h].pc = "idle" /\ v \notin live /\ RoomToRegister
           /\ live' = live \cup {v} /\ owed' = owed \ {v}
           /\ queue' = Append(Outdated(queue, v), FullWork(v, h))
           /\ count'.events = count.events
           /\ UNCHANGED <<store, row, edges>>
           /\ Types'
<1>1. /\ hdl[h].pc = "idle" /\ v \notin live /\ RoomToRegister /\ Requests
      /\ live' = live \cup {v} /\ owed' = owed \ {v}
      /\ queue' = Append(Outdated(queue, v), FullWork(v, h))
      /\ round' = [round EXCEPT !.works = Outdated(@, v)]
      /\ UNCHANGED <<store, row, edges>>
  BY Zenon DEF RegisterCold, FullWork, Serving
<1>2. hdl' \in [Handlers -> HandlerRecord]
  <2>1. hdl' = [HandlersOutdated(v) EXCEPT ![h] =
                  [Idle EXCEPT !.pc = "meta", !.view = v, !.rows = Cardinality(Members),
                               !.current = TRUE]]
    BY Zenon DEF RegisterCold
  <2> QED  BY <2>1, ColdHandler, Zenon
<1>3. FullWork(v, h) \in WorkRecord /\ queue \in Seq(WorkRecord)
  BY FullWorkFields DEF Types
<1>4. Outdated(queue, v) \in Seq(WorkRecord)
  BY <1>3, OutdatedSeq
<1>5. queue' \in Seq(WorkRecord)
  BY <1>1, <1>3, <1>4
<1>6. round' \in RoundRecord /\ (round'.phase = "idle" => round'.works = <<>>)
  BY <1>1, OutdatedRound
<1>7. /\ count' \in [events : 0..MaxEvents, requests : Nat, faults : Nat]
      /\ count'.events = count.events
  BY <1>1, RequestCounted
<1> QED  BY <1>1, <1>2, <1>5, <1>6, <1>7 DEF Types

LEMMA MetaWrittenTypes ==
    ASSUME Types, NEW h \in Handlers, MetaWritten(h) PROVE Types'
<1>1. /\ row' = [row EXCEPT ![hdl[h].view] = StateFor(hdl[h].rows)]
      /\ queue' = Readied(queue, h, "yes") /\ Answer(h)
      /\ UNCHANGED <<store, live, edges, owed, round, count>>
  BY DEF MetaWritten
<1>2. queue' \in Seq(WorkRecord)
  BY <1>1, ReadiedSeq DEF Types
<1>3. hdl' \in [Handlers -> HandlerRecord]
  BY <1>1, AnswerIdle
<1>4. row' \in [Views -> {"none", "materializing", "ready"}]
  BY <1>1, RowSet
<1> QED  BY <1>1, <1>2, <1>3, <1>4 DEF Types

(* What becomes of a registration that is given up. *)
LEMMA AbandonStep ==
    ASSUME Types, NEW h \in Handlers, Abandon(h)
    PROVE  LET v == hdl[h].view
           IN  /\ v \in Views
               /\ queue' \in Seq(WorkRecord) /\ round' \in RoundRecord
               /\ round'.phase = "idle" => round'.works = <<>>
               /\ round'.phase = round.phase
               /\ hdl[h].current =>
                    /\ queue' = Readied(Outdated(queue, v), h, "never")
                    /\ round'.works = Outdated(round.works, v)
               /\ ~hdl[h].current => queue' = Readied(queue, h, "never") /\ round' = round
               /\ hdl' \in [Handlers -> HandlerRecord] /\ hdl'[h].pc = "idle"
               /\ \A g \in Handlers : g # h =>
                    /\ hdl'[g].pc = hdl[g].pc /\ hdl'[g].view = hdl[g].view
                    /\ hdl[h].current /\ hdl[g].view = v => ~hdl'[g].current
                    /\ ~hdl[h].current \/ hdl[g].view # v => hdl'[g] = hdl[g]
<1> DEFINE v == hdl[h].view
<1>1. v \in Views /\ queue \in Seq(WorkRecord)
  BY RowSet DEF Types
<1>2. CASE hdl[h].current
  <2>1. /\ queue' = Readied(Outdated(queue, v), h, "never")
        /\ round' = [round EXCEPT !.works = Outdated(@, v)]
        /\ hdl' = [HandlersOutdated(v) EXCEPT ![h] = Idle]
    BY <1>2 DEF Abandon
  <2> HIDE DEF v
  <2>2. Outdated(queue, v) \in Seq(WorkRecord)
    BY <1>1, OutdatedSeq
  <2>3. queue' \in Seq(WorkRecord)
    BY <2>1, <2>2, ReadiedSeq
  <2>4. /\ round' \in RoundRecord /\ (round'.phase = "idle" => round'.works = <<>>)
        /\ round'.works = Outdated(round.works, v) /\ round'.phase = round.phase
    BY <1>1, <2>1, OutdatedRound
  <2>5. /\ HandlersOutdated(v) \in [Handlers -> HandlerRecord]
        /\ \A g \in Handlers :
             LET x == HandlersOutdated(v)[g]
             IN  /\ x.pc = hdl[g].pc /\ x.view = hdl[g].view
                 /\ hdl[g].view = v => ~x.current
                 /\ hdl[g].view # v => x = hdl[g]
    BY <1>1, HandlersOutdatedFields
  <2>6. /\ hdl' \in [Handlers -> HandlerRecord] /\ hdl'[h].pc = "idle"
        /\ \A g \in Handlers : g # h => hdl'[g] = HandlersOutdated(v)[g]
    BY <2>1, <2>5, IdleType
  <2> QED  BY <1>1, <1>2, <2>1, <2>3, <2>4, <2>5, <2>6 DEF v
<1>3. CASE ~hdl[h].current
  <2>1. queue' = Readied(queue, h, "never") /\ Answer(h) /\ UNCHANGED round
    BY <1>3 DEF Abandon
  <2>2. queue' \in Seq(WorkRecord)
    BY <1>1, <2>1, ReadiedSeq
  <2>3. /\ hdl' \in [Handlers -> HandlerRecord] /\ hdl'[h].pc = "idle"
        /\ \A g \in Handlers : g # h => hdl'[g] = hdl[g]
    BY <2>1, AnswerIdle
  <2> QED  BY <1>1, <1>3, <2>1, <2>2, <2>3 DEF Types
<1> QED  BY <1>2, <1>3

LEMMA MetaFailsStep ==
    ASSUME Types, NEW h \in Handlers, MetaFails(h)
    PROVE  /\ Types' /\ hdl[h].pc = "meta" /\ count'.events = count.events
           /\ UNCHANGED <<store, live, row, edges, owed>>
           /\ \/ Goto(h, "rollback") /\ UNCHANGED <<queue, round>>
              \/ "cancel" \in Faults /\ Abandon(h)
<1>1. PICK f \in {"meta", "cancel"} :
         /\ Fault(f)
         /\ IF f = "meta" THEN Goto(h, "rollback") /\ UNCHANGED <<queue, round>> ELSE Abandon(h)
  BY DEF MetaFails
<1>2. hdl[h].pc = "meta" /\ UNCHANGED <<store, live, row, edges, owed>>
  BY DEF MetaFails
<1>3. /\ count' \in [events : 0..MaxEvents, requests : Nat, faults : Nat]
      /\ count'.events = count.events /\ f \in Faults
  BY <1>1, FaultCounted
<1>4. CASE f = "meta"
  <2>1. Goto(h, "rollback") /\ UNCHANGED <<queue, round>>
    BY <1>1, <1>4
  <2>2. hdl' \in [Handlers -> HandlerRecord]
    BY <2>1, SetPc DEF Phases
  <2> QED  BY <1>2, <1>3, <2>1, <2>2 DEF Types
<1>5. CASE f = "cancel"
  <2>1. Abandon(h)
    BY <1>1, <1>5
  <2>2. /\ queue' \in Seq(WorkRecord) /\ round' \in RoundRecord
        /\ round'.phase = "idle" => round'.works = <<>>
        /\ hdl' \in [Handlers -> HandlerRecord]
    BY <2>1, AbandonStep
  <2> QED  BY <1>2, <1>3, <1>5, <2>1, <2>2 DEF Types
<1> QED  BY <1>4, <1>5

LEMMA RollbackTypes ==
    ASSUME Types, NEW h \in Handlers, Rollback(h) PROVE Types'
<1>1. /\ live' \subseteq live /\ Abandon(h) /\ UNCHANGED <<store, row, edges, owed, count>>
  BY DEF Rollback
<1>2. /\ queue' \in Seq(WorkRecord) /\ round' \in RoundRecord
      /\ round'.phase = "idle" => round'.works = <<>>
      /\ hdl' \in [Handlers -> HandlerRecord]
  BY <1>1, AbandonStep
<1> QED  BY <1>1, <1>2 DEF Types


LEMMA JoinTypes ==
    ASSUME Types, NEW h \in Handlers, NEW v \in Views, Join(h, v) PROVE Types'
<1>1. Requests /\ owed' = owed \ {v} /\ UNCHANGED <<store, live, row, edges, queue, round>>
  BY DEF Join
<1>2. hdl' \in [Handlers -> HandlerRecord]
  BY JoinHandler
<1>3. count' \in [events : 0..MaxEvents, requests : Nat, faults : Nat]
  BY <1>1, RequestCounted
<1> QED  BY <1>1, <1>2, <1>3 DEF Types

LEMMA JoinMetaTypes ==
    ASSUME Types, NEW h \in Handlers, JoinMeta(h) PROVE Types'
<1>1. /\ \/ row' = row
         \/ row' = [row EXCEPT ![hdl[h].view] = StateFor(hdl[h].rows)]
      /\ UNCHANGED <<store, live, edges, owed, queue, round, count>>
  BY Zenon DEF JoinMeta
<1>2. hdl' \in [Handlers -> HandlerRecord]
  BY JoinMetaHandler
<1>3. row' \in [Views -> {"none", "materializing", "ready"}]
  BY <1>1, RowSet DEF Types
<1> QED  BY <1>1, <1>2, <1>3 DEF Types

LEMMA ProbeTypes ==
    ASSUME Types, NEW h \in Handlers, Probe(h) PROVE Types'
<1>1. UNCHANGED <<store, live, row, edges, owed, queue, round, count>>
  BY Zenon DEF Probe
<1> QED  BY <1>1, ProbeHandler DEF Types

LEMMA CheckTypes ==
    ASSUME Types, NEW h \in Handlers, Check(h) PROVE Types'
<1>1. /\ UNCHANGED <<store, live, row, edges, owed, queue, round, count>>
      /\ Answer(h) \/ Goto(h, "repair")
  BY DEF Check
<1>2. hdl' \in [Handlers -> HandlerRecord]
  BY <1>1, AnswerIdle, SetPc DEF Phases
<1> QED  BY <1>1, <1>2 DEF Types

LEMMA RepairRowTypes ==
    ASSUME Types, NEW h \in Handlers, RepairRow(h) PROVE Types'
<1>1. /\ UNCHANGED <<store, live, edges, owed, queue, round, count>>
      /\ row' = [row EXCEPT ![hdl[h].view] = StateFor(hdl[h].rows)]
      /\ Answer(h) \/ Goto(h, "snapshot")
  BY DEF RepairRow
<1>2. hdl' \in [Handlers -> HandlerRecord]
  BY <1>1, AnswerIdle, SetPc DEF Phases
<1>3. row' \in [Views -> {"none", "materializing", "ready"}]
  BY <1>1, RowSet
<1> QED  BY <1>1, <1>2, <1>3 DEF Types

LEMMA RepairSnapshotStep ==
    ASSUME Types, NEW h \in Handlers, RepairSnapshot(h)
    PROVE  /\ Types' /\ hdl[h].pc = "snapshot" /\ Answer(h)
           /\ UNCHANGED <<store, live, row, edges, owed, round, count>>
           /\ hdl[h].view \notin live => queue' = queue
           /\ hdl[h].view \in live => queue' = Append(queue, FullWork(hdl[h].view, Nobody))
<1>1. /\ hdl[h].pc = "snapshot" /\ Answer(h)
      /\ UNCHANGED <<store, live, row, edges, owed, round, count>>
      /\ queue' = IF hdl[h].view \in live
                  THEN Append(queue, FullWork(hdl[h].view, Nobody)) ELSE queue
  BY Zenon DEF RepairSnapshot, FullWork
<1>2. hdl' \in [Handlers -> HandlerRecord]
  BY <1>1, AnswerIdle
<1>3. hdl[h].view \in Views /\ Nobody \in Handlers \cup {Nobody}
  BY RowSet
<1>4. FullWork(hdl[h].view, Nobody) \in WorkRecord /\ queue \in Seq(WorkRecord)
  BY <1>3, FullWorkFields DEF Types
<1>5. queue' \in Seq(WorkRecord)
  BY <1>1, <1>4
<1> QED  BY <1>1, <1>2, <1>5 DEF Types

LEMMA DeleteRowTypes ==
    ASSUME Types, NEW v \in Views, DeleteRow(v) PROVE Types'
<1>1. /\ Requests /\ row' = [row EXCEPT ![v] = "none"] /\ edges' = [edges EXCEPT ![v] = NoEdges]
      /\ owed' = owed \cup {v} /\ UNCHANGED <<store, live, queue, round, hdl>>
  BY DEF DeleteRow
<1>2. count' \in [events : 0..MaxEvents, requests : Nat, faults : Nat]
  BY <1>1, RequestCounted
<1>3. edges' \in [Views -> [Records -> EdgeRecord]]
  BY <1>1, NoEdgesType DEF Types
<1> QED  BY <1>1, <1>2, <1>3 DEF Types

LEMMA UnregisterStep ==
    ASSUME Types, NEW v \in Views, Unregister(v)
    PROVE  /\ Types' /\ live' = live \ {v} /\ owed' = owed \ {v}
           /\ queue' = Append(Outdated(queue, v), DropWork(v))
           /\ round' = [round EXCEPT !.works = Outdated(@, v)]
           /\ hdl' = HandlersOutdated(v)
           /\ UNCHANGED <<store, row, edges, count>>
<1>1. /\ live' = live \ {v} /\ owed' = owed \ {v}
      /\ queue' = Append(Outdated(queue, v), DropWork(v))
      /\ round' = [round EXCEPT !.works = Outdated(@, v)]
      /\ hdl' = HandlersOutdated(v)
      /\ UNCHANGED <<store, row, edges, count>>
  BY Zenon DEF Unregister, DropWork
<1>2. hdl' \in [Handlers -> HandlerRecord]
  BY <1>1, HandlersOutdatedFields
<1>3. DropWork(v) \in WorkRecord /\ queue \in Seq(WorkRecord)
  BY DropWorkFields DEF Types
<1>4. Outdated(queue, v) \in Seq(WorkRecord)
  BY <1>3, OutdatedSeq
<1>5. queue' \in Seq(WorkRecord)
  BY <1>1, <1>3, <1>4
<1>6. round' \in RoundRecord /\ (round'.phase = "idle" => round'.works = <<>>)
  BY <1>1, OutdatedRound
<1> QED  BY <1>1, <1>2, <1>5, <1>6 DEF Types


(* Two works differ at most in what they wait for. *)
Alike(x, w) ==
    /\ x.deltas = w.deltas /\ x.drops = w.drops /\ x.vers = w.vers
    /\ x.by = w.by /\ x.ready = w.ready

LEMMA SourceSeenStep ==
    ASSUME Types, NEW i \in DOMAIN queue, SourceSeen(i)
    PROVE  /\ Types' /\ UNCHANGED <<store, live, row, edges, owed, round, hdl, count>>
           /\ DOMAIN queue' = DOMAIN queue
           /\ \A j \in DOMAIN queue : Alike(queue'[j], queue[j])
<1> DEFINE yes == TRUE
           w == queue[i]
           x == [w EXCEPT !.src = yes]
<1>1. /\ queue' = [queue EXCEPT ![i] = x]
      /\ UNCHANGED <<store, live, row, edges, owed, round, hdl, count>>
  BY Zenon DEF SourceSeen
<1>2. w \in WorkRecord /\ yes \in BOOLEAN /\ queue \in Seq(WorkRecord)
  BY ElementOfSeq DEF Types
<1> HIDE DEF yes
<1>3. x \in WorkRecord /\ Alike(x, w)
  BY <1>2 DEF WorkRecord, Alike
<1> HIDE DEF x
<1>4. queue' \in Seq(WorkRecord) /\ DOMAIN queue' = DOMAIN queue
  BY <1>1, <1>2, <1>3
<1>5. \A j \in DOMAIN queue : Alike(queue'[j], queue[j])
  BY <1>1, <1>3 DEF Alike
<1> QED  BY <1>1, <1>4, <1>5 DEF Types

LEMMA RetryDueStep ==
    ASSUME Types, NEW i \in DOMAIN queue, RetryDue(i)
    PROVE  /\ Types' /\ UNCHANGED <<store, live, row, edges, owed, round, hdl, count>>
           /\ DOMAIN queue' = DOMAIN queue
           /\ \A j \in DOMAIN queue : Alike(queue'[j], queue[j])
<1> DEFINE no == FALSE
           w == queue[i]
           x == [w EXCEPT !.parked = no]
<1>1. /\ queue' = [queue EXCEPT ![i] = x]
      /\ UNCHANGED <<store, live, row, edges, owed, round, hdl, count>>
  BY Zenon DEF RetryDue
<1>2. w \in WorkRecord /\ no \in BOOLEAN /\ queue \in Seq(WorkRecord)
  BY ElementOfSeq DEF Types
<1> HIDE DEF no
<1>3. x \in WorkRecord /\ Alike(x, w)
  BY <1>2 DEF WorkRecord, Alike
<1> HIDE DEF x
<1>4. queue' \in Seq(WorkRecord) /\ DOMAIN queue' = DOMAIN queue
  BY <1>1, <1>2, <1>3
<1>5. \A j \in DOMAIN queue : Alike(queue'[j], queue[j])
  BY <1>1, <1>3 DEF Alike
<1> QED  BY <1>1, <1>4, <1>5 DEF Types

(* Line H has become line G: work j of G is work p[j] of H, or what is left of it. *)
Renumbered(H, G, p) ==
    /\ p \in [DOMAIN G -> DOMAIN H]
    /\ \A i, j \in DOMAIN G : p[i] = p[j] => i = j
    /\ \A j \in DOMAIN G :
         /\ G[j].deltas \subseteq H[p[j]].deltas /\ G[j].drops \subseteq H[p[j]].drops
         /\ G[j].vers = H[p[j]].vers /\ G[j].by = H[p[j]].by /\ G[j].ready = H[p[j]].ready

(* Nothing of view v is lost or overtaken on the way, nor a drop by what was ahead of it. *)
Keeps(H, G, p, v) ==
    /\ \A j \in DOMAIN G : Current(G[j], v) = Current(H[p[j]], v)
    /\ \A i \in DOMAIN H : Current(H[i], v) # {} => \E j \in DOMAIN G : p[j] = i
    /\ \A i, j \in DOMAIN G :
         i < j /\ Current(G[i], v) # {} /\ (Current(G[j], v) # {} \/ G[j].drops # {}) => p[i] < p[j]

LEMMA SameInterval ==
    ASSUME NEW m \in Nat, NEW n \in Nat, 1..m = 1..n PROVE m = n
<1>1. m <= n
  <2> SUFFICES ASSUME m > n PROVE FALSE
    OBVIOUS
  <2>1. m \in 1..m
    OBVIOUS
  <2> QED  BY <2>1
<1>2. n <= m
  <2> SUFFICES ASSUME n > m PROVE FALSE
    OBVIOUS
  <2>1. n \in 1..n
    OBVIOUS
  <2> QED  BY <2>1
<1> QED  BY <1>1, <1>2

(* Nothing has moved. *)
LEMMA InPlace ==
    ASSUME Types, Types', DOMAIN queue' = DOMAIN queue,
           \A j \in DOMAIN queue : Alike(queue'[j], queue[j]),
           round' = round
    PROVE  \E p : Renumbered(Line, Line', p) /\ \A v \in Views : Keeps(Line, Line', p, v)
<1>1. Parts(Line, round.works, queue) /\ Parts(Line', round.works, queue')
  BY LineParts, LinePartsNext
<1>2. DOMAIN Line' = DOMAIN Line
  <2>1. /\ Len(queue) \in Nat /\ Len(queue') \in Nat
        /\ 1..Len(queue) = 1..Len(queue')
    BY <1>1 DEF Parts
  <2>2. Len(queue) = Len(queue')
    BY <2>1, SameInterval
  <2> QED  BY <1>1, <2>2 DEF Parts
<1>3. ASSUME NEW j \in DOMAIN Line PROVE Alike(Line'[j], Line[j])
  <2>1. CASE j \in DOMAIN round.works
    <3>1. Line'[j] = round.works[j] /\ Line[j] = round.works[j]
      BY <1>1, <2>1 DEF Parts
    <3> QED  BY <3>1 DEF Alike
  <2>2. CASE j \notin DOMAIN round.works
    <3>1. PICK i \in DOMAIN queue : i = j - Len(round.works) /\ Line[j] = queue[i]
      BY <1>1, <2>2 DEF Parts
    <3>2. Line'[j] = queue'[i]
      BY <1>1, <1>2, <2>2, <3>1 DEF Parts
    <3> QED  BY <3>1, <3>2
  <2> QED  BY <2>1, <2>2
<1>4. PICK p : p = [j \in DOMAIN Line |-> j]
  OBVIOUS
<1>5. Renumbered(Line, Line', p)
  BY <1>2, <1>3, <1>4 DEF Renumbered, Alike
<1>6. ASSUME NEW v \in Views PROVE Keeps(Line, Line', p, v)
  <2>1. \A j \in DOMAIN Line : Current(Line'[j], v) = Current(Line[j], v)
    BY <1>3 DEF Current, Alike
  <2> QED  BY <1>2, <1>4, <2>1 DEF Keeps
<1> QED  BY <1>5, <1>6


LEMMA SubSeqWorks ==
    ASSUME NEW q \in Seq(WorkRecord), NEW a \in Nat, NEW b \in Nat,
           1 <= a, a <= b + 1, b <= Len(q)
    PROVE  /\ SubSeq(q, a, b) \in Seq(WorkRecord) /\ Len(SubSeq(q, a, b)) = b + 1 - a
           /\ \A j \in 1..(b + 1 - a) : SubSeq(q, a, b)[j] = q[a + j - 1]
<1>1. SubSeq(q, a, b) = [j \in 1..(b + 1 - a) |-> q[a + j - 1]]
  BY SubSeqProperties
<1>2. \A j \in 1..(b + 1 - a) : q[a + j - 1] \in WorkRecord
  <2> SUFFICES ASSUME NEW j \in 1..(b + 1 - a) PROVE q[a + j - 1] \in WorkRecord
    OBVIOUS
  <2>1. a + j - 1 \in 1..Len(q)
    OBVIOUS
  <2> QED  BY <2>1, ElementOfSeq
<1>3. b + 1 - a \in Nat
  OBVIOUS
<1> QED  BY <1>1, <1>2, <1>3

(* A queue without n works from the i-th on. *)
CutOut(G, q, i, n) ==
    /\ G \in Seq(WorkRecord) /\ Len(G) = Len(q) - n
    /\ \A j \in 1..(Len(q) - n) : G[j] = q[IF j < i THEN j ELSE j + n]

LEMMA CutWorks ==
    ASSUME NEW q \in Seq(WorkRecord), NEW i \in 1..Len(q), NEW n \in Nat,
           1 <= n, i + n - 1 <= Len(q)
    PROVE  CutOut(SubSeq(q, 1, i - 1) \o SubSeq(q, i + n, Len(q)), q, i, n)
<1>1. Len(q) \in Nat /\ i \in Nat /\ i - 1 \in Nat /\ i + n \in Nat
  OBVIOUS
<1> DEFINE a == SubSeq(q, 1, i - 1)
           b == SubSeq(q, i + n, Len(q))
<1>2. /\ a \in Seq(WorkRecord) /\ Len(a) = i - 1
      /\ \A j \in 1..(i - 1) : a[j] = q[j]
  <2>1. /\ SubSeq(q, 1, i - 1) \in Seq(WorkRecord)
        /\ Len(SubSeq(q, 1, i - 1)) = (i - 1) + 1 - 1
        /\ \A j \in 1..((i - 1) + 1 - 1) : SubSeq(q, 1, i - 1)[j] = q[1 + j - 1]
    BY <1>1, SubSeqWorks
  <2> QED  BY <2>1, <1>1
<1>3. /\ b \in Seq(WorkRecord) /\ Len(b) = Len(q) + 1 - (i + n)
      /\ \A j \in 1..(Len(q) + 1 - (i + n)) : b[j] = q[i + n + j - 1]
  <2>1. 1 <= i + n /\ i + n <= Len(q) + 1 /\ Len(q) <= Len(q)
    BY <1>1
  <2> QED  BY <1>1, <2>1, SubSeqWorks
<1> HIDE DEF a, b
<1>4. a \o b \in Seq(WorkRecord) /\ Len(a \o b) = Len(q) - n
  BY <1>1, <1>2, <1>3
<1>5. ASSUME NEW j \in 1..(Len(q) - n) PROVE (a \o b)[j] = q[IF j < i THEN j ELSE j + n]
  <2>1. CASE j < i
    BY <1>1, <1>2, <1>3, <2>1
  <2>2. CASE j >= i
    <3>1. /\ (a \o b)[j] = b[j - (i - 1)] /\ j - (i - 1) \in 1..(Len(q) + 1 - (i + n))
      BY <1>1, <1>2, <1>3, <2>2
    <3>2. b[j - (i - 1)] = q[i + n + (j - (i - 1)) - 1]
      BY <1>3, <3>1
    <3>3. i + n + (j - (i - 1)) - 1 = j + n
      BY <1>1
    <3> QED  BY <1>1, <2>2, <3>1, <3>2, <3>3
  <2>3. j < i \/ j >= i
    BY <1>1
  <2> QED  BY <2>1, <2>2, <2>3
<1> QED  BY <1>4, <1>5 DEF a, b, CutOut


(* What is never published, or no longer, does nothing. *)
Empty(w) == w.drops = {} /\ \A d \in w.deltas : ~d.current

LEMMA TakenBound ==
    ASSUME Types, NEW i \in DOMAIN queue, NEW n \in Taken(i)
    PROVE  /\ n \in Nat /\ 1 <= n /\ i + n - 1 <= Len(queue)
           /\ i > 1 \/ Obsolete(queue[i]) => n = 1
           /\ \A j \in 2..n : Selectable(queue[j]) /\ ~Obsolete(queue[j])
<1>1. DOMAIN queue = 1..Len(queue) /\ Len(queue) \in Nat
  BY DEF Types
<1>2. CASE i > 1 \/ Obsolete(queue[1])
  <2>1. n = 1
    BY <1>2 DEF Taken
  <2>2. 2..n = {}
    BY <2>1
  <2> QED  BY <1>1, <2>1, <2>2
<1>3. CASE ~(i > 1 \/ Obsolete(queue[1]))
  <2>1. i = 1
    BY <1>1, <1>3
  <2>2. n \in 1..Len(queue) /\ \A j \in 2..n : ~Obsolete(queue[j]) /\ Selectable(queue[j])
    BY <1>3 DEF Taken
  <2> QED  BY <1>1, <1>3, <2>1, <2>2
<1> QED  BY <1>2, <1>3

LEMMA TakeObsolete ==
    ASSUME Types, NEW i \in DOMAIN queue, Take(i), Obsolete(queue[i]), Empty(queue[i])
    PROVE  /\ Types' /\ round' = NoRound
           /\ \E p : Renumbered(Line, Line', p) /\ \A v \in Views : Keeps(Line, Line', p, v)
<1>1. PICK n \in Taken(i) :
         /\ queue' = SubSeq(queue, 1, i - 1) \o SubSeq(queue, i + n, Len(queue))
         /\ round' = NoRound
  BY DEF Take
<1>2. round.works = <<>> /\ UNCHANGED <<store, live, row, edges, owed, hdl, count>>
  BY DEF Take, Types
<1>3. n \in Nat /\ n = 1 /\ i + n - 1 <= Len(queue)
  BY TakenBound
<1>4. queue \in Seq(WorkRecord) /\ i \in 1..Len(queue) /\ Len(queue) \in Nat
  BY DEF Types
<1>5. CutOut(queue', queue, i, n)
  BY <1>1, <1>3, <1>4, CutWorks
<1>6. Types'
  BY <1>1, <1>2, <1>5, NoRoundType DEF Types, CutOut
<1>7. Line = queue /\ Line' = queue'
  <2>1. queue' \in Seq(WorkRecord) /\ round'.works = <<>>
    BY <1>1, <1>5, NoRoundType DEF CutOut
  <2> QED  BY <1>2, <1>4, <2>1, ConcatEmptySeq DEF Line
<1>9. /\ DOMAIN Line = 1..Len(queue) /\ DOMAIN Line' = 1..(Len(queue) - 1)
      /\ \A j \in 1..Len(queue) : Line[j] = queue[j]
      /\ \A j \in 1..(Len(queue) - 1) : Line'[j] = queue[IF j < i THEN j ELSE j + 1]
  BY <1>3, <1>4, <1>5, <1>7 DEF CutOut
<1>10. PICK p : p = [j \in 1..(Len(queue) - 1) |-> IF j < i THEN j ELSE j + 1]
  OBVIOUS
<1>11. /\ p \in [DOMAIN Line' -> DOMAIN Line]
       /\ \A j \in DOMAIN Line' : Line'[j] = Line[p[j]]
       /\ \A j, k \in DOMAIN Line' : j < k => p[j] < p[k]
       /\ \A k \in DOMAIN Line : k # i => \E j \in DOMAIN Line' : p[j] = k
  <2>1. p \in [DOMAIN Line' -> DOMAIN Line]
    BY <1>4, <1>9, <1>10
  <2>2. \A j \in DOMAIN Line' : Line'[j] = Line[p[j]]
    BY <1>4, <1>9, <1>10
  <2>3. \A j, k \in DOMAIN Line' : j < k => p[j] < p[k]
    BY <1>4, <1>9, <1>10
  <2>4. ASSUME NEW k \in DOMAIN Line, k # i PROVE \E j \in DOMAIN Line' : p[j] = k
    <3>1. CASE k < i
      <4>1. k \in DOMAIN Line' /\ p[k] = k
        BY <1>4, <1>9, <1>10, <3>1
      <4> QED  BY <4>1
    <3>2. CASE k > i
      <4>1. k - 1 \in DOMAIN Line' /\ p[k - 1] = k
        BY <1>4, <1>9, <1>10, <3>2
      <4> QED  BY <4>1
    <3> QED  BY <1>4, <1>9, <2>4, <3>1, <3>2
  <2> QED  BY <2>1, <2>2, <2>3, <2>4
<1>12. Renumbered(Line, Line', p)
  <2>1. DOMAIN Line' \subseteq Nat
    BY <1>9
  <2>2. \A j, k \in DOMAIN Line' : p[j] = p[k] => j = k
    BY <1>9, <1>11, <2>1
  <2> QED  BY <1>11, <2>2 DEF Renumbered
<1>13. ASSUME NEW v \in Views PROVE Keeps(Line, Line', p, v)
  <2>1. Current(Line[i], v) = {}
    BY <1>9 DEF Empty, Current
  <2> QED  BY <1>11, <2>1 DEF Keeps
<1> QED  BY <1>1, <1>6, <1>12, <1>13


LEMMA TakeWorks ==
    ASSUME Types, NEW i \in DOMAIN queue, Take(i), ~Obsolete(queue[i])
    PROVE  /\ Types' /\ round'.phase = "taken" /\ round'.poisoned = {}
           /\ \A j \in DOMAIN round'.works : round'.works[j].ready = "yes"
           /\ \E p : Renumbered(Line, Line', p) /\ \A v \in Views : Keeps(Line, Line', p, v)
<1>1. PICK n \in Taken(i) :
         /\ queue' = SubSeq(queue, 1, i - 1) \o SubSeq(queue, i + n, Len(queue))
         /\ round' = [NoRound EXCEPT !.phase = "taken", !.works = SubSeq(queue, i, i + n - 1)]
  BY DEF Take
<1>2. /\ round.works = <<>> /\ UNCHANGED <<store, live, row, edges, owed, hdl, count>>
      /\ Chosen(i)
  BY DEF Take, Types
<1>3. /\ n \in Nat /\ 1 <= n /\ i + n - 1 <= Len(queue) /\ (i > 1 => n = 1)
      /\ \A j \in 2..n : Selectable(queue[j])
  BY TakenBound
<1>4. queue \in Seq(WorkRecord) /\ i \in 1..Len(queue) /\ Len(queue) \in Nat
  BY DEF Types
<1>5. CutOut(queue', queue, i, n)
  BY <1>3, <1>4, <1>1, CutWorks
<1> DEFINE W == SubSeq(queue, i, i + n - 1)
<1>6. W \in Seq(WorkRecord) /\ Len(W) = n /\ \A j \in 1..n : W[j] = queue[i + j - 1]
  <2>1. i \in Nat /\ i + n - 1 \in Nat /\ 1 <= i /\ i <= (i + n - 1) + 1 /\ i + n - 1 <= Len(queue)
    BY <1>3, <1>4
  <2>2. /\ SubSeq(queue, i, i + n - 1) \in Seq(WorkRecord)
        /\ Len(SubSeq(queue, i, i + n - 1)) = (i + n - 1) + 1 - i
        /\ \A j \in 1..((i + n - 1) + 1 - i) : SubSeq(queue, i, i + n - 1)[j] = queue[i + j - 1]
    BY <1>4, <2>1, SubSeqWorks
  <2>3. (i + n - 1) + 1 - i = n
    BY <1>3, <2>1
  <2> QED  BY <2>2, <2>3
<1>7. round' = [NoRound EXCEPT !.phase = "taken", !.works = W]
  BY <1>1
<1> HIDE DEF W
<1>8. round' \in RoundRecord /\ round'.phase = "taken" /\ round'.works = W /\ round'.poisoned = {}
  BY <1>6, <1>7, NoRoundType DEF RoundRecord
<1>9. Types'
  BY <1>2, <1>5, <1>8 DEF Types, CutOut
<1>10. Line = queue
  BY <1>2, <1>4, ConcatEmptySeq DEF Line
<1>11. Parts(Line', W, queue')
  BY <1>8, <1>9, LinePartsNext
<1>12. PICK p : p = [j \in 1..Len(queue) |->
                       IF j <= n THEN i + j - 1 ELSE IF j <= n + i - 1 THEN j - n ELSE j]
  OBVIOUS
<1>13. DOMAIN Line' = 1..Len(queue) /\ DOMAIN Line = 1..Len(queue)
  BY <1>3, <1>4, <1>5, <1>6, <1>10, <1>11 DEF Parts, CutOut
<1>14. ASSUME NEW j \in 1..Len(queue) PROVE p[j] \in 1..Len(queue) /\ Line'[j] = Line[p[j]]
  <2>1. CASE j <= n
    <3>0. j \in 1..n /\ DOMAIN W = 1..n
      BY <1>3, <1>4, <1>6, <2>1
    <3>1. Line'[j] = W[j] /\ j \in 1..n
      BY <1>11, <3>0 DEF Parts
    <3> QED  BY <1>3, <1>4, <1>6, <1>10, <1>12, <2>1, <3>1
  <2>2. CASE j > n
    <3>1. j - n \in 1..(Len(queue) - n) /\ Line'[j] = queue'[j - n]
      BY <1>3, <1>4, <1>5, <1>6, <1>11, <1>13, <2>2 DEF Parts, CutOut
    <3>2. queue'[j - n] = queue[IF j - n < i THEN j - n ELSE (j - n) + n]
      BY <1>5, <3>1 DEF CutOut
    <3>3. p[j] = IF j - n < i THEN j - n ELSE (j - n) + n
      BY <1>3, <1>4, <1>12, <2>2
    <3>4. p[j] \in 1..Len(queue)
      BY <1>3, <1>4, <1>12, <2>2
    <3> QED  BY <1>10, <3>1, <3>2, <3>3, <3>4
  <2>3. j <= n \/ j > n
    BY <1>3
  <2> QED  BY <2>1, <2>2, <2>3
<1>15. \A j, k \in 1..Len(queue) : p[j] = p[k] => j = k
  BY <1>3, <1>4, <1>12
<1>16. Renumbered(Line, Line', p)
  <2>1. p \in [DOMAIN Line' -> DOMAIN Line]
    BY <1>12, <1>13, <1>14
  <2> QED  BY <2>1, <1>13, <1>14, <1>15 DEF Renumbered
<1>17. ASSUME NEW k \in 1..Len(queue) PROVE \E j \in 1..Len(queue) : p[j] = k
  <2>1. CASE k < i
    <3>1. k + n \in 1..Len(queue) /\ p[k + n] = k
      BY <1>3, <1>4, <1>12, <2>1
    <3> QED  BY <3>1
  <2>2. CASE i <= k /\ k < i + n
    <3>1. k - i + 1 \in 1..Len(queue) /\ p[k - i + 1] = k
      BY <1>3, <1>4, <1>12, <2>2
    <3> QED  BY <3>1
  <2>3. CASE k >= i + n
    <3>1. p[k] = k
      BY <1>3, <1>4, <1>12, <2>3
    <3> QED  BY <3>1
  <2>4. k < i \/ (i <= k /\ k < i + n) \/ k >= i + n
    BY <1>3, <1>4
  <2> QED  BY <2>1, <2>2, <2>3, <2>4
<1>18. /\ Selectable(queue[i]) /\ ViewsOf(queue[i]) \cap Blocked(i) = {}
       /\ \A j \in 1..(i - 1) : queue[j].drops = {}
  BY <1>2 DEF Chosen, Choosable
<1>19. ASSUME NEW v \in Views PROVE Keeps(Line, Line', p, v)
  <2>1. ASSUME NEW j \in 1..Len(queue), NEW k \in 1..Len(queue), j < k, p[j] >= p[k],
               Current(Line[p[j]], v) # {}, Current(Line[p[k]], v) # {} \/ Line[p[k]].drops # {}
        PROVE  FALSE
    <3>1. /\ j <= n /\ k > n /\ k <= n + i - 1 /\ p[k] = k - n
      BY <1>3, <1>4, <1>12, <2>1
    <3>2. i > 1 /\ n = 1
      BY <1>3, <1>4, <3>1
    <3>3. p[j] = i /\ p[k] \in 1..(i - 1)
      BY <1>3, <1>4, <1>12, <3>1, <3>2
    <3>4. Current(queue[p[k]], v) # {} /\ Current(queue[i], v) # {}
      BY <1>10, <1>18, <2>1, <3>3
    <3>5. v \in ViewsOf(queue[p[k]]) /\ v \in ViewsOf(queue[i])
      BY <3>4 DEF Current, ViewsOf
    <3>6. v \in Blocked(i)
      BY <3>3, <3>5 DEF Blocked
    <3> QED  BY <1>18, <3>5, <3>6
  <2>2. \A j \in DOMAIN Line' : p[j] \in Nat /\ Line'[j] = Line[p[j]]
    BY <1>13, <1>14
  <2>3. \A k \in DOMAIN Line : \E j \in DOMAIN Line' : p[j] = k
    BY <1>13, <1>17
  <2>4. \A j, k \in DOMAIN Line' :
          j < k /\ Current(Line'[j], v) # {} /\ (Current(Line'[k], v) # {} \/ Line'[k].drops # {})
             => p[j] < p[k]
    <3> SUFFICES ASSUME NEW j \in DOMAIN Line', NEW k \in DOMAIN Line', j < k, ~(p[j] < p[k]),
                        Current(Line'[j], v) # {},
                        Current(Line'[k], v) # {} \/ Line'[k].drops # {}
                 PROVE  FALSE
      OBVIOUS
    <3>1. p[j] >= p[k]
      BY <2>2
    <3>2. /\ Current(Line[p[j]], v) # {}
          /\ Current(Line[p[k]], v) # {} \/ Line[p[k]].drops # {}
      BY <2>2
    <3> QED  BY <1>13, <2>1, <3>1, <3>2
  <2> QED  BY <2>2, <2>3, <2>4 DEF Keeps
<1>20. ASSUME NEW j \in DOMAIN W PROVE W[j].ready = "yes"
  <2>1. j \in 1..n /\ W[j] = queue[i + j - 1]
    BY <1>6
  <2>2. Selectable(queue[i + j - 1])
    <3>1. CASE j = 1
      <4>1. i + j - 1 = i
        BY <1>4, <3>1
      <4> QED  BY <1>18, <4>1
    <3>2. CASE j > 1
      <4>1. i = 1 /\ j \in 2..n /\ i + j - 1 = j
        BY <1>3, <1>4, <2>1, <3>2
      <4> QED  BY <1>3, <4>1
    <3> QED  BY <1>3, <2>1, <3>1, <3>2
  <2> QED  BY <2>1, <2>2 DEF Selectable
<1> QED  BY <1>8, <1>9, <1>16, <1>19, <1>20


(* What is left of a work. *)
Shrunk(x, w) ==
    /\ x.deltas \subseteq w.deltas /\ x.drops \subseteq w.drops
    /\ x.vers = w.vers /\ x.by = w.by /\ x.ready = w.ready

SameOrder == [j \in DOMAIN Line |-> j]

(* The round works on, and the queue waits. *)
LEMMA RoundInPlace ==
    ASSUME Types, Types', queue' = queue, DOMAIN round'.works = DOMAIN round.works,
           \A j \in DOMAIN round.works : Shrunk(round'.works[j], round.works[j])
    PROVE  /\ DOMAIN Line' = DOMAIN Line /\ Len(round'.works) = Len(round.works)
           /\ Renumbered(Line, Line', SameOrder)
           /\ \A j \in DOMAIN round.works : Line'[j] = round'.works[j]
           /\ \A j \in DOMAIN Line : j \notin DOMAIN round.works => Line'[j] = Line[j]
<1>1. Parts(Line, round.works, queue) /\ Parts(Line', round'.works, queue)
  BY LineParts, LinePartsNext
<1>2. Len(round'.works) = Len(round.works)
  <2>1. /\ Len(round.works) \in Nat /\ Len(round'.works) \in Nat
        /\ 1..Len(round.works) = 1..Len(round'.works)
    BY <1>1 DEF Parts
  <2> QED  BY <2>1, SameInterval
<1>3. DOMAIN Line' = DOMAIN Line
  BY <1>1, <1>2 DEF Parts
<1>4. ASSUME NEW j \in DOMAIN round.works
      PROVE  j \in DOMAIN Line /\ Line'[j] = round'.works[j] /\ Line[j] = round.works[j]
  BY <1>1, <1>3 DEF Parts
<1>5. ASSUME NEW j \in DOMAIN Line, j \notin DOMAIN round.works PROVE Line'[j] = Line[j]
  <2>1. j - Len(round.works) \in DOMAIN queue /\ Line[j] = queue[j - Len(round.works)]
    BY <1>1, <1>5 DEF Parts
  <2>2. Line'[j] = queue[j - Len(round'.works)]
    BY <1>1, <1>3, <1>5 DEF Parts
  <2> QED  BY <1>2, <2>1, <2>2
<1>6. ASSUME NEW j \in DOMAIN Line PROVE Shrunk(Line'[j], Line[j])
  BY <1>4, <1>5 DEF Shrunk
<1>7. Renumbered(Line, Line', SameOrder)
  BY <1>3, <1>6 DEF Renumbered, Shrunk, SameOrder
<1> QED  BY <1>2, <1>3, <1>4, <1>5, <1>7

LEMMA RoundKeeps ==
    ASSUME Types, Types', queue' = queue, DOMAIN round'.works = DOMAIN round.works,
           \A j \in DOMAIN round.works : Shrunk(round'.works[j], round.works[j]),
           NEW v,
           \A j \in DOMAIN round.works : Current(round'.works[j], v) = Current(round.works[j], v)
    PROVE  Keeps(Line, Line', SameOrder, v)
<1>1. /\ DOMAIN Line' = DOMAIN Line
      /\ \A j \in DOMAIN round.works : Line'[j] = round'.works[j]
      /\ \A j \in DOMAIN Line : j \notin DOMAIN round.works => Line'[j] = Line[j]
  BY RoundInPlace
<1>2. \A j \in DOMAIN round.works : Line[j] = round.works[j]
  BY LineParts DEF Parts
<1>3. \A j \in DOMAIN Line : Current(Line'[j], v) = Current(Line[j], v)
  BY <1>1, <1>2
<1> QED  BY <1>1, <1>3 DEF Keeps, SameOrder

(* The round is over, and had nothing left to do. *)
LEMMA RoundGone ==
    ASSUME Types, Types', queue' = queue, round' = NoRound
    PROVE  \E p : /\ Renumbered(Line, Line', p)
                  /\ \A v : (\A j \in DOMAIN round.works : Current(round.works[j], v) = {})
                               => Keeps(Line, Line', p, v)
<1>1. Parts(Line, round.works, queue)
  BY LineParts
<1>2. Line' = queue
  BY ConcatEmptySeq, NoRoundType DEF Line, Types
<1> DEFINE m == Len(round.works)
<1>3. m \in Nat /\ Len(queue) \in Nat /\ DOMAIN Line' = 1..Len(queue)
  BY <1>1, <1>2 DEF Parts
<1>4. PICK p : p = [j \in DOMAIN Line' |-> m + j]
  OBVIOUS
<1>5. \A j \in DOMAIN Line' : p[j] \in DOMAIN Line /\ Line[p[j]] = Line'[j]
  BY <1>1, <1>2, <1>4 DEF Parts
<1>6. p \in [DOMAIN Line' -> DOMAIN Line]
  BY <1>4, <1>5
<1>7. \A i, j \in DOMAIN Line' : (p[i] = p[j] => i = j) /\ (i < j => p[i] < p[j])
  BY <1>3, <1>4
<1>8. Renumbered(Line, Line', p)
  BY <1>5, <1>6, <1>7 DEF Renumbered
<1>9. ASSUME NEW v, \A j \in DOMAIN round.works : Current(round.works[j], v) = {}
      PROVE  Keeps(Line, Line', p, v)
  <2>1. ASSUME NEW i \in DOMAIN Line, Current(Line[i], v) # {}
        PROVE  \E j \in DOMAIN Line' : p[j] = i
    <3>1. i - m \in DOMAIN queue
      BY <1>1, <1>9, <2>1 DEF Parts
    <3>2. p[i - m] = i
      BY <1>1, <1>2, <1>3, <1>4, <3>1 DEF Parts
    <3> QED  BY <1>2, <3>1, <3>2
  <2> QED  BY <1>5, <1>7, <2>1 DEF Keeps
<1> QED  BY <1>8, <1>9

LEMMA FilterStep ==
    ASSUME Types, Filter
    PROVE  /\ Types' /\ UNCHANGED <<store, live, row, edges, owed, queue, hdl, count>>
           /\ round.phase = "taken" /\ round'.phase \in {"idle", "cleanup"}
           /\ DOMAIN round'.works \subseteq DOMAIN round.works
           /\ \A j \in DOMAIN round'.works :
                /\ round'.works[j].ready = round.works[j].ready
                /\ \A d \in round'.works[j].deltas : d.current
           /\ \E p : Renumbered(Line, Line', p) /\ \A v \in live : Keeps(Line, Line', p, v)
<1> DEFINE ws == [i \in DOMAIN round.works |-> Filtered(round.works[i])]
<1>1. /\ round.phase = "taken"
      /\ round' = IF Ended(ws) THEN NoRound ELSE [round EXCEPT !.phase = "cleanup", !.works = ws]
      /\ UNCHANGED <<store, live, row, edges, owed, queue, hdl, count>>
  BY Zenon DEF Filter
<1>2. /\ round.works \in Seq(WorkRecord) /\ DOMAIN round.works = 1..Len(round.works)
      /\ \A j \in DOMAIN round.works : round.works[j] \in WorkRecord
  BY RoundFields, ElementOfSeq
<1>3. ASSUME NEW j \in DOMAIN round.works
      PROVE  /\ ws[j] \in WorkRecord /\ Shrunk(ws[j], round.works[j])
             /\ ws[j].deltas = {d \in round.works[j].deltas : d.current /\ d.view \in live}
  <2>1. ws[j] = Filtered(round.works[j])
    OBVIOUS
  <2> HIDE DEF ws
  <2> QED  BY <1>2, <2>1, FilteredFields DEF Shrunk
<1>4. DOMAIN ws = DOMAIN round.works /\ ws \in Seq(WorkRecord)
  <2>1. DOMAIN ws = DOMAIN round.works /\ ws \in [1..Len(round.works) -> WorkRecord]
    BY <1>2, <1>3
  <2> HIDE DEF ws
  <2> QED  BY <1>2, <2>1
<1>5. ASSUME NEW j \in DOMAIN round.works, NEW v \in live
      PROVE  Current(ws[j], v) = Current(round.works[j], v)
  <2> HIDE DEF ws
  <2> QED  BY <1>3 DEF Current
<1> HIDE DEF ws
<1>6. CASE Ended(ws)
  <2>1. round' = NoRound
    BY <1>1, <1>6
  <2>2. Types'
    BY <1>1, <2>1, NoRoundType DEF Types
  <2>3. ASSUME NEW v \in live
        PROVE  \A j \in DOMAIN round.works : Current(round.works[j], v) = {}
    <3> SUFFICES ASSUME NEW j \in DOMAIN round.works PROVE Current(round.works[j], v) = {}
      OBVIOUS
    <3>1. ws[j].deltas = {}
      BY <1>4, <1>6 DEF Ended, Finished
    <3> QED  BY <1>5, <3>1 DEF Current
  <2>4. PICK p : /\ Renumbered(Line, Line', p)
                 /\ \A v : (\A j \in DOMAIN round.works : Current(round.works[j], v) = {})
                              => Keeps(Line, Line', p, v)
    BY <1>1, <2>1, <2>2, RoundGone
  <2>5. DOMAIN round'.works = {} /\ round'.phase = "idle"
    BY <2>1, NoRoundType
  <2> QED  BY <1>1, <2>2, <2>3, <2>4, <2>5
<1>7. CASE ~Ended(ws)
  <2>1. round' = [round EXCEPT !.phase = "cleanup", !.works = ws]
    BY <1>1, <1>7
  <2>2. round' \in RoundRecord /\ round'.phase = "cleanup" /\ round'.works = ws
    BY <1>4, <2>1 DEF Types, RoundRecord
  <2>3. Types'
    BY <1>1, <2>2 DEF Types
  <2>4. Renumbered(Line, Line', SameOrder)
    BY <1>1, <1>3, <1>4, <2>2, <2>3, RoundInPlace
  <2>5. ASSUME NEW v \in live PROVE Keeps(Line, Line', SameOrder, v)
    BY <1>1, <1>3, <1>4, <1>5, <2>2, <2>3, RoundKeeps
  <2>6. \A j \in DOMAIN round'.works :
            /\ round'.works[j].ready = round.works[j].ready
            /\ \A d \in round'.works[j].deltas : d.current
    BY <1>3, <1>4, <2>2 DEF Shrunk
  <2> QED  BY <1>1, <1>4, <2>2, <2>3, <2>4, <2>5, <2>6
<1> QED  BY <1>6, <1>7

LEMMA CleanupStep ==
    ASSUME Types, Cleanup
    PROVE  /\ Types' /\ UNCHANGED <<store, live, row, owed, queue, hdl, count>>
           /\ round.phase = "cleanup" /\ round'.phase = "write"
           /\ round'.poisoned = round.poisoned
           /\ edges' = Dropped(UNION {round.works[i].drops : i \in DOMAIN round.works})
           /\ DOMAIN round'.works = DOMAIN round.works
           /\ \A j \in DOMAIN round.works :
                /\ round'.works[j].deltas = round.works[j].deltas
                /\ round'.works[j].drops = {}
                /\ Shrunk(round'.works[j], round.works[j])
           /\ Renumbered(Line, Line', SameOrder)
           /\ \A v : Keeps(Line, Line', SameOrder, v)
<1> DEFINE Bare(w) == [w EXCEPT !.drops = {}]
           ws == [i \in DOMAIN round.works |-> Bare(round.works[i])]
<1>1. /\ round.phase = "cleanup"
      /\ edges' = Dropped(UNION {w.drops : w \in Range(round.works)})
      /\ round' = [round EXCEPT !.phase = "write", !.works = ws]
      /\ UNCHANGED <<store, live, row, owed, queue, hdl, count>>
  BY Zenon DEF Cleanup
<1>2. /\ round.works \in Seq(WorkRecord) /\ DOMAIN round.works = 1..Len(round.works)
      /\ \A j \in DOMAIN round.works : round.works[j] \in WorkRecord
  BY RoundFields, ElementOfSeq
<1>3. ASSUME NEW w \in WorkRecord
      PROVE  /\ Bare(w) \in WorkRecord /\ Shrunk(Bare(w), w)
             /\ Bare(w).deltas = w.deltas /\ Bare(w).drops = {}
  BY DEF WorkRecord, Shrunk
<1> HIDE DEF Bare
<1>4. ws \in [1..Len(round.works) -> WorkRecord] /\ DOMAIN ws = DOMAIN round.works
  BY <1>2, <1>3
<1>5. \A j \in DOMAIN round.works :
         /\ Shrunk(ws[j], round.works[j])
         /\ ws[j].deltas = round.works[j].deltas /\ ws[j].drops = {}
  BY <1>2, <1>3
<1> HIDE DEF ws
<1>6. ws \in Seq(WorkRecord)
  BY <1>2, <1>4
<1>7. /\ round' \in RoundRecord /\ round'.phase = "write" /\ round'.works = ws
      /\ round'.poisoned = round.poisoned
  BY <1>1, <1>6 DEF Types, RoundRecord
<1>8. edges' = Dropped(UNION {round.works[i].drops : i \in DOMAIN round.works})
  <2>1. {w.drops : w \in Range(round.works)} = {round.works[i].drops : i \in DOMAIN round.works}
    BY DEF Range
  <2> QED  BY <1>1, <2>1
<1>9. edges' \in [Views -> [Records -> EdgeRecord]]
  BY <1>1, DroppedType
<1>10. Types'
  BY <1>1, <1>7, <1>9 DEF Types
<1>11. Renumbered(Line, Line', SameOrder)
  BY <1>1, <1>4, <1>5, <1>7, <1>10, RoundInPlace
<1>12. ASSUME NEW v PROVE Keeps(Line, Line', SameOrder, v)
  <2>1. \A j \in DOMAIN round.works : Current(round'.works[j], v) = Current(round.works[j], v)
    BY <1>5, <1>7 DEF Current
  <2> QED  BY <1>1, <1>4, <1>5, <1>7, <1>10, <2>1, RoundKeeps
<1> QED  BY <1>1, <1>4, <1>5, <1>7, <1>8, <1>10, <1>11, <1>12

(* What is left of a round goes back to the front of the queue. *)
LEMMA ParkStep ==
    ASSUME Types, Park(round.works), round' = NoRound, UNCHANGED <<store, live, row, owed, hdl>>,
           edges' = edges, count' \in [events : 0..MaxEvents, requests : Nat, faults : Nat]
    PROVE  /\ Types'
           /\ \E p : Renumbered(Line, Line', p) /\ \A v : Keeps(Line, Line', p, v)
<1> DEFINE ws == round.works
           left == {i \in DOMAIN ws : ~Finished(ws[i])}
           Parked(w) == [w EXCEPT !.parked = TRUE]
<1>1. PICK q \in [1..Cardinality(left) -> left] :
        /\ Range(q) = left /\ \A i, j \in DOMAIN q : i < j => q[i] < q[j]
        /\ queue' = [i \in DOMAIN q |-> Parked(ws[q[i]])] \o queue
  BY Zenon DEF Park
<1> DEFINE n == Cardinality(left)
           m == Len(ws)
           front == [i \in DOMAIN q |-> Parked(ws[q[i]])]
<1>2. /\ ws \in Seq(WorkRecord) /\ DOMAIN ws = 1..m /\ m \in Nat
      /\ \A j \in DOMAIN ws : ws[j] \in WorkRecord
  BY RoundFields, ElementOfSeq
<1>3. n \in Nat
  <2>1. 1 \in Int /\ m \in Int
    BY <1>2
  <2> HIDE DEF m
  <2>2. IsFiniteSet(1..m)
    BY <2>1, FS_Interval
  <2>3. left \subseteq 1..m
    BY <1>2
  <2> QED  BY <2>2, <2>3, FS_Subset, FS_CardinalityType
<1>4. ASSUME NEW w \in WorkRecord PROVE Parked(w) \in WorkRecord /\ Alike(Parked(w), w)
  <2> DEFINE yes == TRUE
  <2>1. yes \in BOOLEAN /\ Parked(w) = [w EXCEPT !.parked = yes]
    OBVIOUS
  <2> HIDE DEF yes
  <2> QED  BY <2>1 DEF WorkRecord, Alike
<1> HIDE DEF Parked
<1>5. DOMAIN q = 1..n /\ \A i \in 1..n : q[i] \in left /\ q[i] \in 1..m
  BY <1>2
<1>6. /\ front \in [1..n -> WorkRecord] /\ \A i \in 1..n : Alike(front[i], ws[q[i]])
  BY <1>2, <1>4, <1>5
<1>7. queue' = front \o queue
  BY <1>1
<1>8. /\ \A k \in left : \E i \in 1..n : q[i] = k
      /\ \A i, j \in 1..n : i < j => q[i] < q[j]
  BY <1>1, <1>5 DEF Range
<1> HIDE DEF front
<1>9. \A k \in 1..m : k \notin left => ws[k].deltas = {} /\ ws[k].drops = {}
  BY <1>2 DEF Finished
<1> HIDE DEF left, n
<1>10. front \in Seq(WorkRecord) /\ Len(front) = n
  BY <1>3, <1>6
<1>11. Parts(queue', front, queue)
  BY <1>7, <1>10, PartsOf DEF Types
<1>12. Types'
  BY <1>11, NoRoundType DEF Types, Parts
<1>13. Line' = queue'
  BY <1>12, ConcatEmptySeq, NoRoundType DEF Line, Types
<1>14. Parts(Line, ws, queue)
  BY LineParts
<1>15. PICK p : p = [j \in DOMAIN Line' |-> IF j <= n THEN q[j] ELSE j - n + m]
  OBVIOUS
<1>16. ASSUME NEW j \in DOMAIN Line'
       PROVE  /\ p[j] \in DOMAIN Line /\ Alike(Line'[j], Line[p[j]])
              /\ j \in Nat /\ j >= 1
              /\ j <= n => j \in 1..n /\ p[j] = q[j] /\ p[j] \in 1..m
              /\ j > n => p[j] = j - n + m
  <2>0. j \in 1..(n + Len(queue)) /\ Len(queue) \in Nat
    BY <1>10, <1>11, <1>13 DEF Parts
  <2>1. CASE j <= n
    <3>1. j \in 1..n /\ p[j] = q[j] /\ p[j] \in 1..m
      BY <1>3, <1>5, <1>15, <2>0, <2>1
    <3>2. Line'[j] = front[j]
      BY <1>6, <1>11, <1>13, <3>1 DEF Parts
    <3>3. p[j] \in DOMAIN Line /\ Line[p[j]] = ws[q[j]]
      BY <1>2, <1>14, <3>1 DEF Parts
    <3> QED  BY <1>3, <1>6, <2>0, <2>1, <3>1, <3>2, <3>3
  <2>2. CASE j > n
    <3>1. j - n \in 1..Len(queue) /\ p[j] = m + (j - n)
      BY <1>2, <1>3, <1>15, <2>0, <2>2
    <3>2. Line'[j] = queue[j - n]
      BY <1>3, <1>6, <1>10, <1>11, <1>13, <2>0, <2>2 DEF Parts
    <3>3. p[j] \in DOMAIN Line /\ Line[p[j]] = queue[j - n]
      BY <1>14, <3>1 DEF Parts
    <3>4. p[j] = j - n + m
      BY <1>15, <2>2, <1>3, <2>0
    <3> QED  BY <1>3, <2>0, <2>2, <3>2, <3>3, <3>4 DEF Alike
  <2>3. j <= n \/ j > n
    BY <1>3, <2>0
  <2> QED  BY <2>1, <2>2, <2>3
<1>17. ASSUME NEW i \in DOMAIN Line', NEW j \in DOMAIN Line', i < j PROVE p[i] < p[j]
  <2>1. CASE j <= n
    <3>1. i <= n
      BY <1>3, <1>16, <1>17, <2>1
    <3> QED  BY <1>8, <1>16, <1>17, <2>1, <3>1
  <2>2. CASE j > n /\ i <= n
    BY <1>2, <1>3, <1>16, <2>2
  <2>3. CASE i > n
    BY <1>2, <1>3, <1>16, <1>17, <2>3
  <2> QED  BY <1>3, <1>16, <2>1, <2>2, <2>3
<1>18. \A i, j \in DOMAIN Line' : p[i] = p[j] => i = j
  <2> SUFFICES ASSUME NEW i \in DOMAIN Line', NEW j \in DOMAIN Line', p[i] = p[j], i # j
               PROVE  FALSE
    OBVIOUS
  <2>1. i < j \/ j < i
    BY <1>16
  <2>2. DOMAIN Line \subseteq Nat
    BY <1>14 DEF Parts
  <2>3. p[i] \in Nat /\ p[j] \in Nat
    BY <1>16, <2>2
  <2>4. p[i] < p[j] \/ p[j] < p[i]
    BY <1>17, <2>1
  <2> QED  BY <2>3, <2>4
<1>19. Renumbered(Line, Line', p)
  <2>1. p \in [DOMAIN Line' -> DOMAIN Line]
    BY <1>15, <1>16
  <2>2. \A j \in DOMAIN Line' : Alike(Line'[j], Line[p[j]])
    BY <1>16
  <2> QED  BY <1>18, <2>1, <2>2 DEF Renumbered, Alike
<1>20. ASSUME NEW v PROVE Keeps(Line, Line', p, v)
  <2>1. \A j \in DOMAIN Line' : Current(Line'[j], v) = Current(Line[p[j]], v)
    <3>1. \A j \in DOMAIN Line' : Line'[j].deltas = Line[p[j]].deltas
      BY <1>16 DEF Alike
    <3> QED  BY <3>1 DEF Current
  <2>2. ASSUME NEW k \in DOMAIN Line, Current(Line[k], v) # {}
        PROVE  \E j \in DOMAIN Line' : p[j] = k
    <3>1. CASE k \in DOMAIN ws
      <4>1. k \in 1..m /\ Line[k] = ws[k]
        BY <1>2, <1>14, <3>1 DEF Parts
      <4>2. k \in left
        BY <1>9, <2>2, <4>1 DEF Current
      <4>3. PICK j \in 1..n : q[j] = k
        BY <1>8, <4>2
      <4>4. j \in DOMAIN Line' /\ j <= n
        BY <1>3, <1>10, <1>11, <1>13 DEF Parts
      <4> QED  BY <1>16, <4>3, <4>4
    <3>2. CASE k \notin DOMAIN ws
      <4>1. k - m \in DOMAIN queue /\ k > m
        BY <1>14, <3>2 DEF Parts
      <4>2. PICK j : j = n + (k - m)
        OBVIOUS
      <4>3. j \in DOMAIN Line' /\ j > n
        BY <1>2, <1>3, <1>10, <1>11, <1>13, <4>1, <4>2 DEF Parts
      <4>4. p[j] = j - n + m
        BY <1>16, <4>3
      <4>5. j - n + m = k
        <5>1. k \in Nat /\ m \in Nat /\ n \in Nat
          BY <1>2, <1>3, <1>14 DEF Parts
        <5> QED  BY <4>2, <5>1
      <4> QED  BY <4>3, <4>4, <4>5
    <3> QED  BY <3>1, <3>2
  <2> QED  BY <1>17, <2>1, <2>2 DEF Keeps
<1> QED  BY <1>12, <1>19, <1>20

(* The round without delta d of work i. *)
OneLess(x, i, d) ==
    /\ x \in RoundRecord /\ x.phase = round.phase
    /\ DOMAIN x.works = DOMAIN round.works
    /\ x.works[i].deltas = round.works[i].deltas \ {d}
    /\ \A j \in DOMAIN round.works :
         /\ Shrunk(x.works[j], round.works[j]) /\ x.works[j].drops = round.works[j].drops
         /\ j # i => x.works[j] = round.works[j]

LEMMA WithoutFields ==
    ASSUME Types, NEW i \in DOMAIN round.works, NEW d
    PROVE  OneLess(Without(i, d), i, d) /\ Without(i, d).poisoned = round.poisoned
<1> DEFINE w == round.works[i]
           D == w.deltas \ {d}
           y == [w EXCEPT !.deltas = D]
           ws == [round.works EXCEPT ![i] = y]
           x == [round EXCEPT !.works = ws]
<1>1. /\ round.works \in Seq(WorkRecord) /\ DOMAIN round.works = 1..Len(round.works)
      /\ w \in WorkRecord /\ Len(round.works) \in Nat
  BY RoundFields, ElementOfSeq
<1>2. D \in SUBSET DeltaRecord /\ D \subseteq w.deltas
  BY <1>1 DEF WorkRecord
<1>3. Without(i, d) = x
  BY DEF Without, Types, RoundRecord
<1> HIDE DEF D
<1>4. y \in WorkRecord /\ Shrunk(y, w) /\ y.deltas = D /\ y.drops = w.drops
  BY <1>1, <1>2 DEF WorkRecord, Shrunk
<1> HIDE DEF y
<1>5. /\ ws \in Seq(WorkRecord) /\ DOMAIN ws = DOMAIN round.works /\ ws[i] = y
      /\ \A j \in DOMAIN round.works : j # i => ws[j] = round.works[j]
  BY <1>1, <1>4
<1> HIDE DEF ws, w
<1>6. /\ x \in RoundRecord /\ x.phase = round.phase /\ x.works = ws
      /\ x.poisoned = round.poisoned
  BY <1>5 DEF Types, RoundRecord
<1> HIDE DEF x
<1>7. \A j \in DOMAIN round.works :
         /\ Shrunk(ws[j], round.works[j]) /\ ws[j].drops = round.works[j].drops
  BY <1>4, <1>5 DEF Shrunk, w
<1> QED  BY <1>3, <1>4, <1>5, <1>6, <1>7 DEF OneLess, D, w

(* The delta whose turn it is: nothing of its view is ahead of it in the round. *)
NextDelta(i, d) ==
    /\ round.phase = "write" /\ i \in DOMAIN round.works
    /\ d \in round.works[i].deltas /\ d \in DeltaRecord
    /\ \A j \in DOMAIN round.works : j < i => d.view \notin ViewsOf(round.works[j])

LEMMA TurnDelta ==
    ASSUME Types, NEW i \in DOMAIN round.works, Turn(i), NEW d \in Todo(i)
    PROVE  NextDelta(i, d)
<1>1. /\ round.phase = "write" /\ \A j \in Written : i <= j
      /\ d \in round.works[i].deltas /\ d.view \notin round.poisoned
  BY DEF Turn, Todo
<1>2. d \in DeltaRecord
  BY <1>1, AppliedType
<1>3. ASSUME NEW j \in DOMAIN round.works, j < i PROVE d.view \notin ViewsOf(round.works[j])
  <2> SUFFICES ASSUME d.view \in ViewsOf(round.works[j]) PROVE FALSE
    OBVIOUS
  <2>1. PICK e \in round.works[j].deltas : e.view = d.view
    BY DEF ViewsOf
  <2>2. j \in Written
    BY <1>1, <2>1 DEF Written, Todo
  <2>3. i \in Nat /\ j \in Nat
    BY LineParts DEF Parts
  <2> QED  BY <1>1, <1>3, <2>2, <2>3
<1> QED  BY <1>1, <1>2, <1>3 DEF NextDelta

LEMMA WriteStep ==
    ASSUME Types, NEW i \in DOMAIN round.works, Write(i)
    PROVE  /\ Types' /\ UNCHANGED <<store, live, owed, queue, hdl, count>>
           /\ \E d : /\ NextDelta(i, d) /\ OneLess(round', i, d)
                     /\ edges' = [edges EXCEPT ![d.view] = Applied(d)]
                     /\ \A v \in Views : row'[v] = "none" <=> row[v] = "none"
<1>1. PICK d \in Todo(i) :
         /\ edges' = [edges EXCEPT ![d.view] = Applied(d)]
         /\ row' = IF d.op = "full" /\ row[d.view] # "none"
                   THEN [row EXCEPT ![d.view] = "ready"] ELSE row
         /\ round' = Without(i, d)
  BY DEF Write
<1>2. Turn(i) /\ UNCHANGED <<store, live, owed, queue, hdl, count>>
  BY DEF Write
<1>3. NextDelta(i, d)
  BY <1>2, TurnDelta
<1>4. OneLess(round', i, d)
  BY <1>1, WithoutFields
<1>5. d.view \in Views /\ d \in round.works[i].deltas /\ round.phase = "write"
  BY <1>3 DEF NextDelta, DeltaRecord
<1>6. edges' \in [Views -> [Records -> EdgeRecord]]
  <2>1. Applied(d) \in [Records -> EdgeRecord]
    BY <1>5, AppliedType
  <2> QED  BY <1>1, <1>5, <2>1 DEF Types
<1>7. /\ row' \in [Views -> {"none", "materializing", "ready"}]
      /\ \A v \in Views : row'[v] = "none" <=> row[v] = "none"
  BY <1>1, <1>5 DEF Types
<1>8. Types'
  BY <1>2, <1>4, <1>5, <1>6, <1>7 DEF Types, OneLess
<1> QED  BY <1>1, <1>2, <1>3, <1>4, <1>7, <1>8

LEMMA WriteFailsStep ==
    ASSUME Types, NEW i \in DOMAIN round.works, WriteFails(i)
    PROVE  /\ Types' /\ UNCHANGED <<store, live, row, owed, queue, hdl>>
           /\ count'.events = count.events
           /\ \E d : /\ NextDelta(i, d)
                     /\ \/ edges' = edges
                        \/ /\ d.op = "full"
                           /\ \A v \in Views : v # d.view => edges'[v] = edges[v]
                     /\ \/ row[d.view] = "none" /\ OneLess(round', i, d)
                        \/ round'.works = round.works /\ round'.phase = round.phase
<1>1. PICK d \in Todo(i) :
         /\ \/ UNCHANGED edges
            \/ /\ d.op = "full"
               /\ \E part \in SUBSET d.recs \ {d.recs} :
                    edges' = [edges EXCEPT ![d.view] = Related(NoEdges, d.view, part)]
         /\ round' = [IF row[d.view] = "none" THEN Without(i, d) ELSE round
                        EXCEPT !.poisoned = @ \cup {d.view}]
  BY DEF WriteFails
<1>2. Turn(i) /\ Fault("write") /\ UNCHANGED <<store, live, row, owed, queue, hdl>>
  BY DEF WriteFails
<1>3. NextDelta(i, d)
  BY <1>2, TurnDelta
<1>4. d.view \in Views /\ d \in round.works[i].deltas /\ round.phase = "write"
  BY <1>3 DEF NextDelta, DeltaRecord
<1>5. /\ count' \in [events : 0..MaxEvents, requests : Nat, faults : Nat]
      /\ count'.events = count.events
  BY <1>2, FaultCounted
<1>6. /\ edges' \in [Views -> [Records -> EdgeRecord]]
      /\ \/ edges' = edges
         \/ /\ d.op = "full"
            /\ \A v \in Views : v # d.view => edges'[v] = edges[v]
  <2>1. CASE edges' = edges
    BY <2>1 DEF Types
  <2>2. CASE edges' # edges
    <3>1. PICK part : edges' = [edges EXCEPT ![d.view] = Related(NoEdges, d.view, part)]
      BY <1>1, <2>2
    <3>2. Related(NoEdges, d.view, part) \in [Records -> EdgeRecord]
      BY <1>4, NoEdgesType, RelatedType
    <3> QED  BY <1>1, <1>4, <2>2, <3>1, <3>2 DEF Types
  <2> QED  BY <2>1, <2>2
<1>7. /\ round' \in RoundRecord /\ round'.phase = "write"
      /\ \/ row[d.view] = "none" /\ OneLess(round', i, d)
         \/ round'.works = round.works
  <2>1. CASE row[d.view] = "none"
    <3> DEFINE x == Without(i, d)
               P == x.poisoned \cup {d.view}
    <3>1. OneLess(x, i, d) /\ x.poisoned = round.poisoned
      BY WithoutFields
    <3>2. round' = [x EXCEPT !.poisoned = P]
      BY <1>1, <2>1
    <3>3. P \in SUBSET Views
      BY <1>4, <3>1, RoundFields
    <3> HIDE DEF x, P
    <3>4. x \in RoundRecord
      BY <3>1 DEF OneLess
    <3>5. round' \in RoundRecord /\ round'.phase = x.phase /\ round'.works = x.works
      BY <3>2, <3>3, <3>4 DEF RoundRecord
    <3>6. OneLess(round', i, d)
      BY <3>1, <3>5 DEF OneLess
    <3> QED  BY <1>4, <2>1, <3>5, <3>6 DEF OneLess
  <2>2. CASE row[d.view] # "none"
    BY <1>1, <1>4, <2>2 DEF Types, RoundRecord
  <2> QED  BY <2>1, <2>2
<1>8. Types'
  BY <1>2, <1>5, <1>6, <1>7 DEF Types
<1> QED  BY <1>2, <1>3, <1>4, <1>5, <1>6, <1>7, <1>8

LEMMA CleanupFailsStep ==
    ASSUME Types, CleanupFails
    PROVE  /\ Types' /\ UNCHANGED <<store, live, row, edges, owed, hdl>>
           /\ round' = NoRound /\ count'.events = count.events
           /\ \E p : Renumbered(Line, Line', p) /\ \A v : Keeps(Line, Line', p, v)
<1>1. /\ Fault("cleanup") /\ Park(round.works) /\ round' = NoRound
      /\ UNCHANGED <<store, live, row, edges, owed, hdl>>
  BY DEF CleanupFails
<1>2. /\ count' \in [events : 0..MaxEvents, requests : Nat, faults : Nat]
      /\ count'.events = count.events
  BY <1>1, FaultCounted
<1> QED  BY <1>1, <1>2, ParkStep

LEMMA EndRoundStep ==
    ASSUME Types, EndRound
    PROVE  /\ Types' /\ UNCHANGED <<store, live, row, edges, owed, hdl, count>>
           /\ round' = NoRound
           /\ \E p : Renumbered(Line, Line', p) /\ \A v : Keeps(Line, Line', p, v)
<1>1. /\ Park(round.works) /\ round' = NoRound
      /\ UNCHANGED <<store, live, row, edges, owed, hdl, count>>
  BY DEF EndRound
<1>2. count' \in [events : 0..MaxEvents, requests : Nat, faults : Nat]
  BY <1>1 DEF Types
<1> QED  BY <1>1, <1>2, ParkStep

(* G is line H with w behind it. *)
Behind(G, H, w) ==
    /\ DOMAIN H = 1..Len(H) /\ Len(H) \in Nat /\ DOMAIN G = 1..Len(H) + 1
    /\ G[Len(H) + 1] = w
    /\ \A j \in DOMAIN H : j \in DOMAIN G /\ G[j] = H[j]

LEMMA ConcatAppend ==
    ASSUME NEW a \in Seq(WorkRecord), NEW b \in Seq(WorkRecord), NEW w \in WorkRecord
    PROVE  a \o Append(b, w) = Append(a \o b, w) /\ a \o b \in Seq(WorkRecord)
OBVIOUS

LEMMA LineAppend ==
    ASSUME Types, NEW w \in WorkRecord, queue' = Append(queue, w), round' = round
    PROVE  Behind(Line', Line, w)
<1>1. queue \in Seq(WorkRecord) /\ round.works \in Seq(WorkRecord)
  BY RoundFields DEF Types
<1>2. /\ round.works \o Append(queue, w) = Append(round.works \o queue, w)
      /\ round.works \o queue \in Seq(WorkRecord)
  BY <1>1, ConcatAppend
<1>3. Line' = Append(Line, w) /\ Line \in Seq(WorkRecord)
  BY <1>2 DEF Line
<1> QED  BY <1>3 DEF Behind

(* G is line H with what it has for v outdated. *)
Aged(G, H, v) ==
    /\ DOMAIN H = 1..Len(H) /\ Len(G) = Len(H) /\ Len(H) \in Nat /\ DOMAIN G = 1..Len(H)
    /\ \A j \in DOMAIN H : H[j] \in WorkRecord /\ G[j] = OutdatedWork(H[j], v)

LEMMA LineAged ==
    ASSUME Types, NEW v \in Views
    PROVE  /\ Aged(Outdated(round.works, v) \o Outdated(queue, v), Line, v)
           /\ Len(Outdated(round.works, v)) = Len(round.works)
           /\ Outdated(round.works, v) \in Seq(WorkRecord)
           /\ Outdated(queue, v) \in Seq(WorkRecord)
<1> DEFINE a == Outdated(round.works, v)
           b == Outdated(queue, v)
<1>1. queue \in Seq(WorkRecord) /\ round.works \in Seq(WorkRecord)
  BY RoundFields DEF Types
<1>2. /\ a \in Seq(WorkRecord) /\ Len(a) = Len(round.works)
      /\ \A i \in 1..Len(round.works) : a[i] = OutdatedWork(round.works[i], v)
  BY <1>1, OutdatedSeq
<1>3. /\ b \in Seq(WorkRecord) /\ Len(b) = Len(queue)
      /\ \A i \in 1..Len(queue) : b[i] = OutdatedWork(queue[i], v)
  BY <1>1, OutdatedSeq
<1> HIDE DEF a, b
<1>4. Parts(Line, round.works, queue) /\ Parts(a \o b, a, b)
  BY <1>1, <1>2, <1>3, LineParts, PartsOf
<1>5. DOMAIN Line = 1..Len(Line) /\ Len(Line) \in Nat /\ DOMAIN (a \o b) = 1..Len(Line)
  BY <1>2, <1>3, <1>4 DEF Parts
<1>6. ASSUME NEW j \in DOMAIN Line
      PROVE  Line[j] \in WorkRecord /\ (a \o b)[j] = OutdatedWork(Line[j], v)
  <2>1. Line[j] \in WorkRecord /\ j \in DOMAIN (a \o b)
    BY <1>4, <1>5 DEF Parts
  <2>2. CASE j \in DOMAIN round.works
    <3>1. j \in 1..Len(round.works) /\ Line[j] = round.works[j] /\ (a \o b)[j] = a[j]
      BY <1>2, <1>4, <2>2 DEF Parts
    <3> QED  BY <1>2, <2>1, <3>1
  <2>3. CASE j \notin DOMAIN round.works
    <3>1. j - Len(round.works) \in 1..Len(queue) /\ Line[j] = queue[j - Len(round.works)]
      BY <1>4, <2>3 DEF Parts
    <3>2. (a \o b)[j] = b[j - Len(round.works)]
      BY <1>2, <1>4, <2>1, <2>3 DEF Parts
    <3> QED  BY <1>3, <2>1, <3>1, <3>2
  <2> QED  BY <2>2, <2>3
<1>7. Len(a \o b) = Len(Line)
  BY <1>2, <1>3, <1>4 DEF Parts
<1> QED  BY <1>2, <1>3, <1>5, <1>6, <1>7 DEF Aged, a, b

(* Everything for v is outdated, and w comes behind it. *)
LEMMA LineAgedAppend ==
    ASSUME Types, NEW v \in Views, NEW w \in WorkRecord,
           round'.works = Outdated(round.works, v), queue' = Append(Outdated(queue, v), w)
    PROVE  \E G : Aged(G, Line, v) /\ Behind(Line', G, w)
<1> DEFINE a == Outdated(round.works, v)
           b == Outdated(queue, v)
<1>1. Aged(a \o b, Line, v) /\ a \in Seq(WorkRecord) /\ b \in Seq(WorkRecord)
  BY LineAged
<1>2. Line' = a \o Append(b, w)
  BY DEF Line
<1> HIDE DEF a, b
<1>3. a \o Append(b, w) = Append(a \o b, w)
  BY <1>1, ConcatAppend
<1>4. PICK G : G = a \o b
  OBVIOUS
<1>5. G \in Seq(WorkRecord) /\ Line' = Append(G, w)
  BY <1>1, <1>2, <1>3, <1>4
<1>6. Behind(Line', G, w)
  BY <1>5 DEF Behind
<1> QED  BY <1>1, <1>4, <1>6

-----------------------------------------------------------------------------
(* What is true of every work, whatever fails. *)

(* A handler whose registration has not been completed. *)
Cold(x) == x.pc \in {"meta", "rollback"}

(* One delta for a view; a work that waits for its registration has nothing to drop, and
   one that will never be published nothing to write. *)
Sound(w) ==
    /\ \A d, e \in w.deltas : d.view = e.view => d = e
    /\ w.by # Nobody => w.ready = "no" /\ w.drops = {}
    /\ w.ready = "no" => w.by # Nobody
    /\ w.ready = "never" => Empty(w)

(* A work that waits does so for a registration of its view. *)
Owned(w, H) ==
    w.by # Nobody =>
        /\ w.by \in Handlers /\ Cold(H[w.by])
        /\ \A d \in w.deltas : d.view = H[w.by].view /\ (d.current => H[w.by].current)

(* No work is newer than the rows. *)
Dated(w, rows, n) ==
    \A r \in Records : w.vers[r] <= n + 1 /\ (rows[r] = 0 \/ w.vers[r] <= rows[r])

WorkOK(w, H, rows, n) == Sound(w) /\ Owned(w, H) /\ Dated(w, rows, n)

WorksOK ==
    /\ \A i \in DOMAIN Line : WorkOK(Line[i], hdl, store, count.events)
    /\ \A i \in DOMAIN round.works : round.works[i].ready = "yes"
    /\ round.phase = "write" => \A i \in DOMAIN round.works : round.works[i].drops = {}
    /\ \A r \in Records : store[r] <= count.events + 1

(* A registration under way goes on, and not for another view; it is taken over at most for
   the views in V. *)
Goes(H, G, V) ==
    \A h \in Handlers : Cold(H[h]) =>
        /\ Cold(G[h]) /\ G[h].view = H[h].view
        /\ H[h].view \notin V => (H[h].current => G[h].current)

LEMMA ShrunkOK ==
    ASSUME NEW H, NEW G, Goes(H, G, {}), NEW rows, NEW n, NEW w, NEW x,
           x.deltas \subseteq w.deltas, x.drops \subseteq w.drops,
           x.vers = w.vers, x.by = w.by, x.ready = w.ready,
           WorkOK(w, H, rows, n)
    PROVE  WorkOK(x, G, rows, n)
<1>1. Sound(x)
  BY DEF WorkOK, Sound, Empty
<1>2. Owned(x, G)
  BY DEF WorkOK, Owned, Goes
<1>3. Dated(x, rows, n)
  BY DEF WorkOK, Dated
<1> QED  BY <1>1, <1>2, <1>3 DEF WorkOK

LEMMA OutdatedOK ==
    ASSUME NEW H, NEW G, NEW v \in Views, Goes(H, G, {v}), NEW rows, NEW n,
           NEW w \in WorkRecord, WorkOK(w, H, rows, n)
    PROVE  WorkOK(OutdatedWork(w, v), G, rows, n)
<1> DEFINE x == OutdatedWork(w, v)
<1>1. x.drops = w.drops /\ x.vers = w.vers /\ x.by = w.by /\ x.ready = w.ready
  BY OutdatedWorkFields
<1>2. /\ Current(x, v) = {}
      /\ \A e \in x.deltas : \E d \in w.deltas : d.view = e.view /\ (e.current => d = e)
      /\ (\A d, e \in w.deltas : d.view = e.view => d = e) =>
             \A d, e \in x.deltas : d.view = e.view => d = e
  BY OutdatedWorkDeltas
<1> HIDE DEF x
<1>3. Sound(x)
  BY <1>1, <1>2 DEF WorkOK, Sound, Empty
<1>4. \A e \in x.deltas : e.current => e.view # v
  BY <1>2 DEF Current
<1>5. Owned(x, G)
  BY <1>1, <1>2, <1>4 DEF WorkOK, Owned, Goes
<1>6. Dated(x, rows, n)
  BY <1>1 DEF WorkOK, Dated
<1> QED  BY <1>3, <1>5, <1>6 DEF WorkOK, x

LEMMA ReadiedOK ==
    ASSUME NEW H, NEW G, NEW h \in Handlers, NEW r \in {"yes", "never"}, NEW rows, NEW n,
           \A g \in Handlers : g # h /\ Cold(H[g]) =>
               Cold(G[g]) /\ G[g].view = H[g].view /\ (H[g].current => G[g].current),
           NEW w, NEW x, WorkOK(w, H, rows, n),
           x.deltas = w.deltas, x.drops = w.drops, x.vers = w.vers,
           w.by = h => x.by = Nobody /\ x.ready = r,
           w.by # h => x = w,
           w.by = h /\ r = "never" => \A d \in w.deltas : ~d.current
    PROVE  WorkOK(x, G, rows, n)
<1>1. Sound(x)
  BY NobodyAssumption DEF WorkOK, Sound, Empty
<1>2. Owned(x, G)
  BY NobodyAssumption DEF WorkOK, Owned
<1>3. Dated(x, rows, n)
  BY DEF WorkOK, Dated
<1> QED  BY <1>1, <1>2, <1>3 DEF WorkOK

(* Only what waits ahead is moved or shrinks. *)
LEMMA WorksRenumbered ==
    ASSUME WorksOK, NEW p, Renumbered(Line, Line', p), Goes(hdl, hdl', {}),
           store' = store, count'.events = count.events
    PROVE  \A i \in DOMAIN Line' : WorkOK(Line'[i], hdl', store', count'.events)
<1> SUFFICES ASSUME NEW i \in DOMAIN Line'
             PROVE  WorkOK(Line'[i], hdl', store', count'.events)
  OBVIOUS
<1> DEFINE w == Line[p[i]]
           x == Line'[i]
<1>1. /\ p[i] \in DOMAIN Line /\ x.deltas \subseteq w.deltas /\ x.drops \subseteq w.drops
      /\ x.vers = w.vers /\ x.by = w.by /\ x.ready = w.ready
  BY DEF Renumbered
<1>2. WorkOK(w, hdl, store, count.events)
  BY <1>1 DEF WorksOK
<1>3. PICK H, G, rows, n, a, b : /\ H = hdl /\ G = hdl' /\ rows = store /\ n = count.events
                                 /\ a = w /\ b = x
  OBVIOUS
<1> HIDE DEF w, x
<1>4. /\ Goes(H, G, {}) /\ WorkOK(a, H, rows, n)
      /\ b.deltas \subseteq a.deltas /\ b.drops \subseteq a.drops
      /\ b.vers = a.vers /\ b.by = a.by /\ b.ready = a.ready
  BY <1>1, <1>2, <1>3
<1>5. WorkOK(b, G, rows, n)
  BY <1>4, ShrunkOK
<1> QED  BY <1>3, <1>5 DEF x

(* A new work comes behind the others. *)
LEMMA WorksBehind ==
    ASSUME NEW H, NEW G, NEW K, NEW w, NEW rows, NEW n,
           \A i \in DOMAIN G : WorkOK(G[i], H, rows, n),
           Behind(K, G, w), WorkOK(w, H, rows, n)
    PROVE  \A i \in DOMAIN K : WorkOK(K[i], H, rows, n)
<1> SUFFICES ASSUME NEW i \in DOMAIN K PROVE WorkOK(K[i], H, rows, n)
  OBVIOUS
<1>1. i = Len(G) + 1 \/ i \in DOMAIN G
  BY DEF Behind
<1> QED  BY <1>1 DEF Behind

LEMMA WorksAged ==
    ASSUME WorksOK, NEW v \in Views, NEW H, Goes(hdl, H, {v}), NEW G, Aged(G, Line, v)
    PROVE  \A i \in DOMAIN G : WorkOK(G[i], H, store, count.events)
<1> SUFFICES ASSUME NEW i \in DOMAIN G PROVE WorkOK(G[i], H, store, count.events)
  OBVIOUS
<1>1. /\ i \in DOMAIN Line /\ Line[i] \in WorkRecord /\ G[i] = OutdatedWork(Line[i], v)
      /\ WorkOK(Line[i], hdl, store, count.events)
  BY DEF Aged, WorksOK
<1>2. PICK F, rows, n, w : F = hdl /\ rows = store /\ n = count.events /\ w = Line[i]
  OBVIOUS
<1>3. WorkOK(OutdatedWork(w, v), H, rows, n)
  <2>1. Goes(F, H, {v}) /\ w \in WorkRecord /\ WorkOK(w, F, rows, n)
    BY <1>1, <1>2
  <2> QED  BY <2>1, OutdatedOK
<1> QED  BY <1>1, <1>2, <1>3

LEMMA LineSame ==
    ASSUME queue' = queue, round' = round
    PROVE  /\ Line' = Line /\ Renumbered(Line, Line', SameOrder)
           /\ \A v : Keeps(Line, Line', SameOrder, v)
<1>1. Line' = Line
  BY DEF Line
<1> QED  BY <1>1 DEF Renumbered, Keeps, SameOrder

LEMMA GoesOther ==
    ASSUME NEW h \in Handlers, ~Cold(hdl[h]),
           \A g \in Handlers : g # h => hdl'[g] = hdl[g]
    PROVE  Goes(hdl, hdl', {})
BY DEF Goes

(* The queue and the round are left alone. *)
LEMMA QuietWorks ==
    ASSUME WorksOK, queue' = queue, round' = round, store' = store,
           count'.events = count.events, Goes(hdl, hdl', {})
    PROVE  WorksOK'
<1>1. \A i \in DOMAIN Line' : WorkOK(Line'[i], hdl', store', count'.events)
  BY LineSame, WorksRenumbered
<1> QED  BY <1>1 DEF WorksOK

(* An action that does not concern the publisher: the queue, the round and the rows stay,
   and a registration that has not been completed goes on. *)
Quiet ==
    /\ queue' = queue /\ round' = round /\ store' = store /\ count'.events = count.events
    /\ Goes(hdl, hdl', {})

LEMMA JoinQuiet == ASSUME Types, NEW h \in Handlers, NEW v \in Views, Join(h, v) PROVE Quiet
<1>1. hdl[h].pc = "idle" /\ Requests /\ UNCHANGED <<store, live, row, edges, queue, round>>
  BY DEF Join, Serving
<1>2. \A g \in Handlers : g # h => hdl'[g] = hdl[g]
  BY JoinHandler
<1>3. Goes(hdl, hdl', {})
  BY <1>1, <1>2, GoesOther DEF Cold
<1> QED  BY <1>1, <1>3, RequestCounted DEF Quiet

LEMMA JoinMetaQuiet == ASSUME Types, NEW h \in Handlers, JoinMeta(h) PROVE Quiet
<1>1. hdl[h].pc = "join" /\ UNCHANGED <<store, live, edges, owed, queue, round, count>>
  BY Zenon DEF JoinMeta
<1>2. \A g \in Handlers : g # h => hdl'[g] = hdl[g]
  BY JoinMetaHandler
<1>3. Goes(hdl, hdl', {})
  BY <1>1, <1>2, GoesOther DEF Cold
<1> QED  BY <1>1, <1>3 DEF Quiet

LEMMA ProbeQuiet == ASSUME Types, NEW h \in Handlers, Probe(h) PROVE Quiet
<1>1. hdl[h].pc = "probe" /\ UNCHANGED <<store, live, row, edges, owed, queue, round, count>>
  BY Zenon DEF Probe
<1>2. \A g \in Handlers : g # h => hdl'[g] = hdl[g]
  BY ProbeHandler
<1>3. Goes(hdl, hdl', {})
  BY <1>1, <1>2, GoesOther DEF Cold
<1> QED  BY <1>1, <1>3 DEF Quiet

LEMMA CheckQuiet == ASSUME Types, NEW h \in Handlers, Check(h) PROVE Quiet
<1>1. /\ hdl[h].pc = "check" /\ UNCHANGED <<store, live, row, edges, owed, queue, round, count>>
      /\ Answer(h) \/ Goto(h, "repair")
  BY DEF Check
<1>2. \A g \in Handlers : g # h => hdl'[g] = hdl[g]
  BY <1>1, AnswerIdle, SetPc DEF Phases
<1>3. Goes(hdl, hdl', {})
  BY <1>1, <1>2, GoesOther DEF Cold
<1> QED  BY <1>1, <1>3 DEF Quiet

LEMMA RepairRowQuiet == ASSUME Types, NEW h \in Handlers, RepairRow(h) PROVE Quiet
<1>1. /\ hdl[h].pc = "repair" /\ UNCHANGED <<store, live, edges, owed, queue, round, count>>
      /\ Answer(h) \/ Goto(h, "snapshot")
  BY DEF RepairRow
<1>2. \A g \in Handlers : g # h => hdl'[g] = hdl[g]
  BY <1>1, AnswerIdle, SetPc DEF Phases
<1>3. Goes(hdl, hdl', {})
  BY <1>1, <1>2, GoesOther DEF Cold
<1> QED  BY <1>1, <1>3 DEF Quiet

LEMMA DeleteRowQuiet == ASSUME Types, NEW v \in Views, DeleteRow(v) PROVE Quiet
<1>1. Requests /\ UNCHANGED <<store, live, queue, round, hdl>>
  BY DEF DeleteRow
<1>2. Goes(hdl, hdl', {})
  BY <1>1 DEF Goes
<1> QED  BY <1>1, <1>2, RequestCounted DEF Quiet

LEMMA RefusedQuiet ==
    ASSUME Types, NEW h \in Handlers, hdl[h].pc = "meta", Goto(h, "rollback")
    PROVE  /\ Goes(hdl, hdl', {})
           /\ hdl' \in [Handlers -> HandlerRecord]
           /\ hdl'[h].pc = "rollback" /\ hdl'[h].view = hdl[h].view
           /\ hdl'[h].current <=> hdl[h].current
           /\ \A g \in Handlers : g # h => hdl'[g] = hdl[g]
<1>1. "rollback" \in Phases
  BY DEF Phases
<1>2. /\ hdl' \in [Handlers -> HandlerRecord]
      /\ hdl'[h].pc = "rollback" /\ hdl'[h].view = hdl[h].view
      /\ hdl'[h].current <=> hdl[h].current
      /\ \A g \in Handlers : g # h => hdl'[g] = hdl[g]
  BY <1>1, SetPc
<1>3. Goes(hdl, hdl', {})
  BY <1>2 DEF Goes, Cold
<1> QED  BY <1>2, <1>3

-----------------------------------------------------------------------------
(* The publisher's own steps, and what they make of the line: nothing that the views in V
   still need is lost or overtaken. *)

Published(V) ==
    /\ store' = store /\ hdl' = hdl /\ live' = live /\ owed' = owed
    /\ count'.events = count.events
    /\ \A v \in Views : row'[v] = "none" <=> row[v] = "none"
    /\ \A i \in DOMAIN round'.works : round'.works[i].ready = "yes"
    /\ round'.phase = "write" => \A i \in DOMAIN round'.works : round'.works[i].drops = {}
    /\ \E p : Renumbered(Line, Line', p) /\ \A v \in V : Keeps(Line, Line', p, v)

LEMMA PublishedWorks ==
    ASSUME WorksOK, NEW V, Published(V) PROVE WorksOK'
<1>1. PICK p : Renumbered(Line, Line', p)
  BY DEF Published
<1>2. Goes(hdl, hdl', {}) /\ store' = store /\ count'.events = count.events
  BY DEF Published, Goes
<1>3. \A i \in DOMAIN Line' : WorkOK(Line'[i], hdl', store', count'.events)
  BY <1>1, <1>2, WorksRenumbered
<1> QED  BY <1>2, <1>3 DEF Published, WorksOK

LEMMA SourceSeenPublished ==
    ASSUME Types, WorksOK, NEW i \in DOMAIN queue, SourceSeen(i)
    PROVE  Types' /\ Published(Views) /\ edges' = edges /\ round' = round
<1>1. /\ Types' /\ UNCHANGED <<store, live, row, edges, owed, round, hdl, count>>
      /\ DOMAIN queue' = DOMAIN queue
      /\ \A j \in DOMAIN queue : Alike(queue'[j], queue[j])
  BY SourceSeenStep
<1>2. \E p : Renumbered(Line, Line', p) /\ \A v \in Views : Keeps(Line, Line', p, v)
  BY <1>1, InPlace
<1> QED  BY <1>1, <1>2 DEF Published, WorksOK

LEMMA RetryDuePublished ==
    ASSUME Types, WorksOK, NEW i \in DOMAIN queue, RetryDue(i)
    PROVE  Types' /\ Published(Views) /\ edges' = edges /\ round' = round
<1>1. /\ Types' /\ UNCHANGED <<store, live, row, edges, owed, round, hdl, count>>
      /\ DOMAIN queue' = DOMAIN queue
      /\ \A j \in DOMAIN queue : Alike(queue'[j], queue[j])
  BY RetryDueStep
<1>2. \E p : Renumbered(Line, Line', p) /\ \A v \in Views : Keeps(Line, Line', p, v)
  BY <1>1, InPlace
<1> QED  BY <1>1, <1>2 DEF Published, WorksOK

LEMMA TakePublished ==
    ASSUME Types, WorksOK, NEW i \in DOMAIN queue, Take(i)
    PROVE  Types' /\ Published(Views) /\ edges' = edges /\ round'.phase \in {"idle", "taken"}
<1>1. UNCHANGED <<store, live, row, edges, owed, hdl, count>>
  BY DEF Take
<1>2. CASE Obsolete(queue[i])
  <2>1. Parts(Line, round.works, queue)
    BY LineParts
  <2>2. Len(round.works) + i \in DOMAIN Line /\ Line[Len(round.works) + i] = queue[i]
    BY <2>1 DEF Parts
  <2>3. Sound(queue[i])
    BY <2>2 DEF WorksOK, WorkOK
  <2>4. Empty(queue[i])
    BY <1>2, <2>3 DEF Sound, Obsolete, Empty
  <2>5. /\ Types' /\ round' = NoRound
        /\ \E p : Renumbered(Line, Line', p) /\ \A v \in Views : Keeps(Line, Line', p, v)
    BY <1>2, <2>4, TakeObsolete
  <2>6. DOMAIN round'.works = {} /\ round'.phase = "idle"
    BY <2>5, NoRoundType
  <2> QED  BY <1>1, <2>5, <2>6 DEF Published
<1>3. CASE ~Obsolete(queue[i])
  <2>1. /\ Types' /\ round'.phase = "taken"
        /\ \A j \in DOMAIN round'.works : round'.works[j].ready = "yes"
        /\ \E p : Renumbered(Line, Line', p) /\ \A v \in Views : Keeps(Line, Line', p, v)
    BY <1>3, TakeWorks
  <2> QED  BY <1>1, <2>1 DEF Published
<1> QED  BY <1>2, <1>3

LEMMA FilterPublished ==
    ASSUME Types, WorksOK, Filter
    PROVE  /\ Types' /\ Published(live) /\ edges' = edges
           /\ \A j \in DOMAIN round'.works : \A d \in round'.works[j].deltas : d.current
<1>1. /\ Types' /\ UNCHANGED <<store, live, row, edges, owed, queue, hdl, count>>
      /\ round'.phase \in {"idle", "cleanup"}
      /\ DOMAIN round'.works \subseteq DOMAIN round.works
      /\ \A j \in DOMAIN round'.works :
           /\ round'.works[j].ready = round.works[j].ready
           /\ \A d \in round'.works[j].deltas : d.current
      /\ \E p : Renumbered(Line, Line', p) /\ \A v \in live : Keeps(Line, Line', p, v)
  BY FilterStep
<1>2. \A j \in DOMAIN round'.works : round'.works[j].ready = "yes"
  BY <1>1 DEF WorksOK
<1> QED  BY <1>1, <1>2 DEF Published

LEMMA CleanupPublished ==
    ASSUME Types, WorksOK, Cleanup PROVE Types' /\ Published(Views)
<1>1. /\ Types' /\ UNCHANGED <<store, live, row, owed, queue, hdl, count>>
      /\ DOMAIN round'.works = DOMAIN round.works
      /\ \A j \in DOMAIN round.works : round'.works[j].drops = {}
      /\ \A j \in DOMAIN round.works : Shrunk(round'.works[j], round.works[j])
      /\ Renumbered(Line, Line', SameOrder)
      /\ \A v : Keeps(Line, Line', SameOrder, v)
  BY CleanupStep
<1>2. \A j \in DOMAIN round'.works : round'.works[j].ready = "yes"
  BY <1>1 DEF WorksOK, Shrunk
<1> QED  BY <1>1, <1>2 DEF Published

LEMMA ParkPublished ==
    ASSUME Types, WorksOK, CleanupFails \/ EndRound
    PROVE  Types' /\ Published(Views) /\ edges' = edges /\ round' = NoRound
<1>1. /\ Types' /\ UNCHANGED <<store, live, row, edges, owed, hdl>>
      /\ round' = NoRound /\ count'.events = count.events
      /\ \E p : Renumbered(Line, Line', p) /\ \A v : Keeps(Line, Line', p, v)
  BY CleanupFailsStep, EndRoundStep
<1>2. DOMAIN round'.works = {} /\ round'.phase = "idle"
  BY <1>1, NoRoundType
<1> QED  BY <1>1, <1>2 DEF Published

(* A delta is gone from the round; what the other views wait for has not changed. *)
LEMMA OneLessPublished ==
    ASSUME Types, Types', WorksOK, NEW i \in DOMAIN round.works, NEW d \in round.works[i].deltas,
           OneLess(round', i, d), queue' = queue
    PROVE  /\ Renumbered(Line, Line', SameOrder)
           /\ DOMAIN Line' = DOMAIN Line /\ Len(round'.works) = Len(round.works)
           /\ \A v \in Views : d.view # v \/ ~d.current => Keeps(Line, Line', SameOrder, v)
           /\ i \in DOMAIN Line /\ Line[i] = round.works[i] /\ Line'[i] = round'.works[i]
           /\ \A j \in DOMAIN Line : j # i => Line'[j] = Line[j]
           /\ \A j \in DOMAIN round'.works : round'.works[j].ready = "yes"
           /\ round'.phase = "write" => \A j \in DOMAIN round'.works : round'.works[j].drops = {}
<1>1. /\ DOMAIN round'.works = DOMAIN round.works /\ round'.phase = round.phase
      /\ \A j \in DOMAIN round.works : Shrunk(round'.works[j], round.works[j])
      /\ \A j \in DOMAIN round.works : round'.works[j].drops = round.works[j].drops
      /\ \A j \in DOMAIN round.works : j # i => round'.works[j] = round.works[j]
  BY DEF OneLess
<1>2. /\ DOMAIN Line' = DOMAIN Line /\ Len(round'.works) = Len(round.works)
      /\ Renumbered(Line, Line', SameOrder)
      /\ \A j \in DOMAIN round.works : Line'[j] = round'.works[j]
      /\ \A j \in DOMAIN Line : j \notin DOMAIN round.works => Line'[j] = Line[j]
  BY <1>1, RoundInPlace
<1>3. \A j \in DOMAIN round.works : j \in DOMAIN Line /\ Line[j] = round.works[j]
  BY LineParts DEF Parts
<1>4. ASSUME NEW v \in Views, d.view # v \/ ~d.current
      PROVE  Keeps(Line, Line', SameOrder, v)
  <2>1. \A j \in DOMAIN round.works : Current(round'.works[j], v) = Current(round.works[j], v)
    <3>1. round'.works[i].deltas = round.works[i].deltas \ {d}
      BY DEF OneLess
    <3>2. Current(round'.works[i], v) = Current(round.works[i], v)
      BY <1>4, <3>1 DEF Current
    <3> QED  BY <1>1, <3>2
  <2> QED  BY <1>1, <2>1, RoundKeeps
<1>5. /\ \A j \in DOMAIN round'.works : round'.works[j].ready = "yes"
      /\ round'.phase = "write" => \A j \in DOMAIN round'.works : round'.works[j].drops = {}
  BY <1>1 DEF WorksOK, Shrunk
<1> QED  BY <1>1, <1>2, <1>3, <1>4, <1>5

(* The views a write of d does not concern. *)
Apart(d) == {v \in Views : d.view # v \/ ~d.current}

LEMMA WritePublished ==
    ASSUME Types, WorksOK, NEW i \in DOMAIN round.works, Write(i)
    PROVE  /\ Types' /\ round'.phase = "write"
           /\ \E d : /\ NextDelta(i, d) /\ OneLess(round', i, d) /\ Published(Apart(d))
                     /\ edges' = [edges EXCEPT ![d.view] = Applied(d)]
<1>1. /\ Types' /\ UNCHANGED <<store, live, owed, queue, hdl, count>>
  BY WriteStep
<1>2. PICK d : /\ NextDelta(i, d) /\ OneLess(round', i, d)
               /\ edges' = [edges EXCEPT ![d.view] = Applied(d)]
               /\ \A v \in Views : row'[v] = "none" <=> row[v] = "none"
  BY WriteStep
<1>3. d \in round.works[i].deltas /\ round.phase = "write" /\ round'.phase = round.phase
  BY <1>2 DEF NextDelta, OneLess
<1>4. /\ Renumbered(Line, Line', SameOrder)
      /\ \A v \in Views : d.view # v \/ ~d.current => Keeps(Line, Line', SameOrder, v)
      /\ \A j \in DOMAIN round'.works : round'.works[j].ready = "yes"
      /\ round'.phase = "write" => \A j \in DOMAIN round'.works : round'.works[j].drops = {}
  BY <1>1, <1>2, <1>3, OneLessPublished
<1>5. \A v \in Apart(d) : Keeps(Line, Line', SameOrder, v)
  BY <1>4 DEF Apart
<1>6. Published(Apart(d))
  BY <1>1, <1>2, <1>4, <1>5 DEF Published
<1> QED  BY <1>1, <1>2, <1>3, <1>6

LEMMA WriteFailsPublished ==
    ASSUME Types, WorksOK, NEW i \in DOMAIN round.works, WriteFails(i)
    PROVE  /\ Types' /\ round'.phase = "write"
           /\ \E d : /\ NextDelta(i, d)
                     /\ \/ edges' = edges
                        \/ /\ d.op = "full"
                           /\ \A v \in Views : v # d.view => edges'[v] = edges[v]
                     /\ \/ row[d.view] = "none" /\ OneLess(round', i, d) /\ Published(Apart(d))
                        \/ Line' = Line /\ round'.works = round.works /\ Published(Views)
                     /\ row' = row /\ queue' = queue
<1>1. /\ Types' /\ UNCHANGED <<store, live, row, owed, queue, hdl>>
      /\ count'.events = count.events
  BY WriteFailsStep
<1>2. PICK d : /\ NextDelta(i, d)
               /\ \/ edges' = edges
                  \/ /\ d.op = "full"
                     /\ \A v \in Views : v # d.view => edges'[v] = edges[v]
               /\ \/ row[d.view] = "none" /\ OneLess(round', i, d)
                  \/ round'.works = round.works /\ round'.phase = round.phase
  BY WriteFailsStep
<1>3. d \in round.works[i].deltas /\ round.phase = "write"
  BY <1>2 DEF NextDelta
<1>4. CASE row[d.view] = "none" /\ OneLess(round', i, d)
  <2>1. round'.phase = round.phase
    BY <1>4 DEF OneLess
  <2>2. /\ Renumbered(Line, Line', SameOrder)
        /\ \A v \in Views : d.view # v \/ ~d.current => Keeps(Line, Line', SameOrder, v)
        /\ \A j \in DOMAIN round'.works : round'.works[j].ready = "yes"
        /\ round'.phase = "write" => \A j \in DOMAIN round'.works : round'.works[j].drops = {}
    BY <1>1, <1>3, <1>4, OneLessPublished
  <2>3. \A v \in Apart(d) : Keeps(Line, Line', SameOrder, v)
    BY <2>2 DEF Apart
  <2>4. Published(Apart(d))
    BY <1>1, <2>2, <2>3 DEF Published
  <2> QED  BY <1>1, <1>2, <1>3, <1>4, <2>1, <2>4
<1>5. CASE round'.works = round.works /\ round'.phase = round.phase
  <2>1. Line' = Line
    BY <1>1, <1>5 DEF Line
  <2>2. Renumbered(Line, Line', SameOrder) /\ \A v \in Views : Keeps(Line, Line', SameOrder, v)
    BY <2>1 DEF Renumbered, Keeps, SameOrder
  <2>3. Published(Views)
    BY <1>1, <1>5, <2>2 DEF Published, WorksOK
  <2> QED  BY <1>1, <1>2, <1>3, <1>5, <2>1, <2>3
<1> QED  BY <1>2, <1>4, <1>5

-----------------------------------------------------------------------------
(* What the handlers make of the line. *)

LEMMA IngestWorks ==
    ASSUME Types, WorksOK, NEW r \in Records, Ingest(r)
    PROVE  WorksOK'
<1>1. PICK op \in {"add", "update", "remove"}, rows \in [Records -> 0..MaxEvents + 1],
           w \in WorkRecord :
         /\ rows = [store EXCEPT ![r] = IF op = "remove" THEN 0 ELSE count.events + 2]
         /\ store' = rows
         /\ w = IngestWork(op, r, rows)
         /\ IF live = {} /\ op # "remove" THEN queue' = queue ELSE queue' = Append(queue, w)
  BY IngestStep
<1>2. /\ count' = [count EXCEPT !.events = @ + 1]
      /\ UNCHANGED <<live, row, edges, owed, round, hdl>>
  BY Zenon DEF Ingest
<1> DEFINE n == count.events
<1>3. n \in Nat /\ count'.events = n + 1
  BY <1>2, BoundsAssumption DEF Types
<1>4. /\ w.by = Nobody /\ w.ready = "yes"
      /\ \A s \in Records : w.vers[s] = 0 \/ w.vers[s] = rows[s]
      /\ \A d, e \in w.deltas : d.view = e.view => d = e
  <2>1. w = IngestWork(op, r, rows)
    BY <1>1
  <2> QED  BY <2>1, IngestWorkFields DEF ChangeOf
<1> HIDE DEF n
<1>5. \A s \in Records : store[s] \in Nat /\ store[s] <= n + 1
  BY BoundsAssumption DEF Types, WorksOK, n
<1>6. \A s \in Records : rows[s] \in Nat /\ rows[s] <= n + 2 /\ (rows[s] = store[s] \/ rows[s] = 0 \/ rows[s] = n + 2)
  <2>1. \A s \in Records : rows[s] = store[s] \/ rows[s] = 0 \/ rows[s] = n + 2
    BY <1>1 DEF Types, n
  <2> QED  BY <1>3, <1>5, <2>1
<1>7. ASSUME NEW i \in DOMAIN Line PROVE WorkOK(Line[i], hdl', rows, n + 1)
  <2>1. Line[i] \in WorkRecord
    BY LineParts DEF Parts
  <2>2. \A s \in Records : Line[i].vers[s] \in Nat
    BY <2>1, BoundsAssumption DEF WorkRecord
  <2>3. Sound(Line[i]) /\ Owned(Line[i], hdl) /\ Dated(Line[i], store, n)
    BY DEF WorksOK, WorkOK, n
  <2>4. Dated(Line[i], rows, n + 1)
    <3> SUFFICES ASSUME NEW s \in Records
                 PROVE  Line[i].vers[s] <= n + 1 + 1 /\ (rows[s] = 0 \/ Line[i].vers[s] <= rows[s])
      BY DEF Dated
    <3>1. Line[i].vers[s] <= n + 1 /\ (store[s] = 0 \/ Line[i].vers[s] <= store[s])
      BY <2>3 DEF Dated
    <3>2. Line[i].vers[s] \in Nat
      BY <2>2
    <3> QED  BY <1>3, <1>5, <1>6, <3>1, <3>2
  <2>5. hdl' = hdl
    BY <1>2
  <2> QED  BY <2>3, <2>4, <2>5 DEF WorkOK
<1>8. WorkOK(w, hdl', rows, n + 1)
  <2>1. Sound(w)
    BY <1>4 DEF Sound
  <2>2. Owned(w, hdl')
    BY <1>4 DEF Owned
  <2>3. Dated(w, rows, n + 1)
    BY <1>3, <1>4, <1>6 DEF Dated
  <2> QED  BY <2>1, <2>2, <2>3 DEF WorkOK
<1>9. \A i \in DOMAIN Line' : WorkOK(Line'[i], hdl', rows, n + 1)
  <2>1. CASE queue' = queue
    <3>1. Line' = Line
      BY <1>2, <2>1 DEF Line
    <3> QED  BY <1>7, <3>1
  <2>2. CASE queue' = Append(queue, w)
    <3>1. Behind(Line', Line, w)
      BY <1>2, <2>2, LineAppend
    <3>2. PICK H, G, K, m : H = hdl' /\ G = Line /\ K = Line' /\ m = n + 1
      OBVIOUS
    <3>3. /\ \A i \in DOMAIN G : WorkOK(G[i], H, rows, m)
          /\ Behind(K, G, w) /\ WorkOK(w, H, rows, m)
      BY <1>7, <1>8, <3>1, <3>2
    <3>4. \A i \in DOMAIN K : WorkOK(K[i], H, rows, m)
      BY <3>3, WorksBehind
    <3> QED  BY <3>2, <3>4
  <2> QED  BY <1>1, <2>1, <2>2
<1>10. round' = round
  BY <1>2
<1>11. \A s \in Records : rows[s] <= n + 1 + 1
  BY <1>3, <1>6
<1> QED  BY <1>1, <1>3, <1>9, <1>10, <1>11 DEF WorksOK

LEMMA RepairSnapshotWorks ==
    ASSUME Types, WorksOK, NEW h \in Handlers, RepairSnapshot(h)
    PROVE  WorksOK' /\ Goes(hdl, hdl', {})
<1>1. /\ hdl[h].pc = "snapshot" /\ Answer(h)
      /\ UNCHANGED <<store, live, row, edges, owed, round, count>>
      /\ hdl[h].view \notin live => queue' = queue
      /\ hdl[h].view \in live => queue' = Append(queue, FullWork(hdl[h].view, Nobody))
  BY RepairSnapshotStep
<1>2. Goes(hdl, hdl', {})
  BY <1>1, AnswerIdle, GoesOther DEF Cold
<1>3. CASE queue' = queue
  BY <1>1, <1>2, <1>3, QuietWorks
<1>4. CASE queue' # queue
  <2>1. PICK w : w = FullWork(hdl[h].view, Nobody)
    OBVIOUS
  <2>2. hdl[h].view \in Views /\ Nobody \in Handlers \cup {Nobody}
    BY RowSet
  <2>3. /\ w \in WorkRecord /\ w.by = Nobody /\ w.ready = "yes" /\ w.drops = {}
        /\ w.deltas = {Delta(hdl[h].view, "full", Members)}
        /\ \A r \in Records : w.vers[r] = 0 \/ w.vers[r] = store[r]
    BY <2>1, <2>2, FullWorkFields
  <2>4. queue' = Append(queue, w)
    BY <1>1, <1>4, <2>1
  <2>5. Behind(Line', Line, w)
    BY <1>1, <2>3, <2>4, LineAppend
  <2>6. WorkOK(w, hdl', store, count.events)
    <3>1. Sound(w) /\ Owned(w, hdl')
      BY <2>3 DEF Sound, Owned
    <3>2. Dated(w, store, count.events)
      <4>1. \A r \in Records : store[r] <= count.events + 1 /\ store[r] \in Nat /\ count.events \in Nat
        BY BoundsAssumption DEF WorksOK, Types
      <4> QED  BY <2>3, <4>1 DEF Dated
    <3> QED  BY <3>1, <3>2 DEF WorkOK
  <2>7. \A i \in DOMAIN Line : WorkOK(Line[i], hdl', store, count.events)
    <3> SUFFICES ASSUME NEW i \in DOMAIN Line PROVE WorkOK(Line[i], hdl', store, count.events)
      OBVIOUS
    <3>1. Sound(Line[i]) /\ Owned(Line[i], hdl) /\ Dated(Line[i], store, count.events)
      BY DEF WorksOK, WorkOK
    <3>2. Owned(Line[i], hdl')
      BY <1>2, <3>1 DEF Owned, Goes
    <3> QED  BY <3>1, <3>2 DEF WorkOK
  <2>8. PICK H, G, K, rows, m : /\ H = hdl' /\ G = Line /\ K = Line' /\ rows = store
                                /\ m = count.events
    OBVIOUS
  <2>9. /\ \A i \in DOMAIN G : WorkOK(G[i], H, rows, m)
        /\ Behind(K, G, w) /\ WorkOK(w, H, rows, m)
    BY <2>5, <2>6, <2>7, <2>8
  <2>10. \A i \in DOMAIN K : WorkOK(K[i], H, rows, m)
    BY <2>9, WorksBehind
  <2> QED  BY <1>1, <1>2, <2>8, <2>10 DEF WorksOK
<1> QED  BY <1>2, <1>3, <1>4

(* Line H once the works of h are told that they may go, or never will. *)
Told(G, H, h, r) ==
    /\ DOMAIN G = DOMAIN H
    /\ \A j \in DOMAIN H :
         /\ G[j].deltas = H[j].deltas /\ G[j].drops = H[j].drops /\ G[j].vers = H[j].vers
         /\ H[j].by = h => G[j].by = Nobody /\ G[j].ready = r
         /\ H[j].by # h => G[j] = H[j]

LEMMA ConcatTold ==
    ASSUME NEW a \in Seq(WorkRecord), NEW b \in Seq(WorkRecord), NEW h \in Handlers,
           NEW r \in {"yes", "never"}, \A i \in DOMAIN a : a[i].by # h
    PROVE  Told(a \o Readied(b, h, r), a \o b, h, r)
<1> DEFINE c == Readied(b, h, r)
<1>1. /\ c \in Seq(WorkRecord) /\ Len(c) = Len(b)
      /\ \A i \in 1..Len(b) :
           /\ c[i].deltas = b[i].deltas /\ c[i].drops = b[i].drops /\ c[i].vers = b[i].vers
           /\ b[i].by = h => c[i].by = Nobody /\ c[i].ready = r
           /\ b[i].by # h => c[i] = b[i]
  BY ReadiedSeq
<1> HIDE DEF c
<1>2. Parts(a \o b, a, b) /\ Parts(a \o c, a, c)
  BY <1>1, PartsOf
<1>3. PICK H, G : H = a \o b /\ G = a \o c
  OBVIOUS
<1>4. Parts(H, a, b) /\ Parts(G, a, c)
  BY <1>2, <1>3
<1>5. DOMAIN G = DOMAIN H
  BY <1>1, <1>4 DEF Parts
<1>6. ASSUME NEW j \in DOMAIN H
      PROVE  /\ G[j].deltas = H[j].deltas /\ G[j].drops = H[j].drops /\ G[j].vers = H[j].vers
             /\ H[j].by = h => G[j].by = Nobody /\ G[j].ready = r
             /\ H[j].by # h => G[j] = H[j]
  <2>1. CASE j \in DOMAIN a
    <3>1. H[j] = a[j] /\ G[j] = a[j]
      BY <1>4, <2>1 DEF Parts
    <3> QED  BY <2>1, <3>1
  <2>2. CASE j \notin DOMAIN a
    <3>1. j - Len(a) \in 1..Len(b) /\ H[j] = b[j - Len(a)]
      BY <1>4, <2>2 DEF Parts
    <3>2. G[j] = c[j - Len(a)]
      BY <1>4, <1>5, <2>2 DEF Parts
    <3> QED  BY <1>1, <3>1, <3>2
  <2> QED  BY <2>1, <2>2
<1>7. Told(G, H, h, r)
  BY <1>5, <1>6 DEF Told
<1> QED  BY <1>3, <1>7 DEF c

(* What is being written has been told. *)
LEMMA RoundTold ==
    ASSUME Types, WorksOK, NEW i \in DOMAIN round.works
    PROVE  round.works[i].by = Nobody /\ round.works[i].ready = "yes"
<1>1. round.works[i].ready = "yes" /\ i \in DOMAIN Line /\ Line[i] = round.works[i]
  BY LineParts DEF Parts, WorksOK
<1>2. Sound(Line[i])
  BY <1>1 DEF WorksOK, WorkOK
<1> QED  BY <1>1, <1>2 DEF Sound

(* A registration ends; others may be taken over. *)
Ends(H, G, h) ==
    \A g \in Handlers : g # h /\ Cold(H[g]) =>
        Cold(G[g]) /\ G[g].view = H[g].view /\ (H[g].current => G[g].current)

LEMMA WorksTold ==
    ASSUME NEW H, NEW F, NEW h \in Handlers, NEW r \in {"yes", "never"}, NEW rows, NEW n,
           Ends(H, F, h), NEW G, NEW K, Told(K, G, h, r),
           \A i \in DOMAIN G : WorkOK(G[i], H, rows, n),
           r = "never" => \A i \in DOMAIN G : G[i].by = h => \A d \in G[i].deltas : ~d.current
    PROVE  \A i \in DOMAIN K : WorkOK(K[i], F, rows, n)
<1> SUFFICES ASSUME NEW i \in DOMAIN K PROVE WorkOK(K[i], F, rows, n)
  OBVIOUS
<1>1. i \in DOMAIN G /\ WorkOK(G[i], H, rows, n)
  BY DEF Told
<1>2. PICK w, x : w = G[i] /\ x = K[i]
  OBVIOUS
<1>3. /\ x.deltas = w.deltas /\ x.drops = w.drops /\ x.vers = w.vers
      /\ w.by = h => x.by = Nobody /\ x.ready = r
      /\ w.by # h => x = w
      /\ WorkOK(w, H, rows, n)
      /\ w.by = h /\ r = "never" => \A d \in w.deltas : ~d.current
  BY <1>1, <1>2 DEF Told
<1>4. \A g \in Handlers : g # h /\ Cold(H[g]) =>
         Cold(F[g]) /\ F[g].view = H[g].view /\ (H[g].current => F[g].current)
  BY DEF Ends
<1>5. WorkOK(x, F, rows, n)
  BY <1>3, <1>4, ReadiedOK
<1> QED  BY <1>2, <1>5

LEMMA MetaWrittenLine ==
    ASSUME Types, WorksOK, NEW h \in Handlers, MetaWritten(h)
    PROVE  /\ Told(Line', Line, h, "yes") /\ Ends(hdl, hdl', h) /\ hdl'[h].pc = "idle"
           /\ \A g \in Handlers : g # h => hdl'[g] = hdl[g]
           /\ round' = round /\ hdl[h].pc = "meta"
           /\ row' = [row EXCEPT ![hdl[h].view] = StateFor(hdl[h].rows)]
           /\ UNCHANGED <<store, live, edges, owed, count>>
<1>1. /\ queue' = Readied(queue, h, "yes") /\ Answer(h)
      /\ row' = [row EXCEPT ![hdl[h].view] = StateFor(hdl[h].rows)]
      /\ UNCHANGED <<store, live, edges, owed, round, count>> /\ hdl[h].pc = "meta"
  BY DEF MetaWritten
<1>2. \A i \in DOMAIN round.works : round.works[i].by # h
  BY RoundTold, NobodyAssumption
<1>3. Told(Line', Line, h, "yes")
  <2>1. Line' = round.works \o Readied(queue, h, "yes")
    BY <1>1 DEF Line
  <2>2. round.works \in Seq(WorkRecord) /\ queue \in Seq(WorkRecord)
    BY RoundFields DEF Types
  <2>3. Told(round.works \o Readied(queue, h, "yes"), round.works \o queue, h, "yes")
    BY <1>2, <2>2, ConcatTold
  <2> QED  BY <2>1, <2>3 DEF Line
<1>4. hdl'[h].pc = "idle" /\ \A g \in Handlers : g # h => hdl'[g] = hdl[g]
  BY <1>1, AnswerIdle
<1>5. Ends(hdl, hdl', h)
  BY <1>4 DEF Ends
<1> QED  BY <1>1, <1>3, <1>4, <1>5

LEMMA MetaWrittenWorks ==
    ASSUME Types, WorksOK, NEW h \in Handlers, MetaWritten(h) PROVE WorksOK'
<1>1. /\ Told(Line', Line, h, "yes") /\ Ends(hdl, hdl', h)
      /\ round' = round /\ UNCHANGED <<store, live, edges, owed, count>>
  BY MetaWrittenLine
<1>2. PICK H, F, G, K, rows, n : /\ H = hdl /\ F = hdl' /\ G = Line /\ K = Line'
                                 /\ rows = store /\ n = count.events
  OBVIOUS
<1>3. /\ Ends(H, F, h) /\ Told(K, G, h, "yes")
      /\ \A i \in DOMAIN G : WorkOK(G[i], H, rows, n)
  BY <1>1, <1>2 DEF WorksOK
<1>4. \A i \in DOMAIN K : WorkOK(K[i], F, rows, n)
  BY <1>3, WorksTold
<1> QED  BY <1>1, <1>2, <1>4 DEF WorksOK

(* A registration is given up: what is queued for its view is outdated if nobody has taken
   the view over, and the works that wait for it are never published. *)
LEMMA AbandonLine ==
    ASSUME Types, WorksOK, NEW h \in Handlers, Abandon(h)
    PROVE  LET v == hdl[h].view
           IN  /\ v \in Views /\ Len(round'.works) = Len(round.works)
               /\ hdl[h].current => \E G : Aged(G, Line, v) /\ Told(Line', G, h, "never")
               /\ ~hdl[h].current => Told(Line', Line, h, "never")
<1> DEFINE v == hdl[h].view
<1>1. /\ v \in Views
      /\ hdl[h].current =>
           /\ queue' = Readied(Outdated(queue, v), h, "never")
           /\ round'.works = Outdated(round.works, v)
      /\ ~hdl[h].current => queue' = Readied(queue, h, "never") /\ round' = round
  BY AbandonStep
<1> HIDE DEF v
<1>2. round.works \in Seq(WorkRecord) /\ queue \in Seq(WorkRecord)
  BY RoundFields DEF Types
<1>3. \A i \in DOMAIN round.works : round.works[i].by # h
  BY RoundTold, NobodyAssumption
<1>4. CASE hdl[h].current
  <2> DEFINE a == Outdated(round.works, v)
             b == Outdated(queue, v)
  <2>1. /\ Aged(a \o b, Line, v) /\ Len(a) = Len(round.works)
        /\ a \in Seq(WorkRecord) /\ b \in Seq(WorkRecord)
    BY <1>1, LineAged
  <2>2. \A i \in DOMAIN a : a[i].by # h
    <3> SUFFICES ASSUME NEW i \in DOMAIN a PROVE a[i].by # h
      OBVIOUS
    <3>1. i \in 1..Len(round.works) /\ i \in DOMAIN round.works
      BY <1>2, <2>1
    <3>2. a[i] = OutdatedWork(round.works[i], v) /\ round.works[i] \in WorkRecord
      BY <1>1, <1>2, <3>1, OutdatedSeq, ElementOfSeq
    <3>3. a[i].by = round.works[i].by
      BY <1>1, <3>2, OutdatedWorkFields
    <3> QED  BY <1>3, <3>1, <3>3
  <2>3. Line' = a \o Readied(b, h, "never")
    BY <1>1, <1>4 DEF Line
  <2> HIDE DEF a, b
  <2>4. Told(a \o Readied(b, h, "never"), a \o b, h, "never")
    BY <2>1, <2>2, ConcatTold
  <2>5. round'.works = a
    BY <1>1, <1>4 DEF a
  <2> QED  BY <1>1, <1>4, <2>1, <2>3, <2>4, <2>5 DEF v
<1>5. CASE ~hdl[h].current
  <2>1. Line' = round.works \o Readied(queue, h, "never")
    BY <1>1, <1>5 DEF Line
  <2>2. Told(round.works \o Readied(queue, h, "never"), round.works \o queue, h, "never")
    BY <1>2, <1>3, ConcatTold
  <2>3. Told(Line', Line, h, "never")
    BY <2>1, <2>2 DEF Line
  <2> QED  BY <1>1, <1>5, <2>3 DEF v
<1> QED  BY <1>4, <1>5

(* The round when what it has for v is outdated. *)
LEMMA RoundAged ==
    ASSUME Types, WorksOK, NEW v \in Views, round'.works = Outdated(round.works, v),
           round'.phase = round.phase
    PROVE  /\ \A i \in DOMAIN round'.works : round'.works[i].ready = "yes"
           /\ round'.phase = "write" => \A i \in DOMAIN round'.works : round'.works[i].drops = {}
<1>1. /\ round.works \in Seq(WorkRecord) /\ DOMAIN round.works = 1..Len(round.works)
      /\ \A i \in DOMAIN round.works : round.works[i] \in WorkRecord
  BY RoundFields, ElementOfSeq
<1>2. /\ DOMAIN round'.works = DOMAIN round.works
      /\ \A i \in DOMAIN round.works : round'.works[i] = OutdatedWork(round.works[i], v)
  <2>1. /\ Outdated(round.works, v) \in Seq(WorkRecord)
        /\ Len(Outdated(round.works, v)) = Len(round.works)
        /\ \A i \in 1..Len(round.works) : Outdated(round.works, v)[i] = OutdatedWork(round.works[i], v)
    BY <1>1, OutdatedSeq
  <2> QED  BY <1>1, <2>1
<1>3. \A i \in DOMAIN round.works :
         /\ round'.works[i].ready = round.works[i].ready
         /\ round'.works[i].drops = round.works[i].drops
  BY <1>1, <1>2, OutdatedWorkFields
<1> QED  BY <1>2, <1>3 DEF WorksOK

LEMMA AbandonWorks ==
    ASSUME Types, WorksOK, NEW h \in Handlers, Cold(hdl[h]), Abandon(h), store' = store,
           count'.events = count.events
    PROVE  WorksOK'
<1> DEFINE v == hdl[h].view
<1>1. /\ v \in Views /\ round'.phase = round.phase
      /\ hdl[h].current => round'.works = Outdated(round.works, v)
      /\ ~hdl[h].current => round' = round
      /\ \A g \in Handlers : g # h =>
           /\ hdl'[g].pc = hdl[g].pc /\ hdl'[g].view = hdl[g].view
           /\ ~hdl[h].current \/ hdl[g].view # v => hdl'[g] = hdl[g]
  BY AbandonStep
<1>2. /\ hdl[h].current => \E G : Aged(G, Line, v) /\ Told(Line', G, h, "never")
      /\ ~hdl[h].current => Told(Line', Line, h, "never")
  BY AbandonLine
<1> HIDE DEF v
<1>3. PICK rows, n, K, F : rows = store /\ n = count.events /\ K = Line' /\ F = hdl'
  OBVIOUS
<1>4. \A i \in DOMAIN K : WorkOK(K[i], F, rows, n)
  <2>1. CASE hdl[h].current
    <3>1. PICK G : Aged(G, Line, v) /\ Told(Line', G, h, "never")
      BY <1>2, <2>1
    <3>2. PICK H : H = [g \in Handlers |-> IF g = h THEN hdl[h] ELSE hdl'[g]]
      OBVIOUS
    <3>3. Goes(hdl, H, {v})
      BY <1>1, <3>2 DEF Goes, Cold
    <3>4. Ends(H, F, h)
      BY <1>3, <3>2 DEF Ends
    <3>5. \A i \in DOMAIN G : WorkOK(G[i], H, rows, n)
      BY <1>1, <1>3, <3>1, <3>3, WorksAged
    <3>6. ASSUME NEW i \in DOMAIN G, G[i].by = h, NEW d \in G[i].deltas PROVE ~d.current
      <4>1. i \in DOMAIN Line /\ Line[i] \in WorkRecord /\ G[i] = OutdatedWork(Line[i], v)
        BY <3>1 DEF Aged
      <4>2. Line[i].by = h
        BY <1>1, <3>6, <4>1, OutdatedWorkFields
      <4>3. \A e \in Line[i].deltas : e.view = v
        <5>1. Owned(Line[i], hdl)
          BY <4>1 DEF WorksOK, WorkOK
        <5> QED  BY <4>2, <5>1, NobodyAssumption DEF Owned, v
      <4>4. /\ Current(G[i], v) = {}
            /\ \E e \in Line[i].deltas : e.view = d.view
        BY <1>1, <3>6, <4>1, OutdatedWorkDeltas
      <4> QED  BY <3>6, <4>3, <4>4 DEF Current
    <3>7. Told(K, G, h, "never")
      BY <1>3, <3>1
    <3> QED  BY <3>4, <3>5, <3>6, <3>7, WorksTold
  <2>2. CASE ~hdl[h].current
    <3>1. PICK G, H : G = Line /\ H = hdl
      OBVIOUS
    <3>2. Ends(H, F, h)
      BY <1>1, <1>3, <2>2, <3>1 DEF Ends
    <3>3. \A i \in DOMAIN G : WorkOK(G[i], H, rows, n)
      BY <1>3, <3>1 DEF WorksOK
    <3>4. ASSUME NEW i \in DOMAIN G, G[i].by = h, NEW d \in G[i].deltas PROVE ~d.current
      <4>1. Owned(G[i], H)
        BY <3>3 DEF WorkOK
      <4> QED  BY <2>2, <3>1, <3>4, <4>1, NobodyAssumption DEF Owned
    <3>5. Told(K, G, h, "never")
      BY <1>2, <1>3, <2>2, <3>1
    <3> QED  BY <3>2, <3>3, <3>4, <3>5, WorksTold
  <2> QED  BY <2>1, <2>2
<1>5. /\ \A i \in DOMAIN round'.works : round'.works[i].ready = "yes"
      /\ round'.phase = "write" => \A i \in DOMAIN round'.works : round'.works[i].drops = {}
  <2>1. CASE hdl[h].current
    BY <1>1, <2>1, RoundAged
  <2>2. CASE ~hdl[h].current
    BY <1>1, <2>2 DEF WorksOK
  <2> QED  BY <2>1, <2>2
<1> QED  BY <1>3, <1>4, <1>5 DEF WorksOK

LEMMA RegisterColdLine ==
    ASSUME Types, NEW h \in Handlers, NEW v \in Views, RegisterCold(h, v)
    PROVE  /\ \E G : Aged(G, Line, v) /\ Behind(Line', G, FullWork(v, h))
           /\ Len(round'.works) = Len(round.works)
           /\ round'.works = Outdated(round.works, v) /\ round'.phase = round.phase
           /\ hdl'[h].pc = "meta" /\ hdl'[h].view = v /\ hdl'[h].current
           /\ \A g \in Handlers : g # h =>
                /\ hdl'[g].pc = hdl[g].pc /\ hdl'[g].view = hdl[g].view
                /\ hdl[g].view = v => ~hdl'[g].current
                /\ hdl[g].view # v => hdl'[g] = hdl[g]
<1>1. /\ queue' = Append(Outdated(queue, v), FullWork(v, h))
      /\ round' = [round EXCEPT !.works = Outdated(@, v)]
  BY Zenon DEF RegisterCold, FullWork
<1>2. /\ round'.works = Outdated(round.works, v) /\ round'.phase = round.phase
  BY <1>1, OutdatedRound
<1>3. FullWork(v, h) \in WorkRecord
  BY FullWorkFields
<1>4. \E G : Aged(G, Line, v) /\ Behind(Line', G, FullWork(v, h))
  BY <1>1, <1>2, <1>3, LineAgedAppend
<1>5. Len(round'.works) = Len(round.works)
  BY <1>2, LineAged
<1>6. hdl' = [HandlersOutdated(v) EXCEPT ![h] =
                [Idle EXCEPT !.pc = "meta", !.view = v, !.rows = Cardinality(Members),
                             !.current = TRUE]]
  BY Zenon DEF RegisterCold
<1>7. /\ hdl'[h].pc = "meta" /\ hdl'[h].view = v /\ hdl'[h].current
      /\ \A g \in Handlers : g # h =>
           /\ hdl'[g].pc = hdl[g].pc /\ hdl'[g].view = hdl[g].view
           /\ hdl[g].view = v => ~hdl'[g].current
           /\ hdl[g].view # v => hdl'[g] = hdl[g]
  BY <1>6, ColdHandler, ZenonT(40)
<1> QED  BY <1>2, <1>4, <1>5, <1>7

LEMMA UnregisterLine ==
    ASSUME Types, NEW v \in Views, Unregister(v)
    PROVE  /\ \E G : Aged(G, Line, v) /\ Behind(Line', G, DropWork(v))
           /\ Len(round'.works) = Len(round.works)
           /\ round'.works = Outdated(round.works, v) /\ round'.phase = round.phase
           /\ \A g \in Handlers :
                /\ hdl'[g].pc = hdl[g].pc /\ hdl'[g].view = hdl[g].view
                /\ hdl[g].view = v => ~hdl'[g].current
                /\ hdl[g].view # v => hdl'[g] = hdl[g]
<1>1. /\ queue' = Append(Outdated(queue, v), DropWork(v))
      /\ round' = [round EXCEPT !.works = Outdated(@, v)]
      /\ hdl' = HandlersOutdated(v)
  BY UnregisterStep
<1>2. /\ round'.works = Outdated(round.works, v) /\ round'.phase = round.phase
  BY <1>1, OutdatedRound
<1>3. DropWork(v) \in WorkRecord
  BY DropWorkFields
<1>4. \E G : Aged(G, Line, v) /\ Behind(Line', G, DropWork(v))
  BY <1>1, <1>2, <1>3, LineAgedAppend
<1>5. Len(round'.works) = Len(round.works)
  BY <1>2, LineAged
<1>6. \A g \in Handlers :
           /\ hdl'[g].pc = hdl[g].pc /\ hdl'[g].view = hdl[g].view
           /\ hdl[g].view = v => ~hdl'[g].current
           /\ hdl[g].view # v => hdl'[g] = hdl[g]
  BY <1>1, HandlersOutdatedFields
<1> QED  BY <1>2, <1>4, <1>5, <1>6

LEMMA RegisterColdWorks ==
    ASSUME Types, WorksOK, NEW h \in Handlers, NEW v \in Views, RegisterCold(h, v)
    PROVE  WorksOK'
<1>1. /\ Len(round'.works) = Len(round.works)
      /\ round'.works = Outdated(round.works, v) /\ round'.phase = round.phase
      /\ hdl'[h].pc = "meta" /\ hdl'[h].view = v /\ hdl'[h].current
      /\ \A g \in Handlers : g # h =>
           /\ hdl'[g].pc = hdl[g].pc /\ hdl'[g].view = hdl[g].view
           /\ hdl[g].view # v => hdl'[g] = hdl[g]
  BY RegisterColdLine
<1>2. PICK G : Aged(G, Line, v) /\ Behind(Line', G, FullWork(v, h))
  BY RegisterColdLine
<1>3. /\ hdl[h].pc = "idle" /\ count'.events = count.events /\ store' = store
  BY RegisterColdStep
<1>4. Goes(hdl, hdl', {v})
  BY <1>1, <1>3 DEF Goes, Cold
<1>5. PICK F, rows, n, K, w : /\ F = hdl' /\ rows = store /\ n = count.events /\ K = Line'
                              /\ w = FullWork(v, h)
  OBVIOUS
<1>6. \A i \in DOMAIN G : WorkOK(G[i], F, rows, n)
  BY <1>2, <1>4, <1>5, WorksAged
<1>7. /\ w \in WorkRecord /\ w.by = h /\ w.ready = "no" /\ w.drops = {}
      /\ w.deltas = {Delta(v, "full", Members)}
      /\ \A r \in Records : w.vers[r] = 0 \/ w.vers[r] = store[r]
  BY <1>5, FullWorkFields, NobodyAssumption
<1>8. WorkOK(w, F, rows, n)
  <2>1. Sound(w)
    BY <1>7, NobodyAssumption DEF Sound
  <2>2. Owned(w, F)
    <3>1. Delta(v, "full", Members).view = v
      BY DEF Delta
    <3>2. \A d \in w.deltas : d.view = v
      BY <1>7, <3>1
    <3> QED  BY <1>1, <1>5, <1>7, <3>2 DEF Owned, Cold
  <2>3. Dated(w, rows, n)
    <3>1. \A r \in Records : store[r] <= count.events + 1 /\ store[r] \in Nat /\ count.events \in Nat
      BY BoundsAssumption DEF WorksOK, Types
    <3> QED  BY <1>5, <1>7, <3>1 DEF Dated
  <2> QED  BY <2>1, <2>2, <2>3 DEF WorkOK
<1>9. Behind(K, G, w)
  BY <1>2, <1>5
<1>10. \A i \in DOMAIN K : WorkOK(K[i], F, rows, n)
  BY <1>6, <1>8, <1>9, WorksBehind
<1>11. /\ \A i \in DOMAIN round'.works : round'.works[i].ready = "yes"
       /\ round'.phase = "write" => \A i \in DOMAIN round'.works : round'.works[i].drops = {}
  BY <1>1, RoundAged
<1> QED  BY <1>3, <1>5, <1>10, <1>11 DEF WorksOK

LEMMA UnregisterWorks ==
    ASSUME Types, WorksOK, NEW v \in Views, Unregister(v) PROVE WorksOK'
<1>1. /\ round'.works = Outdated(round.works, v) /\ round'.phase = round.phase
      /\ \A g \in Handlers :
           /\ hdl'[g].pc = hdl[g].pc /\ hdl'[g].view = hdl[g].view
           /\ hdl[g].view # v => hdl'[g] = hdl[g]
  BY UnregisterLine
<1>2. PICK G : Aged(G, Line, v) /\ Behind(Line', G, DropWork(v))
  BY UnregisterLine
<1>3. count' = count /\ store' = store
  BY UnregisterStep
<1>4. Goes(hdl, hdl', {v})
  BY <1>1 DEF Goes, Cold
<1>5. PICK F, rows, n, K, w : /\ F = hdl' /\ rows = store /\ n = count.events /\ K = Line'
                              /\ w = DropWork(v)
  OBVIOUS
<1>6. \A i \in DOMAIN G : WorkOK(G[i], F, rows, n)
  BY <1>2, <1>4, <1>5, WorksAged
<1>7. /\ w \in WorkRecord /\ w.by = Nobody /\ w.ready = "yes" /\ w.deltas = {}
      /\ \A r \in Records : w.vers[r] = 0 \/ w.vers[r] = store[r]
  BY <1>5, DropWorkFields
<1>8. WorkOK(w, F, rows, n)
  <2>1. Sound(w) /\ Owned(w, F)
    BY <1>7 DEF Sound, Owned
  <2>2. Dated(w, rows, n)
    <3>1. \A r \in Records : store[r] <= count.events + 1 /\ store[r] \in Nat /\ count.events \in Nat
      BY BoundsAssumption DEF WorksOK, Types
    <3> QED  BY <1>5, <1>7, <3>1 DEF Dated
  <2> QED  BY <2>1, <2>2 DEF WorkOK
<1>9. Behind(K, G, w)
  BY <1>2, <1>5
<1>10. \A i \in DOMAIN K : WorkOK(K[i], F, rows, n)
  BY <1>6, <1>8, <1>9, WorksBehind
<1>11. /\ \A i \in DOMAIN round'.works : round'.works[i].ready = "yes"
       /\ round'.phase = "write" => \A i \in DOMAIN round'.works : round'.works[i].drops = {}
  BY <1>1, RoundAged
<1> QED  BY <1>3, <1>5, <1>10, <1>11 DEF WorksOK

-----------------------------------------------------------------------------
(* How much is admitted: the works that have something to write, and the requests that
   still hold a lease for one. *)

Busy(H) == {j \in DOMAIN H : H[j].deltas # {}}
Leased(H) == {h \in Handlers : H[h].pc \notin {"idle", "meta", "rollback"}}
Bounded == Cardinality(Busy(Line)) + Cardinality(Leased(hdl)) <= Slots

LEMMA BusyOf ==
    ASSUME NEW H, NEW n \in Nat, DOMAIN H \subseteq 1..n
    PROVE  IsFiniteSet(Busy(H)) /\ Cardinality(Busy(H)) \in Nat /\ Cardinality(Busy(H)) <= n
<1>1. IsFiniteSet(1..n) /\ Cardinality(1..n) = n
  <2>1. 1 \in Int /\ n \in Int
    OBVIOUS
  <2>2. IsFiniteSet(1..n) /\ Cardinality(1..n) = IF 1 > n THEN 0 ELSE n - 1 + 1
    BY <2>1, FS_Interval
  <2> QED  BY <2>2
<1>2. Busy(H) \in SUBSET (1..n)
  BY DEF Busy
<1> QED  BY <1>1, <1>2, FS_Subset, FS_CardinalityType

LEMMA LeasedOf ==
    ASSUME NEW H PROVE IsFiniteSet(Leased(H)) /\ Cardinality(Leased(H)) \in Nat
<1>1. Leased(H) \in SUBSET Handlers
  BY DEF Leased
<1> QED  BY <1>1, SetsAssumption, FS_Subset, FS_CardinalityType

LEMMA BusyRenumbered ==
    ASSUME NEW H, NEW G, NEW p, Renumbered(H, G, p), IsFiniteSet(Busy(H))
    PROVE  IsFiniteSet(Busy(G)) /\ Cardinality(Busy(G)) <= Cardinality(Busy(H))
<1> DEFINE f == [j \in Busy(G) |-> p[j]]
<1>1. f \in Injection(Busy(G), Busy(H))
  BY DEF Injection, IsInjective, Renumbered, Busy
<1> HIDE DEF f
<1> QED  BY <1>1, FS_Injection

LEMMA BusyBehind ==
    ASSUME NEW G, NEW K, NEW w, Behind(K, G, w), IsFiniteSet(Busy(G))
    PROVE  /\ IsFiniteSet(Busy(K)) /\ Cardinality(Busy(K)) <= Cardinality(Busy(G)) + 1
           /\ w.deltas = {} => Cardinality(Busy(K)) <= Cardinality(Busy(G))
<1> DEFINE x == Len(G) + 1
<1>1. Busy(K) \subseteq Busy(G) \cup {x} /\ (w.deltas = {} => Busy(K) \subseteq Busy(G))
  <2> SUFFICES ASSUME NEW j \in Busy(K) PROVE j \in Busy(G) \/ (j = x /\ w.deltas # {})
    OBVIOUS
  <2>1. j \in DOMAIN K /\ K[j].deltas # {}
    BY DEF Busy
  <2>2. j = x \/ j \in DOMAIN G
    BY <2>1 DEF Behind
  <2>3. CASE j = x
    BY <2>1, <2>3 DEF Behind
  <2>4. CASE j \in DOMAIN G
    BY <2>1, <2>4 DEF Behind, Busy
  <2> QED  BY <2>2, <2>3, <2>4
<1> HIDE DEF x
<1>2. /\ IsFiniteSet(Busy(G) \cup {x})
      /\ Cardinality(Busy(G) \cup {x})
           = IF x \in Busy(G) THEN Cardinality(Busy(G)) ELSE Cardinality(Busy(G)) + 1
  BY FS_AddElement
<1>3. Cardinality(Busy(G)) \in Nat
  BY FS_CardinalityType
<1>4. IsFiniteSet(Busy(K)) /\ Cardinality(Busy(K)) <= Cardinality(Busy(G) \cup {x})
  BY <1>1, <1>2, FS_Subset
<1>5. Cardinality(Busy(K)) \in Nat
  BY <1>4, FS_CardinalityType
<1>6. w.deltas = {} => Cardinality(Busy(K)) <= Cardinality(Busy(G))
  BY <1>1, FS_Subset
<1>7. Cardinality(Busy(G) \cup {x}) <= Cardinality(Busy(G)) + 1
  BY <1>2, <1>3
<1> QED  BY <1>2, <1>3, <1>4, <1>5, <1>6, <1>7

LEMMA BusyAged ==
    ASSUME NEW G, NEW H, NEW v \in Views, Aged(G, H, v) PROVE Busy(G) = Busy(H)
<1>1. DOMAIN G = DOMAIN H
  BY DEF Aged
<1>2. \A j \in DOMAIN H : G[j].deltas = {} <=> H[j].deltas = {}
  <2> SUFFICES ASSUME NEW j \in DOMAIN H PROVE G[j].deltas = {} <=> H[j].deltas = {}
    OBVIOUS
  <2>1. H[j] \in WorkRecord /\ G[j] = OutdatedWork(H[j], v)
    BY DEF Aged
  <2> QED  BY <2>1, OutdatedWorkDeltas
<1> QED  BY <1>1, <1>2 DEF Busy

LEMMA BusyTold ==
    ASSUME NEW G, NEW H, NEW h, NEW r, Told(G, H, h, r) PROVE Busy(G) = Busy(H)
BY DEF Told, Busy

(* The load now, and what admission makes of it. *)
LEMMA LoadNow ==
    ASSUME Types
    PROVE  /\ IsFiniteSet(Busy(Line)) /\ Cardinality(Busy(Line)) \in Nat
           /\ IsFiniteSet(Leased(hdl)) /\ Cardinality(Leased(hdl)) \in Nat
           /\ Leases \in Nat
           /\ Cardinality(Busy(Line)) + Cardinality(Leased(hdl)) <= Leases
<1>1. Parts(Line, round.works, queue)
  BY LineParts
<1>2. Len(Held) = Len(Line) /\ Len(Line) \in Nat /\ DOMAIN Line = 1..Len(Line)
  <2>1. Len(queue \o round.works) = Len(queue) + Len(round.works)
    BY <1>1 DEF Parts
  <2> QED  BY <1>1, <2>1 DEF Parts, Held
<1>3. /\ IsFiniteSet(Busy(Line)) /\ Cardinality(Busy(Line)) \in Nat
      /\ Cardinality(Busy(Line)) <= Len(Line)
  BY <1>2, BusyOf
<1>4. IsFiniteSet(Leased(hdl)) /\ Cardinality(Leased(hdl)) \in Nat
  BY LeasedOf
<1>5. Leases = Len(Held) + Cardinality(Leased(hdl))
  BY DEF Leases, Leased
<1> QED  BY <1>2, <1>3, <1>4, <1>5

(* Nothing is added. *)
LEMMA LoadLess ==
    ASSUME Types, Bounded, IsFiniteSet(Busy(Line)'),
           Cardinality(Busy(Line)') <= Cardinality(Busy(Line)),
           Leased(hdl') \subseteq Leased(hdl)
    PROVE  Bounded'
<1>1. /\ Cardinality(Busy(Line)) \in Nat
      /\ IsFiniteSet(Leased(hdl)) /\ Cardinality(Leased(hdl)) \in Nat
  BY LoadNow
<1>2. Cardinality(Busy(Line)') \in Nat
  BY FS_CardinalityType
<1>3. Cardinality(Leased(hdl')) <= Cardinality(Leased(hdl)) /\ Cardinality(Leased(hdl')) \in Nat
  BY <1>1, FS_Subset, LeasedOf
<1>4. Slots \in Nat
  BY BoundsAssumption
<1>5. Cardinality(Busy(Line)') + Cardinality(Leased(hdl')) <= Slots
  BY <1>1, <1>2, <1>3, <1>4 DEF Bounded
<1> QED  BY <1>5 DEF Bounded

LEMMA SameBusy ==
    ASSUME Types, queue' = queue, round' = round
    PROVE  /\ IsFiniteSet(Busy(Line)') /\ Cardinality(Busy(Line)') = Cardinality(Busy(Line))
           /\ Cardinality(Busy(Line)) \in Nat
<1>1. Busy(Line)' = Busy(Line)
  BY LineSame DEF Busy
<1> QED  BY <1>1, LoadNow

LEMMA QuietLoad ==
    ASSUME Types, Bounded, queue' = queue, round' = round, Leased(hdl') \subseteq Leased(hdl)
    PROVE  Bounded'
<1>1. /\ IsFiniteSet(Busy(Line)') /\ Cardinality(Busy(Line)') = Cardinality(Busy(Line))
      /\ Cardinality(Busy(Line)) \in Nat
  BY SameBusy
<1>2. Cardinality(Busy(Line)') <= Cardinality(Busy(Line))
  BY <1>1
<1> QED  BY <1>1, <1>2, LoadLess

LEMMA HandlerLoad ==
    ASSUME Types, Bounded, NEW h \in Handlers,
           JoinMeta(h) \/ Probe(h) \/ Check(h) \/ RepairRow(h)
    PROVE  Bounded'
<1>1. queue' = queue /\ round' = round
  BY JoinMetaQuiet, ProbeQuiet, CheckQuiet, RepairRowQuiet DEF Quiet
<1>2. hdl[h].pc \in {"join", "probe", "check", "repair"}
  BY DEF JoinMeta, Probe, Check, RepairRow
<1>3. \A g \in Handlers : g # h => hdl'[g] = hdl[g]
  <2>1. CASE JoinMeta(h)
    BY <2>1, JoinMetaHandler
  <2>2. CASE Probe(h)
    BY <2>2, ProbeHandler
  <2>3. CASE Check(h) \/ RepairRow(h)
    <3>1. Answer(h) \/ Goto(h, "repair") \/ Goto(h, "snapshot")
      BY <2>3 DEF Check, RepairRow
    <3> QED  BY <3>1, AnswerIdle, SetPc DEF Phases
  <2> QED  BY <2>1, <2>2, <2>3
<1>4. Leased(hdl') \subseteq Leased(hdl)
  BY <1>2, <1>3 DEF Leased
<1> QED  BY <1>1, <1>4, QuietLoad

LEMMA JoinLoad ==
    ASSUME Types, NEW h \in Handlers, NEW v \in Views, Join(h, v) PROVE Bounded'
<1>1. RoomToRegister /\ queue' = queue /\ round' = round
  BY DEF Join
<1>2. \A g \in Handlers : g # h => hdl'[g] = hdl[g]
  BY JoinHandler
<1>3. Leased(hdl') \subseteq Leased(hdl) \cup {h}
  BY <1>2 DEF Leased
<1>4. /\ Cardinality(Busy(Line)) \in Nat
      /\ IsFiniteSet(Leased(hdl)) /\ Cardinality(Leased(hdl)) \in Nat
      /\ Leases \in Nat /\ Cardinality(Busy(Line)) + Cardinality(Leased(hdl)) <= Leases
  BY LoadNow
<1>5. /\ IsFiniteSet(Leased(hdl) \cup {h})
      /\ Cardinality(Leased(hdl) \cup {h})
           = IF h \in Leased(hdl) THEN Cardinality(Leased(hdl)) ELSE Cardinality(Leased(hdl)) + 1
  BY <1>4, FS_AddElement
<1>6. Cardinality(Leased(hdl')) <= Cardinality(Leased(hdl) \cup {h})
  BY <1>3, <1>5, FS_Subset
<1>7. Cardinality(Leased(hdl')) \in Nat
  BY LeasedOf
<1>8. Cardinality(Busy(Line)') = Cardinality(Busy(Line))
  BY <1>1, SameBusy
<1>9. Leases + 1 <= Slots
  <2>1. Leases < Slots \div 2 /\ Slots \in Nat
    BY <1>1, BoundsAssumption DEF RoomToRegister
  <2>2. Slots \div 2 <= Slots /\ Slots \div 2 \in Nat
    BY <2>1
  <2> QED  BY <1>4, <2>1, <2>2
<1>10. Cardinality(Leased(hdl')) <= Cardinality(Leased(hdl)) + 1
  BY <1>4, <1>5, <1>6, <1>7
<1>11. Cardinality(Busy(Line)') + Cardinality(Leased(hdl')) <= Slots
  BY <1>4, <1>7, <1>8, <1>9, <1>10, BoundsAssumption
<1> QED  BY <1>11 DEF Bounded

(* A work that something is to be written for comes behind the others. *)
LEMMA LoadOneMore ==
    ASSUME Types, NEW G, Busy(G) = Busy(Line), NEW w, Behind(Line', G, w)
    PROVE  /\ Cardinality(Busy(Line)') \in Nat /\ IsFiniteSet(Busy(Line)')
           /\ Cardinality(Busy(Line)') <= Cardinality(Busy(Line)) + 1
           /\ w.deltas = {} => Cardinality(Busy(Line)') <= Cardinality(Busy(Line))
<1>1. IsFiniteSet(Busy(G))
  BY LoadNow
<1>2. PICK K : K = Line'
  OBVIOUS
<1>3. /\ IsFiniteSet(Busy(K)) /\ Cardinality(Busy(K)) <= Cardinality(Busy(G)) + 1
      /\ w.deltas = {} => Cardinality(Busy(K)) <= Cardinality(Busy(G))
  BY <1>1, <1>2, BusyBehind
<1>4. Busy(K) = Busy(Line)'
  BY <1>2 DEF Busy
<1> QED  BY <1>3, <1>4, FS_CardinalityType

LEMMA IngestLoad == ASSUME Types, Bounded, NEW r \in Records, Ingest(r) PROVE Bounded'
<1>1. PICK w \in WorkRecord : queue' = queue \/ queue' = Append(queue, w)
  BY IngestStep
<1>2. RoomToIngest /\ round' = round /\ hdl' = hdl
  BY Zenon DEF Ingest
<1>3. CASE queue' = queue
  BY <1>2, <1>3, QuietLoad
<1>4. CASE queue' = Append(queue, w)
  <2>1. Behind(Line', Line, w)
    BY <1>2, <1>4, LineAppend
  <2>2. /\ Cardinality(Busy(Line)') \in Nat
        /\ Cardinality(Busy(Line)') <= Cardinality(Busy(Line)) + 1
    BY <2>1, LoadOneMore
  <2>3. /\ Cardinality(Busy(Line)) \in Nat /\ Cardinality(Leased(hdl)) \in Nat
        /\ Leases \in Nat /\ Cardinality(Busy(Line)) + Cardinality(Leased(hdl)) <= Leases
    BY LoadNow
  <2>4. Leases < Slots /\ Slots \in Nat
    BY <1>2, BoundsAssumption DEF RoomToIngest
  <2>5. Cardinality(Busy(Line)') + Cardinality(Leased(hdl')) <= Slots
    BY <1>2, <2>2, <2>3, <2>4
  <2> QED  BY <2>5 DEF Bounded
<1> QED  BY <1>1, <1>3, <1>4

LEMMA RepairSnapshotLoad ==
    ASSUME Types, Bounded, NEW h \in Handlers, RepairSnapshot(h) PROVE Bounded'
<1>1. /\ hdl[h].pc = "snapshot" /\ Answer(h) /\ round' = round
      /\ hdl[h].view \notin live => queue' = queue
      /\ hdl[h].view \in live => queue' = Append(queue, FullWork(hdl[h].view, Nobody))
  BY RepairSnapshotStep
<1>2. hdl'[h].pc = "idle" /\ \A g \in Handlers : g # h => hdl'[g] = hdl[g]
  BY <1>1, AnswerIdle
<1>3. Leased(hdl') = Leased(hdl) \ {h} /\ h \in Leased(hdl)
  BY <1>1, <1>2 DEF Leased
<1>4. CASE queue' = queue
  BY <1>1, <1>3, <1>4, QuietLoad
<1>5. CASE queue' # queue
  <2>1. hdl[h].view \in Views /\ Nobody \in Handlers \cup {Nobody}
    BY RowSet
  <2>2. PICK w : w = FullWork(hdl[h].view, Nobody)
    OBVIOUS
  <2>3. w \in WorkRecord /\ queue' = Append(queue, w)
    BY <1>1, <1>5, <2>1, <2>2, FullWorkFields
  <2>4. Behind(Line', Line, w)
    BY <1>1, <2>3, LineAppend
  <2>5. /\ Cardinality(Busy(Line)') \in Nat
        /\ Cardinality(Busy(Line)') <= Cardinality(Busy(Line)) + 1
    BY <2>4, LoadOneMore
  <2>6. /\ Cardinality(Busy(Line)) \in Nat /\ IsFiniteSet(Leased(hdl))
        /\ Cardinality(Leased(hdl)) \in Nat
    BY LoadNow
  <2>7. Cardinality(Leased(hdl')) = Cardinality(Leased(hdl)) - 1
    BY <1>3, <2>6, FS_RemoveElement
  <2>8. Cardinality(Busy(Line)') + Cardinality(Leased(hdl')) <= Slots
    BY <2>5, <2>6, <2>7, BoundsAssumption DEF Bounded
  <2> QED  BY <2>8 DEF Bounded
<1> QED  BY <1>4, <1>5

LEMMA RegisterColdLoad ==
    ASSUME Types, NEW h \in Handlers, NEW v \in Views, RegisterCold(h, v) PROVE Bounded'
<1>1. PICK G : Aged(G, Line, v) /\ Behind(Line', G, FullWork(v, h))
  BY RegisterColdLine
<1>2. /\ hdl'[h].pc = "meta" /\ \A g \in Handlers : g # h => hdl'[g].pc = hdl[g].pc
  BY RegisterColdLine
<1>3. RoomToRegister
  BY RegisterColdStep
<1>4. Busy(G) = Busy(Line)
  BY <1>1, BusyAged
<1>5. /\ Cardinality(Busy(Line)') \in Nat
      /\ Cardinality(Busy(Line)') <= Cardinality(Busy(Line)) + 1
  BY <1>1, <1>4, LoadOneMore
<1>6. Leased(hdl') \subseteq Leased(hdl)
  BY <1>2 DEF Leased
<1>7. /\ Cardinality(Busy(Line)) \in Nat
      /\ IsFiniteSet(Leased(hdl)) /\ Cardinality(Leased(hdl)) \in Nat
      /\ Leases \in Nat /\ Cardinality(Busy(Line)) + Cardinality(Leased(hdl)) <= Leases
  BY LoadNow
<1>8. Cardinality(Leased(hdl')) <= Cardinality(Leased(hdl)) /\ Cardinality(Leased(hdl')) \in Nat
  BY <1>6, <1>7, FS_Subset, LeasedOf
<1>9. Leases + 1 <= Slots
  <2>1. Leases < Slots \div 2 /\ Slots \in Nat
    BY <1>3, BoundsAssumption DEF RoomToRegister
  <2>2. Slots \div 2 <= Slots /\ Slots \div 2 \in Nat
    BY <2>1
  <2> QED  BY <1>7, <2>1, <2>2
<1>10. Cardinality(Busy(Line)') + Cardinality(Leased(hdl')) <= Slots
  BY <1>5, <1>7, <1>8, <1>9, BoundsAssumption
<1> QED  BY <1>10 DEF Bounded

LEMMA UnregisterLoad ==
    ASSUME Types, Bounded, NEW v \in Views, Unregister(v) PROVE Bounded'
<1>1. PICK G : Aged(G, Line, v) /\ Behind(Line', G, DropWork(v))
  BY UnregisterLine
<1>2. \A g \in Handlers : hdl'[g].pc = hdl[g].pc
  BY UnregisterLine
<1>3. Busy(G) = Busy(Line)
  BY <1>1, BusyAged
<1>4. DropWork(v).deltas = {}
  BY DropWorkFields
<1>5. IsFiniteSet(Busy(Line)') /\ Cardinality(Busy(Line)') <= Cardinality(Busy(Line))
  BY <1>1, <1>3, <1>4, LoadOneMore
<1>6. Leased(hdl') \subseteq Leased(hdl)
  BY <1>2 DEF Leased
<1> QED  BY <1>5, <1>6, LoadLess

LEMMA MetaWrittenLoad ==
    ASSUME Types, WorksOK, Bounded, NEW h \in Handlers, MetaWritten(h) PROVE Bounded'
<1>1. /\ Told(Line', Line, h, "yes") /\ hdl'[h].pc = "idle"
      /\ \A g \in Handlers : g # h => hdl'[g] = hdl[g]
  BY MetaWrittenLine
<1>2. Busy(Line)' = Busy(Line)
  BY <1>1 DEF Busy, Told
<1>3. Leased(hdl') \subseteq Leased(hdl)
  BY <1>1 DEF Leased
<1>4. IsFiniteSet(Busy(Line)') /\ Cardinality(Busy(Line)') <= Cardinality(Busy(Line))
  BY <1>2, LoadNow
<1> QED  BY <1>3, <1>4, LoadLess

LEMMA AbandonLoad ==
    ASSUME Types, WorksOK, Bounded, NEW h \in Handlers, Abandon(h) PROVE Bounded'
<1>1. hdl'[h].pc = "idle" /\ \A g \in Handlers : g # h => hdl'[g].pc = hdl[g].pc
  BY AbandonStep
<1>2. PICK v \in Views : \/ \E G : Aged(G, Line, v) /\ Told(Line', G, h, "never")
                         \/ Told(Line', Line, h, "never")
  BY AbandonLine
<1>3. Busy(Line)' = Busy(Line)
  <2>1. CASE Told(Line', Line, h, "never")
    BY <2>1 DEF Busy, Told
  <2>2. CASE ~Told(Line', Line, h, "never")
    <3>1. PICK G : Aged(G, Line, v) /\ Told(Line', G, h, "never")
      BY <1>2, <2>2
    <3>2. Busy(G) = Busy(Line)
      BY <3>1, BusyAged
    <3>3. Busy(Line)' = Busy(G)
      BY <3>1 DEF Busy, Told
    <3> QED  BY <3>2, <3>3
  <2> QED  BY <2>1, <2>2
<1>4. Leased(hdl') \subseteq Leased(hdl)
  BY <1>1 DEF Leased
<1>5. IsFiniteSet(Busy(Line)') /\ Cardinality(Busy(Line)') <= Cardinality(Busy(Line))
  BY <1>3, LoadNow
<1> QED  BY <1>4, <1>5, LoadLess

LEMMA PublishedLoad ==
    ASSUME Types, Bounded, NEW V, Published(V) PROVE Bounded'
<1>1. PICK p : Renumbered(Line, Line', p)
  BY DEF Published
<1>2. hdl' = hdl
  BY DEF Published
<1>3. PICK H, G : H = Line /\ G = Line'
  OBVIOUS
<1>4. IsFiniteSet(Busy(G)) /\ Cardinality(Busy(G)) <= Cardinality(Busy(H))
  <2>1. Renumbered(H, G, p)
    BY <1>1, <1>3
  <2>2. IsFiniteSet(Busy(H))
    BY <1>3, LoadNow
  <2> QED  BY <2>1, <2>2, BusyRenumbered
<1>5. Busy(G) = Busy(Line)'
  BY <1>3 DEF Busy
<1>6. IsFiniteSet(Busy(Line)') /\ Cardinality(Busy(Line)') <= Cardinality(Busy(Line))
  BY <1>3, <1>4, <1>5
<1> QED  BY <1>2, <1>6, LoadLess

-----------------------------------------------------------------------------
(* The invariant that holds whatever fails. *)
Base == Types /\ WorksOK /\ Bounded

LEMMA InitBase == Init => Base
<1> SUFFICES ASSUME Init PROVE Base
  OBVIOUS
<1>1. Types
  BY InitTypes
<1>2. queue = <<>> /\ round.works = <<>> /\ round.phase = "idle"
  BY NoRoundType DEF Init
<1>3. Line = <<>>
  BY <1>2 DEF Line
<1>4. WorksOK
  <2>1. \A r \in Records : store[r] <= count.events + 1
    BY DEF Init
  <2> QED  BY <1>2, <1>3, <2>1 DEF WorksOK
<1>5. Bounded
  <2>1. Busy(Line) = {} /\ Leased(hdl) = {}
    BY <1>3, IdleType DEF Busy, Leased, Init
  <2> QED  BY <2>1, FS_EmptySet, BoundsAssumption DEF Bounded
<1> QED  BY <1>1, <1>4, <1>5 DEF Base

LEMMA HandleBase == ASSUME Base, NEW h \in Handlers, Handle(h) PROVE Base'
<1>1. Types /\ WorksOK /\ Bounded
  BY DEF Base
<1>2. CASE MetaWritten(h)
  BY <1>1, <1>2, MetaWrittenTypes, MetaWrittenWorks, MetaWrittenLoad DEF Base
<1>3. CASE Rollback(h)
  <2>1. /\ Abandon(h) /\ UNCHANGED <<store, row, edges, owed, count>> /\ Cold(hdl[h])
    BY <1>3 DEF Rollback, Cold
  <2> QED  BY <1>1, <1>3, <2>1, RollbackTypes, AbandonWorks, AbandonLoad DEF Base
<1>4. CASE JoinMeta(h)
  BY <1>1, <1>4, JoinMetaTypes, JoinMetaQuiet, QuietWorks, HandlerLoad DEF Base, Quiet
<1>5. CASE Probe(h)
  BY <1>1, <1>5, ProbeTypes, ProbeQuiet, QuietWorks, HandlerLoad DEF Base, Quiet
<1>6. CASE Check(h)
  BY <1>1, <1>6, CheckTypes, CheckQuiet, QuietWorks, HandlerLoad DEF Base, Quiet
<1>7. CASE RepairRow(h)
  BY <1>1, <1>7, RepairRowTypes, RepairRowQuiet, QuietWorks, HandlerLoad DEF Base, Quiet
<1>8. CASE RepairSnapshot(h)
  BY <1>1, <1>8, RepairSnapshotStep, RepairSnapshotWorks, RepairSnapshotLoad DEF Base
<1> QED  BY <1>2, <1>3, <1>4, <1>5, <1>6, <1>7, <1>8 DEF Handle

LEMMA MetaFailsBase == ASSUME Base, NEW h \in Handlers, MetaFails(h) PROVE Base'
<1>1. Types /\ WorksOK /\ Bounded
  BY DEF Base
<1>2. /\ Types' /\ hdl[h].pc = "meta" /\ count'.events = count.events
      /\ UNCHANGED <<store, live, row, edges, owed>>
      /\ \/ Goto(h, "rollback") /\ UNCHANGED <<queue, round>>
         \/ "cancel" \in Faults /\ Abandon(h)
  BY <1>1, MetaFailsStep
<1>3. CASE Goto(h, "rollback") /\ UNCHANGED <<queue, round>>
  <2>1. /\ Goes(hdl, hdl', {}) /\ hdl'[h].pc = "rollback"
        /\ \A g \in Handlers : g # h => hdl'[g] = hdl[g]
    BY <1>1, <1>2, <1>3, RefusedQuiet
  <2>2. WorksOK'
    BY <1>1, <1>2, <1>3, <2>1, QuietWorks
  <2>3. Leased(hdl') \subseteq Leased(hdl)
    BY <2>1 DEF Leased
  <2>4. Bounded'
    BY <1>1, <1>3, <2>3, QuietLoad
  <2> QED  BY <1>2, <2>2, <2>4 DEF Base
<1>4. CASE Abandon(h)
  <2>1. Cold(hdl[h])
    BY <1>2 DEF Cold
  <2>2. WorksOK'
    BY <1>1, <1>2, <1>4, <2>1, AbandonWorks
  <2>3. Bounded'
    BY <1>1, <1>4, AbandonLoad
  <2> QED  BY <1>2, <2>2, <2>3 DEF Base
<1> QED  BY <1>2, <1>3, <1>4

LEMMA RequestsBase ==
    ASSUME Base, NEW v \in Views,
           \/ DeleteRow(v) \/ Unregister(v)
           \/ \E h \in Handlers : RegisterCold(h, v) \/ Join(h, v)
    PROVE  Base'
<1>1. Types /\ WorksOK /\ Bounded
  BY DEF Base
<1>2. CASE DeleteRow(v)
  <2>1. Types' /\ Quiet
    BY <1>1, <1>2, DeleteRowTypes, DeleteRowQuiet
  <2>2. hdl' = hdl
    BY <1>2 DEF DeleteRow
  <2>3. WorksOK'
    BY <1>1, <2>1, QuietWorks DEF Quiet
  <2>4. Bounded'
    BY <1>1, <2>1, <2>2, QuietLoad DEF Quiet
  <2> QED  BY <2>1, <2>3, <2>4 DEF Base
<1>3. CASE Unregister(v)
  BY <1>1, <1>3, UnregisterStep, UnregisterWorks, UnregisterLoad DEF Base
<1>4. ASSUME NEW h \in Handlers, RegisterCold(h, v) PROVE Base'
  BY <1>1, <1>4, RegisterColdStep, RegisterColdWorks, RegisterColdLoad DEF Base
<1>5. ASSUME NEW h \in Handlers, Join(h, v) PROVE Base'
  <2>1. Types' /\ Quiet
    BY <1>1, <1>5, JoinTypes, JoinQuiet
  <2>2. WorksOK'
    BY <1>1, <2>1, QuietWorks DEF Quiet
  <2>3. Bounded'
    BY <1>1, <1>5, JoinLoad
  <2> QED  BY <2>1, <2>2, <2>3 DEF Base
<1> QED  BY <1>2, <1>3, <1>4, <1>5

LEMMA IngestBase == ASSUME Base, NEW r \in Records, Ingest(r) PROVE Base'
BY IngestTypes, IngestWorks, IngestLoad DEF Base

LEMMA PublisherBase ==
    ASSUME Base,
           \/ \E i \in DOMAIN queue : SourceSeen(i) \/ RetryDue(i)
           \/ Publish \/ CleanupFails
           \/ \E i \in DOMAIN round.works : WriteFails(i)
    PROVE  Base'
<1>1. Types /\ WorksOK /\ Bounded
  BY DEF Base
<1>2. Types' /\ \E V : Published(V)
  <2>1. ASSUME NEW i \in DOMAIN queue, SourceSeen(i) PROVE Types' /\ \E V : Published(V)
    BY <1>1, <2>1, SourceSeenPublished
  <2>2. ASSUME NEW i \in DOMAIN queue, RetryDue(i) PROVE Types' /\ \E V : Published(V)
    BY <1>1, <2>2, RetryDuePublished
  <2>3. ASSUME NEW i \in DOMAIN queue, Take(i) PROVE Types' /\ \E V : Published(V)
    BY <1>1, <2>3, TakePublished
  <2>4. ASSUME NEW i \in DOMAIN round.works, Write(i) PROVE Types' /\ \E V : Published(V)
    BY <1>1, <2>4, WritePublished
  <2>5. ASSUME NEW i \in DOMAIN round.works, WriteFails(i) PROVE Types' /\ \E V : Published(V)
    BY <1>1, <2>5, WriteFailsPublished
  <2>6. CASE Filter
    BY <1>1, <2>6, FilterPublished
  <2>7. CASE Cleanup
    BY <1>1, <2>7, CleanupPublished
  <2>8. CASE EndRound \/ CleanupFails
    BY <1>1, <2>8, ParkPublished
  <2> QED  BY <2>1, <2>2, <2>3, <2>4, <2>5, <2>6, <2>7, <2>8 DEF Publish
<1>3. PICK V : Published(V)
  BY <1>2
<1> QED  BY <1>1, <1>2, <1>3, PublishedWorks, PublishedLoad DEF Base

LEMMA BaseStep == Base /\ [Next]_vars => Base'
<1> SUFFICES ASSUME Base, [Next]_vars PROVE Base'
  OBVIOUS
<1>1. CASE UNCHANGED vars
  <2>1. Types' /\ queue' = queue /\ round' = round /\ hdl' = hdl /\ store' = store /\ count' = count
    BY <1>1 DEF vars, Base, Types
  <2>2. Goes(hdl, hdl', {})
    BY <2>1 DEF Goes
  <2>3. WorksOK'
    BY <2>1, <2>2, QuietWorks DEF Base
  <2>4. Bounded'
    BY <2>1, QuietLoad DEF Base
  <2> QED  BY <2>1, <2>3, <2>4 DEF Base
<1>2. CASE Next
  BY <1>2, IngestBase, HandleBase, MetaFailsBase, RequestsBase, PublisherBase DEF Next
<1> QED  BY <1>1, <1>2

(* The held works are those of the line, in another order. *)
LEMMA HeldLine ==
    ASSUME Types
    PROVE  /\ IsFiniteSet(Busy(Held)) /\ Cardinality(Busy(Held)) \in Nat
           /\ Cardinality(Busy(Held)) <= Cardinality(Busy(Line))
           /\ DOMAIN Held = 1..Len(Held) /\ Len(Held) \in Nat
           /\ \A i \in DOMAIN Held : Held[i] \in WorkRecord
<1> DEFINE a == round.works
           b == queue
           f == [j \in Busy(Held) |-> IF j <= Len(b) THEN Len(a) + j ELSE j - Len(b)]
<1>1. Parts(Line, a, b) /\ Parts(Held, b, a)
  <2>1. a \in Seq(WorkRecord) /\ b \in Seq(WorkRecord)
    BY RoundFields DEF Types
  <2> QED  BY <2>1, LineParts, PartsOf DEF Held
<1> HIDE DEF a, b
<1>2. DOMAIN Held = 1..Len(Held) /\ Len(Held) \in Nat /\ \A i \in DOMAIN Held : Held[i] \in WorkRecord
  BY <1>1 DEF Parts
<1>3. Len(a) \in Nat /\ Len(b) \in Nat /\ DOMAIN Held = 1..Len(b) + Len(a)
  BY <1>1 DEF Parts
<1>4. ASSUME NEW j \in DOMAIN Held
      PROVE  /\ j <= Len(b) => Len(a) + j \in DOMAIN Line /\ Line[Len(a) + j] = Held[j]
             /\ j > Len(b) => /\ j - Len(b) \in DOMAIN Line /\ Line[j - Len(b)] = Held[j]
                              /\ j - Len(b) <= Len(a)
  <2>1. CASE j <= Len(b)
    <3>1. j \in DOMAIN b /\ Held[j] = b[j]
      BY <1>1, <1>3, <2>1 DEF Parts
    <3> QED  BY <1>1, <1>3, <2>1, <3>1 DEF Parts
  <2>2. CASE j > Len(b)
    <3>1. j - Len(b) \in DOMAIN a /\ Held[j] = a[j - Len(b)]
      BY <1>1, <1>3, <2>2 DEF Parts
    <3>2. j - Len(b) <= Len(a) /\ ~(j <= Len(b))
      BY <1>3, <2>2
    <3> QED  BY <1>1, <3>1, <3>2 DEF Parts
  <2> QED  BY <1>3, <2>1, <2>2
<1>5. f \in Injection(Busy(Held), Busy(Line))
  <2>1. ASSUME NEW j \in Busy(Held) PROVE f[j] \in Busy(Line)
    <3>1. j \in DOMAIN Held /\ Held[j].deltas # {}
      BY DEF Busy
    <3>2. j <= Len(b) \/ j > Len(b)
      BY <1>3, <3>1
    <3>3. f[j] = IF j <= Len(b) THEN Len(a) + j ELSE j - Len(b)
      OBVIOUS
    <3> HIDE DEF f
    <3>4. CASE j <= Len(b)
      BY <1>4, <3>1, <3>3, <3>4 DEF Busy
    <3>5. CASE j > Len(b)
      <4>1. f[j] = j - Len(b)
        BY <1>3, <3>1, <3>3, <3>5
      <4> QED  BY <1>4, <3>1, <3>5, <4>1 DEF Busy
    <3> QED  BY <3>2, <3>4, <3>5
  <2>2. ASSUME NEW j \in Busy(Held), NEW k \in Busy(Held), f[j] = f[k] PROVE j = k
    <3>1. j \in DOMAIN Held /\ k \in DOMAIN Held
      BY DEF Busy
    <3>2. /\ j \in 1..Len(b) + Len(a) /\ k \in 1..Len(b) + Len(a)
          /\ (IF j <= Len(b) THEN Len(a) + j ELSE j - Len(b))
               = (IF k <= Len(b) THEN Len(a) + k ELSE k - Len(b))
      BY <1>3, <2>2, <3>1
    <3> QED  BY <1>3, <3>2
  <2>3. f \in [Busy(Held) -> Busy(Line)]
    BY <2>1
  <2> HIDE DEF f
  <2> QED  BY <2>2, <2>3 DEF Injection, IsInjective
<1> HIDE DEF f
<1>6. IsFiniteSet(Busy(Line))
  BY LoadNow
<1>7. IsFiniteSet(Busy(Held)) /\ Cardinality(Busy(Held)) <= Cardinality(Busy(Line))
  BY <1>5, <1>6, FS_Injection
<1> QED  BY <1>2, <1>7, FS_CardinalityType

LEMMA BaseTypeOK == Base => TypeOK
<1> SUFFICES ASSUME Base PROVE TypeOK
  OBVIOUS
<1>1. Types /\ Bounded
  BY DEF Base
<1>2. \A v \in Views, r \in Records : edges[v][r].n \in Nat /\ edges[v][r].ver \in 0..MaxEvents + 1
  BY <1>1 DEF Types, EdgeRecord
<1>3. /\ IsFiniteSet(Busy(Held)) /\ Cardinality(Busy(Held)) \in Nat
      /\ Cardinality(Busy(Held)) <= Cardinality(Busy(Line))
      /\ DOMAIN Held = 1..Len(Held) /\ Len(Held) \in Nat
      /\ \A i \in DOMAIN Held : Held[i] \in WorkRecord
  BY <1>1, HeldLine
<1>4. \A i \in DOMAIN Held : ViewsOf(Held[i]) \subseteq Views
  BY <1>3 DEF ViewsOf, WorkRecord, DeltaRecord
<1> DEFINE idle == {i \in DOMAIN Held : Held[i].deltas = {}}
<1>5. Len(Held) = Cardinality(idle) + Cardinality(Busy(Held)) /\ Cardinality(idle) \in Nat
  <2>1. 1 \in Int /\ Len(Held) \in Int
    BY <1>3
  <2>2. IsFiniteSet(1..Len(Held)) /\ Cardinality(1..Len(Held)) = Len(Held)
    <3>1. /\ IsFiniteSet(1..Len(Held))
          /\ Cardinality(1..Len(Held)) = IF 1 > Len(Held) THEN 0 ELSE Len(Held) - 1 + 1
      BY <2>1, FS_Interval
    <3> QED  BY <1>3, <3>1
  <2>3. idle \in SUBSET (1..Len(Held))
    BY <1>3
  <2>4. IsFiniteSet(idle) /\ Cardinality(idle) \in Nat
    BY <2>2, <2>3, FS_Subset, FS_CardinalityType
  <2>5. idle \cup Busy(Held) = 1..Len(Held) /\ idle \cap Busy(Held) = {}
    BY <1>3 DEF Busy
  <2> HIDE DEF idle
  <2>6. Cardinality(idle \cup Busy(Held))
          = Cardinality(idle) + Cardinality(Busy(Held)) - Cardinality(idle \cap Busy(Held))
    BY <1>3, <2>4, FS_Union
  <2>7. Cardinality(idle \cap Busy(Held)) = 0
    BY <2>5, FS_EmptySet
  <2>8. Cardinality(idle \cup Busy(Held)) = Len(Held)
    BY <2>2, <2>5
  <2>9. Cardinality(Busy(Held)) \in Nat /\ Len(Held) \in Nat
    BY <1>3
  <2> QED  BY <2>4, <2>6, <2>7, <2>8, <2>9
<1>6. Leases - Cardinality(idle) <= Slots
  <2>1. Leases = Len(Held) + Cardinality(Leased(hdl))
    BY DEF Leases, Leased
  <2>2. Cardinality(Leased(hdl)) \in Nat /\ Cardinality(Busy(Line)) \in Nat /\ Slots \in Nat
    BY <1>1, LoadNow, BoundsAssumption
  <2>3. Cardinality(Busy(Line)) + Cardinality(Leased(hdl)) <= Slots
    BY <1>1 DEF Bounded
  <2> HIDE DEF idle
  <2> QED  BY <1>3, <1>5, <2>1, <2>2, <2>3
<1> QED  BY <1>1, <1>2, <1>4, <1>6 DEF TypeOK, Types

(* Every variable keeps its type, and admission holds: the works with something to write
   and the requests that will write never take more than the slots of the queue, whatever
   fails (try_reserve, try_reserve_registration, the lease a work takes over). *)
THEOREM TypeCorrect == Spec => []TypeOK
<1>1. Init => Base
  BY InitBase
<1>2. Base /\ [Next]_vars => Base'
  BY BaseStep
<1>3. Base => TypeOK
  BY BaseTypeOK
<1> QED  BY <1>1, <1>2, <1>3, PTL DEF Spec

-----------------------------------------------------------------------------
(* What the works ahead will make of the edge of a view to a row.  C is what a work still
   has for the view. *)

Adds(C, r) == \E d \in C : d.op = "add" /\ r \in d.recs
Updates(C, r) == \E d \in C : d.op = "update" /\ r \in d.recs
Sets(C, r) == \E d \in C : d.op = "full" /\ r \in d.recs
Clears(C, r) == \E d \in C : \/ d.op = "remove" /\ r \in d.recs
                             \/ d.op = "full" /\ r \notin d.recs
Resets(C, r) == Sets(C, r) \/ Clears(C, r)
Touches(C, r) == Resets(C, r) \/ Adds(C, r) \/ Updates(C, r)

FirstOn(H, j, v, r) == \A k \in DOMAIN H : k < j => ~Touches(Current(H[k], v), r)
LastOn(H, j, v, r) == \A k \in DOMAIN H : j < k => ~Touches(Current(H[k], v), r)
Follows(H, i, j, v, r) ==
    i < j /\ \A k \in DOMAIN H : i < k /\ k < j => ~Touches(Current(H[k], v), r)

Shown(s) == IF s > 0 THEN [n |-> 1, ver |-> s] ELSE NoEdge

(* From edge e, the works of line H lead view v to show row r as s: an addition finds no
   edge and an update finds one (or what it misses is made good by a later reset), each
   work continues where the one before it for the row ends, the last one ends as the rows
   are, and where there is none the edge is there already. *)
AddsOnEmpty(H, e, v, r) ==
    \A j \in DOMAIN H : Adds(Current(H[j], v), r) /\ FirstOn(H, j, v, r) => e.n = 0
UpdatesOnEdge(H, e, v, r) ==
    \A j \in DOMAIN H : Updates(Current(H[j], v), r) /\ FirstOn(H, j, v, r) =>
        e.n = 1 \/ \E k \in DOMAIN H : j < k /\ Resets(Current(H[k], v), r)
Continues(H, v, r) ==
    \A i, j \in DOMAIN H : Touches(Current(H[i], v), r) /\ Follows(H, i, j, v, r) =>
        /\ Adds(Current(H[j], v), r) => Clears(Current(H[i], v), r)
        /\ Updates(Current(H[j], v), r) => ~Clears(Current(H[i], v), r)
EndsAs(H, s, v, r) ==
    \A j \in DOMAIN H : Touches(Current(H[j], v), r) /\ LastOn(H, j, v, r) =>
        /\ s > 0 <=> ~Clears(Current(H[j], v), r)
        /\ s > 0 => H[j].vers[r] = s
Rests(H, e, s, v, r) ==
    (\A j \in DOMAIN H : ~Touches(Current(H[j], v), r)) => e = Shown(s)

Chain(H, e, s, v, r) ==
    /\ AddsOnEmpty(H, e, v, r) /\ UpdatesOnEdge(H, e, v, r) /\ Continues(H, v, r)
    /\ EndsAs(H, s, v, r) /\ Rests(H, e, s, v, r)

(* Line H has become line G, and nothing of view v is lost or overtaken. *)
Carried(H, G, p, v) ==
    /\ p \in [DOMAIN G -> DOMAIN H] /\ DOMAIN G \subseteq Nat /\ DOMAIN H \subseteq Nat
    /\ \A j \in DOMAIN G : G[j].vers = H[p[j]].vers
    /\ Keeps(H, G, p, v)

LEMMA CarriedOrder ==
    ASSUME NEW H, NEW G, NEW p, NEW v, Carried(H, G, p, v),
           NEW i \in DOMAIN G, NEW j \in DOMAIN G,
           Current(G[i], v) # {}, Current(G[j], v) # {}
    PROVE  /\ p[i] \in Nat /\ p[j] \in Nat /\ i \in Nat /\ j \in Nat
           /\ i < j <=> p[i] < p[j]
<1>1. p[i] \in Nat /\ p[j] \in Nat /\ i \in Nat /\ j \in Nat
  BY DEF Carried
<1>2. i < j => p[i] < p[j]
  BY DEF Carried, Keeps
<1>3. j < i => p[j] < p[i]
  BY DEF Carried, Keeps
<1> QED  BY <1>1, <1>2, <1>3

LEMMA TouchesSome == ASSUME NEW C, NEW r, Touches(C, r) PROVE C # {}
BY DEF Touches, Resets, Sets, Clears, Adds, Updates

(* Every work that does something for the view is still there, and the same. *)
LEMMA CarriedTouch ==
    ASSUME NEW H, NEW G, NEW p, NEW v, NEW r, Carried(H, G, p, v),
           NEW k \in DOMAIN H, Touches(Current(H[k], v), r)
    PROVE  \E m \in DOMAIN G : /\ p[m] = k /\ Current(G[m], v) = Current(H[k], v)
                               /\ Current(G[m], v) # {}
<1>1. Current(H[k], v) # {}
  BY TouchesSome
<1>2. PICK m \in DOMAIN G : p[m] = k
  BY <1>1 DEF Carried, Keeps
<1>3. Current(G[m], v) = Current(H[k], v)
  BY <1>2 DEF Carried, Keeps
<1> QED  BY <1>1, <1>2, <1>3

LEMMA CarriedFirst ==
    ASSUME NEW H, NEW G, NEW p, NEW v, NEW r, Carried(H, G, p, v),
           NEW j \in DOMAIN G, Touches(Current(G[j], v), r), FirstOn(G, j, v, r)
    PROVE  FirstOn(H, p[j], v, r)
<1> SUFFICES ASSUME NEW k \in DOMAIN H, k < p[j], Touches(Current(H[k], v), r) PROVE FALSE
  BY DEF FirstOn
<1>1. PICK m \in DOMAIN G : /\ p[m] = k /\ Current(G[m], v) = Current(H[k], v)
                            /\ Current(G[m], v) # {}
  BY CarriedTouch
<1>2. Current(G[j], v) # {}
  BY TouchesSome
<1>3. m < j
  BY <1>1, <1>2, CarriedOrder
<1> QED  BY <1>1, <1>3 DEF FirstOn

LEMMA CarriedLast ==
    ASSUME NEW H, NEW G, NEW p, NEW v, NEW r, Carried(H, G, p, v),
           NEW j \in DOMAIN G, Touches(Current(G[j], v), r), LastOn(G, j, v, r)
    PROVE  LastOn(H, p[j], v, r)
<1> SUFFICES ASSUME NEW k \in DOMAIN H, p[j] < k, Touches(Current(H[k], v), r) PROVE FALSE
  BY DEF LastOn
<1>1. PICK m \in DOMAIN G : /\ p[m] = k /\ Current(G[m], v) = Current(H[k], v)
                            /\ Current(G[m], v) # {}
  BY CarriedTouch
<1>2. Current(G[j], v) # {}
  BY TouchesSome
<1>3. j < m
  BY <1>1, <1>2, CarriedOrder
<1> QED  BY <1>1, <1>3 DEF LastOn

LEMMA CarriedFollows ==
    ASSUME NEW H, NEW G, NEW p, NEW v, NEW r, Carried(H, G, p, v),
           NEW i \in DOMAIN G, NEW j \in DOMAIN G, Touches(Current(G[i], v), r),
           Touches(Current(G[j], v), r), Follows(G, i, j, v, r)
    PROVE  Follows(H, p[i], p[j], v, r)
<1>1. Current(G[i], v) # {} /\ Current(G[j], v) # {}
  BY TouchesSome
<1>2. p[i] < p[j]
  BY <1>1, CarriedOrder DEF Follows
<1> SUFFICES ASSUME NEW k \in DOMAIN H, p[i] < k, k < p[j], Touches(Current(H[k], v), r)
             PROVE  FALSE
  BY <1>2 DEF Follows
<1>3. PICK m \in DOMAIN G : /\ p[m] = k /\ Current(G[m], v) = Current(H[k], v)
                            /\ Current(G[m], v) # {}
  BY CarriedTouch
<1>4. i < m
  BY <1>1, <1>3, CarriedOrder
<1>5. m < j
  BY <1>1, <1>3, CarriedOrder
<1> QED  BY <1>3, <1>4, <1>5 DEF Follows

LEMMA ChainCarried ==
    ASSUME NEW H, NEW G, NEW p, NEW v, NEW r, NEW e, NEW s, Carried(H, G, p, v),
           Chain(H, e, s, v, r)
    PROVE  Chain(G, e, s, v, r)
<1>1. \A j \in DOMAIN G : /\ p[j] \in DOMAIN H /\ Current(G[j], v) = Current(H[p[j]], v)
                          /\ G[j].vers = H[p[j]].vers
  BY DEF Carried, Keeps
<1>2. AddsOnEmpty(G, e, v, r)
  <2> SUFFICES ASSUME NEW j \in DOMAIN G, Adds(Current(G[j], v), r), FirstOn(G, j, v, r)
               PROVE  e.n = 0
    BY DEF AddsOnEmpty
  <2>1. FirstOn(H, p[j], v, r)
    BY CarriedFirst DEF Touches
  <2> QED  BY <1>1, <2>1 DEF Chain, AddsOnEmpty
<1>3. UpdatesOnEdge(G, e, v, r)
  <2> SUFFICES ASSUME NEW j \in DOMAIN G, Updates(Current(G[j], v), r), FirstOn(G, j, v, r), e.n # 1
               PROVE  \E k \in DOMAIN G : j < k /\ Resets(Current(G[k], v), r)
    BY DEF UpdatesOnEdge
  <2>1. FirstOn(H, p[j], v, r) /\ Touches(Current(G[j], v), r)
    BY CarriedFirst DEF Touches
  <2>2. PICK k \in DOMAIN H : p[j] < k /\ Resets(Current(H[k], v), r)
    BY <1>1, <2>1 DEF Chain, UpdatesOnEdge
  <2>3. PICK m \in DOMAIN G : /\ p[m] = k /\ Current(G[m], v) = Current(H[k], v)
                              /\ Current(G[m], v) # {}
    BY <2>2, CarriedTouch DEF Touches
  <2>4. Current(G[j], v) # {}
    BY <2>1, TouchesSome
  <2>5. j < m
    BY <2>2, <2>3, <2>4, CarriedOrder
  <2> QED  BY <2>2, <2>3, <2>5
<1>4. Continues(G, v, r)
  <2> SUFFICES ASSUME NEW i \in DOMAIN G, NEW j \in DOMAIN G, Touches(Current(G[i], v), r),
                      Follows(G, i, j, v, r)
               PROVE  /\ Adds(Current(G[j], v), r) => Clears(Current(G[i], v), r)
                      /\ Updates(Current(G[j], v), r) => ~Clears(Current(G[i], v), r)
    BY DEF Continues
  <2>1. CASE Touches(Current(G[j], v), r)
    <3>1. Follows(H, p[i], p[j], v, r)
      BY <2>1, CarriedFollows
    <3> QED  BY <1>1, <3>1 DEF Chain, Continues
  <2>2. CASE ~Touches(Current(G[j], v), r)
    BY <2>2 DEF Touches
  <2> QED  BY <2>1, <2>2
<1>5. EndsAs(G, s, v, r)
  <2> SUFFICES ASSUME NEW j \in DOMAIN G, Touches(Current(G[j], v), r), LastOn(G, j, v, r)
               PROVE  /\ s > 0 <=> ~Clears(Current(G[j], v), r)
                      /\ s > 0 => G[j].vers[r] = s
    BY DEF EndsAs
  <2>1. LastOn(H, p[j], v, r)
    BY CarriedLast
  <2> QED  BY <1>1, <2>1 DEF Chain, EndsAs
<1>6. Rests(G, e, s, v, r)
  <2> SUFFICES ASSUME \A j \in DOMAIN G : ~Touches(Current(G[j], v), r) PROVE e = Shown(s)
    BY DEF Rests
  <2>1. ASSUME NEW k \in DOMAIN H, Touches(Current(H[k], v), r) PROVE FALSE
    <3>1. PICK m \in DOMAIN G : Current(G[m], v) = Current(H[k], v)
      BY <2>1, CarriedTouch
    <3> QED  BY <2>1, <3>1
  <2> QED  BY <2>1 DEF Chain, Rests
<1> QED  BY <1>2, <1>3, <1>4, <1>5, <1>6 DEF Chain

(* A work is added behind: it leaves the row alone, or it continues where the rows were and
   ends as they are. *)
Extends(w, s, t, v, r) ==
    IF Touches(Current(w, v), r)
    THEN /\ Adds(Current(w, v), r) => s = 0
         /\ Updates(Current(w, v), r) => s > 0
         /\ t > 0 <=> ~Clears(Current(w, v), r)
         /\ t > 0 => w.vers[r] = t
    ELSE t = s

(* w stands at place n, behind every work of G. *)
BehindAt(K, G, w, n) ==
    /\ DOMAIN K = DOMAIN G \cup {n} /\ n \notin DOMAIN G /\ K[n] = w
    /\ DOMAIN G \subseteq Nat
    /\ \A j \in DOMAIN G : j < n /\ K[j] = G[j]

LEMMA BehindFields ==
    ASSUME NEW G, NEW K, NEW w, Behind(K, G, w)
    PROVE  \E n \in Nat : BehindAt(K, G, w, n)
<1>1. PICK n : n = Len(G) + 1
  OBVIOUS
<1>2. n \in Nat /\ DOMAIN G = 1..n - 1 /\ DOMAIN K = 1..n /\ K[n] = w
  BY <1>1 DEF Behind
<1>3. \A j \in DOMAIN G : K[j] = G[j]
  BY DEF Behind
<1>4. DOMAIN K = DOMAIN G \cup {n}
  <2>1. 1..n = (1..n - 1) \cup {n}
    <3>1. n > 0
      BY <1>1 DEF Behind
    <3> QED  BY <1>2, <3>1
  <2> QED  BY <1>2, <2>1
<1>5. DOMAIN G \subseteq Nat /\ n \notin DOMAIN G /\ \A j \in DOMAIN G : j < n
  BY <1>2
<1>6. BehindAt(K, G, w, n)
  BY <1>2, <1>3, <1>4, <1>5 DEF BehindAt
<1> QED  BY <1>2, <1>6, Zenon

LEMMA ChainAppend ==
    ASSUME NEW G, NEW K, NEW w, Behind(K, G, w), NEW e, NEW s \in Nat, NEW t \in Nat, NEW v, NEW r,
           Chain(G, e, s, v, r), Extends(w, s, t, v, r)
    PROVE  Chain(K, e, t, v, r)
<1>0. PICK n \in Nat : BehindAt(K, G, w, n)
  BY BehindFields, Zenon
<1>1. /\ DOMAIN K = DOMAIN G \cup {n} /\ n \notin DOMAIN G /\ K[n] = w
      /\ DOMAIN G \subseteq Nat
      /\ \A j \in DOMAIN G : j < n /\ K[j] = G[j]
  BY <1>0 DEF BehindAt
<1>2. \A j \in DOMAIN G : FirstOn(K, j, v, r) => FirstOn(G, j, v, r)
  BY <1>1 DEF FirstOn
<1>3. FirstOn(K, n, v, r) => \A j \in DOMAIN G : ~Touches(Current(G[j], v), r)
  BY <1>1 DEF FirstOn
<1>4. \A j \in DOMAIN G : LastOn(K, j, v, r) => LastOn(G, j, v, r) /\ ~Touches(Current(w, v), r)
  BY <1>1 DEF LastOn
<1>5. \A i, j \in DOMAIN G : Follows(K, i, j, v, r) => Follows(G, i, j, v, r)
  BY <1>1 DEF Follows
<1>6. \A i \in DOMAIN G : Follows(K, i, n, v, r) => LastOn(G, i, v, r)
  BY <1>1 DEF Follows, LastOn
<1>7. \A i, j \in DOMAIN K : Follows(K, i, j, v, r) => i \in DOMAIN G
  BY <1>1 DEF Follows
<1>8. Adds(Current(w, v), r) \/ Updates(Current(w, v), r) => Touches(Current(w, v), r)
  BY DEF Touches
<1>9. AddsOnEmpty(K, e, v, r)
  <2> SUFFICES ASSUME NEW j \in DOMAIN K, Adds(Current(K[j], v), r), FirstOn(K, j, v, r)
               PROVE  e.n = 0
    BY DEF AddsOnEmpty
  <2>1. CASE j \in DOMAIN G
    BY <1>1, <1>2, <2>1 DEF Chain, AddsOnEmpty
  <2>2. CASE j = n
    <3>1. s = 0
      BY <1>1, <1>8, <2>2 DEF Extends
    <3>2. e = Shown(s)
      BY <1>3, <2>2 DEF Chain, Rests
    <3> QED  BY <3>1, <3>2 DEF Shown, NoEdge
  <2> QED  BY <1>1, <2>1, <2>2
<1>10. UpdatesOnEdge(K, e, v, r)
  <2> SUFFICES ASSUME NEW j \in DOMAIN K, Updates(Current(K[j], v), r), FirstOn(K, j, v, r), e.n # 1
               PROVE  \E k \in DOMAIN K : j < k /\ Resets(Current(K[k], v), r)
    BY DEF UpdatesOnEdge
  <2>1. CASE j \in DOMAIN G
    <3>1. PICK k \in DOMAIN G : j < k /\ Resets(Current(G[k], v), r)
      BY <1>1, <1>2, <2>1 DEF Chain, UpdatesOnEdge
    <3> QED  BY <1>1, <3>1
  <2>2. CASE j = n
    <3>1. s > 0
      BY <1>1, <1>8, <2>2 DEF Extends
    <3>2. e = Shown(s)
      BY <1>3, <2>2 DEF Chain, Rests
    <3> QED  BY <3>1, <3>2 DEF Shown
  <2> QED  BY <1>1, <2>1, <2>2
<1>11. Continues(K, v, r)
  <2> SUFFICES ASSUME NEW i \in DOMAIN K, NEW j \in DOMAIN K, Touches(Current(K[i], v), r),
                      Follows(K, i, j, v, r)
               PROVE  /\ Adds(Current(K[j], v), r) => Clears(Current(K[i], v), r)
                      /\ Updates(Current(K[j], v), r) => ~Clears(Current(K[i], v), r)
    BY DEF Continues
  <2>1. i \in DOMAIN G /\ K[i] = G[i]
    BY <1>1, <1>7
  <2>2. CASE j \in DOMAIN G
    <3>1. K[j] = G[j] /\ Follows(G, i, j, v, r)
      BY <1>1, <1>5, <2>1, <2>2
    <3> QED  BY <2>1, <2>2, <3>1 DEF Chain, Continues
  <2>3. CASE j = n
    <3>1. s > 0 <=> ~Clears(Current(G[i], v), r)
      BY <1>6, <2>1, <2>3 DEF Chain, EndsAs
    <3> QED  BY <1>1, <1>8, <2>1, <2>3, <3>1 DEF Extends
  <2> QED  BY <1>1, <2>2, <2>3
<1>12. EndsAs(K, t, v, r)
  <2> SUFFICES ASSUME NEW j \in DOMAIN K, Touches(Current(K[j], v), r), LastOn(K, j, v, r)
               PROVE  /\ t > 0 <=> ~Clears(Current(K[j], v), r)
                      /\ t > 0 => K[j].vers[r] = t
    BY DEF EndsAs
  <2>1. CASE j \in DOMAIN G
    <3>1. K[j] = G[j] /\ LastOn(G, j, v, r) /\ t = s
      BY <1>1, <1>4, <2>1 DEF Extends
    <3> QED  BY <2>1, <3>1 DEF Chain, EndsAs
  <2>2. CASE j = n
    BY <1>1, <2>2 DEF Extends
  <2> QED  BY <1>1, <2>1, <2>2
<1>13. Rests(K, e, t, v, r)
  <2> SUFFICES ASSUME \A j \in DOMAIN K : ~Touches(Current(K[j], v), r) PROVE e = Shown(t)
    BY DEF Rests
  <2>1. ~Touches(Current(w, v), r) /\ \A j \in DOMAIN G : ~Touches(Current(G[j], v), r)
    BY <1>1
  <2> QED  BY <2>1 DEF Chain, Rests, Extends
<1> QED  BY <1>9, <1>10, <1>11, <1>12, <1>13 DEF Chain

(* The first thing left for the view is its whole content, at k. *)
FullAt(H, k, v) ==
    /\ k \in DOMAIN H
    /\ \E d : Current(H[k], v) = {d} /\ d.op = "full"
    /\ \A j \in DOMAIN H : j < k => Current(H[j], v) = {}

LEMMA FullFields ==
    ASSUME NEW H, NEW k, NEW v, FullAt(H, k, v), NEW r
    PROVE  LET C == Current(H[k], v)
           IN  Touches(C, r) /\ Resets(C, r) /\ ~Adds(C, r) /\ ~Updates(C, r)
BY DEF FullAt, Touches, Resets, Sets, Clears, Adds, Updates

(* Then it does not matter what edges there are. *)
LEMMA ChainAnyEdge ==
    ASSUME NEW H, DOMAIN H \subseteq Nat, NEW k, NEW v, FullAt(H, k, v), NEW r, NEW s, NEW e, NEW f,
           Chain(H, e, s, v, r)
    PROVE  Chain(H, f, s, v, r)
<1>1. k \in DOMAIN H /\ Touches(Current(H[k], v), r)
      /\ ~Adds(Current(H[k], v), r) /\ ~Updates(Current(H[k], v), r)
  BY FullFields DEF FullAt
<1>2. ASSUME NEW j \in DOMAIN H, Touches(Current(H[j], v), r), FirstOn(H, j, v, r) PROVE j = k
  <2>1. ~(j < k)
    BY <1>2, TouchesSome DEF FullAt
  <2>2. ~(k < j)
    BY <1>1, <1>2 DEF FirstOn
  <2>3. j \in Nat /\ k \in Nat
    BY <1>1
  <2> QED  BY <2>1, <2>2, <2>3
<1>3. AddsOnEmpty(H, f, v, r)
  BY <1>1, <1>2 DEF AddsOnEmpty, Touches
<1>4. UpdatesOnEdge(H, f, v, r)
  BY <1>1, <1>2 DEF UpdatesOnEdge, Touches
<1>5. Rests(H, f, s, v, r)
  BY <1>1 DEF Rests
<1> QED  BY <1>3, <1>4, <1>5 DEF Chain

(* A line that has nothing for the view, and then its whole content. *)
LEMMA ChainFresh ==
    ASSUME NEW G, NEW K, NEW w, Behind(K, G, w), NEW e, NEW s \in Nat, NEW v, NEW r, NEW d,
           \A j \in DOMAIN G : Current(G[j], v) = {},
           Current(w, v) = {d}, d.op = "full", r \in d.recs <=> s > 0, s > 0 => w.vers[r] = s
    PROVE  Chain(K, e, s, v, r) /\ \E n \in DOMAIN K : FullAt(K, n, v) /\ K[n] = w /\ n \notin DOMAIN G
<1>0. PICK n \in Nat : BehindAt(K, G, w, n)
  BY BehindFields, Zenon
<1>1. /\ DOMAIN K = DOMAIN G \cup {n} /\ n \notin DOMAIN G /\ K[n] = w
      /\ DOMAIN G \subseteq Nat
      /\ \A j \in DOMAIN G : j < n /\ K[j] = G[j]
  BY <1>0 DEF BehindAt
<1>2. FullAt(K, n, v)
  BY <1>1 DEF FullAt
<1>3. \A j \in DOMAIN K : Touches(Current(K[j], v), r) => j = n
  BY <1>1, TouchesSome
<1>4. Touches(Current(K[n], v), r) /\ ~Adds(Current(K[n], v), r) /\ ~Updates(Current(K[n], v), r)
  BY <1>2, FullFields
<1>5. s > 0 <=> ~Clears(Current(K[n], v), r)
  BY <1>1 DEF Clears
<1>6. AddsOnEmpty(K, e, v, r) /\ UpdatesOnEdge(K, e, v, r)
  BY <1>3, <1>4 DEF AddsOnEmpty, UpdatesOnEdge, Touches
<1>7. Continues(K, v, r)
  BY <1>3, <1>4 DEF Continues, Touches
<1>8. EndsAs(K, s, v, r)
  BY <1>1, <1>3, <1>5 DEF EndsAs
<1>9. Rests(K, e, s, v, r)
  BY <1>1, <1>4 DEF Rests
<1>10. Chain(K, e, s, v, r)
  BY <1>6, <1>7, <1>8, <1>9 DEF Chain
<1> QED  BY <1>1, <1>2, <1>10

(* A work has one delta for a view at most. *)
Single(H, v) == \A j \in DOMAIN H : \A d, e \in Current(H[j], v) : d = e

LEMMA SingleOp ==
    ASSUME NEW C, NEW r, \A d, e \in C : d = e
    PROVE  /\ Updates(C, r) => ~Resets(C, r)
           /\ Adds(C, r) => ~Resets(C, r)
<1>1. ASSUME Updates(C, r), Resets(C, r) PROVE FALSE
  <2>1. PICK d \in C : d.op = "update"
    BY <1>1 DEF Updates
  <2>2. PICK e \in C : e.op \in {"full", "remove"}
    BY <1>1 DEF Resets, Sets, Clears
  <2>3. d = e
    OBVIOUS
  <2> QED  BY <2>1, <2>2, <2>3
<1>2. ASSUME Adds(C, r), Resets(C, r) PROVE FALSE
  <2>1. PICK d \in C : d.op = "add"
    BY <1>2 DEF Adds
  <2>2. PICK e \in C : e.op \in {"full", "remove"}
    BY <1>2 DEF Resets, Sets, Clears
  <2>3. d = e
    OBVIOUS
  <2> QED  BY <2>1, <2>2, <2>3
<1> QED  BY <1>1, <1>2

(* Where the edge is reset later, it can be dropped. *)
LEMMA ChainDropped ==
    ASSUME NEW H, DOMAIN H \subseteq Nat, NEW v, Single(H, v), NEW k \in DOMAIN H, NEW r,
           Resets(Current(H[k], v), r), NEW e, NEW s, Chain(H, e, s, v, r)
    PROVE  Chain(H, NoEdge, s, v, r)
<1>1. AddsOnEmpty(H, NoEdge, v, r)
  BY DEF AddsOnEmpty, NoEdge
<1>2. UpdatesOnEdge(H, NoEdge, v, r)
  <2> SUFFICES ASSUME NEW j \in DOMAIN H, Updates(Current(H[j], v), r), FirstOn(H, j, v, r)
               PROVE  j < k
    BY DEF UpdatesOnEdge
  <2>1. ~(k < j)
    BY DEF FirstOn, Touches
  <2>2. j # k
    BY SingleOp DEF Single
  <2>3. j \in Nat /\ k \in Nat
    OBVIOUS
  <2> QED  BY <2>1, <2>2, <2>3
<1>3. Rests(H, NoEdge, s, v, r)
  BY DEF Rests, Touches
<1> QED  BY <1>1, <1>2, <1>3 DEF Chain

(* What a write makes of an edge, n the version it writes. *)
Effect(f, e, d, r, n) ==
    /\ ~Touches({d}, r) => f = e
    /\ Clears({d}, r) => f = NoEdge
    /\ Sets({d}, r) => f = [n |-> 1, ver |-> n]
    /\ Adds({d}, r) => f = [n |-> e.n + 1, ver |-> n]
    /\ Updates({d}, r) /\ e.n = 1 => f = [n |-> 1, ver |-> n]

(* The first work's delta for the view is written and taken out. *)
LEMMA ChainWritten ==
    ASSUME NEW H, NEW G, DOMAIN H \subseteq Nat, DOMAIN G = DOMAIN H, NEW v, Single(H, v),
           NEW i \in DOMAIN H, NEW d, Current(H[i], v) = {d}, Current(G[i], v) = {},
           \A j \in DOMAIN H : j < i => Current(H[j], v) = {},
           \A j \in DOMAIN H : j # i => Current(G[j], v) = Current(H[j], v),
           \A j \in DOMAIN H : G[j].vers = H[j].vers,
           NEW r, NEW e, NEW f, NEW s, NEW n, Chain(H, e, s, v, r), Effect(f, e, d, r, n),
           s > 0 /\ H[i].vers[r] = s => n = s
    PROVE  Chain(G, f, s, v, r)
<1>1. \A j \in DOMAIN G : Touches(Current(G[j], v), r) =>
          j # i /\ i < j /\ Current(G[j], v) = Current(H[j], v)
  <2> SUFFICES ASSUME NEW j \in DOMAIN G, Touches(Current(G[j], v), r)
               PROVE  j # i /\ i < j /\ Current(G[j], v) = Current(H[j], v)
    OBVIOUS
  <2>1. Current(G[j], v) # {}
    BY TouchesSome
  <2>2. j # i /\ ~(j < i)
    BY <2>1
  <2>3. i \in Nat /\ j \in Nat
    OBVIOUS
  <2> QED  BY <2>2, <2>3
<1>2. CASE ~Touches({d}, r)
  <2>1. f = e
    BY <1>2 DEF Effect
  <2>2. \A j \in DOMAIN H : Touches(Current(H[j], v), r) <=> Touches(Current(G[j], v), r)
    BY <1>1, <1>2
  <2>3. \A j \in DOMAIN H : FirstOn(G, j, v, r) => FirstOn(H, j, v, r)
    BY <2>2 DEF FirstOn
  <2>4. \A j \in DOMAIN H : LastOn(G, j, v, r) => LastOn(H, j, v, r)
    BY <2>2 DEF LastOn
  <2>5. \A k, j \in DOMAIN H : Follows(G, k, j, v, r) => Follows(H, k, j, v, r)
    BY <2>2 DEF Follows
  <2>6. AddsOnEmpty(G, e, v, r)
    BY <1>1, <2>3 DEF Chain, AddsOnEmpty, Touches
  <2>7. UpdatesOnEdge(G, e, v, r)
    <3> SUFFICES ASSUME NEW j \in DOMAIN H, Updates(Current(G[j], v), r), FirstOn(G, j, v, r), e.n # 1
                 PROVE  \E k \in DOMAIN H : j < k /\ Resets(Current(G[k], v), r)
      BY DEF UpdatesOnEdge
    <3>1. Touches(Current(G[j], v), r)
      BY DEF Touches
    <3>2. PICK k \in DOMAIN H : j < k /\ Resets(Current(H[k], v), r)
      BY <1>1, <2>3, <3>1 DEF Chain, UpdatesOnEdge
    <3>3. Touches(Current(G[k], v), r)
      BY <2>2, <3>2 DEF Touches
    <3> QED  BY <1>1, <3>2, <3>3
  <2>8. Continues(G, v, r)
    <3> SUFFICES ASSUME NEW k \in DOMAIN H, NEW j \in DOMAIN H, Touches(Current(G[k], v), r),
                        Follows(G, k, j, v, r), Touches(Current(G[j], v), r)
                 PROVE  /\ Adds(Current(G[j], v), r) => Clears(Current(G[k], v), r)
                        /\ Updates(Current(G[j], v), r) => ~Clears(Current(G[k], v), r)
      BY DEF Continues, Touches
    <3>1. Current(G[j], v) = Current(H[j], v) /\ Current(G[k], v) = Current(H[k], v)
      BY <1>1
    <3> QED  BY <2>5, <3>1 DEF Chain, Continues
  <2>9. EndsAs(G, s, v, r)
    BY <1>1, <2>4 DEF Chain, EndsAs
  <2>10. Rests(G, e, s, v, r)
    BY <2>2 DEF Chain, Rests
  <2> QED  BY <2>1, <2>6, <2>7, <2>8, <2>9, <2>10 DEF Chain
<1>3. CASE Touches({d}, r)
  <2>1. FirstOn(H, i, v, r)
    BY TouchesSome DEF FirstOn
  <2>2. \A j \in DOMAIN G : Touches(Current(G[j], v), r) /\ FirstOn(G, j, v, r) => Follows(H, i, j, v, r)
    <3> SUFFICES ASSUME NEW j \in DOMAIN H, Touches(Current(G[j], v), r), FirstOn(G, j, v, r)
                 PROVE  Follows(H, i, j, v, r)
      OBVIOUS
    <3>1. i < j
      BY <1>1
    <3>2. ASSUME NEW k \in DOMAIN H, i < k, k < j, Touches(Current(H[k], v), r) PROVE FALSE
      <4>1. k # i
        BY <3>2
      <4> QED  BY <3>2, <4>1 DEF FirstOn
    <3> QED  BY <3>1, <3>2 DEF Follows
  <2>3. AddsOnEmpty(G, f, v, r)
    <3> SUFFICES ASSUME NEW j \in DOMAIN H, Adds(Current(G[j], v), r), FirstOn(G, j, v, r)
                 PROVE  f.n = 0
      BY DEF AddsOnEmpty
    <3>1. Touches(Current(G[j], v), r)
      BY DEF Touches
    <3>2. Clears({d}, r)
      BY <1>1, <1>3, <2>2, <3>1 DEF Chain, Continues
    <3> QED  BY <3>2 DEF Effect, NoEdge
  <2>4. UpdatesOnEdge(G, f, v, r)
    <3> SUFFICES ASSUME NEW j \in DOMAIN H, Updates(Current(G[j], v), r), FirstOn(G, j, v, r), f.n # 1
                 PROVE  \E k \in DOMAIN H : j < k /\ Resets(Current(G[k], v), r)
      BY DEF UpdatesOnEdge
    <3>1. Touches(Current(G[j], v), r)
      BY DEF Touches
    <3>2. Current(G[j], v) = Current(H[j], v) /\ i < j
      BY <1>1, <3>1
    <3>3. ~Clears({d}, r)
      BY <1>3, <2>2, <3>1, <3>2 DEF Chain, Continues
    <3>4. ~Sets({d}, r)
      BY DEF Effect
    <3>5. ~Adds({d}, r)
      <4> SUFFICES ASSUME Adds({d}, r) PROVE FALSE
        OBVIOUS
      <4>1. e.n = 0
        BY <2>1 DEF Chain, AddsOnEmpty
      <4>2. f = [n |-> e.n + 1, ver |-> n]
        BY DEF Effect
      <4> QED  BY <4>1, <4>2
    <3>6. Updates({d}, r) /\ e.n # 1
      BY <1>3, <3>3, <3>4, <3>5 DEF Touches, Resets, Effect
    <3>7. PICK k \in DOMAIN H : i < k /\ Resets(Current(H[k], v), r)
      BY <2>1, <3>6 DEF Chain, UpdatesOnEdge
    <3>8. k # i /\ Current(G[k], v) = Current(H[k], v)
      BY <3>7
    <3>9. ~(k < j)
      BY <3>7, <3>8 DEF FirstOn, Touches
    <3>10. k # j
      BY <3>2, <3>7, SingleOp DEF Single
    <3>11. j \in Nat /\ k \in Nat
      OBVIOUS
    <3> QED  BY <3>7, <3>8, <3>9, <3>10, <3>11
  <2>5. Continues(G, v, r)
    <3> SUFFICES ASSUME NEW k \in DOMAIN H, NEW j \in DOMAIN H, Touches(Current(G[k], v), r),
                        Follows(G, k, j, v, r), Touches(Current(G[j], v), r)
                 PROVE  /\ Adds(Current(G[j], v), r) => Clears(Current(G[k], v), r)
                        /\ Updates(Current(G[j], v), r) => ~Clears(Current(G[k], v), r)
      BY DEF Continues, Touches
    <3>1. Current(G[j], v) = Current(H[j], v) /\ Current(G[k], v) = Current(H[k], v) /\ i < k
      BY <1>1
    <3>2. ASSUME NEW m \in DOMAIN H, k < m, m < j, Touches(Current(H[m], v), r) PROVE FALSE
      <4>1. m # i
        <5>1. i \in Nat /\ k \in Nat /\ m \in Nat
          OBVIOUS
        <5> QED  BY <3>1, <3>2, <5>1
      <4> QED  BY <3>2, <4>1 DEF Follows
    <3>3. Follows(H, k, j, v, r)
      BY <3>2 DEF Follows
    <3> QED  BY <3>1, <3>3 DEF Chain, Continues
  <2>6. \A j \in DOMAIN H : Touches(Current(G[j], v), r) /\ LastOn(G, j, v, r) => LastOn(H, j, v, r)
    <3> SUFFICES ASSUME NEW j \in DOMAIN H, Touches(Current(G[j], v), r), LastOn(G, j, v, r),
                        NEW k \in DOMAIN H, j < k, Touches(Current(H[k], v), r)
                 PROVE  FALSE
      BY DEF LastOn
    <3>1. i < j
      BY <1>1
    <3>2. i \in Nat /\ j \in Nat /\ k \in Nat
      OBVIOUS
    <3>3. k # i
      BY <3>1, <3>2
    <3> QED  BY <3>3 DEF LastOn
  <2>7. EndsAs(G, s, v, r)
    BY <1>1, <2>6 DEF Chain, EndsAs
  <2>8. Rests(G, f, s, v, r)
    <3> SUFFICES ASSUME \A j \in DOMAIN H : ~Touches(Current(G[j], v), r) PROVE f = Shown(s)
      BY DEF Rests
    <3>1. \A k \in DOMAIN H : i < k => ~Touches(Current(H[k], v), r)
      <4> SUFFICES ASSUME NEW k \in DOMAIN H, i < k PROVE ~Touches(Current(H[k], v), r)
        OBVIOUS
      <4>1. i \in Nat /\ k \in Nat
        OBVIOUS
      <4>2. k # i
        BY <4>1
      <4> QED  BY <4>2
    <3>2. /\ s > 0 <=> ~Clears({d}, r)
          /\ s > 0 => n = s
      BY <1>3, <3>1 DEF Chain, EndsAs, LastOn
    <3>3. CASE Clears({d}, r)
      BY <3>2, <3>3 DEF Effect, Shown
    <3>4. CASE Sets({d}, r) /\ ~Clears({d}, r)
      BY <3>2, <3>4 DEF Effect, Shown
    <3>5. CASE Adds({d}, r) /\ ~Clears({d}, r)
      <4>1. e.n = 0
        BY <2>1, <3>5 DEF Chain, AddsOnEmpty
      <4>2. f = [n |-> e.n + 1, ver |-> n]
        BY <3>5 DEF Effect
      <4> QED  BY <3>2, <3>5, <4>1, <4>2 DEF Shown
    <3>6. CASE Updates({d}, r) /\ ~Clears({d}, r)
      <4>1. e.n = 1
        BY <2>1, <3>1, <3>6 DEF Chain, UpdatesOnEdge, Touches
      <4> QED  BY <3>2, <3>6, <4>1 DEF Effect, Shown
    <3> QED  BY <1>3, <3>3, <3>4, <3>5, <3>6 DEF Touches, Resets
  <2> QED  BY <2>3, <2>4, <2>5, <2>7, <2>8 DEF Chain
<1> QED  BY <1>2, <1>3

(* A drop that is still to be done is followed, or come with, by a reset. *)
Covered(H, v) ==
    \A r \in Records : \A i \in DOMAIN H : r \in H[i].drops \/ v \in H[i].drops =>
        \E k \in DOMAIN H : i <= k /\ Resets(Current(H[k], v), r)

LEMMA CoveredCarried ==
    ASSUME NEW H, NEW G, NEW p, NEW v, Carried(H, G, p, v), Renumbered(H, G, p), Covered(H, v)
    PROVE  Covered(G, v)
<1> SUFFICES ASSUME NEW r \in Records, NEW i \in DOMAIN G, r \in G[i].drops \/ v \in G[i].drops
             PROVE  \E k \in DOMAIN G : i <= k /\ Resets(Current(G[k], v), r)
  BY DEF Covered
<1>1. p[i] \in DOMAIN H /\ (r \in H[p[i]].drops \/ v \in H[p[i]].drops) /\ G[i].drops # {}
  BY DEF Renumbered
<1>2. PICK k \in DOMAIN H : p[i] <= k /\ Resets(Current(H[k], v), r)
  BY <1>1 DEF Covered
<1>3. PICK m \in DOMAIN G : /\ p[m] = k /\ Current(G[m], v) = Current(H[k], v)
                            /\ Current(G[m], v) # {}
  BY <1>2, CarriedTouch DEF Touches
<1>4. m < i => p[m] < p[i]
  BY <1>1, <1>3 DEF Carried, Keeps
<1>5. m \in Nat /\ i \in Nat /\ p[m] \in Nat /\ p[i] \in Nat
  BY DEF Carried
<1> QED  BY <1>2, <1>3, <1>4, <1>5

LEMMA FullCarried ==
    ASSUME NEW H, NEW G, NEW p, NEW v, Carried(H, G, p, v), NEW k, FullAt(H, k, v)
    PROVE  \E m \in DOMAIN G : p[m] = k /\ FullAt(G, m, v)
<1>1. k \in DOMAIN H /\ Current(H[k], v) # {}
  BY DEF FullAt
<1>2. PICK m \in DOMAIN G : p[m] = k
  BY <1>1 DEF Carried, Keeps
<1>3. Current(G[m], v) = Current(H[k], v)
  BY <1>2 DEF Carried, Keeps
<1>4. ASSUME NEW j \in DOMAIN G, j < m, Current(G[j], v) # {} PROVE FALSE
  <2>1. p[j] \in DOMAIN H /\ p[j] < k
    BY <1>1, <1>2, <1>3, <1>4 DEF Carried, Keeps
  <2>2. Current(H[p[j]], v) # {}
    BY <1>4 DEF Carried, Keeps
  <2> QED  BY <2>1, <2>2 DEF FullAt
<1> QED  BY <1>2, <1>3, <1>4 DEF FullAt

(* Line H has become line G in place, and is the same for view v. *)
SameFor(G, H, v) ==
    /\ DOMAIN G = DOMAIN H /\ DOMAIN H \subseteq Nat
    /\ \A j \in DOMAIN H : /\ Current(G[j], v) = Current(H[j], v)
                           /\ G[j].vers = H[j].vers /\ G[j].drops = H[j].drops

LEMMA SameForChain ==
    ASSUME NEW G, NEW H, NEW v, SameFor(G, H, v), NEW e, NEW s, NEW r, Chain(H, e, s, v, r)
    PROVE  Chain(G, e, s, v, r)
<1> DEFINE p == [j \in DOMAIN G |-> j]
<1>1. p \in [DOMAIN G -> DOMAIN H] /\ \A j \in DOMAIN G : p[j] = j
  BY DEF SameFor
<1> HIDE DEF p
<1>2. \A j \in DOMAIN G : Current(G[j], v) = Current(H[p[j]], v) /\ G[j].vers = H[p[j]].vers
  BY <1>1 DEF SameFor
<1>3. Keeps(H, G, p, v)
  BY <1>1, <1>2 DEF Keeps, SameFor
<1>4. Carried(H, G, p, v)
  BY <1>1, <1>2, <1>3 DEF Carried, SameFor
<1> QED  BY <1>4, ChainCarried

LEMMA SameForFull ==
    ASSUME NEW G, NEW H, NEW v, SameFor(G, H, v), NEW k, FullAt(H, k, v)
    PROVE  FullAt(G, k, v)
BY DEF FullAt, SameFor

LEMMA SameForCovered ==
    ASSUME NEW G, NEW H, NEW v, SameFor(G, H, v), Covered(H, v)
    PROVE  Covered(G, v)
<1> SUFFICES ASSUME NEW r \in Records, NEW i \in DOMAIN H, r \in H[i].drops \/ v \in H[i].drops
             PROVE  \E k \in DOMAIN H : i <= k /\ Resets(Current(G[k], v), r)
  BY DEF Covered, SameFor
<1>1. PICK k \in DOMAIN H : i <= k /\ Resets(Current(H[k], v), r)
  BY DEF Covered
<1> QED  BY <1>1 DEF SameFor

LEMMA AgedSameFor ==
    ASSUME NEW G, NEW H, NEW v \in Views, Aged(G, H, v), NEW u \in Views, u # v
    PROVE  SameFor(G, H, u)
<1>1. DOMAIN G = DOMAIN H /\ DOMAIN H \subseteq Nat
  BY DEF Aged
<1>2. ASSUME NEW j \in DOMAIN H
      PROVE  /\ Current(G[j], u) = Current(H[j], u)
             /\ G[j].vers = H[j].vers /\ G[j].drops = H[j].drops
  <2>1. H[j] \in WorkRecord /\ G[j] = OutdatedWork(H[j], v)
    BY DEF Aged
  <2> QED  BY <2>1, OutdatedWorkFields, OutdatedWorkDeltas
<1> QED  BY <1>1, <1>2 DEF SameFor

LEMMA AgedFields ==
    ASSUME NEW G, NEW H, NEW v \in Views, Aged(G, H, v)
    PROVE  /\ DOMAIN G = DOMAIN H /\ DOMAIN H \subseteq Nat /\ Len(G) = Len(H)
           /\ \A j \in DOMAIN H : /\ Current(G[j], v) = {}
                                  /\ G[j].by = H[j].by /\ G[j].ready = H[j].ready
<1>1. DOMAIN G = DOMAIN H /\ DOMAIN H \subseteq Nat /\ Len(G) = Len(H)
  BY DEF Aged
<1>2. ASSUME NEW j \in DOMAIN H
      PROVE  Current(G[j], v) = {} /\ G[j].by = H[j].by /\ G[j].ready = H[j].ready
  <2>1. H[j] \in WorkRecord /\ G[j] = OutdatedWork(H[j], v)
    BY DEF Aged
  <2> QED  BY <2>1, OutdatedWorkFields, OutdatedWorkDeltas
<1> QED  BY <1>1, <1>2

LEMMA ToldSameFor ==
    ASSUME NEW G, NEW H, NEW h, NEW r, Told(G, H, h, r), DOMAIN H \subseteq Nat, NEW u
    PROVE  SameFor(G, H, u)
BY DEF Told, SameFor, Current

LEMMA BehindFull ==
    ASSUME NEW G, NEW K, NEW w, Behind(K, G, w), NEW v, NEW k, FullAt(G, k, v)
    PROVE  FullAt(K, k, v) /\ K[k] = G[k]
<1>0. PICK n \in Nat : BehindAt(K, G, w, n)
  BY BehindFields, Zenon
<1>1. /\ DOMAIN K = DOMAIN G \cup {n} /\ n \notin DOMAIN G /\ K[n] = w
      /\ DOMAIN G \subseteq Nat
      /\ \A j \in DOMAIN G : j < n /\ K[j] = G[j]
  BY <1>0 DEF BehindAt
<1>2. k \in DOMAIN G /\ k < n /\ k \in Nat
  BY <1>1 DEF FullAt
<1>3. ~(n < k)
  BY <1>2
<1> QED  BY <1>1, <1>2, <1>3 DEF FullAt

LEMMA BehindCovered ==
    ASSUME NEW G, NEW K, NEW w, Behind(K, G, w), NEW v, Covered(G, v),
           \A r \in Records : r \in w.drops \/ v \in w.drops => Resets(Current(w, v), r)
    PROVE  Covered(K, v)
<1>0. PICK n \in Nat : BehindAt(K, G, w, n)
  BY BehindFields, Zenon
<1>1. /\ DOMAIN K = DOMAIN G \cup {n} /\ n \notin DOMAIN G /\ K[n] = w
      /\ DOMAIN G \subseteq Nat
      /\ \A j \in DOMAIN G : j < n /\ K[j] = G[j]
  BY <1>0 DEF BehindAt
<1> SUFFICES ASSUME NEW r \in Records, NEW i \in DOMAIN K, r \in K[i].drops \/ v \in K[i].drops
             PROVE  \E k \in DOMAIN K : i <= k /\ Resets(Current(K[k], v), r)
  BY DEF Covered
<1>2. CASE i \in DOMAIN G
  <2>1. PICK k \in DOMAIN G : i <= k /\ Resets(Current(G[k], v), r)
    BY <1>1, <1>2 DEF Covered
  <2> QED  BY <1>1, <2>1
<1>3. CASE i = n
  <2>1. n <= n /\ n \in DOMAIN K
    BY <1>1
  <2> QED  BY <1>1, <1>3, <2>1
<1> QED  BY <1>1, <1>2, <1>3

LEMMA BehindAllCovered ==
    ASSUME NEW G, NEW K, NEW w, Behind(K, G, w), NEW v,
           \A r \in Records : Resets(Current(w, v), r)
    PROVE  Covered(K, v)
<1>0. PICK n \in Nat : BehindAt(K, G, w, n)
  BY BehindFields, Zenon
<1>1. /\ DOMAIN K = DOMAIN G \cup {n} /\ n \notin DOMAIN G /\ K[n] = w
      /\ DOMAIN G \subseteq Nat
      /\ \A j \in DOMAIN G : j < n /\ K[j] = G[j]
  BY <1>0 DEF BehindAt
<1> SUFFICES ASSUME NEW r \in Records, NEW i \in DOMAIN K
             PROVE  \E k \in DOMAIN K : i <= k /\ Resets(Current(K[k], v), r)
  BY DEF Covered
<1>2. n \in DOMAIN K /\ i <= n
  BY <1>1
<1> QED  BY <1>1, <1>2

-----------------------------------------------------------------------------
(* The views a client may read, and what holds of them: the works lead each of their edges
   to the row it shows, and no drop takes away what is not written again. *)
Kept == live \ owed

Led(v) ==
    /\ \A r \in Records : Chain(Line, edges[v][r], store[r], v, r)
    /\ Covered(Line, v)

(* What the publisher still writes of a view that has been registered anew in the meantime
   is overwritten by the new registration's content. *)
Superseded(H, n, v) == \E k \in DOMAIN H : n < k /\ FullAt(H, k, v)

StaleCovered ==
    round.phase \in {"cleanup", "write"} =>
        \A i \in DOMAIN round.works : \A d \in round.works[i].deltas :
            ~d.current /\ d.view \in live => Superseded(Line, Len(round.works), d.view)

(* A registration without a row yet holds its view's content back, and all that follows. *)
HeldBack(H, h, v) == \E k \in DOMAIN H : H[k].by = h /\ H[k].ready = "no" /\ FullAt(H, k, v)

Pinned ==
    \A h \in Handlers : Cold(hdl[h]) /\ hdl[h].current =>
        hdl[h].view \in live /\ HeldBack(Line, h, hdl[h].view)

RowThere ==
    \A v \in Kept : row[v] = "none" =>
        \E h \in Handlers : Cold(hdl[h]) /\ hdl[h].current /\ hdl[h].view = v

Leading == \A v \in Kept : Led(v)
Following == Leading /\ StaleCovered /\ Pinned /\ RowThere

LEMMA InitFollowing == Init => Following
<1> SUFFICES ASSUME Init PROVE Following
  OBVIOUS
<1>1. Kept = {} /\ round = NoRound /\ \A h \in Handlers : hdl[h] = Idle
  BY DEF Init, Kept
<1>2. \A h \in Handlers : ~Cold(hdl[h])
  BY <1>1, IdleType DEF Cold
<1>3. round.phase = "idle"
  BY <1>1, NoRoundType
<1> QED  BY <1>1, <1>2, <1>3 DEF Following, Leading, StaleCovered, Pinned, RowThere

LEMMA LineDomain ==
    ASSUME Types
    PROVE  /\ DOMAIN Line \subseteq Nat /\ Len(round.works) \in Nat
           /\ DOMAIN round.works = 1..Len(round.works)
           /\ \A j \in DOMAIN round.works : j \in DOMAIN Line /\ Line[j] = round.works[j]
           /\ \A j \in DOMAIN Line : 1 <= j /\ (j <= Len(round.works) => j \in DOMAIN round.works)
<1>1. Parts(Line, round.works, queue)
  BY LineParts
<1>2. /\ DOMAIN Line = 1..Len(round.works) + Len(queue) /\ Len(round.works) \in Nat
      /\ Len(queue) \in Nat /\ DOMAIN round.works = 1..Len(round.works)
      /\ \A j \in DOMAIN round.works : j \in DOMAIN Line /\ Line[j] = round.works[j]
  BY <1>1 DEF Parts
<1> QED  BY <1>2

LEMMA LineDomainNext == Types' => DOMAIN Line' \subseteq Nat
<1>1. ASSUME Types' PROVE DOMAIN Line' \subseteq Nat
  <2>1. Parts(Line', round'.works, queue')
    BY <1>1, LinePartsNext
  <2>2. DOMAIN Line' = 1..Len(round'.works) + Len(queue') /\ Len(round'.works) \in Nat /\ Len(queue') \in Nat
    BY <2>1 DEF Parts
  <2> QED  BY <2>2
<1> QED  BY <1>1

LEMMA LineSingle ==
    ASSUME Types, WorksOK, NEW v PROVE Single(Line, v)
BY DEF Single, WorksOK, WorkOK, Sound, Current

-----------------------------------------------------------------------------
(* The publisher's steps. *)

LEMMA PublishedCarried ==
    ASSUME Types, Types', NEW V, Published(V), NEW v \in V
    PROVE  \E p : Renumbered(Line, Line', p) /\ Carried(Line, Line', p, v)
<1>1. PICK p : Renumbered(Line, Line', p) /\ Keeps(Line, Line', p, v)
  BY DEF Published
<1>2. DOMAIN Line \subseteq Nat /\ DOMAIN Line' \subseteq Nat
  BY LineDomain, LineDomainNext
<1>3. p \in [DOMAIN Line' -> DOMAIN Line] /\ \A j \in DOMAIN Line' : Line'[j].vers = Line[p[j]].vers
  BY <1>1 DEF Renumbered
<1>4. Carried(Line, Line', p, v)
  BY <1>1, <1>2, <1>3 DEF Carried
<1> QED  BY <1>1, <1>4

LEMMA PublishedLed ==
    ASSUME Types, Types', NEW V, Published(V), NEW v \in V, Covered(Line, v),
           \A r \in Records : Chain(Line, edges'[v][r], store[r], v, r)
    PROVE  Led(v)'
<1>1. PICK p : Renumbered(Line, Line', p) /\ Carried(Line, Line', p, v)
  BY PublishedCarried
<1>2. Covered(Line', v)
  BY <1>1, CoveredCarried
<1>3. ASSUME NEW r \in Records PROVE Chain(Line', edges'[v][r], store'[r], v, r)
  <2>1. store' = store
    BY DEF Published
  <2>2. Chain(Line, edges'[v][r], store[r], v, r)
    OBVIOUS
  <2>3. Chain(Line', edges'[v][r], store[r], v, r)
    BY <1>1, <2>2, ChainCarried
  <2> QED  BY <2>1, <2>3
<1> QED  BY <1>2, <1>3 DEF Led

LEMMA PublishedFull ==
    ASSUME Types, Types', NEW V, Published(V), NEW v \in V, NEW k, FullAt(Line, k, v)
    PROVE  \E m \in DOMAIN Line' : /\ FullAt(Line', m, v)
                                   /\ Line'[m].by = Line[k].by /\ Line'[m].ready = Line[k].ready
<1>1. PICK p : Renumbered(Line, Line', p) /\ Carried(Line, Line', p, v)
  BY PublishedCarried
<1>2. PICK m \in DOMAIN Line' : p[m] = k /\ FullAt(Line', m, v)
  BY <1>1, FullCarried
<1> QED  BY <1>1, <1>2 DEF Renumbered

LEMMA PublishedPinned ==
    ASSUME Types, Types', NEW V, Published(V), Pinned, RowThere,
           \A h \in Handlers : Cold(hdl[h]) /\ hdl[h].current => hdl[h].view \in V
    PROVE  Pinned' /\ RowThere'
<1>1. hdl' = hdl /\ live' = live /\ owed' = owed /\ \A v \in Views : row'[v] = "none" <=> row[v] = "none"
  BY DEF Published
<1>2. Pinned'
  <2> SUFFICES ASSUME NEW h \in Handlers, Cold(hdl[h]), hdl[h].current
               PROVE  hdl[h].view \in live /\ HeldBack(Line', h, hdl[h].view)
    BY <1>1 DEF Pinned
  <2>1. PICK k \in DOMAIN Line : Line[k].by = h /\ Line[k].ready = "no" /\ FullAt(Line, k, hdl[h].view)
    BY DEF Pinned, HeldBack
  <2>2. PICK m \in DOMAIN Line' : /\ FullAt(Line', m, hdl[h].view)
                                  /\ Line'[m].by = Line[k].by /\ Line'[m].ready = Line[k].ready
    BY <2>1, PublishedFull
  <2> QED  BY <2>1, <2>2 DEF Pinned, HeldBack
<1>3. RowThere'
  <2>1. live \subseteq Views
    BY DEF Types
  <2> QED  BY <1>1, <2>1 DEF RowThere, Kept
<1> QED  BY <1>2, <1>3

LEMMA SupersededApart ==
    ASSUME Types, NEW v, Superseded(Line, Len(round.works), v), NEW i \in DOMAIN round.works
    PROVE  Current(round.works[i], v) = {}
<1>1. PICK k \in DOMAIN Line : Len(round.works) < k /\ FullAt(Line, k, v)
  BY DEF Superseded
<1>2. i \in DOMAIN Line /\ Line[i] = round.works[i] /\ i < k
  BY <1>1, LineDomain
<1> QED  BY <1>1, <1>2 DEF FullAt

LEMMA PinnedApart ==
    ASSUME Types, WorksOK, Pinned, NEW h \in Handlers, Cold(hdl[h]), hdl[h].current,
           NEW i \in DOMAIN round.works
    PROVE  Current(round.works[i], hdl[h].view) = {}
<1>1. PICK k \in DOMAIN Line : Line[k].ready = "no" /\ FullAt(Line, k, hdl[h].view)
  BY DEF Pinned, HeldBack
<1>2. k \notin DOMAIN round.works
  BY <1>1, LineDomain DEF WorksOK
<1>3. i \in DOMAIN Line /\ Line[i] = round.works[i] /\ i < k
  <2>1. k \in Nat /\ ~(k <= Len(round.works))
    BY <1>1, <1>2, LineDomain
  <2> QED  BY <2>1, LineDomain
<1> QED  BY <1>1, <1>3 DEF FullAt

LEMMA RowOfCurrent ==
    ASSUME Types, WorksOK, Pinned, RowThere, NEW v \in Kept, NEW i \in DOMAIN round.works,
           Current(round.works[i], v) # {}
    PROVE  row[v] # "none"
BY PinnedApart DEF RowThere

LEMMA PublishedStale ==
    ASSUME Types, Types', NEW V, Published(V), StaleCovered,
           round'.phase \in {"cleanup", "write"} =>
              /\ round.phase \in {"cleanup", "write"}
              /\ DOMAIN round'.works = DOMAIN round.works
              /\ \A j \in DOMAIN round.works : round'.works[j].deltas \subseteq round.works[j].deltas,
           \A v \in live : Superseded(Line, Len(round.works), v) => v \in V
    PROVE  StaleCovered'
<1> SUFFICES ASSUME round'.phase \in {"cleanup", "write"}, NEW i \in DOMAIN round'.works,
                    NEW d \in round'.works[i].deltas, ~d.current, d.view \in live'
             PROVE  Superseded(Line', Len(round'.works), d.view)
  BY DEF StaleCovered
<1>1. d \in round.works[i].deltas /\ i \in DOMAIN round.works /\ d.view \in live
      /\ round.phase \in {"cleanup", "write"}
  BY DEF Published
<1>2. Superseded(Line, Len(round.works), d.view)
  BY <1>1 DEF StaleCovered
<1>3. PICK k \in DOMAIN Line : Len(round.works) < k /\ FullAt(Line, k, d.view)
  BY <1>2 DEF Superseded
<1>4. PICK m \in DOMAIN Line' : FullAt(Line', m, d.view)
  BY <1>1, <1>2, <1>3, PublishedFull
<1>5. Parts(Line', round'.works, queue')
  BY LinePartsNext
<1>6. m \notin DOMAIN round'.works
  <2> SUFFICES ASSUME m \in DOMAIN round'.works PROVE FALSE
    OBVIOUS
  <2>1. Line'[m] = round'.works[m] /\ m \in DOMAIN round.works
    BY <1>5 DEF Parts
  <2>2. Current(round'.works[m], d.view) # {}
    BY <1>4, <2>1 DEF FullAt
  <2>3. Current(round.works[m], d.view) # {}
    BY <2>1, <2>2 DEF Current
  <2> QED  BY <1>2, <2>1, <2>3, SupersededApart
<1>7. Len(round'.works) < m
  <2>1. /\ DOMAIN Line' = 1..Len(round'.works) + Len(queue') /\ Len(round'.works) \in Nat
        /\ Len(queue') \in Nat /\ DOMAIN round'.works = 1..Len(round'.works)
    BY <1>5 DEF Parts
  <2> QED  BY <1>6, <2>1
<1> QED  BY <1>4, <1>7 DEF Superseded

(* The steps that only move works. *)
LEMMA MovedFollowing ==
    ASSUME Types, Types', WorksOK, NEW V, Published(V), Following, edges' = edges,
           live \subseteq V, StaleCovered'
    PROVE  Following'
<1>1. Leading'
  <2> SUFFICES ASSUME NEW v \in Kept PROVE Led(v)'
    BY DEF Leading, Published, Kept
  <2>1. Led(v) /\ v \in V
    BY DEF Following, Leading, Kept
  <2>2. Covered(Line, v) /\ \A r \in Records : Chain(Line, edges'[v][r], store[r], v, r)
    BY <2>1 DEF Led
  <2> QED  BY <2>1, <2>2, PublishedLed
<1>2. \A h \in Handlers : Cold(hdl[h]) /\ hdl[h].current => hdl[h].view \in V
  BY DEF Following, Pinned
<1>3. Pinned' /\ RowThere'
  BY <1>2, PublishedPinned DEF Following
<1> QED  BY <1>1, <1>3 DEF Following

LEMMA WaitFollowing ==
    ASSUME Types, WorksOK, Following, NEW i \in DOMAIN queue, SourceSeen(i) \/ RetryDue(i)
    PROVE  Following'
<1>1. Types' /\ Published(Views) /\ edges' = edges /\ round' = round
  BY SourceSeenPublished, RetryDuePublished
<1>2. live \subseteq Views
  BY DEF Types
<1>3. StaleCovered'
  BY <1>1, <1>2, PublishedStale DEF Following
<1> QED  BY <1>1, <1>2, <1>3, MovedFollowing

LEMMA TakeFollowing ==
    ASSUME Types, WorksOK, Following, NEW i \in DOMAIN queue, Take(i)
    PROVE  Following'
<1>1. Types' /\ Published(Views) /\ edges' = edges /\ round'.phase \in {"idle", "taken"}
  BY TakePublished
<1>2. live \subseteq Views
  BY DEF Types
<1>3. StaleCovered'
  BY <1>1 DEF StaleCovered
<1> QED  BY <1>1, <1>2, <1>3, MovedFollowing

LEMMA FilterFollowing ==
    ASSUME Types, WorksOK, Following, Filter PROVE Following'
<1>1. /\ Types' /\ Published(live) /\ edges' = edges
      /\ \A j \in DOMAIN round'.works : \A d \in round'.works[j].deltas : d.current
  BY FilterPublished
<1>2. StaleCovered'
  BY <1>1 DEF StaleCovered
<1> QED  BY <1>1, <1>2, MovedFollowing

LEMMA ParkFollowing ==
    ASSUME Types, WorksOK, Following, CleanupFails \/ EndRound PROVE Following'
<1>1. Types' /\ Published(Views) /\ edges' = edges /\ round' = NoRound
  BY ParkPublished
<1>2. live \subseteq Views
  BY DEF Types
<1>3. StaleCovered'
  BY <1>1, NoRoundType DEF StaleCovered
<1> QED  BY <1>1, <1>2, <1>3, MovedFollowing

LEMMA CleanupFollowing ==
    ASSUME Types, WorksOK, Following, Cleanup PROVE Following'
<1>1. Types' /\ Published(Views)
  BY CleanupPublished
<1>2. /\ round.phase = "cleanup"
      /\ edges' = Dropped(UNION {round.works[i].drops : i \in DOMAIN round.works})
      /\ DOMAIN round'.works = DOMAIN round.works
      /\ \A j \in DOMAIN round.works : round'.works[j].deltas = round.works[j].deltas
  BY CleanupStep
<1>3. live \subseteq Views
  BY DEF Types
<1>4. StaleCovered'
  BY <1>1, <1>2, <1>3, PublishedStale DEF Following
<1>5. Pinned' /\ RowThere'
  <2>1. \A h \in Handlers : Cold(hdl[h]) /\ hdl[h].current => hdl[h].view \in Views
    BY <1>3 DEF Following, Pinned
  <2> QED  BY <1>1, <2>1, PublishedPinned DEF Following
<1>6. Leading'
  <2> SUFFICES ASSUME NEW v \in Kept PROVE Led(v)'
    BY <1>1 DEF Leading, Published, Kept
  <2>1. v \in Views /\ Led(v)
    BY <1>3 DEF Following, Leading, Kept
  <2>2. Covered(Line, v)
    BY <2>1 DEF Led
  <2>3. ASSUME NEW r \in Records PROVE Chain(Line, edges'[v][r], store[r], v, r)
    <3> DEFINE D == UNION {round.works[i].drops : i \in DOMAIN round.works}
    <3>1. edges'[v][r] = IF v \in D \/ r \in D THEN NoEdge ELSE edges[v][r]
      BY <1>2, <2>1 DEF Dropped
    <3>2. Chain(Line, edges[v][r], store[r], v, r)
      BY <2>1 DEF Led
    <3>3. ASSUME v \in D \/ r \in D PROVE Chain(Line, NoEdge, store[r], v, r)
      <4>1. PICK i \in DOMAIN round.works : v \in round.works[i].drops \/ r \in round.works[i].drops
        BY <3>3
      <4>2. i \in DOMAIN Line /\ (r \in Line[i].drops \/ v \in Line[i].drops)
        BY <4>1, LineDomain
      <4>3. PICK k \in DOMAIN Line : Resets(Current(Line[k], v), r)
        BY <2>2, <4>2 DEF Covered
      <4>4. Single(Line, v) /\ DOMAIN Line \subseteq Nat
        BY LineSingle, LineDomain
      <4> QED  BY <3>2, <4>3, <4>4, ChainDropped
    <3> HIDE DEF D
    <3>4. CASE v \in D \/ r \in D
      BY <3>1, <3>3, <3>4
    <3>5. CASE ~(v \in D \/ r \in D)
      BY <3>1, <3>2, <3>5
    <3> QED  BY <3>4, <3>5
  <2> QED  BY <1>1, <2>1, <2>2, <2>3, PublishedLed
<1> QED  BY <1>4, <1>5, <1>6 DEF Following

(* Without its row nothing is related; with it, every operation has its effect. *)
LEMMA AppliedEffect ==
    ASSUME Types, NEW i \in DOMAIN round.works, NEW d \in round.works[i].deltas,
           row[d.view] # "none", NEW r \in Records
    PROVE  Effect(Applied(d)[r], edges[d.view][r], d, r, Version(r))
<1>1. d \in DeltaRecord
  BY AppliedType
<1>2. d.view \in Views /\ d.op \in Ops /\ d.recs \in SUBSET Records
  BY <1>1 DEF DeltaRecord
<1>3. edges[d.view] \in [Records -> EdgeRecord] /\ edges[d.view][r] \in EdgeRecord
  BY <1>2 DEF Types
<1>4. PICK e : e = edges[d.view]
  OBVIOUS
<1>5. PICK n : n = Version(r)
  OBVIOUS
<1>6. e[r] \in EdgeRecord
  BY <1>3, <1>4
<1>7. /\ Touches({d}, r) <=> d.op = "full" \/ r \in d.recs
      /\ Clears({d}, r) <=> (d.op = "remove" /\ r \in d.recs) \/ (d.op = "full" /\ r \notin d.recs)
      /\ Sets({d}, r) <=> d.op = "full" /\ r \in d.recs
      /\ Adds({d}, r) <=> d.op = "add" /\ r \in d.recs
      /\ Updates({d}, r) <=> d.op = "update" /\ r \in d.recs
  BY <1>2 DEF Touches, Resets, Clears, Sets, Adds, Updates, Ops
<1>8. CASE d.op = "full"
  <2>1. Applied(d) = Related(NoEdges, d.view, d.recs)
    BY <1>8 DEF Applied
  <2>2. Related(NoEdges, d.view, d.recs)[r] =
           IF r \in d.recs THEN [n |-> 0 + 1, ver |-> n] ELSE NoEdge
    BY <1>5 DEF Related, NoEdges, NoEdge
  <2>3. Applied(d)[r] = IF r \in d.recs THEN [n |-> 1, ver |-> n] ELSE NoEdge
    BY <2>1, <2>2
  <2> QED  BY <1>4, <1>5, <1>7, <1>8, <2>3 DEF Effect
<1>9. CASE d.op = "add"
  <2>1. Applied(d) = Related(edges[d.view], d.view, d.recs)
    BY <1>9 DEF Applied
  <2>2. Applied(d)[r] = IF r \in d.recs THEN [n |-> e[r].n + 1, ver |-> n] ELSE e[r]
    BY <1>4, <1>5, <2>1 DEF Related
  <2> QED  BY <1>4, <1>5, <1>7, <1>9, <2>2 DEF Effect
<1>10. CASE d.op = "remove"
  <2>1. Applied(d)[r] = IF r \in d.recs THEN NoEdge ELSE e[r]
    BY <1>4, <1>10 DEF Applied
  <2> QED  BY <1>4, <1>5, <1>7, <1>10, <2>1 DEF Effect
<1>11. CASE d.op = "update"
  <2>1. Applied(d)[r] = IF r \in d.recs /\ e[r].n > 0 THEN [e[r] EXCEPT !.ver = n] ELSE e[r]
    BY <1>4, <1>5, <1>11 DEF Applied
  <2>2. e[r].n = 1 => [e[r] EXCEPT !.ver = n] = [n |-> 1, ver |-> n]
    BY <1>6 DEF EdgeRecord
  <2>3. e[r].n = 1 /\ r \in d.recs => Applied(d)[r] = [n |-> 1, ver |-> n]
    BY <2>1, <2>2
  <2>4. r \notin d.recs => Applied(d)[r] = e[r]
    BY <2>1
  <2> QED  BY <1>4, <1>5, <1>7, <1>11, <2>3, <2>4 DEF Effect
<1> QED  BY <1>2, <1>8, <1>9, <1>10, <1>11 DEF Ops

(* The version written is the newest, and the row's own if the work at hand has it. *)
LEMMA VersionOfRow ==
    ASSUME Types, WorksOK, NEW i \in DOMAIN round.works, NEW r \in Records,
           store[r] > 0, round.works[i].vers[r] = store[r]
    PROVE  Version(r) = store[r]
<1>1. PICK j \in DOMAIN round.works : Version(r) = round.works[j].vers[r]
  BY VersionIsNewest
<1>2. Version(r) \in 0..MaxEvents + 1 /\ store[r] <= Version(r)
  BY VersionIsNewest
<1>3. Line[j] = round.works[j] /\ j \in DOMAIN Line
  BY LineDomain
<1>4. Dated(Line[j], store, count.events)
  BY <1>3 DEF WorksOK, WorkOK
<1>5. store[r] \in 0..MaxEvents + 1
  BY DEF Types
<1>6. Version(r) <= store[r]
  <2>1. store[r] = 0 \/ Line[j].vers[r] <= store[r]
    BY <1>4 DEF Dated
  <2> QED  BY <1>1, <1>3, <1>5, <2>1
<1> QED  BY <1>2, <1>5, <1>6, BoundsAssumption

(* One delta less in the round: the rest of the invariant. *)
LEMMA OneLessRest ==
    ASSUME Types, Types', WorksOK, Following, NEW i, NEW d, NextDelta(i, d), OneLess(round', i, d),
           Published(Apart(d))
    PROVE  StaleCovered' /\ Pinned' /\ RowThere'
<1>1. i \in DOMAIN round.works /\ d \in round.works[i].deltas
  BY DEF NextDelta
<1>2. \A v \in Views : Current(round.works[i], v) = {} => v \in Apart(d)
  BY <1>1 DEF Apart, Current
<1>3. live \subseteq Views
  BY DEF Types
<1>4. StaleCovered'
  <2>1. /\ round'.phase = round.phase /\ DOMAIN round'.works = DOMAIN round.works
        /\ \A j \in DOMAIN round.works : round'.works[j].deltas \subseteq round.works[j].deltas
    BY DEF OneLess, Shrunk
  <2>2. \A v \in live : Superseded(Line, Len(round.works), v) => v \in Apart(d)
    BY <1>1, <1>2, <1>3, SupersededApart
  <2> QED  BY <2>1, <2>2, PublishedStale DEF Following
<1>5. \A h \in Handlers : Cold(hdl[h]) /\ hdl[h].current => hdl[h].view \in Apart(d)
  <2> SUFFICES ASSUME NEW h \in Handlers, Cold(hdl[h]), hdl[h].current
               PROVE  hdl[h].view \in Apart(d)
    OBVIOUS
  <2>1. hdl[h].view \in Views
    BY <1>3 DEF Following, Pinned
  <2>2. Current(round.works[i], hdl[h].view) = {}
    BY <1>1, PinnedApart DEF Following
  <2> QED  BY <1>2, <2>1, <2>2
<1>6. Pinned' /\ RowThere'
  BY <1>5, PublishedPinned DEF Following
<1> QED  BY <1>4, <1>6

(* A write for a view that has been registered anew leaves what the new content covers. *)
LEMMA StaleWriteLed ==
    ASSUME Types, StaleCovered, NEW v \in Kept, Led(v), NEW i, NEW d, NextDelta(i, d),
           d.view = v, ~d.current
    PROVE  \A r \in Records : \A e : Chain(Line, e, store[r], v, r)
<1>1. Superseded(Line, Len(round.works), v)
  BY DEF StaleCovered, NextDelta, Kept
<1>2. PICK k \in DOMAIN Line : FullAt(Line, k, v)
  BY <1>1 DEF Superseded
<1> SUFFICES ASSUME NEW r \in Records, NEW e PROVE Chain(Line, e, store[r], v, r)
  OBVIOUS
<1>3. Chain(Line, edges[v][r], store[r], v, r)
  BY DEF Led
<1>4. DOMAIN Line \subseteq Nat
  BY LineDomain
<1> QED  BY <1>2, <1>3, <1>4, ChainAnyEdge

(* What is left for a view when a current delta is next: nothing comes before it. *)
LEMMA NextCurrent ==
    ASSUME Types, WorksOK, NEW i, NEW d, NextDelta(i, d), d.current
    PROVE  /\ i \in DOMAIN Line /\ Line[i] = round.works[i]
           /\ Current(Line[i], d.view) = {d}
           /\ \A j \in DOMAIN Line : j < i => Current(Line[j], d.view) = {}
<1>1. i \in DOMAIN round.works /\ d \in round.works[i].deltas
  BY DEF NextDelta
<1>2. i \in DOMAIN Line /\ Line[i] = round.works[i]
  BY <1>1, LineDomain
<1>3. Single(Line, d.view)
  BY LineSingle
<1>4. Current(Line[i], d.view) = {d}
  <2>1. d \in Current(Line[i], d.view)
    BY <1>1, <1>2 DEF Current
  <2> QED  BY <1>2, <1>3, <2>1 DEF Single
<1>5. ASSUME NEW j \in DOMAIN Line, j < i PROVE Current(Line[j], d.view) = {}
  <2>1. j \in DOMAIN round.works /\ Line[j] = round.works[j]
    <3>1. j <= Len(round.works)
      BY <1>1, <1>2, <1>5, LineDomain
    <3> QED  BY <3>1, LineDomain
  <2>2. d.view \notin ViewsOf(round.works[j])
    BY <1>5, <2>1 DEF NextDelta
  <2> QED  BY <2>1, <2>2 DEF ViewsOf, Current
<1> QED  BY <1>2, <1>4, <1>5

LEMMA WriteCurrentLed ==
    ASSUME Types, Types', WorksOK, Following, NEW i, NEW d, NextDelta(i, d), d.current,
           d.view \in Kept, OneLess(round', i, d), queue' = queue, store' = store,
           edges' = [edges EXCEPT ![d.view] = Applied(d)]
    PROVE  Led(d.view)'
<1> DEFINE v == d.view
<1>1. i \in DOMAIN round.works /\ d \in round.works[i].deltas /\ round.phase = "write" /\ v \in Views
  BY DEF NextDelta, Kept, Types
<1>2. /\ Renumbered(Line, Line', SameOrder) /\ DOMAIN Line' = DOMAIN Line
      /\ Line'[i] = round'.works[i] /\ \A j \in DOMAIN Line : j # i => Line'[j] = Line[j]
  BY <1>1, OneLessPublished
<1>3. /\ i \in DOMAIN Line /\ Line[i] = round.works[i] /\ Current(Line[i], v) = {d}
      /\ \A j \in DOMAIN Line : j < i => Current(Line[j], v) = {}
  BY NextCurrent
<1>4. Current(Line'[i], v) = {}
  <2>1. round'.works[i].deltas = round.works[i].deltas \ {d}
    BY DEF OneLess
  <2> QED  BY <1>2, <1>3, <2>1 DEF Current
<1>5. \A j \in DOMAIN Line : Line'[j].vers = Line[j].vers /\ Line'[j].drops \subseteq Line[j].drops
  BY <1>2 DEF Renumbered, SameOrder
<1>6. \A j \in DOMAIN Line : j # i => Current(Line'[j], v) = Current(Line[j], v)
  BY <1>2
<1>7. row[v] # "none"
  <2>1. Current(round.works[i], v) # {}
    BY <1>3
  <2> QED  BY <1>1, <2>1, RowOfCurrent DEF Following
<1>8. DOMAIN Line \subseteq Nat /\ Single(Line, v) /\ Led(v)
  BY LineDomain, LineSingle DEF Following, Leading
<1>9. ASSUME NEW r \in Records PROVE Chain(Line', edges'[v][r], store'[r], v, r)
  <2>1. Effect(Applied(d)[r], edges[v][r], d, r, Version(r))
    BY <1>1, <1>7, AppliedEffect
  <2>2. edges'[v][r] = Applied(d)[r]
    BY <1>1 DEF Types
  <2>3. store[r] > 0 /\ Line[i].vers[r] = store[r] => Version(r) = store[r]
    BY <1>1, <1>3, VersionOfRow
  <2>4. Chain(Line, edges[v][r], store[r], v, r)
    BY <1>8 DEF Led
  <2>5. PICK e, f, s, n : e = edges[v][r] /\ f = edges'[v][r] /\ s = store[r] /\ n = Version(r)
    OBVIOUS
  <2>6. Chain(Line, e, s, v, r) /\ Effect(f, e, d, r, n) /\ (s > 0 /\ Line[i].vers[r] = s => n = s)
    BY <2>1, <2>2, <2>3, <2>4, <2>5
  <2> HIDE DEF v
  <2>7. PICK H, G : H = Line /\ G = Line'
    OBVIOUS
  <2>8. /\ DOMAIN H \subseteq Nat /\ DOMAIN G = DOMAIN H /\ Single(H, v) /\ i \in DOMAIN H
        /\ Current(H[i], v) = {d} /\ Current(G[i], v) = {}
        /\ \A j \in DOMAIN H : j < i => Current(H[j], v) = {}
    BY <1>2, <1>3, <1>4, <1>8, <2>7
  <2>9. /\ \A j \in DOMAIN H : j # i => Current(G[j], v) = Current(H[j], v)
        /\ \A j \in DOMAIN H : G[j].vers = H[j].vers
    BY <1>5, <1>6, <2>7
  <2>10. Chain(H, e, s, v, r) /\ (s > 0 /\ H[i].vers[r] = s => n = s)
    BY <2>6, <2>7
  <2>11. Chain(G, f, s, v, r)
    BY <2>6, <2>8, <2>9, <2>10, ChainWritten
  <2> QED  BY <2>5, <2>7, <2>11
<1>10. Covered(Line', v)
  <2> SUFFICES ASSUME NEW r \in Records, NEW j \in DOMAIN Line, r \in Line'[j].drops \/ v \in Line'[j].drops
               PROVE  \E k \in DOMAIN Line : j <= k /\ Resets(Current(Line'[k], v), r)
    BY <1>2 DEF Covered
  <2>1. r \in Line[j].drops \/ v \in Line[j].drops
    BY <1>5
  <2>2. PICK k \in DOMAIN Line : j <= k /\ Resets(Current(Line[k], v), r)
    BY <1>8, <2>1 DEF Led, Covered
  <2>3. k # i
    <3> SUFFICES ASSUME k = i PROVE FALSE
      OBVIOUS
    <3>1. j <= Len(round.works)
      BY <1>1, <1>8, <2>2, LineDomain
    <3>2. j \in DOMAIN round.works /\ Line[j] = round.works[j]
      BY <3>1, LineDomain
    <3> QED  BY <1>1, <2>1, <3>2 DEF WorksOK
  <2> QED  BY <1>6, <2>2, <2>3
<1> QED  BY <1>9, <1>10 DEF Led

LEMMA WriteFollowing ==
    ASSUME Types, WorksOK, Following, NEW i \in DOMAIN round.works, Write(i) PROVE Following'
<1>1. Types' /\ queue' = queue
  BY WriteStep
<1>2. PICK d : /\ NextDelta(i, d) /\ OneLess(round', i, d) /\ Published(Apart(d))
               /\ edges' = [edges EXCEPT ![d.view] = Applied(d)]
  BY WritePublished
<1>3. StaleCovered' /\ Pinned' /\ RowThere'
  BY <1>1, <1>2, OneLessRest
<1>4. Leading'
  <2> SUFFICES ASSUME NEW v \in Kept PROVE Led(v)'
    BY <1>2 DEF Leading, Published, Kept
  <2>1. v \in Views /\ Led(v) /\ Covered(Line, v)
    BY DEF Following, Leading, Led, Kept, Types
  <2>2. CASE v # d.view
    <3>1. v \in Apart(d)
      BY <2>1, <2>2 DEF Apart
    <3>2. edges'[v] = edges[v]
      BY <1>2, <2>1, <2>2 DEF Types
    <3>3. \A r \in Records : Chain(Line, edges'[v][r], store[r], v, r)
      BY <2>1, <3>2 DEF Led
    <3> QED  BY <1>1, <1>2, <2>1, <3>1, <3>3, PublishedLed
  <2>3. CASE v = d.view /\ ~d.current
    <3>1. v \in Apart(d)
      BY <2>1, <2>3 DEF Apart
    <3>2. \A r \in Records : \A e : Chain(Line, e, store[r], v, r)
      BY <1>2, <2>1, <2>3, StaleWriteLed DEF Following
    <3> QED  BY <1>1, <1>2, <2>1, <3>1, <3>2, PublishedLed
  <2>4. CASE v = d.view /\ d.current
    <3>1. store' = store
      BY <1>2 DEF Published
    <3> QED  BY <1>1, <1>2, <2>4, <3>1, WriteCurrentLed
  <2> QED  BY <2>2, <2>3, <2>4
<1> QED  BY <1>3, <1>4 DEF Following

LEMMA WriteFailsFollowing ==
    ASSUME Types, WorksOK, Following, NEW i \in DOMAIN round.works, WriteFails(i) PROVE Following'
<1>1. Types' /\ round'.phase = "write"
  BY WriteFailsPublished
<1>2. PICK d : /\ NextDelta(i, d)
               /\ \/ edges' = edges
                  \/ /\ d.op = "full"
                     /\ \A v \in Views : v # d.view => edges'[v] = edges[v]
               /\ \/ row[d.view] = "none" /\ OneLess(round', i, d) /\ Published(Apart(d))
                  \/ Line' = Line /\ round'.works = round.works /\ Published(Views)
  BY WriteFailsPublished
<1>3. live \subseteq Views
  BY DEF Types
<1>4. PICK V : /\ Published(V) /\ Apart(d) \subseteq V
               /\ StaleCovered' /\ Pinned' /\ RowThere'
               /\ d.view \in Kept /\ d.current => d.view \in V
  <2>1. CASE row[d.view] = "none" /\ OneLess(round', i, d) /\ Published(Apart(d))
    <3>1. StaleCovered' /\ Pinned' /\ RowThere'
      BY <1>1, <1>2, <2>1, OneLessRest
    <3>2. ~(d.view \in Kept /\ d.current)
      <4> SUFFICES ASSUME d.view \in Kept, d.current PROVE FALSE
        OBVIOUS
      <4>1. d \in Current(round.works[i], d.view)
        BY <1>2 DEF NextDelta, Current
      <4> QED  BY <2>1, <4>1, RowOfCurrent DEF Following
    <3> QED  BY <2>1, <3>1, <3>2
  <2>2. CASE Line' = Line /\ round'.works = round.works /\ Published(Views)
    <3>1. round.phase = "write"
      BY <1>2 DEF NextDelta
    <3>2. StaleCovered'
      BY <1>1, <1>3, <2>2, <3>1, PublishedStale DEF Following
    <3>3. \A h \in Handlers : Cold(hdl[h]) /\ hdl[h].current => hdl[h].view \in Views
      BY <1>3 DEF Following, Pinned
    <3>4. Pinned' /\ RowThere'
      BY <1>1, <2>2, <3>3, PublishedPinned DEF Following
    <3> QED  BY <1>3, <2>2, <3>2, <3>4 DEF Apart, Kept
  <2> QED  BY <1>2, <2>1, <2>2
<1>5. Leading'
  <2> SUFFICES ASSUME NEW v \in Kept PROVE Led(v)'
    BY <1>4 DEF Leading, Published, Kept
  <2>1. v \in Views /\ Led(v) /\ Covered(Line, v)
    BY <1>3 DEF Following, Leading, Led, Kept
  <2>2. v \in V
    <3>1. v = d.view /\ d.current => v \in V
      BY <1>4
    <3>2. v \in Apart(d) \/ (v = d.view /\ d.current)
      BY <2>1 DEF Apart
    <3> QED  BY <1>4, <3>1, <3>2
  <2>3. CASE edges'[v] = edges[v]
    <3>1. \A r \in Records : Chain(Line, edges'[v][r], store[r], v, r)
      BY <2>1, <2>3 DEF Led
    <3> QED  BY <1>1, <1>4, <2>1, <2>2, <3>1, PublishedLed
  <2>4. CASE v = d.view /\ ~d.current
    <3>1. \A r \in Records : \A e : Chain(Line, e, store[r], v, r)
      BY <1>2, <2>1, <2>4, StaleWriteLed DEF Following
    <3> QED  BY <1>1, <1>4, <2>1, <2>2, <3>1, PublishedLed
  <2>5. CASE v = d.view /\ d.current /\ d.op = "full"
    <3>1. FullAt(Line, i, v)
      BY <1>2, <2>5, NextCurrent DEF FullAt
    <3>2. ASSUME NEW r \in Records PROVE Chain(Line, edges'[v][r], store[r], v, r)
      <4>1. Chain(Line, edges[v][r], store[r], v, r)
        BY <2>1 DEF Led
      <4> QED  BY <3>1, <4>1, LineDomain, ChainAnyEdge
    <3> QED  BY <1>1, <1>4, <2>1, <2>2, <3>2, PublishedLed
  <2> QED  BY <1>2, <2>1, <2>3, <2>4, <2>5
<1> QED  BY <1>4, <1>5 DEF Following

-----------------------------------------------------------------------------
(* The handlers' steps. *)

(* Handlers go on or answer; nothing becomes a registration. *)
Leaves(H, G) ==
    \A h \in Handlers : Cold(G[h]) =>
        Cold(H[h]) /\ G[h].view = H[h].view /\ (G[h].current => H[h].current)

LEMMA LeavesOther ==
    ASSUME NEW h \in Handlers, ~Cold(hdl'[h]), \A g \in Handlers : g # h => hdl'[g] = hdl[g]
    PROVE  Leaves(hdl, hdl')
BY DEF Leaves

LEMMA QuietFollowing ==
    ASSUME Types, Following, Quiet, live' = live, owed \subseteq owed',
           \A v \in live \ owed' : edges'[v] = edges[v] /\ (row'[v] = "none" => row[v] = "none"),
           Leaves(hdl, hdl')
    PROVE  Following'
<1>1. Line' = Line /\ round' = round /\ store' = store /\ Goes(hdl, hdl', {})
  BY DEF Quiet, Line
<1>2. Kept' \subseteq Kept /\ Kept' = live \ owed'
  BY DEF Kept
<1>3. Leading'
  <2> SUFFICES ASSUME NEW v \in Kept' PROVE Led(v)'
    BY DEF Leading
  <2>1. Led(v) /\ edges'[v] = edges[v]
    BY <1>2 DEF Following, Leading
  <2> QED  BY <1>1, <2>1 DEF Led
<1>4. StaleCovered'
  BY <1>1 DEF Following, StaleCovered
<1>5. Pinned'
  <2> SUFFICES ASSUME NEW h \in Handlers, Cold(hdl'[h]), hdl'[h].current
               PROVE  hdl'[h].view \in live' /\ HeldBack(Line', h, hdl'[h].view)
    BY DEF Pinned
  <2>1. Cold(hdl[h]) /\ hdl[h].current /\ hdl'[h].view = hdl[h].view
    BY DEF Leaves
  <2> QED  BY <1>1, <2>1 DEF Following, Pinned
<1>6. RowThere'
  <2> SUFFICES ASSUME NEW v \in Kept', row'[v] = "none"
               PROVE  \E h \in Handlers : Cold(hdl'[h]) /\ hdl'[h].current /\ hdl'[h].view = v
    BY DEF RowThere
  <2>1. PICK h \in Handlers : Cold(hdl[h]) /\ hdl[h].current /\ hdl[h].view = v
    BY <1>2 DEF Following, RowThere
  <2> QED  BY <1>1, <2>1 DEF Goes
<1> QED  BY <1>3, <1>4, <1>5, <1>6 DEF Following

LEMMA JoinFollowing ==
    ASSUME Types, Following, NEW h \in Handlers, NEW v \in Views, Join(h, v), "early" \notin Faults
    PROVE  Following'
<1>1. Quiet
  BY JoinQuiet
<1>2. v \notin owed /\ owed' = owed \ {v} /\ live' = live /\ row' = row /\ edges' = edges
  BY DEF Join
<1>3. hdl'[h].pc = "join" /\ \A g \in Handlers : g # h => hdl'[g] = hdl[g]
  BY JoinHandler
<1>4. Leaves(hdl, hdl')
  BY <1>3, LeavesOther DEF Cold
<1> QED  BY <1>1, <1>2, <1>4, QuietFollowing

LEMMA RowKept ==
    ASSUME Types, NEW h \in Handlers, row' = [row EXCEPT ![hdl[h].view] = StateFor(hdl[h].rows)]
    PROVE  /\ hdl[h].view \in Views /\ row'[hdl[h].view] # "none"
           /\ \A v \in Views : v # hdl[h].view => row'[v] = row[v]
<1>1. hdl[h].view \in Views
  BY RowSet
<1>2. StateFor(hdl[h].rows) # "none"
  BY DEF StateFor
<1> QED  BY <1>1, <1>2 DEF Types

LEMMA JoinMetaFollowing ==
    ASSUME Types, Following, NEW h \in Handlers, JoinMeta(h) PROVE Following'
<1>1. Quiet
  BY JoinMetaQuiet
<1>2. /\ owed' = owed /\ live' = live /\ edges' = edges
      /\ row' = IF row[hdl[h].view] = "none"
                THEN [row EXCEPT ![hdl[h].view] = StateFor(hdl[h].rows)] ELSE row
  BY Zenon DEF JoinMeta
<1>3. \A v \in live : row'[v] = "none" => row[v] = "none"
  <2>1. live \subseteq Views
    BY DEF Types
  <2> QED  BY <1>2, <2>1, RowKept
<1>4. hdl'[h].pc = "probe" /\ \A g \in Handlers : g # h => hdl'[g] = hdl[g]
  BY JoinMetaHandler
<1>5. Leaves(hdl, hdl')
  BY <1>4, LeavesOther DEF Cold
<1> QED  BY <1>1, <1>2, <1>3, <1>5, QuietFollowing

LEMMA ProbeFollowing ==
    ASSUME Types, Following, NEW h \in Handlers, Probe(h) PROVE Following'
<1>1. Quiet
  BY ProbeQuiet
<1>2. owed' = owed /\ live' = live /\ edges' = edges /\ row' = row
  BY Zenon DEF Probe
<1>3. hdl'[h].pc \in {"idle", "repair", "check"} /\ \A g \in Handlers : g # h => hdl'[g] = hdl[g]
  BY ProbeHandler
<1>4. Leaves(hdl, hdl')
  BY <1>3, LeavesOther DEF Cold
<1> QED  BY <1>1, <1>2, <1>4, QuietFollowing

LEMMA CheckFollowing ==
    ASSUME Types, Following, NEW h \in Handlers, Check(h) PROVE Following'
<1>1. Quiet
  BY CheckQuiet
<1>2. owed' = owed /\ live' = live /\ edges' = edges /\ row' = row
      /\ (Answer(h) \/ Goto(h, "repair"))
  BY Zenon DEF Check
<1>3. hdl'[h].pc \in {"idle", "repair"} /\ \A g \in Handlers : g # h => hdl'[g] = hdl[g]
  BY <1>2, AnswerIdle, SetPc DEF Phases
<1>4. Leaves(hdl, hdl')
  BY <1>3, LeavesOther DEF Cold
<1> QED  BY <1>1, <1>2, <1>4, QuietFollowing

LEMMA RepairRowFollowing ==
    ASSUME Types, Following, NEW h \in Handlers, RepairRow(h) PROVE Following'
<1>1. Quiet
  BY RepairRowQuiet
<1>2. /\ owed' = owed /\ live' = live /\ edges' = edges
      /\ row' = [row EXCEPT ![hdl[h].view] = StateFor(hdl[h].rows)]
      /\ (Answer(h) \/ Goto(h, "snapshot"))
  BY Zenon DEF RepairRow
<1>3. \A v \in live : row'[v] = "none" => row[v] = "none"
  <2>1. live \subseteq Views
    BY DEF Types
  <2> QED  BY <1>2, <2>1, RowKept
<1>4. hdl'[h].pc \in {"idle", "snapshot"} /\ \A g \in Handlers : g # h => hdl'[g] = hdl[g]
  BY <1>2, AnswerIdle, SetPc DEF Phases
<1>5. Leaves(hdl, hdl')
  BY <1>4, LeavesOther DEF Cold
<1> QED  BY <1>1, <1>2, <1>3, <1>5, QuietFollowing

LEMMA DeleteRowFollowing ==
    ASSUME Types, Following, NEW v \in Views, DeleteRow(v) PROVE Following'
<1>1. Quiet
  BY DeleteRowQuiet
<1>2. /\ owed' = owed \cup {v} /\ live' = live /\ edges' = [edges EXCEPT ![v] = NoEdges]
      /\ row' = [row EXCEPT ![v] = "none"] /\ hdl' = hdl
  BY DEF DeleteRow
<1>3. \A u \in live \ owed' : edges'[u] = edges[u] /\ row'[u] = row[u]
  BY <1>2 DEF Types
<1>4. Leaves(hdl, hdl')
  BY <1>2 DEF Leaves
<1> QED  BY <1>1, <1>2, <1>3, <1>4, QuietFollowing

LEMMA MetaFailsFollowing ==
    ASSUME Types, Following, NEW h \in Handlers, MetaFails(h), "cancel" \notin Faults
    PROVE  Following'
<1>1. /\ hdl[h].pc = "meta" /\ count'.events = count.events
      /\ UNCHANGED <<store, live, row, edges, owed>>
      /\ Goto(h, "rollback") /\ UNCHANGED <<queue, round>>
  BY MetaFailsStep
<1>2. /\ Goes(hdl, hdl', {})
      /\ hdl'[h].pc = "rollback" /\ hdl'[h].view = hdl[h].view
      /\ hdl'[h].current <=> hdl[h].current
      /\ \A g \in Handlers : g # h => hdl'[g] = hdl[g]
  BY <1>1, RefusedQuiet
<1>3. Quiet
  BY <1>1, <1>2 DEF Quiet
<1>4. Leaves(hdl, hdl')
  BY <1>1, <1>2 DEF Leaves, Cold
<1> QED  BY <1>1, <1>3, <1>4, QuietFollowing

LEMMA MetaWrittenFollowing ==
    ASSUME Types, WorksOK, Following, NEW h \in Handlers, MetaWritten(h) PROVE Following'
<1>1. /\ Told(Line', Line, h, "yes") /\ hdl'[h].pc = "idle"
      /\ \A g \in Handlers : g # h => hdl'[g] = hdl[g]
      /\ round' = round
      /\ row' = [row EXCEPT ![hdl[h].view] = StateFor(hdl[h].rows)]
      /\ UNCHANGED <<store, live, edges, owed>>
  BY MetaWrittenLine
<1>2. \A u : SameFor(Line', Line, u)
  BY <1>1, ToldSameFor, LineDomain
<1>3. Kept' = Kept /\ Kept \subseteq Views
  BY <1>1 DEF Kept, Types
<1>4. Leading'
  <2> SUFFICES ASSUME NEW v \in Kept PROVE Led(v)'
    BY <1>3 DEF Leading
  <2>1. Led(v)
    BY DEF Following, Leading
  <2>2. Covered(Line', v)
    BY <1>2, <2>1, SameForCovered DEF Led
  <2>3. ASSUME NEW r \in Records PROVE Chain(Line', edges'[v][r], store'[r], v, r)
    <3>1. Chain(Line, edges[v][r], store[r], v, r)
      BY <2>1 DEF Led
    <3>2. Chain(Line', edges[v][r], store[r], v, r)
      BY <1>2, <3>1, SameForChain
    <3> QED  BY <1>1, <3>2
  <2> QED  BY <2>2, <2>3 DEF Led
<1>5. StaleCovered'
  <2> SUFFICES ASSUME round.phase \in {"cleanup", "write"}, NEW i \in DOMAIN round.works,
                      NEW d \in round.works[i].deltas, ~d.current, d.view \in live
               PROVE  Superseded(Line', Len(round.works), d.view)
    BY <1>1 DEF StaleCovered
  <2>1. PICK k \in DOMAIN Line : Len(round.works) < k /\ FullAt(Line, k, d.view)
    BY DEF Following, StaleCovered, Superseded
  <2>2. FullAt(Line', k, d.view)
    BY <1>2, <2>1, SameForFull
  <2> QED  BY <2>1, <2>2 DEF Superseded, FullAt
<1>6. Pinned'
  <2> SUFFICES ASSUME NEW g \in Handlers, Cold(hdl'[g]), hdl'[g].current
               PROVE  hdl'[g].view \in live' /\ HeldBack(Line', g, hdl'[g].view)
    BY DEF Pinned
  <2>1. g # h /\ hdl'[g] = hdl[g]
    BY <1>1 DEF Cold
  <2>2. hdl[g].view \in live
    BY <2>1 DEF Following, Pinned
  <2>3. PICK k \in DOMAIN Line : Line[k].by = g /\ Line[k].ready = "no" /\ FullAt(Line, k, hdl[g].view)
    BY <2>1 DEF Following, Pinned, HeldBack
  <2>4. FullAt(Line', k, hdl[g].view) /\ Line'[k] = Line[k] /\ k \in DOMAIN Line'
    BY <1>1, <1>2, <2>1, <2>3, SameForFull DEF Told
  <2> QED  BY <1>1, <2>1, <2>2, <2>3, <2>4 DEF HeldBack
<1>7. RowThere'
  <2> SUFFICES ASSUME NEW v \in Kept, row'[v] = "none"
               PROVE  \E g \in Handlers : Cold(hdl'[g]) /\ hdl'[g].current /\ hdl'[g].view = v
    BY <1>3 DEF RowThere
  <2>1. v # hdl[h].view /\ row[v] = "none"
    BY <1>1, <1>3, RowKept
  <2>2. PICK g \in Handlers : Cold(hdl[g]) /\ hdl[g].current /\ hdl[g].view = v
    BY <2>1 DEF Following, RowThere
  <2> QED  BY <1>1, <2>1, <2>2
<1> QED  BY <1>4, <1>5, <1>6, <1>7 DEF Following

LEMMA SameForTwice ==
    ASSUME NEW G, NEW H, NEW K, NEW v, SameFor(G, H, v), SameFor(K, G, v)
    PROVE  SameFor(K, H, v)
BY DEF SameFor

(* What the round still has of the other views when v is invalidated. *)
LEMMA RoundAgedOther ==
    ASSUME Types, NEW v \in Views, round'.works = Outdated(round.works, v),
           NEW i \in DOMAIN round'.works, NEW d \in round'.works[i].deltas, d.view # v
    PROVE  i \in DOMAIN round.works /\ d \in round.works[i].deltas
<1>1. round.works \in Seq(WorkRecord)
  BY RoundFields
<1>2. /\ Outdated(round.works, v) \in Seq(WorkRecord)
      /\ Len(Outdated(round.works, v)) = Len(round.works)
      /\ \A j \in 1..Len(round.works) : Outdated(round.works, v)[j] = OutdatedWork(round.works[j], v)
  BY <1>1, OutdatedSeq
<1>3. i \in 1..Len(round.works) /\ i \in DOMAIN round.works /\ round.works[i] \in WorkRecord
  BY <1>1, <1>2
<1>4. PICK w : w = round.works[i]
  OBVIOUS
<1>5. w \in WorkRecord /\ d \in OutdatedWork(w, v).deltas
  BY <1>2, <1>3, <1>4
<1>6. d \in {IF e.view = v THEN [e EXCEPT !.current = FALSE] ELSE e : e \in w.deltas}
  BY <1>5, OutdatedWorkFields
<1>7. PICK e \in w.deltas : d = IF e.view = v THEN [e EXCEPT !.current = FALSE] ELSE e
  BY <1>6
<1>8. e.view # v
  <2> SUFFICES ASSUME e.view = v PROVE FALSE
    OBVIOUS
  <2>1. e \in DeltaRecord /\ d = [e EXCEPT !.current = FALSE]
    BY <1>5, <1>7 DEF WorkRecord
  <2>2. d.view = e.view
    BY <2>1, StaleFields
  <2> QED  BY <2>2
<1> QED  BY <1>3, <1>4, <1>7, <1>8

LEMMA AgedStale ==
    ASSUME Types, StaleCovered, NEW v \in Views, round'.works = Outdated(round.works, v),
           round'.phase = round.phase, Len(round'.works) = Len(round.works),
           \A u \in live' : u # v => /\ u \in live
                                     /\ \A k : FullAt(Line, k, u) => FullAt(Line', k, u),
           v \in live' => Superseded(Line', Len(round.works), v)
    PROVE  StaleCovered'
<1> SUFFICES ASSUME round'.phase \in {"cleanup", "write"}, NEW i \in DOMAIN round'.works,
                    NEW d \in round'.works[i].deltas, ~d.current, d.view \in live'
             PROVE  Superseded(Line', Len(round'.works), d.view)
  BY DEF StaleCovered
<1>1. CASE d.view = v
  BY <1>1
<1>2. CASE d.view # v
  <2>1. i \in DOMAIN round.works /\ d \in round.works[i].deltas
    BY <1>2, RoundAgedOther
  <2>2. PICK k \in DOMAIN Line : Len(round.works) < k /\ FullAt(Line, k, d.view)
    BY <1>2, <2>1 DEF StaleCovered, Superseded
  <2>3. FullAt(Line', k, d.view) /\ k \in DOMAIN Line'
    BY <1>2, <2>2 DEF FullAt
  <2> QED  BY <2>2, <2>3 DEF Superseded
<1> QED  BY <1>1, <1>2

LEMMA RollbackFollowing ==
    ASSUME Types, WorksOK, Following, NEW h \in Handlers, Rollback(h) PROVE Following'
<1>1. /\ Abandon(h) /\ UNCHANGED <<store, row, edges, owed>>
      /\ live' = IF hdl[h].current THEN live \ {hdl[h].view} ELSE live
  BY Zenon DEF Rollback
<1> DEFINE v == hdl[h].view
<1>2. /\ v \in Views /\ Len(round'.works) = Len(round.works)
      /\ hdl[h].current => \E G : Aged(G, Line, v) /\ Told(Line', G, h, "never")
      /\ ~hdl[h].current => Told(Line', Line, h, "never")
  BY <1>1, AbandonLine
<1>3. /\ round'.phase = round.phase
      /\ hdl[h].current => round'.works = Outdated(round.works, v)
      /\ ~hdl[h].current => round' = round
      /\ hdl'[h].pc = "idle"
      /\ \A g \in Handlers : g # h =>
           /\ hdl'[g].pc = hdl[g].pc /\ hdl'[g].view = hdl[g].view
           /\ hdl[h].current /\ hdl[g].view = v => ~hdl'[g].current
           /\ ~hdl[h].current \/ hdl[g].view # v => hdl'[g] = hdl[g]
  BY <1>1, AbandonStep
<1> HIDE DEF v
<1>4. Kept' \subseteq Kept /\ Kept' \subseteq live' /\ live' \subseteq live /\ live \subseteq Views
      /\ (hdl[h].current => v \notin live')
  BY <1>1 DEF Kept, Types, v
<1>5. \A u \in live' : SameFor(Line', Line, u)
  <2> SUFFICES ASSUME NEW u \in live' PROVE SameFor(Line', Line, u)
    OBVIOUS
  <2>1. CASE hdl[h].current
    <3>1. PICK G : Aged(G, Line, v) /\ Told(Line', G, h, "never")
      BY <1>2, <2>1
    <3>2. SameFor(G, Line, u)
      BY <1>2, <1>4, <2>1, <3>1, AgedSameFor
    <3>3. DOMAIN G \subseteq Nat
      BY <3>2 DEF SameFor
    <3>4. SameFor(Line', G, u)
      BY <3>1, <3>3, ToldSameFor
    <3> QED  BY <3>2, <3>4, SameForTwice
  <2>2. CASE ~hdl[h].current
    BY <1>2, <2>2, ToldSameFor, LineDomain
  <2> QED  BY <2>1, <2>2
<1>6. \A j \in DOMAIN Line : Line[j].by # h => Line'[j].by = Line[j].by /\ Line'[j].ready = Line[j].ready
  <2>1. CASE hdl[h].current
    <3>1. PICK G : Aged(G, Line, v) /\ Told(Line', G, h, "never")
      BY <1>2, <2>1
    <3> QED  BY <1>2, <3>1, AgedFields DEF Told
  <2>2. CASE ~hdl[h].current
    BY <1>2, <2>2 DEF Told
  <2> QED  BY <2>1, <2>2
<1>7. Leading'
  <2> SUFFICES ASSUME NEW u \in Kept' PROVE Led(u)'
    BY DEF Leading
  <2>1. Led(u) /\ SameFor(Line', Line, u)
    BY <1>4, <1>5 DEF Following, Leading
  <2>2. Covered(Line', u)
    BY <2>1, SameForCovered DEF Led
  <2>3. ASSUME NEW r \in Records PROVE Chain(Line', edges'[u][r], store'[r], u, r)
    <3>1. Chain(Line, edges[u][r], store[r], u, r)
      BY <2>1 DEF Led
    <3>2. Chain(Line', edges[u][r], store[r], u, r)
      BY <2>1, <3>1, SameForChain
    <3> QED  BY <1>1, <3>2
  <2> QED  BY <2>2, <2>3 DEF Led
<1>8. StaleCovered'
  <2>1. \A u \in live' : u \in live /\ \A k : FullAt(Line, k, u) => FullAt(Line', k, u)
    BY <1>4, <1>5, SameForFull
  <2>2. CASE hdl[h].current
    BY <1>2, <1>3, <1>4, <2>1, <2>2, AgedStale DEF Following
  <2>3. CASE ~hdl[h].current
    <3> SUFFICES ASSUME round.phase \in {"cleanup", "write"}, NEW i \in DOMAIN round.works,
                        NEW d \in round.works[i].deltas, ~d.current, d.view \in live'
                 PROVE  Superseded(Line', Len(round.works), d.view)
      BY <1>3, <2>3 DEF StaleCovered
    <3>1. PICK k \in DOMAIN Line : Len(round.works) < k /\ FullAt(Line, k, d.view)
      BY <1>4 DEF Following, StaleCovered, Superseded
    <3>2. FullAt(Line', k, d.view) /\ k \in DOMAIN Line'
      BY <2>1, <3>1 DEF FullAt
    <3> QED  BY <3>1, <3>2 DEF Superseded
  <2> QED  BY <2>2, <2>3
<1>9. Pinned'
  <2> SUFFICES ASSUME NEW g \in Handlers, Cold(hdl'[g]), hdl'[g].current
               PROVE  hdl'[g].view \in live' /\ HeldBack(Line', g, hdl'[g].view)
    BY DEF Pinned
  <2>1. g # h /\ hdl'[g] = hdl[g] /\ ~(hdl[h].current /\ hdl[g].view = v)
    BY <1>3 DEF Cold
  <2>2. hdl[g].view \in live' /\ hdl[g].view \in live
    BY <1>1, <2>1 DEF Following, Pinned, v
  <2>3. PICK k \in DOMAIN Line : Line[k].by = g /\ Line[k].ready = "no" /\ FullAt(Line, k, hdl[g].view)
    BY <2>1 DEF Following, Pinned, HeldBack
  <2>4. FullAt(Line', k, hdl[g].view) /\ Line'[k].by = g /\ Line'[k].ready = "no"
    BY <1>5, <1>6, <2>1, <2>2, <2>3, SameForFull
  <2> QED  BY <2>1, <2>2, <2>4 DEF HeldBack, FullAt
<1>10. RowThere'
  <2> SUFFICES ASSUME NEW u \in Kept', row'[u] = "none"
               PROVE  \E g \in Handlers : Cold(hdl'[g]) /\ hdl'[g].current /\ hdl'[g].view = u
    BY DEF RowThere
  <2>1. PICK g \in Handlers : Cold(hdl[g]) /\ hdl[g].current /\ hdl[g].view = u
    BY <1>1, <1>4 DEF Following, RowThere
  <2>2. g # h /\ (~hdl[h].current \/ hdl[g].view # v)
    BY <1>4, <2>1 DEF v
  <2> QED  BY <1>3, <2>1, <2>2
<1> QED  BY <1>7, <1>8, <1>9, <1>10 DEF Following

-----------------------------------------------------------------------------
(* A work is added behind, and what is there for the view stays. *)
Grown(K, H, w, u) ==
    \E G : /\ SameFor(G, H, u) /\ Behind(K, G, w)
           /\ \A j \in DOMAIN H : G[j].by = H[j].by /\ G[j].ready = H[j].ready

LEMMA GrownFull ==
    ASSUME NEW K, NEW H, NEW w, NEW u, Grown(K, H, w, u), NEW k, FullAt(H, k, u)
    PROVE  FullAt(K, k, u) /\ K[k].by = H[k].by /\ K[k].ready = H[k].ready
<1>1. PICK G : /\ SameFor(G, H, u) /\ Behind(K, G, w)
               /\ \A j \in DOMAIN H : G[j].by = H[j].by /\ G[j].ready = H[j].ready
  BY DEF Grown
<1>2. FullAt(G, k, u)
  BY <1>1, SameForFull
<1>3. FullAt(K, k, u) /\ K[k] = G[k]
  BY <1>1, <1>2, BehindFull
<1> QED  BY <1>1, <1>3 DEF FullAt

LEMMA GrownLed ==
    ASSUME Types, Types', NEW u \in Views, Led(u), edges'[u] = edges[u], NEW w,
           Grown(Line', Line, w, u),
           \A r \in Records : Extends(w, store[r], store'[r], u, r),
           \A r \in Records : r \in w.drops \/ u \in w.drops => Resets(Current(w, u), r)
    PROVE  Led(u)'
<1>1. PICK G : SameFor(G, Line, u) /\ Behind(Line', G, w)
  BY DEF Grown
<1>2. Covered(Line', u)
  <2>1. Covered(G, u)
    BY <1>1, SameForCovered DEF Led
  <2> QED  BY <1>1, <2>1, BehindCovered
<1>3. ASSUME NEW r \in Records PROVE Chain(Line', edges'[u][r], store'[r], u, r)
  <2>1. Chain(Line, edges[u][r], store[r], u, r)
    BY DEF Led
  <2>2. PICK e, s, t : e = edges[u][r] /\ s = store[r] /\ t = store'[r]
    OBVIOUS
  <2>3. s \in Nat /\ t \in Nat
    BY <2>2, BoundsAssumption DEF Types
  <2>4. Chain(G, e, s, u, r) /\ Extends(w, s, t, u, r)
    BY <1>1, <2>1, <2>2, SameForChain
  <2>5. Chain(Line', e, t, u, r)
    BY <1>1, <2>3, <2>4, ChainAppend
  <2> QED  BY <2>2, <2>5
<1> QED  BY <1>2, <1>3 DEF Led

LEMMA SameForSelf == ASSUME Types, NEW u PROVE SameFor(Line, Line, u)
BY LineDomain DEF SameFor

LEMMA LineGrown ==
    ASSUME Types, NEW w \in WorkRecord, queue' = Append(queue, w), round' = round, NEW u
    PROVE  Grown(Line', Line, w, u)
<1>1. Behind(Line', Line, w)
  BY LineAppend
<1>2. SameFor(Line, Line, u)
  BY SameForSelf
<1> QED  BY <1>1, <1>2 DEF Grown

LEMMA AgedGrown ==
    ASSUME NEW G, NEW v \in Views, Aged(G, Line, v), NEW w, Behind(Line', G, w), NEW u \in Views, u # v
    PROVE  Grown(Line', Line, w, u)
<1>1. SameFor(G, Line, u)
  BY AgedSameFor
<1>2. \A j \in DOMAIN Line : G[j].by = Line[j].by /\ G[j].ready = Line[j].ready
  BY AgedFields
<1> QED  BY <1>1, <1>2 DEF Grown

(* A work is queued: what does not depend on it. *)
LEMMA AppendRest ==
    ASSUME Types, Following, NEW w \in WorkRecord, queue' = Append(queue, w), round' = round,
           live' = live, owed' = owed, row' = row, Goes(hdl, hdl', {}), Leaves(hdl, hdl')
    PROVE  StaleCovered' /\ Pinned' /\ RowThere'
<1>1. \A u : Grown(Line', Line, w, u)
  BY LineGrown
<1>2. StaleCovered'
  <2> SUFFICES ASSUME round.phase \in {"cleanup", "write"}, NEW i \in DOMAIN round.works,
                      NEW d \in round.works[i].deltas, ~d.current, d.view \in live
               PROVE  Superseded(Line', Len(round.works), d.view)
    BY DEF StaleCovered
  <2>1. PICK k \in DOMAIN Line : Len(round.works) < k /\ FullAt(Line, k, d.view)
    BY DEF Following, StaleCovered, Superseded
  <2>2. FullAt(Line', k, d.view)
    BY <1>1, <2>1, GrownFull
  <2> QED  BY <2>1, <2>2 DEF Superseded, FullAt
<1>3. Pinned'
  <2> SUFFICES ASSUME NEW h \in Handlers, Cold(hdl'[h]), hdl'[h].current
               PROVE  hdl'[h].view \in live /\ HeldBack(Line', h, hdl'[h].view)
    BY DEF Pinned
  <2>1. Cold(hdl[h]) /\ hdl[h].current /\ hdl'[h].view = hdl[h].view
    BY DEF Leaves
  <2>2. hdl[h].view \in live
    BY <2>1 DEF Following, Pinned
  <2>3. PICK k \in DOMAIN Line : Line[k].by = h /\ Line[k].ready = "no" /\ FullAt(Line, k, hdl[h].view)
    BY <2>1 DEF Following, Pinned, HeldBack
  <2>4. FullAt(Line', k, hdl[h].view) /\ Line'[k].by = Line[k].by /\ Line'[k].ready = Line[k].ready
    BY <1>1, <2>3, GrownFull
  <2> QED  BY <2>1, <2>2, <2>3, <2>4 DEF HeldBack, FullAt
<1>4. RowThere'
  <2> SUFFICES ASSUME NEW v \in Kept, row[v] = "none"
               PROVE  \E h \in Handlers : Cold(hdl'[h]) /\ hdl'[h].current /\ hdl'[h].view = v
    BY DEF RowThere, Kept
  <2>1. PICK h \in Handlers : Cold(hdl[h]) /\ hdl[h].current /\ hdl[h].view = v
    BY DEF Following, RowThere
  <2> QED  BY <2>1 DEF Goes
<1> QED  BY <1>2, <1>3, <1>4

(* What a change does to the row it is about, and to no other. *)
LEMMA ChangeExtends ==
    ASSUME Types, NEW op \in {"add", "update", "remove"}, NEW r \in Records, NEW rows, NEW w,
           ChangeOf(w, op, r, rows), NEW v \in live, NEW s \in Records
    PROVE  LET C == Current(w, v)
           IN  /\ s # r => ~Touches(C, s)
               /\ Adds(C, r) <=> op = "add"
               /\ Updates(C, r) <=> op = "update"
               /\ Clears(C, r) <=> op = "remove"
               /\ Touches(C, r)
<1> DEFINE C == Current(w, v)
<1>1. \A d \in C : d.op = op /\ d.recs = {r}
  BY DEF ChangeOf, Current
<1>2. \E d \in C : TRUE
  BY DEF ChangeOf, Current
<1> HIDE DEF C
<1>3. s # r => ~Touches(C, s)
  BY <1>1 DEF Touches, Resets, Sets, Clears, Adds, Updates
<1>4. Adds(C, r) <=> op = "add"
  BY <1>1, <1>2 DEF Adds
<1>5. Updates(C, r) <=> op = "update"
  BY <1>1, <1>2 DEF Updates
<1>6. Clears(C, r) <=> op = "remove"
  BY <1>1, <1>2 DEF Clears
<1>7. Touches(C, r)
  BY <1>4, <1>5, <1>6 DEF Touches, Resets
<1> QED  BY <1>3, <1>4, <1>5, <1>6, <1>7 DEF C

LEMMA IngestFollowing ==
    ASSUME Types, Types', Following, NEW r \in Records, Ingest(r) PROVE Following'
<1>1. UNCHANGED <<live, row, edges, owed, round, hdl>>
  BY Zenon DEF Ingest
<1>2. PICK op \in {"add", "update", "remove"}, rows \in [Records -> 0..MaxEvents + 1],
           w \in WorkRecord :
             /\ op = "add" <=> store[r] = 0
             /\ rows = [store EXCEPT ![r] = IF op = "remove" THEN 0 ELSE count.events + 2]
             /\ store' = rows
             /\ w = IngestWork(op, r, rows)
             /\ IF live = {} /\ op # "remove" THEN queue' = queue ELSE queue' = Append(queue, w)
  BY IngestStep
<1>3. ChangeOf(w, op, r, rows)
  BY <1>2, IngestWorkFields
<1>4. Goes(hdl, hdl', {}) /\ Leaves(hdl, hdl')
  BY <1>1 DEF Goes, Leaves
<1>5. CASE queue' = Append(queue, w)
  <2>1. StaleCovered' /\ Pinned' /\ RowThere'
    BY <1>1, <1>4, <1>5, AppendRest
  <2>2. Leading'
    <3> SUFFICES ASSUME NEW v \in Kept PROVE Led(v)'
      BY <1>1 DEF Leading, Kept
    <3>1. Led(v) /\ v \in live /\ v \in Views
      BY DEF Following, Leading, Kept, Types
    <3>2. Grown(Line', Line, w, v)
      BY <1>1, <1>5, LineGrown
    <3>3. ASSUME NEW s \in Records PROVE Extends(w, store[s], store'[s], v, s)
      <4>1. CASE s # r
        <5>1. ~Touches(Current(w, v), s)
          BY <1>3, <3>1, <4>1, ChangeExtends
        <5>2. store'[s] = store[s]
          BY <1>2, <4>1 DEF Types
        <5> QED  BY <5>1, <5>2 DEF Extends
      <4>2. CASE s = r
        <5>1. LET C == Current(w, v)
              IN  /\ Adds(C, r) <=> op = "add"
                  /\ Updates(C, r) <=> op = "update"
                  /\ Clears(C, r) <=> op = "remove"
                  /\ Touches(C, r)
          BY <1>3, <3>1, ChangeExtends
        <5>2. store'[r] = IF op = "remove" THEN 0 ELSE count.events + 2
          BY <1>2 DEF Types
        <5>3. store[r] \in Nat /\ count.events \in Nat
          BY BoundsAssumption DEF Types
        <5>4. w.vers[r] = store'[r]
          BY <1>2, <1>3, <3>1 DEF ChangeOf
        <5>5. store'[r] > 0 <=> op # "remove"
          BY <5>2, <5>3
        <5>6. (op = "add" => store[r] = 0) /\ (op = "update" => store[r] > 0)
          BY <1>2, <5>3
        <5> QED  BY <4>2, <5>1, <5>4, <5>5, <5>6 DEF Extends
      <4> QED  BY <4>1, <4>2
    <3>4. ASSUME NEW s \in Records, s \in w.drops \/ v \in w.drops PROVE Resets(Current(w, v), s)
      <4>1. w.drops = IF op = "remove" THEN {r} ELSE {}
        BY <1>3 DEF ChangeOf
      <4>2. v # r
        BY <3>1, SetsAssumption
      <4>3. op = "remove" /\ s = r
        BY <3>4, <4>1, <4>2
      <4>4. Clears(Current(w, v), r)
        BY <1>3, <3>1, <4>3, ChangeExtends
      <4> QED  BY <4>3, <4>4 DEF Resets
    <3>5. edges'[v] = edges[v]
      BY <1>1
    <3> QED  BY <3>1, <3>2, <3>3, <3>4, <3>5, GrownLed
  <2> QED  BY <2>1, <2>2 DEF Following
<1>6. CASE live = {} /\ queue' = queue
  <2>1. Kept' = {} /\ Line' = Line /\ round' = round /\ live' = live
    BY <1>1, <1>6 DEF Kept, Line
  <2> QED  BY <1>1, <2>1 DEF Following, Leading, StaleCovered, Pinned, RowThere
<1> QED  BY <1>2, <1>5, <1>6

(* A full publish ends as the rows are. *)
LEMMA FullWorkEnds ==
    ASSUME Types, NEW v \in Views, NEW by \in Handlers \cup {Nobody}, NEW w, w = FullWork(v, by)
    PROVE  /\ w \in WorkRecord /\ w.by = by /\ w.drops = {}
           /\ w.ready = IF by = Nobody THEN "yes" ELSE "no"
           /\ \E d : /\ Current(w, v) = {d} /\ d.op = "full"
                     /\ \A r \in Records : r \in d.recs <=> store[r] > 0
           /\ \A u : u # v => Current(w, u) = {}
           /\ \A r \in Records : store[r] > 0 => w.vers[r] = store[r]
<1>1. /\ w \in WorkRecord /\ w.by = by /\ w.drops = {}
      /\ w.ready = IF by = Nobody THEN "yes" ELSE "no"
      /\ w.deltas = {Delta(v, "full", Members)}
      /\ \A r \in Members : w.vers[r] = store[r]
  BY FullWorkFields
<1>2. PICK d : d = Delta(v, "full", Members)
  OBVIOUS
<1>3. d.view = v /\ d.op = "full" /\ d.recs = Members /\ d.current
  BY <1>2, MembersCount, DeltaFields DEF Ops
<1>4. w.deltas = {d}
  BY <1>1, <1>2
<1>5. Current(w, v) = {d} /\ \A u : u # v => Current(w, u) = {}
  BY <1>3, <1>4 DEF Current
<1>6. \A r \in Records : r \in d.recs <=> store[r] > 0
  BY <1>3 DEF Members
<1>7. \A r \in Records : store[r] > 0 => w.vers[r] = store[r]
  BY <1>1 DEF Members
<1> QED  BY <1>1, <1>3, <1>5, <1>6, <1>7

LEMMA NotTouched == ASSUME NEW w, NEW v, NEW r, NEW s, Current(w, v) = {} PROVE Extends(w, s, s, v, r)
BY TouchesSome DEF Extends

LEMMA RepairSnapshotFollowing ==
    ASSUME Types, Following, NEW h \in Handlers, RepairSnapshot(h) PROVE Following'
<1>1. /\ Types' /\ hdl[h].pc = "snapshot" /\ Answer(h)
      /\ UNCHANGED <<store, live, row, edges, owed, round, count>>
      /\ hdl[h].view \notin live => queue' = queue
      /\ hdl[h].view \in live => queue' = Append(queue, FullWork(hdl[h].view, Nobody))
  BY RepairSnapshotStep
<1>2. hdl'[h].pc = "idle" /\ \A g \in Handlers : g # h => hdl'[g] = hdl[g]
  BY <1>1, AnswerIdle
<1>3. Leaves(hdl, hdl')
  BY <1>2, LeavesOther DEF Cold
<1>4. Goes(hdl, hdl', {})
  BY <1>1, <1>2, GoesOther DEF Cold
<1>5. CASE hdl[h].view \notin live
  <2>1. Quiet
    BY <1>1, <1>4, <1>5 DEF Quiet
  <2> QED  BY <1>1, <1>3, <2>1, QuietFollowing
<1>6. CASE hdl[h].view \in live
  <2>1. PICK v : v = hdl[h].view
    OBVIOUS
  <2>2. v \in Views
    BY <2>1 DEF Types, HandlerRecord
  <2>3. PICK w : w = FullWork(v, Nobody)
    OBVIOUS
  <2>4. /\ w \in WorkRecord /\ w.drops = {}
        /\ \E d : /\ Current(w, v) = {d} /\ d.op = "full"
                  /\ \A r \in Records : r \in d.recs <=> store[r] > 0
        /\ \A u : u # v => Current(w, u) = {}
        /\ \A r \in Records : store[r] > 0 => w.vers[r] = store[r]
    BY <2>2, <2>3, FullWorkEnds
  <2>5. queue' = Append(queue, w) /\ store' = store /\ edges' = edges /\ round' = round
    BY <1>1, <1>6, <2>1, <2>3
  <2>6. StaleCovered' /\ Pinned' /\ RowThere'
    BY <1>1, <1>3, <1>4, <2>4, <2>5, AppendRest
  <2>7. Leading'
    <3> SUFFICES ASSUME NEW u \in Kept PROVE Led(u)'
      BY <1>1 DEF Leading, Kept
    <3>1. Led(u) /\ u \in Views
      BY DEF Following, Leading, Kept, Types
    <3>2. Grown(Line', Line, w, u)
      BY <2>4, <2>5, LineGrown
    <3>3. ASSUME NEW r \in Records PROVE Extends(w, store[r], store'[r], u, r)
      <4>1. CASE u # v
        BY <2>4, <2>5, <4>1, NotTouched
      <4>2. CASE u = v
        <5>1. PICK d : /\ Current(w, v) = {d} /\ d.op = "full" /\ (r \in d.recs <=> store[r] > 0)
          BY <2>4
        <5>2. LET C == Current(w, v)
              IN  Touches(C, r) /\ ~Adds(C, r) /\ ~Updates(C, r) /\ (Clears(C, r) <=> r \notin d.recs)
          BY <5>1 DEF Touches, Resets, Sets, Clears, Adds, Updates
        <5> QED  BY <2>4, <2>5, <4>2, <5>1, <5>2 DEF Extends
      <4> QED  BY <4>1, <4>2
    <3>4. edges'[u] = edges[u] /\ \A r \in Records : ~(r \in w.drops \/ u \in w.drops)
      BY <2>4, <2>5
    <3> QED  BY <1>1, <3>1, <3>2, <3>3, <3>4, GrownLed
  <2> QED  BY <2>6, <2>7 DEF Following
<1> QED  BY <1>5, <1>6

LEMMA UnregisterFollowing ==
    ASSUME Types, Following, NEW v \in Views, Unregister(v) PROVE Following'
<1>1. /\ Types' /\ live' = live \ {v} /\ owed' = owed \ {v}
      /\ UNCHANGED <<store, row, edges, count>>
  BY UnregisterStep
<1>2. PICK w : w = DropWork(v)
  OBVIOUS
<1>3. w.deltas = {} /\ w.drops = {v}
  BY <1>2, DropWorkFields
<1>4. PICK G : Aged(G, Line, v) /\ Behind(Line', G, w)
  BY <1>2, UnregisterLine
<1>5. /\ Len(round'.works) = Len(round.works)
      /\ round'.works = Outdated(round.works, v) /\ round'.phase = round.phase
      /\ \A g \in Handlers :
           /\ hdl'[g].pc = hdl[g].pc /\ hdl'[g].view = hdl[g].view
           /\ hdl[g].view = v => ~hdl'[g].current
           /\ hdl[g].view # v => hdl'[g] = hdl[g]
  BY UnregisterLine
<1>6. \A u \in Views : u # v => Grown(Line', Line, w, u)
  BY <1>4, AgedGrown
<1>7. live' \subseteq live /\ live \subseteq Views /\ v \notin live' /\ Kept' \subseteq Kept
      /\ Kept' \subseteq live'
  BY <1>1 DEF Types, Kept
<1>8. Leading'
  <2> SUFFICES ASSUME NEW u \in Kept' PROVE Led(u)'
    BY DEF Leading
  <2>1. Led(u) /\ u \in Views /\ u # v /\ Grown(Line', Line, w, u)
    BY <1>6, <1>7 DEF Following, Leading
  <2>2. Current(w, u) = {}
    BY <1>3 DEF Current
  <2>3. \A r \in Records : Extends(w, store[r], store'[r], u, r)
    BY <1>1, <2>2, NotTouched
  <2>4. \A r \in Records : ~(r \in w.drops \/ u \in w.drops)
    BY <1>3, <2>1, SetsAssumption
  <2>5. edges'[u] = edges[u]
    BY <1>1
  <2> QED  BY <1>1, <2>1, <2>3, <2>4, <2>5, GrownLed
<1>9. StaleCovered'
  <2>1. \A u \in live' : u # v => u \in live /\ \A k : FullAt(Line, k, u) => FullAt(Line', k, u)
    BY <1>6, <1>7, GrownFull
  <2> QED  BY <1>5, <1>7, <2>1, AgedStale DEF Following
<1>10. Pinned'
  <2> SUFFICES ASSUME NEW g \in Handlers, Cold(hdl'[g]), hdl'[g].current
               PROVE  hdl'[g].view \in live' /\ HeldBack(Line', g, hdl'[g].view)
    BY DEF Pinned
  <2>1. hdl'[g] = hdl[g] /\ hdl[g].view # v
    BY <1>5
  <2>2. hdl[g].view \in live' /\ hdl[g].view \in Views
    BY <1>1, <1>7, <2>1 DEF Following, Pinned
  <2>3. PICK k \in DOMAIN Line : Line[k].by = g /\ Line[k].ready = "no" /\ FullAt(Line, k, hdl[g].view)
    BY <2>1 DEF Following, Pinned, HeldBack
  <2>4. FullAt(Line', k, hdl[g].view) /\ Line'[k].by = g /\ Line'[k].ready = "no"
    BY <1>6, <2>1, <2>2, <2>3, GrownFull
  <2> QED  BY <2>1, <2>2, <2>4 DEF HeldBack, FullAt
<1>11. RowThere'
  <2> SUFFICES ASSUME NEW u \in Kept', row'[u] = "none"
               PROVE  \E g \in Handlers : Cold(hdl'[g]) /\ hdl'[g].current /\ hdl'[g].view = u
    BY DEF RowThere
  <2>1. PICK g \in Handlers : Cold(hdl[g]) /\ hdl[g].current /\ hdl[g].view = u
    BY <1>1, <1>7 DEF Following, RowThere
  <2>2. u # v
    BY <1>7
  <2> QED  BY <1>5, <2>1, <2>2
<1> QED  BY <1>8, <1>9, <1>10, <1>11 DEF Following

LEMMA RegisterColdFollowing ==
    ASSUME Types, Following, NEW h \in Handlers, NEW v \in Views, RegisterCold(h, v)
    PROVE  Following'
<1>1. /\ Types' /\ live' = live \cup {v} /\ owed' = owed \ {v} /\ v \notin live
      /\ hdl[h].pc = "idle" /\ UNCHANGED <<store, row, edges>>
  BY RegisterColdStep
<1>2. PICK w : w = FullWork(v, h)
  OBVIOUS
<1>3. /\ w.by = h /\ w.drops = {} /\ w.ready = "no"
      /\ \E d : /\ Current(w, v) = {d} /\ d.op = "full"
                /\ \A r \in Records : r \in d.recs <=> store[r] > 0
      /\ \A u : u # v => Current(w, u) = {}
      /\ \A r \in Records : store[r] > 0 => w.vers[r] = store[r]
  BY <1>2, NobodyAssumption, FullWorkEnds
<1>4. PICK G : Aged(G, Line, v) /\ Behind(Line', G, w)
  BY <1>2, RegisterColdLine
<1>5. /\ Len(round'.works) = Len(round.works)
      /\ round'.works = Outdated(round.works, v) /\ round'.phase = round.phase
      /\ hdl'[h].pc = "meta" /\ hdl'[h].view = v /\ hdl'[h].current
      /\ \A g \in Handlers : g # h =>
           /\ hdl'[g].pc = hdl[g].pc /\ hdl'[g].view = hdl[g].view
           /\ hdl[g].view = v => ~hdl'[g].current
           /\ hdl[g].view # v => hdl'[g] = hdl[g]
  BY RegisterColdLine
<1>6. \A u \in Views : u # v => Grown(Line', Line, w, u)
  BY <1>4, AgedGrown
<1>7. /\ live \subseteq Views /\ live' \subseteq Views /\ Kept' \subseteq live'
      /\ \A u \in live' : u # v => u \in live
      /\ \A u \in Kept' : u # v => u \in Kept
  BY <1>1 DEF Types, Kept
<1>8. \A j \in DOMAIN G : Current(G[j], v) = {}
  BY <1>4, AgedFields
<1>9. PICK d : Current(w, v) = {d} /\ d.op = "full" /\ \A r \in Records : r \in d.recs <=> store[r] > 0
  BY <1>3
<1>10. PICK n \in DOMAIN Line' : FullAt(Line', n, v) /\ Line'[n] = w /\ Len(round.works) < n
  <2>0. PICK n \in Nat : BehindAt(Line', G, w, n)
    BY <1>4, BehindFields
  <2>1. /\ DOMAIN Line' = DOMAIN G \cup {n} /\ n \notin DOMAIN G /\ Line'[n] = w
        /\ DOMAIN G \subseteq Nat
        /\ \A j \in DOMAIN G : j < n /\ Line'[j] = G[j]
    BY <2>0 DEF BehindAt
  <2>2. FullAt(Line', n, v)
    BY <1>8, <1>9, <2>1 DEF FullAt
  <2>3. Len(round.works) < n
    <3>1. DOMAIN G = DOMAIN Line
      BY <1>4, AgedFields
    <3>2. Len(round.works) \in Nat /\ \A j \in 1..Len(round.works) : j < n
      BY <2>1, <3>1, LineDomain
    <3>3. n # 0
      <4>1. DOMAIN Line' = 1..Len(G) + 1
        BY <1>4 DEF Behind
      <4>2. Len(G) \in Nat
        BY <1>4 DEF Behind
      <4> QED  BY <2>1, <4>1, <4>2
    <3>4. CASE Len(round.works) = 0
      BY <2>1, <3>3, <3>4
    <3>5. CASE Len(round.works) # 0
      <4>1. Len(round.works) \in 1..Len(round.works)
        BY <3>2, <3>5
      <4> QED  BY <3>2, <4>1
    <3> QED  BY <3>4, <3>5
  <2> QED  BY <2>1, <2>2, <2>3
<1>11. Led(v)'
  <2>1. \A r \in Records : Resets(Current(w, v), r)
    BY <1>9 DEF Resets, Sets, Clears
  <2>2. Covered(Line', v)
    BY <1>4, <2>1, BehindAllCovered
  <2>3. ASSUME NEW r \in Records PROVE Chain(Line', edges'[v][r], store'[r], v, r)
    <3>1. PICK e, s : e = edges'[v][r] /\ s = store[r]
      OBVIOUS
    <3>2. s \in Nat /\ (r \in d.recs <=> s > 0) /\ (s > 0 => w.vers[r] = s)
      BY <1>3, <1>9, <3>1, BoundsAssumption DEF Types
    <3>3. PICK K : K = Line'
      OBVIOUS
    <3>4. Behind(K, G, w) /\ Current(w, v) = {d} /\ d.op = "full"
      BY <1>4, <1>9, <3>3
    <3>5. Chain(K, e, s, v, r)
      BY <1>8, <3>2, <3>4, ChainFresh
    <3> QED  BY <1>1, <3>1, <3>3, <3>5
  <2> QED  BY <2>2, <2>3 DEF Led
<1>12. Leading'
  <2> SUFFICES ASSUME NEW u \in Kept', u # v PROVE Led(u)'
    BY <1>11 DEF Leading
  <2>1. Led(u) /\ u \in Views /\ Grown(Line', Line, w, u)
    BY <1>6, <1>7 DEF Following, Leading
  <2>2. \A r \in Records : Extends(w, store[r], store'[r], u, r)
    BY <1>1, <1>3, NotTouched
  <2>3. edges'[u] = edges[u] /\ \A r \in Records : ~(r \in w.drops \/ u \in w.drops)
    BY <1>1, <1>3
  <2> QED  BY <1>1, <2>1, <2>2, <2>3, GrownLed
<1>13. StaleCovered'
  <2>1. \A u \in live' : u # v => u \in live /\ \A k : FullAt(Line, k, u) => FullAt(Line', k, u)
    BY <1>6, <1>7, GrownFull
  <2>2. Superseded(Line', Len(round.works), v)
    BY <1>10 DEF Superseded
  <2> QED  BY <1>5, <2>1, <2>2, AgedStale DEF Following
<1>14. Pinned'
  <2> SUFFICES ASSUME NEW g \in Handlers, Cold(hdl'[g]), hdl'[g].current
               PROVE  hdl'[g].view \in live' /\ HeldBack(Line', g, hdl'[g].view)
    BY DEF Pinned
  <2>1. CASE g = h
    BY <1>1, <1>3, <1>5, <1>10, <2>1 DEF HeldBack
  <2>2. CASE g # h
    <3>1. hdl'[g] = hdl[g] /\ hdl[g].view # v
      BY <1>5, <2>2
    <3>2. hdl[g].view \in live /\ hdl[g].view \in Views
      BY <1>7, <3>1 DEF Following, Pinned
    <3>3. PICK k \in DOMAIN Line : Line[k].by = g /\ Line[k].ready = "no" /\ FullAt(Line, k, hdl[g].view)
      BY <3>1 DEF Following, Pinned, HeldBack
    <3>4. FullAt(Line', k, hdl[g].view) /\ Line'[k].by = g /\ Line'[k].ready = "no"
      BY <1>6, <3>1, <3>2, <3>3, GrownFull
    <3> QED  BY <1>1, <3>1, <3>2, <3>4 DEF HeldBack, FullAt
  <2> QED  BY <2>1, <2>2
<1>15. RowThere'
  <2> SUFFICES ASSUME NEW u \in Kept', row'[u] = "none"
               PROVE  \E g \in Handlers : Cold(hdl'[g]) /\ hdl'[g].current /\ hdl'[g].view = u
    BY DEF RowThere
  <2>1. CASE u = v
    BY <1>5, <2>1 DEF Cold
  <2>2. CASE u # v
    <3>1. PICK g \in Handlers : Cold(hdl[g]) /\ hdl[g].current /\ hdl[g].view = u
      BY <1>1, <1>7, <2>2 DEF Following, RowThere
    <3>2. g # h
      BY <1>1, <3>1 DEF Cold
    <3> QED  BY <1>5, <2>2, <3>1, <3>2
  <2> QED  BY <2>1, <2>2
<1> QED  BY <1>12, <1>13, <1>14, <1>15 DEF Following

-----------------------------------------------------------------------------
Inv == Base /\ Following

LEMMA InvStep ==
    ASSUME Faults \cap {"cancel", "early"} = {}, Inv, [Next]_vars
    PROVE  Inv'
<1>1. Types /\ WorksOK /\ Following /\ Base' /\ Types'
  BY BaseStep DEF Inv, Base
<1>2. "cancel" \notin Faults /\ "early" \notin Faults
  OBVIOUS
<1>3. ASSUME NEW r \in Records, Ingest(r) PROVE Following'
  BY <1>1, <1>3, IngestFollowing
<1>4. ASSUME NEW h \in Handlers, Handle(h) PROVE Following'
  <2>1. \/ MetaWritten(h) \/ Rollback(h) \/ JoinMeta(h) \/ Probe(h) \/ Check(h)
        \/ RepairRow(h) \/ RepairSnapshot(h)
    BY <1>4 DEF Handle
  <2> QED  BY <1>1, <2>1, MetaWrittenFollowing, RollbackFollowing, JoinMetaFollowing, ProbeFollowing,
              CheckFollowing, RepairRowFollowing, RepairSnapshotFollowing
<1>5. ASSUME NEW h \in Handlers, MetaFails(h) PROVE Following'
  BY <1>1, <1>2, <1>5, MetaFailsFollowing
<1>6. ASSUME NEW h \in Handlers, NEW v \in Views, RegisterCold(h, v) \/ Join(h, v) PROVE Following'
  BY <1>1, <1>2, <1>6, RegisterColdFollowing, JoinFollowing
<1>7. ASSUME NEW v \in Views, DeleteRow(v) \/ Unregister(v) PROVE Following'
  BY <1>1, <1>7, DeleteRowFollowing, UnregisterFollowing
<1>8. ASSUME NEW i \in DOMAIN queue, SourceSeen(i) \/ RetryDue(i) PROVE Following'
  BY <1>1, <1>8, WaitFollowing
<1>9. ASSUME Publish PROVE Following'
  <2>1. \/ \E i \in DOMAIN queue : Take(i)
        \/ \E i \in DOMAIN round.works : Write(i)
        \/ Filter \/ Cleanup \/ EndRound
    BY <1>9 DEF Publish
  <2> QED  BY <1>1, <2>1, TakeFollowing, WriteFollowing, FilterFollowing, CleanupFollowing, ParkFollowing
<1>10. ASSUME CleanupFails PROVE Following'
  BY <1>1, <1>10, ParkFollowing
<1>11. ASSUME NEW i \in DOMAIN round.works, WriteFails(i) PROVE Following'
  BY <1>1, <1>11, WriteFailsFollowing
<1>12. ASSUME UNCHANGED vars PROVE Following'
  BY <1>1, <1>12 DEF vars, Following, Leading, Led, StaleCovered, Pinned, RowThere, Kept, Line
<1>13. ASSUME Next PROVE Following'
  BY <1>3, <1>4, <1>5, <1>6, <1>7, <1>8, <1>9, <1>10, <1>11, <1>13, Zenon DEF Next
<1> QED  BY <1>1, <1>12, <1>13 DEF Inv

(* Nothing held for the view is nothing left in the line. *)
LEMMA NothingPending ==
    ASSUME Types, NEW v, ~HasPending(v), NEW j \in DOMAIN Line
    PROVE  Current(Line[j], v) = {}
<1>1. round.works \in Seq(WorkRecord) /\ queue \in Seq(WorkRecord)
  BY RoundFields DEF Types
<1>2. Parts(Line, round.works, queue) /\ Parts(Held, queue, round.works)
  BY <1>1, LineParts, PartsOf DEF Held
<1>3. \E i \in DOMAIN Held : Held[i] = Line[j]
  <2>1. CASE j \in DOMAIN round.works /\ Line[j] = round.works[j]
    BY <1>2, <2>1 DEF Parts
  <2>2. CASE j - Len(round.works) \in DOMAIN queue /\ Line[j] = queue[j - Len(round.works)]
    BY <1>2, <2>2 DEF Parts
  <2> QED  BY <1>2, <2>1, <2>2 DEF Parts
<1>4. v \notin ViewsOf(Line[j])
  BY <1>3 DEF HasPending
<1> QED  BY <1>4 DEF ViewsOf, Current

LEMMA InvEdges == Inv => EdgesFollow
<1> SUFFICES ASSUME Inv, NEW v \in Views, Settled(v)
             PROVE  edges[v] = [r \in Records |-> IF store[r] > 0 THEN [n |-> 1, ver |-> store[r]] ELSE NoEdge]
  BY DEF EdgesFollow
<1>1. v \in Kept /\ ~HasPending(v)
  BY DEF Settled, Kept
<1>2. Types /\ Led(v)
  BY <1>1 DEF Inv, Base, Following, Leading
<1>3. ASSUME NEW r \in Records PROVE edges[v][r] = Shown(store[r])
  <2>1. \A j \in DOMAIN Line : ~Touches(Current(Line[j], v), r)
    BY <1>1, <1>2, NothingPending, TouchesSome
  <2>2. Rests(Line, edges[v][r], store[r], v, r)
    BY <1>2 DEF Led, Chain
  <2> QED  BY <2>1, <2>2 DEF Rests
<1>4. edges[v] = [r \in Records |-> edges[v][r]]
  BY <1>2 DEF Types
<1> QED  BY <1>3, <1>4 DEF Shown

(* Once a registered view's row says ready and nothing is on its way for it, its edges are
   its rows, each once and at its version: however registrations, releases, changes and
   the publisher's rounds interleave and whichever row writes, edge writes and drops fail.
   A write that fails has landed not at all or, of a whole content, in part; one that
   commits and yet reports an error is not among them.
   The two things it needs: no registration is cut off by its caller, and a release is
   sent on before the view is joined again. *)
THEOREM EdgesFollowRows ==
    ASSUME Faults \cap {"cancel", "early"} = {}
    PROVE  Spec => []EdgesFollow
<1>1. Init => Inv
  BY InitBase, InitFollowing DEF Inv
<1>2. Inv /\ [Next]_vars => Inv'
  BY InvStep
<1>3. Inv => EdgesFollow
  BY InvEdges
<1> QED  BY <1>1, <1>2, <1>3, PTL DEF Spec
=============================================================================
