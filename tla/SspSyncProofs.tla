--------------------------- MODULE SspSyncProofs ---------------------------
(***************************************************************************)
(* SspSync for any number of SSPs, rows, events, registrations, redelivery *)
(* tasks and faults, and any bounds: its types, that an SSP on the live    *)
(* path shows every event fanned out so far, and what may move the         *)
(* snapshot that an SSP loads.                                             *)
(*                                                                         *)
(* ReadyIsCurrent is not inductive: what a live SSP shows was put there by *)
(* the bootstrap, the replay, the fan-out or a redelivery.  The invariant  *)
(* behind it, EventsFollowed, follows the events of one SSP: the buffer    *)
(* holds the last ones due (Queued), a task's batch those just before      *)
(* (Hand), the replayed rows and the snapshot account for the rest until   *)
(* the catch-up check (Replays), and the SSP shows them from then on       *)
(* (Showing).  Phase, Past and OneTask tie the tasks to the pool's state.  *)
(* Grounded is about the replica: short of nothing unless a re-clone left  *)
(* it so, and then every SSP bootstrapping from it counts as waived.       *)
(***************************************************************************)
EXTENDS SspSync, SequenceTheorems, WellFoundedInduction, TLAPS

-----------------------------------------------------------------------------
(* The operators of the model. *)

(* A nonempty set of bounded naturals has a maximum. *)
LEMMA MaxBounded ==
    ASSUME NEW N \in Nat, NEW S, S \subseteq 0..N, S # {}
    PROVE  /\ Max(S) \in S
           /\ \A n \in S : n <= Max(S)
<1> DEFINE T == {k \in Nat : k <= N /\ N - k \in S}
<1>1. PICK s \in S : TRUE
  OBVIOUS
<1>2. T \subseteq Nat /\ N - s \in T
  BY <1>1
<1>3. PICK x \in T : \A y \in T : ~ (<<y, x>> \in OpToRel(<, Nat))
  BY <1>2, WFMin, NatLessThanWellFounded
<1>4. \A y \in T : x <= y
  <2> SUFFICES ASSUME NEW y \in T, y < x PROVE FALSE
    OBVIOUS
  <2>1. <<y, x>> \in OpToRel(<, Nat)
    BY Zenon DEF OpToRel
  <2> QED  BY <2>1, <1>3
<1>5. ASSUME NEW n \in S PROVE n <= N - x
  <2>1. N - n \in T
    OBVIOUS
  <2>2. x <= N - n
    BY <2>1, <1>4
  <2> QED  BY <2>2
<1>6. \E m \in S : \A n \in S : m >= n
  BY <1>5
<1> QED  BY <1>6 DEF Max

LEMMA MaxOfTwo ==
    ASSUME NEW a \in Nat, NEW b \in Nat
    PROVE  Max({a, b}) = IF a <= b THEN b ELSE a
<1>1. \E m \in {a, b} : \A n \in {a, b} : m >= n
  OBVIOUS
<1>2. Max({a, b}) \in {a, b} /\ \A n \in {a, b} : Max({a, b}) >= n
  BY <1>1 DEF Max
<1> QED  BY <1>2

LEMMA MinOfTwo ==
    ASSUME NEW a \in Nat, NEW b \in Nat
    PROVE  Min({a, b}) = IF a <= b THEN a ELSE b
<1>1. \E m \in {a, b} : \A n \in {a, b} : m <= n
  OBVIOUS
<1>2. Min({a, b}) \in {a, b} /\ \A n \in {a, b} : Min({a, b}) <= n
  BY <1>1 DEF Min
<1> QED  BY <1>2

(* Span(a, b) is a, a + 1, ... b. *)
LEMMA SpanProperties ==
    ASSUME NEW a \in Nat, NEW b \in Nat, a >= 1, a <= b + 1, b <= MaxSeq
    PROVE  /\ Span(a, b) \in Seq(Events)
           /\ Len(Span(a, b)) = b + 1 - a
           /\ \A i \in 1..(b + 1 - a) : Span(a, b)[i] = a + i - 1
<1>1. \A i \in 1..(b + 1 - a) : a + i - 1 \in Events
  BY SyncBoundAssumption DEF Events
<1>2. Span(a, b) \in [1..(b + 1 - a) -> Events]
  BY <1>1 DEF Span
<1>3. b + 1 - a \in Nat
  OBVIOUS
<1>4. Span(a, b) \in Seq(Events)
  BY <1>2, <1>3, IsASeq
<1>5. Len(Span(a, b)) = b + 1 - a
  BY <1>2, <1>3, <1>4, LenProperties
<1> QED  BY <1>4, <1>5 DEF Span

(* PutAll shows, for a row the events touch, the last that touches it. *)
LEMMA PutAllProperties ==
    ASSUME NEW rs \in [Rows -> 0..MaxSeq], NEW events \in Seq(Events)
    PROVE  /\ PutAll(rs, events) \in [Rows -> 0..MaxSeq]
           /\ \A r \in Rows :
                \/ /\ \A i \in DOMAIN events : log[events[i]] # r
                   /\ PutAll(rs, events)[r] = rs[r]
                \/ \E i \in DOMAIN events :
                     /\ log[events[i]] = r /\ PutAll(rs, events)[r] = events[i]
                     /\ \A j \in DOMAIN events : log[events[j]] = r => j <= i
<1> DEFINE hits(r) == {i \in DOMAIN events : log[events[i]] = r}
<1>1. DOMAIN events = 1..Len(events) /\ Len(events) \in Nat
  OBVIOUS
<1>2. ASSUME NEW r \in Rows, hits(r) # {}
      PROVE  Max(hits(r)) \in hits(r) /\ \A j \in hits(r) : j <= Max(hits(r))
  BY <1>1, <1>2, MaxBounded
<1>3. ASSUME NEW r \in Rows
      PROVE  PutAll(rs, events)[r] = IF hits(r) = {} THEN rs[r] ELSE events[Max(hits(r))]
  BY DEF PutAll
<1>4. ASSUME NEW r \in Rows
      PROVE  \/ /\ \A i \in DOMAIN events : log[events[i]] # r
                /\ PutAll(rs, events)[r] = rs[r]
             \/ \E i \in DOMAIN events :
                  /\ log[events[i]] = r /\ PutAll(rs, events)[r] = events[i]
                  /\ \A j \in DOMAIN events : log[events[j]] = r => j <= i
  <2>1. CASE hits(r) = {}  BY <2>1, <1>3
  <2>2. CASE hits(r) # {}  BY <2>2, <1>2, <1>3
  <2> QED  BY <2>1, <2>2
<1>5. ASSUME NEW r \in Rows PROVE PutAll(rs, events)[r] \in 0..MaxSeq
  <2>1. \A i \in DOMAIN events : events[i] \in 0..MaxSeq
    BY <1>1, ElementOfSeq, SyncBoundAssumption DEF Events
  <2> QED  BY <2>1, <1>4
<1>6. PutAll(rs, events) = [r \in Rows |-> PutAll(rs, events)[r]]
  BY DEF PutAll
<1> QED  BY <1>4, <1>5, <1>6

(* What the remainder leaves of more than MaxBuffer events. *)
LEMMA RemainderBound ==
    ASSUME NEW n \in Nat, NEW d \in Nat, d >= 1, n >= d
    PROVE  n % d \in Nat /\ n % d <= n - d
<1>1. n % d \in 0..(d - 1) /\ n = d * (n \div d) + (n % d) /\ n \div d \in Int
  BY SMT
<1>2. n \div d >= 1
  <2> SUFFICES ASSUME n \div d <= 0 PROVE FALSE
    BY <1>1
  <2>1. d * (n \div d) <= 0
    BY <1>1
  <2> QED  BY <1>1, <2>1
<1>3. d * (n \div d) >= d
  BY <1>1, <1>2
<1> QED  BY <1>1, <1>3

(* buffer_message loses nothing, or the SSP is flagged. *)
LEMMA BufferedProperties ==
    ASSUME NEW s \in Ssps, buf \in [Ssps -> Seq(Events)], NEW events \in Seq(Events)
    PROVE  /\ Buffered(s, events).buf \in Seq(Events)
           /\ \/ Buffered(s, events).over = TRUE
              \/ /\ Buffered(s, events).buf = buf[s] \o events
                 /\ Buffered(s, events).over = (s \in overflowed)
<1> DEFINE queued == Min({Len(buf[s]), MaxBuffer}) + Len(events)
           kept == queued % (MaxBuffer + 1)
<1>1. buf[s] \in Seq(Events) /\ Len(buf[s]) \in Nat /\ Len(events) \in Nat /\ MaxBuffer \in Nat
  BY SyncBoundAssumption
<1>2. queued \in Nat /\ queued <= MaxBuffer + Len(events)
  <2>1. Min({Len(buf[s]), MaxBuffer}) = IF Len(buf[s]) <= MaxBuffer THEN Len(buf[s])
                                                                  ELSE MaxBuffer
    BY <1>1, MinOfTwo
  <2> QED  BY <1>1, <2>1
<1>3. CASE queued <= MaxBuffer
  <2>1. Buffered(s, events) = [buf |-> buf[s] \o events, over |-> s \in overflowed]
    BY <1>3 DEF Buffered
  <2> QED  BY <1>1, <2>1, ConcatProperties
<1>4. CASE ~(queued <= MaxBuffer)
  <2>1. Buffered(s, events) =
          [buf |-> SubSeq(events, Len(events) - kept + 1, Len(events)), over |-> TRUE]
    BY <1>4 DEF Buffered
  <2>2. kept \in Nat /\ kept <= queued - (MaxBuffer + 1)
    BY <1>1, <1>2, <1>4, RemainderBound, SMTT(40)
  <2> HIDE DEF kept, queued
  <2>3. Len(events) - kept + 1 >= 1 /\ Len(events) - kept + 1 \in Int
    BY <1>1, <1>2, <2>2
  <2>4. \A i \in (Len(events) - kept + 1)..Len(events) : events[i] \in Events
    BY <1>1, <2>3, ElementOfSeq
  <2>5. SubSeq(events, Len(events) - kept + 1, Len(events)) \in Seq(Events)
    BY <1>1, <2>3, <2>4, SubSeqProperties
  <2> QED  BY <2>1, <2>5
<1> QED  BY <1>3, <1>4

-----------------------------------------------------------------------------
(* The types the steps rely on, beyond those TypeOK states: nothing is drained that is not
   accepted, a copy under way is of events that were taken, and a task that posts has
   something to post. *)

CopyRecord == [st : {"none", "pending", "failed"}, next : 0..MaxSeq]
TaskRecord == [pc : {"none", "start", "post"}, gen : 0..MaxGen, batch : Seq(Events)]
PollPhases == {"none", "health", "mark", "collect", "replay", "drain", "verify", "clone",
               "flag", "flagall", "final", "last", "unfreeze", "thaw", "failed"}
PollRecord == [pc : PollPhases, from : 0..MaxSeq, todo : Seq(Events),
               seen : [Rows -> 0..MaxSeq], rejected : BOOLEAN]

SchedType ==
    /\ log \in Seq(Rows) /\ Len(log) <= MaxSeq
    /\ snap \in Nat /\ snap <= Len(log) /\ drained \in Nat /\ drained <= Len(log)
    /\ rows \in [Rows -> 0..MaxSeq] /\ spoiled \in BOOLEAN
    /\ status \in {"ready", "frozen"}

PoolType ==
    /\ inPool \subseteq Ssps /\ overflowed \subseteq Ssps /\ resync \subseteq Ssps
    /\ state \in [Ssps -> Queues \cup {"none", "ready"}]
    /\ gen \in [Ssps -> 0..MaxGen] /\ bootSeq \in [Ssps -> 0..MaxSeq]
    /\ failures \in [Ssps -> 0..(AdmitAfter - 1)]

BufType == buf \in [Ssps -> Seq(Events)]

FanType ==
    /\ fan \in [last : 0..MaxSeq, to : [Ssps -> CopyRecord]]
    /\ fan.last <= Len(log)
    /\ \A s \in Ssps : /\ fan.to[s].st = "none" => fan.to[s] = NoCopy
                       /\ fan.to[s].st # "none" => fan.to[s].next \in 1..fan.last

TaskType ==
    /\ redelivery \in [Ssps -> [Slots -> TaskRecord]]
    /\ \A s \in Ssps, i \in Slots :
         redelivery[s][i].pc = "post" => redelivery[s][i].batch # <<>>

PollType ==
    /\ poll \in [Ssps -> [Gens -> PollRecord]]
    /\ \A s \in Ssps, g \in Gens :
         /\ poll[s][g].pc \in {"replay", "last"} => poll[s][g].todo # <<>>
         /\ poll[s][g].from <= Len(log)

SspType ==
    /\ proc \in [Ssps -> {"down", "loading", "up"}]
    /\ shown \in [Ssps -> [Rows -> 0..MaxSeq]]

HistType ==
    /\ faults \in 0..MaxFaults
    /\ waived \subseteq Ssps /\ strayed \subseteq Ssps \X {"poll", "redelivery"}

TypeInv ==
    /\ SchedType /\ PoolType /\ BufType /\ FanType /\ TaskType /\ PollType /\ SspType
    /\ HistType

LEMMA TypeInvTypeOK == TypeInv => TypeOK
<1> SUFFICES ASSUME TypeInv PROVE TypeOK
  OBVIOUS
<1>1. snap \in 0..MaxSeq /\ drained \in 0..MaxSeq
  BY SyncBoundAssumption DEF TypeInv, SchedType
<1>2. /\ log \in Seq(Rows) /\ Len(log) <= MaxSeq /\ status \in {"ready", "frozen"}
      /\ rows \in [Rows -> 0..MaxSeq] /\ spoiled \in BOOLEAN
  BY DEF TypeInv, SchedType
<1>3. PoolType /\ BufType /\ SspType /\ HistType
  BY DEF TypeInv
<1>4. fan \in [last : 0..MaxSeq, to : [Ssps -> CopyRecord]]
  BY DEF TypeInv, FanType
<1>5. redelivery \in [Ssps -> [Slots -> TaskRecord]]
  BY DEF TypeInv, TaskType
<1>6. poll \in [Ssps -> [Gens -> PollRecord]]
  BY DEF TypeInv, PollType
<1> QED
  BY <1>1, <1>2, <1>3, <1>4, <1>5, <1>6, Zenon
  DEF TypeOK, PoolType, BufType, SspType, HistType, CopyRecord, TaskRecord, PollRecord,
      PollPhases

LEMMA NoPollType ==
    ASSUME NEW p \in PollPhases \ {"replay", "last"}
    PROVE  /\ [NoPoll EXCEPT !.pc = p] \in PollRecord
           /\ [NoPoll EXCEPT !.pc = p].pc = p
           /\ [NoPoll EXCEPT !.pc = p].from = 0
           /\ [NoPoll EXCEPT !.pc = p].seen = Nothing
<1>1. NoPoll \in PollRecord /\ NoPoll.from = 0 /\ NoPoll.seen = Nothing
  BY SyncBoundAssumption DEF NoPoll, PollRecord, PollPhases, Nothing
<1> QED  BY <1>1 DEF PollRecord

(* A task whose next events are set. *)
Updated(task, p, from, todo, seen, b) ==
    [task EXCEPT !.todo = todo, !.rejected = b, !.seen = seen, !.from = from, !.pc = p]

LEMMA InitType == Init => TypeInv
<1> SUFFICES ASSUME Init PROVE TypeInv
  OBVIOUS
<1>1. BufType /\ HistType /\ SspType
  BY SyncBoundAssumption DEF Init, BufType, HistType, SspType, Nothing
<1>0. SchedType
  <2>1. Nothing \in [Rows -> 0..MaxSeq] /\ <<>> \in Seq(Rows) /\ Len(<<>>) = 0 /\ MaxSeq \in Nat
    BY SyncBoundAssumption DEF Nothing
  <2>2. /\ log = <<>> /\ rows = Nothing /\ snap = 0 /\ drained = 0 /\ status = "ready"
        /\ spoiled \in BOOLEAN
    BY Zenon DEF Init
  <2> QED  BY <2>1, <2>2 DEF SchedType
<1>2. PoolType
  BY SyncBoundAssumption, ThresholdAssumption DEF Init, PoolType, Queues, Active
<1>3. FanType
  BY SyncBoundAssumption DEF Init, FanType, CopyRecord, NoCopy
<1>4. TaskType
  BY SyncBoundAssumption DEF Init, TaskType, TaskRecord, NoTask
<1>5. PollType
  BY SyncBoundAssumption DEF Init, PollType, PollRecord, PollPhases, NoPoll, Nothing
<1> QED  BY <1>0, <1>1, <1>2, <1>3, <1>4, <1>5 DEF TypeInv

(* What a task of a poll becomes. *)
LEMMA SetPollType ==
    ASSUME TypeInv, NEW s \in Ssps, NEW g \in Gens, NEW task \in PollRecord,
           task.pc \in {"replay", "last"} => task.todo # <<>>,
           UNCHANGED log, task.from <= Len(log), SetPoll(s, g, task)
    PROVE  PollType' /\ poll'[s][g] = task
<1>1. poll' = [poll EXCEPT ![s][g] = task]
  BY DEF SetPoll
<1>2. poll' \in [Ssps -> [Gens -> PollRecord]]
  BY <1>1 DEF TypeInv, PollType
<1>3. \A q \in Ssps, h \in Gens : poll'[q][h] = IF q = s /\ h = g THEN task ELSE poll[q][h]
  BY <1>1 DEF TypeInv, PollType
<1>4. \A q \in Ssps, h \in Gens : poll[q][h].from \in Nat
  BY SyncBoundAssumption DEF TypeInv, PollType, PollRecord
<1>5. Len(log) \in Nat
  BY DEF TypeInv, SchedType
<1>6. ASSUME NEW q \in Ssps, NEW h \in Gens
      PROVE  /\ poll'[q][h].pc \in {"replay", "last"} => poll'[q][h].todo # <<>>
             /\ poll'[q][h].from <= Len(log')
  <2>1. CASE q = s /\ h = g  BY <2>1, <1>3
  <2>2. CASE ~(q = s /\ h = g)
    <3>1. poll'[q][h] = poll[q][h]  BY <2>2, <1>3
    <3> QED  BY <3>1, <1>4, <1>5 DEF TypeInv, PollType
  <2> QED  BY <2>1, <2>2
<1> QED  BY <1>2, <1>3, <1>6 DEF PollType

LEMMA PollOfType ==
    ASSUME TypeInv, NEW s \in Ssps, NEW g \in Gens
    PROVE  /\ poll[s][g] \in PollRecord /\ poll[s][g].from <= Len(log)
           /\ poll[s][g].from \in Nat /\ Len(log) \in Nat /\ snap \in Nat
           /\ poll[s][g].pc \in {"replay", "last"} => poll[s][g].todo # <<>>
  BY SyncBoundAssumption DEF TypeInv, PollType, SchedType, PollRecord

LEMMA GotoType ==
    ASSUME TypeInv, NEW s \in Ssps, NEW g \in Gens, NEW p \in PollPhases \ {"replay", "last"},
           UNCHANGED log, Goto(s, g, p)
    PROVE  PollType' /\ poll'[s][g] = [NoPoll EXCEPT !.pc = p]
<1>1. SetPoll(s, g, [NoPoll EXCEPT !.pc = p])
  BY DEF Goto
<1> DEFINE task == [NoPoll EXCEPT !.pc = p]
<1>2. task \in PollRecord /\ task.pc = p /\ task.from = 0
  BY NoPollType
<1> HIDE DEF task
<1>3. SetPoll(s, g, task)
  BY <1>1 DEF task
<1>4. task.from <= Len(log)
  BY <1>2, PollOfType
<1>5. PollType' /\ poll'[s][g] = task
  BY <1>2, <1>3, <1>4, SetPollType
<1> QED  BY <1>5 DEF task

LEMMA StepPollType ==
    ASSUME TypeInv, NEW s \in Ssps, NEW g \in Gens, NEW p \in PollPhases \ {"replay", "last"},
           UNCHANGED log, SetPoll(s, g, [poll[s][g] EXCEPT !.pc = p])
    PROVE  PollType' /\ poll'[s][g] = [poll[s][g] EXCEPT !.pc = p]
<1> DEFINE task == [poll[s][g] EXCEPT !.pc = p]
<1>1. task \in PollRecord /\ task.pc = p /\ task.from = poll[s][g].from
  BY PollOfType DEF PollRecord
<1>2. SetPoll(s, g, task)
  OBVIOUS
<1>3. task.from <= Len(log)
  BY <1>1, PollOfType
<1> HIDE DEF task
<1>4. PollType' /\ poll'[s][g] = task
  BY <1>1, <1>2, <1>3, SetPollType
<1> QED  BY <1>4 DEF task

LEMMA ReplayType ==
    ASSUME TypeInv, NEW s \in Ssps, NEW g \in Gens, NEW events \in Seq(Events),
           NEW p \in {"replay", "last"}, NEW done \in PollPhases \ {"replay", "last"},
           UNCHANGED log, Replay(s, g, events, p, done)
    PROVE  /\ PollType'
           /\ poll'[s][g].todo = events /\ poll'[s][g].rejected = FALSE
           /\ poll'[s][g].pc = IF events = <<>> THEN done ELSE p
           /\ poll'[s][g].seen = IF p = "last" THEN poll[s][g].seen
                                 ELSE PutAll(poll[s][g].seen, events)
<1> DEFINE seen == IF p = "last" THEN poll[s][g].seen ELSE PutAll(poll[s][g].seen, events)
           pc == IF events = <<>> THEN done ELSE p
           no == FALSE
           task == Updated(poll[s][g], pc, 0, events, seen, no)
<1>1. poll[s][g] \in PollRecord /\ poll[s][g].seen \in [Rows -> 0..MaxSeq]
  BY PollOfType DEF PollRecord
<1>2. seen \in [Rows -> 0..MaxSeq]
  BY <1>1, PutAllProperties
<1>3. pc \in PollPhases /\ (pc \in {"replay", "last"} => events # <<>>)
  BY DEF PollPhases
<1>4. SetPoll(s, g, task)
  BY DEF Replay, Updated
<1>5. 0 \in 0..MaxSeq /\ no \in BOOLEAN
  BY SyncBoundAssumption
<1> HIDE DEF seen, pc, no
<1>6. /\ task \in PollRecord /\ task.todo = events /\ task.rejected = no
      /\ task.pc = pc /\ task.seen = seen /\ task.from = 0
  BY <1>1, <1>2, <1>3, <1>5 DEF PollRecord, Updated
<1> HIDE DEF task
<1>7. task.from <= Len(log)
  BY <1>6, PollOfType
<1>8. PollType' /\ poll'[s][g] = task
  BY <1>3, <1>4, <1>6, <1>7, SetPollType
<1> QED  BY <1>6, <1>8 DEF seen, pc, no

LEMMA TaskOfType ==
    ASSUME TypeInv, NEW s \in Ssps, NEW i \in Slots
    PROVE  /\ redelivery[s][i] \in TaskRecord
           /\ redelivery[s][i].pc = "post" => redelivery[s][i].batch # <<>>
  BY DEF TypeInv, TaskType

LEMMA SetTaskType ==
    ASSUME TypeInv, NEW s \in Ssps, NEW i \in Slots, NEW task \in TaskRecord,
           task.pc = "post" => task.batch # <<>>, SetTask(s, i, task)
    PROVE  TaskType' /\ redelivery'[s][i] = task
<1>1. redelivery' = [redelivery EXCEPT ![s][i] = task]
  BY DEF SetTask
<1>2. redelivery' \in [Ssps -> [Slots -> TaskRecord]]
  BY <1>1 DEF TypeInv, TaskType
<1>3. \A q \in Ssps, j \in Slots :
        redelivery'[q][j] = IF q = s /\ j = i THEN task ELSE redelivery[q][j]
  BY <1>1 DEF TypeInv, TaskType
<1> QED  BY <1>2, <1>3, TaskOfType DEF TaskType

LEMMA NoTaskType == NoTask \in TaskRecord /\ NoTask.pc = "none"
  BY SyncBoundAssumption DEF NoTask, TaskRecord

LEMMA FaultType ==
    ASSUME TypeInv, NEW k, Fault(k)
    PROVE  faults' \in 0..MaxFaults
  BY SyncBoundAssumption DEF TypeInv, HistType, Fault

LEMMA StrayType ==
    ASSUME TypeInv, NEW s \in Ssps, NEW g, NEW who \in {"poll", "redelivery"}, Stray(s, g, who)
    PROVE  strayed' \subseteq Ssps \X {"poll", "redelivery"}
  BY DEF TypeInv, HistType, Stray

LEMMA RemoveType ==
    ASSUME TypeInv, NEW s \in Ssps, RemoveSsp(s)
    PROVE  PoolType' /\ BufType'
<1>1. PoolType'
  BY SyncBoundAssumption, ThresholdAssumption DEF TypeInv, PoolType, RemoveSsp, Queues, Active
<1>2. BufType'
  BY DEF TypeInv, BufType, RemoveSsp
<1> QED  BY <1>1, <1>2

LEMMA MarkReadyType ==
    ASSUME TypeInv, NEW s \in Ssps, MarkReady(s)
    PROVE  PoolType'
  BY DEF TypeInv, PoolType, MarkReady

LEMMA PutType ==
    ASSUME TypeInv, NEW s \in Ssps, NEW e \in Events, UNCHANGED proc,
           shown' = [shown EXCEPT ![s] = Put(@, e)]
    PROVE  SspType'
<1>1. shown[s] \in [Rows -> 0..MaxSeq] /\ e \in 0..MaxSeq
  BY SyncBoundAssumption DEF TypeInv, SspType, Events
<1>2. Put(shown[s], e) \in [Rows -> 0..MaxSeq]
  BY <1>1 DEF Put
<1> QED  BY <1>2 DEF TypeInv, SspType

(* A drain: the replica and its seq only move on, and nothing is left in the buffer. *)
LEMMA DrainType ==
    ASSUME TypeInv, Drain
    PROVE  /\ snap' \in Nat /\ snap <= snap' /\ snap' <= Len(log) /\ drained' = Len(log)
           /\ snap' = Len(log) \/ (snap' = snap /\ drained = Len(log))
           /\ rows' \in [Rows -> 0..MaxSeq]
           /\ \A r \in Rows : rows'[r] >= rows[r]
           /\ \A r \in Rows : rows'[r] >= PutAll(Nothing, Span(drained + 1, Len(log)))[r]
<1>1. /\ snap \in Nat /\ snap <= Len(log) /\ drained \in Nat /\ drained <= Len(log)
      /\ Len(log) \in Nat /\ Len(log) <= MaxSeq /\ MaxSeq \in Nat
      /\ rows \in [Rows -> 0..MaxSeq]
  BY SyncBoundAssumption DEF TypeInv, SchedType
<1> DEFINE late == PutAll(Nothing, Span(drained + 1, Len(log)))
<1>2. late \in [Rows -> 0..MaxSeq]
  <2>1. /\ drained + 1 \in Nat /\ drained + 1 >= 1 /\ drained + 1 <= Len(log) + 1
        /\ Nothing \in [Rows -> 0..MaxSeq]
    BY <1>1 DEF Nothing
  <2> QED  BY <1>1, <2>1, SpanProperties, PutAllProperties
<1>3. rows' = [r \in Rows |-> Max({rows[r], late[r]})]
  BY DEF Drain
<1> HIDE DEF late
<1>4. ASSUME NEW r \in Rows
      PROVE  rows'[r] \in 0..MaxSeq /\ rows'[r] >= rows[r] /\ rows'[r] >= late[r]
  <2>1. rows[r] \in Nat /\ late[r] \in Nat /\ rows[r] \in 0..MaxSeq /\ late[r] \in 0..MaxSeq
    BY <1>1, <1>2
  <2>2. Max({rows[r], late[r]}) = IF rows[r] <= late[r] THEN late[r] ELSE rows[r]
    BY <2>1, MaxOfTwo
  <2> QED  BY <1>3, <2>1, <2>2
<1>5. rows' \in [Rows -> 0..MaxSeq]
  BY <1>3, <1>4
<1> QED  BY <1>1, <1>4, <1>5 DEF Drain, late

-----------------------------------------------------------------------------
(* Every step keeps the types. *)

LEMMA StreamType ==
    ASSUME TypeInv, SnapshotTick \/ \E r \in Rows : Ingest(r)
    PROVE  TypeInv'
<1> USE DEF memberVars, sspVars, histVars
<1>1. CASE SnapshotTick
  <2>1. /\ UNCHANGED <<log, spoiled, memberVars, buf, fan, redelivery, poll, sspVars, faults,
                       histVars>>
        /\ Drain /\ status' = "ready"
    BY <1>1 DEF SnapshotTick
  <2>2. SchedType'
    BY <2>1, DrainType DEF TypeInv, SchedType
  <2>3. PollType'
    BY <2>1, PollOfType DEF TypeInv, PollType, SchedType
  <2>4. PoolType' /\ BufType' /\ FanType' /\ TaskType' /\ SspType' /\ HistType'
    BY <2>1 DEF TypeInv, PoolType, BufType, FanType, TaskType, SspType, HistType
  <2> QED  BY <2>2, <2>3, <2>4 DEF TypeInv
<1>2. ASSUME NEW r \in Rows, Ingest(r) PROVE TypeInv'
  <2>1. UNCHANGED <<rows, snap, drained, status, spoiled, memberVars, buf, fan, redelivery, poll, sspVars,
                    faults, histVars>>
        /\ log' = Append(log, r) /\ Len(log) < MaxSeq
    BY <1>2 DEF Ingest
  <2>2. log' \in Seq(Rows) /\ Len(log') = Len(log) + 1 /\ Len(log) \in Nat
    BY <2>1 DEF TypeInv, SchedType
  <2>3. SchedType'
    BY <2>1, <2>2, SyncBoundAssumption DEF TypeInv, SchedType
  <2>4. FanType'
    BY <2>1, <2>2, SyncBoundAssumption DEF TypeInv, FanType
  <2>5. PoolType' /\ BufType' /\ TaskType' /\ SspType' /\ HistType'
    BY <2>1 DEF TypeInv, PoolType, BufType, TaskType, SspType, HistType
  <2>6. PollType'
    <3>1. \A q \in Ssps, h \in Gens : poll[q][h].from \in Nat /\ poll[q][h].from <= Len(log')
      BY <2>2, PollOfType
    <3> QED  BY <2>1, <3>1 DEF TypeInv, PollType
  <2> QED  BY <2>3, <2>4, <2>5, <2>6 DEF TypeInv
<1> QED  BY <1>1, <1>2

LEMMA EvictType ==
    ASSUME TypeInv, NEW s \in Ssps, Evict(s)
    PROVE  TypeInv'
<1>1. /\ RemoveSsp(s)
      /\ UNCHANGED <<log, rows, snap, drained, status, spoiled, fan, redelivery, poll, proc, shown, waived,
                     strayed>>
      /\ UNCHANGED faults \/ Fault("sweep")
  BY DEF Evict, schedVars, sspVars, histVars
<1>2. PoolType' /\ BufType'
  BY <1>1, RemoveType
<1>3. HistType'
  BY <1>1, FaultType DEF TypeInv, HistType
<1>4. SchedType' /\ FanType' /\ TaskType' /\ PollType' /\ SspType'
  BY <1>1 DEF TypeInv, SchedType, FanType, TaskType, PollType, SspType
<1> QED  BY <1>2, <1>3, <1>4 DEF TypeInv

LEMMA RegisterType ==
    ASSUME TypeInv, NEW s \in Ssps, Register(s)
    PROVE  TypeInv'
<1> DEFINE task == [NoPoll EXCEPT !.pc = "health", !.from = snap']
<1>1. /\ gen[s] < MaxGen /\ status' = "frozen"
      /\ inPool' = inPool \cup {s} /\ state' = [state EXCEPT ![s] = "bootstrapping"]
      /\ buf' = [buf EXCEPT ![s] = <<>>] /\ overflowed' = overflowed \ {s}
      /\ bootSeq' = [bootSeq EXCEPT ![s] = snap'] /\ gen' = [gen EXCEPT ![s] = @ + 1]
      /\ proc' = [proc EXCEPT ![s] = "loading"]
      /\ waived' \subseteq waived \cup {s} /\ strayed' = {x \in strayed : x[1] # s}
      /\ UNCHANGED <<log, spoiled, resync, failures, fan, redelivery, shown>>
      /\ UNCHANGED faults \/ Fault("retry")
  BY DEF Register
<1>2. Drain \/ UNCHANGED <<rows, snap, drained>>
  BY DEF Register
<1>3. SchedType' /\ snap' \in 0..MaxSeq /\ snap' \in Nat /\ snap' <= Len(log)
  <2>1. CASE Drain
    BY <1>1, <2>1, DrainType, SyncBoundAssumption DEF TypeInv, SchedType
  <2>2. CASE UNCHANGED <<rows, snap, drained>>
    BY <1>1, <2>2, SyncBoundAssumption DEF TypeInv, SchedType
  <2> QED  BY <1>2, <2>1, <2>2
<1>4. gen[s] \in Nat /\ gen[s] + 1 \in Gens
  BY <1>1, SyncBoundAssumption DEF TypeInv, PoolType, Gens
<1>5. PoolType'
  BY <1>1, <1>3, <1>4, SyncBoundAssumption DEF TypeInv, PoolType, Gens, Queues, Active
<1>6. BufType'
  BY <1>1 DEF TypeInv, BufType
<1>7. SetPoll(s, gen[s] + 1, task)
  BY DEF Register, SetPoll
<1>8. NoPoll \in PollRecord
  BY SyncBoundAssumption DEF NoPoll, PollRecord, PollPhases, Nothing
<1>9. task \in PollRecord /\ task.pc = "health" /\ task.from = snap'
  BY <1>3, <1>8 DEF PollRecord, PollPhases
<1> HIDE DEF task
<1>10. PollType'
  BY <1>1, <1>3, <1>4, <1>7, <1>9, SetPollType
<1>11. SspType'
  BY <1>1 DEF TypeInv, SspType
<1>12. HistType'
  BY <1>1, FaultType DEF TypeInv, HistType
<1>13. FanType' /\ TaskType'
  BY <1>1 DEF TypeInv, FanType, TaskType
<1> QED  BY <1>3, <1>5, <1>6, <1>10, <1>11, <1>12, <1>13 DEF TypeInv

LEMMA AtType ==
    ASSUME TypeInv, NEW n \in Nat, n <= Len(log)
    PROVE  At(n) \in [Rows -> 0..MaxSeq]
<1>1. n <= MaxSeq /\ Len(log) \in Nat
  BY SyncBoundAssumption DEF TypeInv, SchedType
<1>2. Nothing \in [Rows -> 0..MaxSeq]
  BY SyncBoundAssumption DEF Nothing
<1>3. Span(1, n) \in Seq(Events)
  BY <1>1, SpanProperties
<1> QED  BY <1>2, <1>3, PutAllProperties DEF At

LEMMA ProcessType ==
    ASSUME TypeInv, NEW s \in Ssps, Load(s) \/ CrashSsp(s) \/ Heartbeat(s)
    PROVE  TypeInv'
<1> USE DEF schedVars, memberVars, histVars, sspVars
<1>1. /\ UNCHANGED <<log, rows, snap, drained, status, spoiled, inPool, state, overflowed, gen, bootSeq,
                     failures, buf, fan, redelivery, poll, waived, strayed>>
      /\ resync' \subseteq resync
      /\ UNCHANGED faults \/ Fault("crash") \/ Fault("lost")
  BY DEF Load, CrashSsp, Heartbeat
<1>2. rows \in [Rows -> 0..MaxSeq] /\ Nothing \in [Rows -> 0..MaxSeq]
  BY SyncBoundAssumption DEF TypeInv, SchedType, Nothing
<1>3. SspType'
  <2>1. \/ UNCHANGED sspVars
        \/ /\ \E p \in {"down", "up"} : proc' = [proc EXCEPT ![s] = p]
           /\ \E r \in [Rows -> 0..MaxSeq] : shown' = [shown EXCEPT ![s] = r]
    BY <1>2 DEF Load, CrashSsp, Heartbeat
  <2> QED  BY <2>1 DEF TypeInv, SspType
<1>4. HistType'
  BY <1>1, FaultType DEF TypeInv, HistType
<1>5. PoolType'
  BY <1>1 DEF TypeInv, PoolType
<1>6. SchedType' /\ BufType' /\ FanType' /\ TaskType' /\ PollType'
  BY <1>1 DEF TypeInv, SchedType, BufType, FanType, TaskType, PollType
<1> QED  BY <1>3, <1>4, <1>5, <1>6 DEF TypeInv

LEMMA FanOfType ==
    ASSUME TypeInv, NEW s \in Ssps
    PROVE  /\ fan.to[s] \in CopyRecord /\ fan.last \in Nat /\ fan.last <= Len(log)
           /\ Len(log) \in Nat /\ Len(log) <= MaxSeq /\ MaxSeq \in Nat
           /\ fan.to[s].next \in Nat
           /\ fan.to[s].st = "none" => fan.to[s] = NoCopy
           /\ fan.to[s].st # "none" => fan.to[s].next \in 1..fan.last
  BY SyncBoundAssumption DEF TypeInv, FanType, SchedType, CopyRecord

LEMMA FanTakeType ==
    ASSUME TypeInv, FanTake
    PROVE  TypeInv'
<1>1. PICK last \in (fan.last + 1)..Len(log) :
        LET events == Span(fan.last + 1, last)
            queue == {s \in inPool : state[s] \in Queues}
        IN /\ Len(events) <= MaxBatch
           /\ fan' = [last |-> last,
                      to |-> [s \in Ssps |-> IF s \in inPool /\ state[s] = "ready"
                                             THEN [st |-> "pending", next |-> fan.last + 1]
                                             ELSE NoCopy]]
           /\ buf' = [s \in Ssps |-> IF s \in queue THEN Buffered(s, events).buf ELSE buf[s]]
           /\ overflowed' = overflowed \cup {s \in queue : Buffered(s, events).over}
  BY DEF FanTake
<1>2. UNCHANGED <<log, rows, snap, drained, status, spoiled, inPool, state, resync, gen, bootSeq, failures,
                  redelivery, poll, proc, shown, faults, waived, strayed>>
  BY DEF FanTake, schedVars, sspVars, histVars
<1>3. /\ fan.last \in Nat /\ last \in Nat /\ fan.last + 1 <= last /\ last <= Len(log)
      /\ Len(log) \in Nat /\ Len(log) <= MaxSeq /\ MaxSeq \in Nat
  BY SyncBoundAssumption DEF TypeInv, FanType, SchedType
<1>4. Span(fan.last + 1, last) \in Seq(Events)
  <2>1. /\ fan.last + 1 \in Nat /\ last \in Nat /\ fan.last + 1 >= 1
        /\ fan.last + 1 <= last + 1 /\ last <= MaxSeq
    BY <1>3
  <2> QED  BY <2>1, SpanProperties
<1>5. BufType'
  <2>1. \A s \in Ssps : Buffered(s, Span(fan.last + 1, last)).buf \in Seq(Events)
    BY <1>4, BufferedProperties DEF TypeInv, BufType
  <2> QED  BY <1>1, <2>1 DEF TypeInv, BufType
<1>6. PoolType'
  BY <1>1, <1>2 DEF TypeInv, PoolType
<1>7. FanType'
  <2>1. NoCopy \in CopyRecord /\ NoCopy.st = "none"
    BY <1>3 DEF NoCopy, CopyRecord
  <2>2. \A n \in 0..MaxSeq : [st |-> "pending", next |-> n] \in CopyRecord
    BY DEF CopyRecord
  <2> DEFINE to == [s \in Ssps |-> IF s \in inPool /\ state[s] = "ready"
                                   THEN [st |-> "pending", next |-> fan.last + 1] ELSE NoCopy]
  <2>3. fan' = [last |-> last, to |-> to]
    BY <1>1
  <2>4. to \in [Ssps -> CopyRecord]
    BY <1>3, <2>1, <2>2
  <2>5. \A s \in Ssps : to[s] = NoCopy \/ (to[s].st = "pending" /\ to[s].next = fan.last + 1)
    OBVIOUS
  <2> HIDE DEF to
  <2>6. fan'.last = last /\ fan'.to = to /\ fan' \in [last : 0..MaxSeq, to : [Ssps -> CopyRecord]]
    BY <1>3, <2>3, <2>4
  <2> QED  BY <1>2, <1>3, <2>1, <2>5, <2>6 DEF FanType
<1>8. SchedType' /\ TaskType' /\ PollType' /\ SspType' /\ HistType'
  BY <1>2 DEF TypeInv, SchedType, TaskType, PollType, SspType, HistType
<1> QED  BY <1>5, <1>6, <1>7, <1>8 DEF TypeInv

(* A copy is settled or fails. *)
LEMMA SetCopyType ==
    ASSUME TypeInv, NEW s \in Ssps, NEW copy \in CopyRecord,
           copy = NoCopy \/ (copy.st # "none" /\ copy.next \in 1..fan.last),
           fan' = [fan EXCEPT !.to[s] = copy], UNCHANGED log
    PROVE  /\ FanType' /\ fan'.last = fan.last /\ fan'.to[s] = copy
           /\ \A q \in Ssps : q # s => fan'.to[q] = fan.to[q]
<1>1. /\ fan' \in [last : 0..MaxSeq, to : [Ssps -> CopyRecord]] /\ fan'.last = fan.last
      /\ \A q \in Ssps : fan'.to[q] = IF q = s THEN copy ELSE fan.to[q]
  BY DEF TypeInv, FanType
<1>2. NoCopy.st = "none"
  BY DEF NoCopy
<1> QED  BY <1>1, <1>2 DEF TypeInv, FanType

(* The outcomes of the posts of one copy: what was applied, and what is left of it. *)
LEMMA FanPostCases ==
    ASSUME TypeInv, NEW s \in Ssps, FanPost(s)
    PROVE  /\ fan.to[s].st = "pending"
           /\ UNCHANGED <<log, rows, snap, drained, status, spoiled, inPool, state, overflowed, resync, gen,
                          bootSeq, failures, buf, redelivery, poll, proc, waived, strayed>>
           /\ UNCHANGED faults \/ Fault("post")
           /\ \/ /\ fan' = [fan EXCEPT !.to[s] = NoCopy]
                 /\ shown' = [shown EXCEPT ![s] = PutAll(@, Span(fan.to[s].next, fan.last))]
              \/ fan' = [fan EXCEPT !.to[s].st = "failed"] /\ UNCHANGED shown
              \/ \E from \in fan.to[s].next..fan.last, to \in (fan.to[s].next - 1)..fan.last :
                   /\ from - 1 <= to
                   /\ fan' = [fan EXCEPT !.to[s] = [st |-> "failed", next |-> from]]
                   /\ shown' = [shown EXCEPT ![s] = PutAll(@, Span(fan.to[s].next, to))]
<1> USE DEF schedVars, memberVars, histVars
<1>1. /\ fan.to[s].st = "pending"
      /\ UNCHANGED <<log, rows, snap, drained, status, spoiled, inPool, state, overflowed, resync, gen,
                     bootSeq, failures, buf, redelivery, poll, proc, waived, strayed>>
  BY DEF FanPost
<1>2. fan.to[s].next \in 1..fan.last /\ fan.last \in Nat /\ fan.to[s].next \in Nat
  BY <1>1, FanOfType
<1> DEFINE first == fan.to[s].next
           applied(to) == shown' = [shown EXCEPT ![s] = PutAll(@, Span(first, to))]
<1>3. CASE applied(fan.last) /\ fan' = [fan EXCEPT !.to[s] = NoCopy] /\ UNCHANGED faults
  BY <1>1, <1>3
<1>4. CASE UNCHANGED <<shown, faults>> /\ fan' = [fan EXCEPT !.to[s].st = "failed"]
  BY <1>1, <1>4
<1>5. ASSUME NEW from \in first..fan.last, NEW to \in from..fan.last,
             fan' = [fan EXCEPT !.to[s] = [st |-> "failed", next |-> from]],
             \/ applied(from - 1) /\ UNCHANGED faults
             \/ Fault("post") /\ (applied(from - 1) \/ applied(to))
      PROVE  /\ UNCHANGED faults \/ Fault("post")
             /\ \E f \in first..fan.last, t \in (first - 1)..fan.last :
                   /\ f - 1 <= t
                   /\ fan' = [fan EXCEPT !.to[s] = [st |-> "failed", next |-> f]]
                   /\ applied(t)
  <2>1. from \in first..fan.last /\ from - 1 \in (first - 1)..fan.last /\ from - 1 <= from - 1
    BY <1>2
  <2>2. to \in (first - 1)..fan.last /\ from - 1 <= to
    BY <1>2
  <2>3. UNCHANGED faults \/ Fault("post")
    BY <1>5
  <2>4. applied(from - 1) \/ applied(to)
    BY <1>5
  <2> HIDE DEF first, applied
  <2> QED  BY <1>5, <2>1, <2>2, <2>3, <2>4
<1>6. \/ applied(fan.last) /\ fan' = [fan EXCEPT !.to[s] = NoCopy] /\ UNCHANGED faults
      \/ UNCHANGED <<shown, faults>> /\ fan' = [fan EXCEPT !.to[s].st = "failed"]
      \/ \E from \in first..fan.last : \E to \in from..fan.last :
            /\ fan' = [fan EXCEPT !.to[s] = [st |-> "failed", next |-> from]]
            /\ \/ applied(from - 1) /\ UNCHANGED faults
               \/ Fault("post") /\ (applied(from - 1) \/ applied(to))
  BY DEF FanPost
<1>7. CASE \E from \in first..fan.last : \E to \in from..fan.last :
             /\ fan' = [fan EXCEPT !.to[s] = [st |-> "failed", next |-> from]]
             /\ \/ applied(from - 1) /\ UNCHANGED faults
                \/ Fault("post") /\ (applied(from - 1) \/ applied(to))
  BY <1>1, <1>5, <1>7
<1> QED  BY <1>3, <1>4, <1>6, <1>7

LEMMA FanPostType ==
    ASSUME TypeInv, NEW s \in Ssps, FanPost(s)
    PROVE  TypeInv'
<1>1. /\ fan.to[s].st = "pending"
      /\ UNCHANGED <<log, rows, snap, drained, status, spoiled, inPool, state, overflowed, resync, gen,
                     bootSeq, failures, buf, redelivery, poll, proc, waived, strayed>>
      /\ UNCHANGED faults \/ Fault("post")
  BY FanPostCases
<1>2. /\ fan.to[s].next \in 1..fan.last /\ fan.last \in Nat /\ fan.last <= MaxSeq
      /\ fan.to[s] \in CopyRecord
  BY <1>1, FanOfType
<1>3. \A to \in (fan.to[s].next - 1)..fan.last :
        PutAll(shown[s], Span(fan.to[s].next, to)) \in [Rows -> 0..MaxSeq]
  <2> SUFFICES ASSUME NEW to \in (fan.to[s].next - 1)..fan.last
               PROVE  PutAll(shown[s], Span(fan.to[s].next, to)) \in [Rows -> 0..MaxSeq]
    OBVIOUS
  <2>1. Span(fan.to[s].next, to) \in Seq(Events)
    <3>1. /\ fan.to[s].next \in Nat /\ to \in Nat /\ fan.to[s].next >= 1
          /\ fan.to[s].next <= to + 1 /\ to <= MaxSeq
      BY <1>2, SyncBoundAssumption
    <3> QED  BY <3>1, SpanProperties
  <2>2. shown[s] \in [Rows -> 0..MaxSeq]
    BY DEF TypeInv, SspType
  <2> QED  BY <2>1, <2>2, PutAllProperties
<1>4. SspType'
  <2>1. UNCHANGED shown \/ \E to \in (fan.to[s].next - 1)..fan.last :
                             shown' = [shown EXCEPT ![s] = PutAll(@, Span(fan.to[s].next, to))]
    BY <1>2, FanPostCases
  <2> QED  BY <1>1, <1>3, <2>1 DEF TypeInv, SspType
<1>5. FanType'
  <2>1. CASE fan' = [fan EXCEPT !.to[s] = NoCopy]
    BY <1>1, <2>1, SetCopyType, SyncBoundAssumption DEF NoCopy, CopyRecord
  <2>2. CASE fan' = [fan EXCEPT !.to[s].st = "failed"]
    <3> DEFINE copy == [fan.to[s] EXCEPT !.st = "failed"]
    <3>1. copy \in CopyRecord /\ copy.st = "failed" /\ copy.next = fan.to[s].next
      BY <1>2 DEF CopyRecord
    <3>2. fan' = [fan EXCEPT !.to[s] = copy]
      BY <2>2 DEF TypeInv, FanType
    <3> HIDE DEF copy
    <3> QED  BY <1>1, <1>2, <3>1, <3>2, SetCopyType
  <2>3. ASSUME NEW from \in fan.to[s].next..fan.last,
               fan' = [fan EXCEPT !.to[s] = [st |-> "failed", next |-> from]]
        PROVE  FanType'
    <3> DEFINE copy == [st |-> "failed", next |-> from]
    <3>1. copy \in CopyRecord /\ copy.st = "failed" /\ copy.next \in 1..fan.last
      BY <1>2, SyncBoundAssumption DEF CopyRecord
    <3> HIDE DEF copy
    <3>2. fan' = [fan EXCEPT !.to[s] = copy]
      BY <2>3 DEF copy
    <3> QED  BY <1>1, <3>1, <3>2, SetCopyType
  <2> QED  BY <2>1, <2>2, <2>3, FanPostCases
<1>6. HistType'
  BY <1>1, FaultType DEF TypeInv, HistType
<1>7. SchedType' /\ PoolType' /\ BufType' /\ TaskType' /\ PollType'
  BY <1>1 DEF TypeInv, SchedType, PoolType, BufType, TaskType, PollType
<1> QED  BY <1>4, <1>5, <1>6, <1>7 DEF TypeInv

(* What is left of a failed copy is queued. *)
LEMMA FanMarkType ==
    ASSUME TypeInv, NEW s \in Ssps, FanMark(s)
    PROVE  TypeInv'
<1> USE DEF schedVars, sspVars, histVars
<1> DEFINE events == Span(fan.to[s].next, fan.last)
<1>1. /\ fan.to[s].st = "failed" /\ fan' = [fan EXCEPT !.to[s] = NoCopy]
      /\ state' = [state EXCEPT ![s] = IF state[s] = "ready" THEN "lagging" ELSE @]
      /\ UNCHANGED <<log, rows, snap, drained, status, spoiled, inPool, resync, gen, bootSeq, failures, poll,
                     proc, shown, faults, waived, strayed>>
  BY DEF FanMark
<1>2. events \in Seq(Events)
  <2>1. /\ fan.to[s].next \in Nat /\ fan.last \in Nat /\ fan.to[s].next >= 1
        /\ fan.to[s].next <= fan.last + 1 /\ fan.last <= MaxSeq
    BY <1>1, FanOfType
  <2> QED  BY <2>1, SpanProperties
<1>3. Buffered(s, events).buf \in Seq(Events)
  BY <1>2, BufferedProperties DEF TypeInv, BufType
<1>4. \/ buf' = [buf EXCEPT ![s] = Buffered(s, events).buf]
      \/ UNCHANGED buf
  BY DEF FanMark
<1>5. BufType'
  BY <1>3, <1>4 DEF TypeInv, BufType
<1>6. overflowed' \subseteq Ssps
  <2>1. overflowed' = overflowed \cup {s} \/ overflowed' = overflowed
    BY DEF FanMark
  <2> QED  BY <2>1 DEF TypeInv, PoolType
<1>7. PoolType'
  BY <1>1, <1>6 DEF TypeInv, PoolType, Queues, Active
<1>8. FanType'
  BY <1>1, SetCopyType, SyncBoundAssumption DEF NoCopy, CopyRecord
<1>9. TaskType'
  <2> DEFINE task == [pc |-> "start", gen |-> gen[s], batch |-> <<>>]
  <2>1. UNCHANGED redelivery \/ \E i \in Slots : SetTask(s, i, task)
    BY DEF FanMark, SetTask
  <2>2. task \in TaskRecord /\ task.pc = "start"
    BY DEF TaskRecord, TypeInv, PoolType
  <2> HIDE DEF task
  <2>3. CASE UNCHANGED redelivery  BY <2>3 DEF TypeInv, TaskType
  <2>4. CASE \E i \in Slots : SetTask(s, i, task)  BY <2>2, <2>4, SetTaskType
  <2> QED  BY <2>1, <2>3, <2>4
<1>10. SchedType' /\ PollType' /\ SspType' /\ HistType'
  BY <1>1 DEF TypeInv, SchedType, PollType, SspType, HistType
<1> QED  BY <1>5, <1>7, <1>8, <1>9, <1>10 DEF TypeInv

LEMMA SetBufType ==
    ASSUME TypeInv, NEW s \in Ssps, NEW queue \in Seq(Events), buf' = [buf EXCEPT ![s] = queue]
    PROVE  BufType' /\ buf'[s] = queue /\ \A q \in Ssps : q # s => buf'[q] = buf[q]
  BY DEF TypeInv, BufType

LEMMA NoEvents == <<>> \in Seq(Events) /\ Len(<<>>) = 0
  OBVIOUS

LEMMA RedeliverTakeType ==
    ASSUME TypeInv, NEW s \in Ssps, NEW i \in Slots, RedeliverTake(s, i)
    PROVE  TypeInv'
<1> USE DEF schedVars, memberVars, sspVars
<1> DEFINE task == redelivery[s][i]
           taken == [task EXCEPT !.pc = "post", !.batch = buf[s]]
<1>1. UNCHANGED <<log, rows, snap, drained, status, spoiled, fan, poll, proc, shown, faults, waived>>
  BY DEF RedeliverTake
<1>2. task \in TaskRecord /\ buf[s] \in Seq(Events)
  BY TaskOfType DEF TypeInv, BufType
<1>3. taken \in TaskRecord /\ taken.batch = buf[s]
  BY <1>2 DEF TaskRecord
<1>4. \/ SetTask(s, i, NoTask)
      \/ SetTask(s, i, taken) /\ buf[s] # <<>>
  BY DEF RedeliverTake
<1>5. TaskType'
  <2> HIDE DEF taken
  <2> QED  BY <1>3, <1>4, NoTaskType, SetTaskType
<1>6. PoolType'
  <2>1. UNCHANGED memberVars \/ MarkReady(s)
    BY DEF RedeliverTake
  <2>2. CASE UNCHANGED memberVars  BY <2>2 DEF TypeInv, PoolType
  <2> QED  BY <2>1, <2>2, MarkReadyType
<1>7. BufType'
  <2>1. UNCHANGED buf \/ buf' = [buf EXCEPT ![s] = <<>>]
    BY DEF RedeliverTake
  <2>2. CASE UNCHANGED buf  BY <2>2 DEF TypeInv, BufType
  <2>3. CASE buf' = [buf EXCEPT ![s] = <<>>]  BY <2>3, NoEvents, SetBufType
  <2> QED  BY <2>1, <2>2, <2>3
<1>8. HistType'
  <2>1. UNCHANGED strayed \/ Stray(s, task.gen, "redelivery")
    BY DEF RedeliverTake
  <2>2. strayed' \subseteq Ssps \X {"poll", "redelivery"}
    BY <2>1, StrayType DEF TypeInv, HistType
  <2> QED  BY <1>1, <2>2 DEF TypeInv, HistType
<1>9. SchedType' /\ FanType' /\ PollType' /\ SspType'
  BY <1>1 DEF TypeInv, SchedType, FanType, PollType, SspType
<1> QED  BY <1>5, <1>6, <1>7, <1>8, <1>9 DEF TypeInv

LEMMA RedeliverPostType ==
    ASSUME TypeInv, NEW s \in Ssps, NEW i \in Slots, RedeliverPost(s, i)
    PROVE  TypeInv'
<1> USE DEF schedVars, memberVars
<1> DEFINE task == redelivery[s][i]
           e == Head(task.batch)
           rest == Tail(task.batch)
           posted == [task EXCEPT !.batch = rest, !.pc = IF rest = <<>> THEN "start" ELSE "post"]
           back == [task EXCEPT !.batch = <<>>, !.pc = "start"]
<1>1. /\ task.pc = "post" /\ Stray(s, task.gen, "redelivery")
      /\ UNCHANGED <<log, rows, snap, drained, status, spoiled, inPool, state, overflowed, resync, gen,
                     bootSeq, failures, fan, poll, proc, waived>>
  BY DEF RedeliverPost
<1>2. task \in TaskRecord /\ task.batch # <<>> /\ task.batch \in Seq(Events)
  BY <1>1, TaskOfType DEF TaskRecord
<1>3. e \in Events /\ rest \in Seq(Events)
  BY <1>2
<1>4. /\ \/ SetTask(s, i, posted) /\ UNCHANGED buf
         \/ SetTask(s, i, back) /\ buf' = [buf EXCEPT ![s] = task.batch \o @]
      /\ UNCHANGED shown \/ shown' = [shown EXCEPT ![s] = Put(@, e)]
      /\ UNCHANGED faults \/ Fault("post")
  BY DEF RedeliverPost
<1>5. /\ posted \in TaskRecord /\ (posted.pc = "post" => posted.batch # <<>>)
      /\ back \in TaskRecord /\ back.pc = "start"
  <2>1. ASSUME NEW batch \in Seq(Events), NEW pc \in {"start", "post"}
        PROVE  /\ [task EXCEPT !.batch = batch, !.pc = pc] \in TaskRecord
               /\ [task EXCEPT !.batch = batch, !.pc = pc].pc = pc
               /\ [task EXCEPT !.batch = batch, !.pc = pc].batch = batch
    <3> HIDE DEF task
    <3> QED  BY <1>2 DEF TaskRecord
  <2> HIDE DEF task, rest
  <2>2. back \in TaskRecord /\ back.pc = "start"
    BY <2>1, NoEvents
  <2>3. CASE rest = <<>>
    <3>1. posted = [task EXCEPT !.batch = rest, !.pc = "start"]
      BY <2>3
    <3> HIDE DEF posted
    <3>2. /\ [task EXCEPT !.batch = rest, !.pc = "start"] \in TaskRecord
          /\ [task EXCEPT !.batch = rest, !.pc = "start"].pc = "start"
      BY <1>3, <2>1
    <3> QED  BY <2>2, <3>1, <3>2
  <2>4. CASE rest # <<>>
    <3>1. posted = [task EXCEPT !.batch = rest, !.pc = "post"]
      BY <2>4
    <3> HIDE DEF posted
    <3>2. /\ [task EXCEPT !.batch = rest, !.pc = "post"] \in TaskRecord
          /\ [task EXCEPT !.batch = rest, !.pc = "post"].batch = rest
      BY <1>3, <2>1
    <3> QED  BY <2>2, <2>4, <3>1, <3>2
  <2> QED  BY <2>3, <2>4
<1>6. TaskType'
  <2> HIDE DEF posted, back
  <2> QED  BY <1>4, <1>5, SetTaskType
<1>7. BufType'
  <2>1. buf[s] \in Seq(Events)
    BY DEF TypeInv, BufType
  <2>2. task.batch \o buf[s] \in Seq(Events)
    BY <1>2, <2>1, ConcatProperties
  <2>3. CASE UNCHANGED buf  BY <2>3 DEF TypeInv, BufType
  <2>4. CASE buf' = [buf EXCEPT ![s] = task.batch \o buf[s]]  BY <2>2, <2>4, SetBufType
  <2> QED  BY <1>4, <2>3, <2>4
<1>8. SspType'
  <2> HIDE DEF e
  <2> QED  BY <1>1, <1>3, <1>4, PutType DEF TypeInv, SspType
<1>9. HistType'
  BY <1>1, <1>4, FaultType, StrayType DEF TypeInv, HistType
<1>10. SchedType' /\ PoolType' /\ FanType' /\ PollType'
  BY <1>1 DEF TypeInv, SchedType, PoolType, FanType, PollType
<1> QED  BY <1>6, <1>7, <1>8, <1>9, <1>10 DEF TypeInv

-----------------------------------------------------------------------------
(* The poll task. *)

LEMMA PollHealthType ==
    ASSUME TypeInv, NEW s \in Ssps, NEW g \in Gens, PollHealth(s, g)
    PROVE  TypeInv'
<1> USE DEF schedVars, memberVars, sspVars, histVars, others
<1>1. /\ UNCHANGED <<log, rows, snap, drained, status, spoiled, inPool, state, overflowed, resync, gen,
                     bootSeq, failures, buf, fan, redelivery, proc, shown, waived, strayed>>
      /\ UNCHANGED faults \/ Fault("timeout")
      /\ Goto(s, g, "failed") \/ SetPoll(s, g, [poll[s][g] EXCEPT !.pc = "mark"])
  BY DEF PollHealth
<1>2. PollType'
  <2>1. UNCHANGED log
    BY <1>1
  <2>2. CASE Goto(s, g, "failed")
    BY <2>1, <2>2, GotoType DEF PollPhases
  <2>3. CASE SetPoll(s, g, [poll[s][g] EXCEPT !.pc = "mark"])
    BY <2>1, <2>3, StepPollType DEF PollPhases
  <2> QED  BY <1>1, <2>2, <2>3
<1>3. HistType'
  BY <1>1, FaultType DEF TypeInv, HistType
<1>4. SchedType' /\ PoolType' /\ BufType' /\ FanType' /\ TaskType' /\ SspType'
  BY <1>1 DEF TypeInv, SchedType, PoolType, BufType, FanType, TaskType, SspType
<1> QED  BY <1>2, <1>3, <1>4 DEF TypeInv

LEMMA PollMarkType ==
    ASSUME TypeInv, NEW s \in Ssps, NEW g \in Gens, PollMark(s, g)
    PROVE  TypeInv'
<1> USE DEF schedVars, sspVars, histVars, others
<1>1. /\ UNCHANGED <<log, rows, snap, drained, status, spoiled, inPool, overflowed, resync, gen, bootSeq,
                     failures, buf, fan, redelivery, proc, shown, faults, waived, strayed>>
      /\ Goto(s, g, "failed") \/ SetPoll(s, g, [poll[s][g] EXCEPT !.pc = "collect"])
      /\ UNCHANGED state \/ state' = [state EXCEPT ![s] = "replaying"]
  BY DEF PollMark
<1>2. PollType'
  <2>1. UNCHANGED log
    BY <1>1
  <2>2. CASE Goto(s, g, "failed")
    BY <2>1, <2>2, GotoType DEF PollPhases
  <2>3. CASE SetPoll(s, g, [poll[s][g] EXCEPT !.pc = "collect"])
    BY <2>1, <2>3, StepPollType DEF PollPhases
  <2> QED  BY <1>1, <2>2, <2>3
<1>3. PoolType'
  BY <1>1 DEF TypeInv, PoolType, Queues, Active
<1>4. SchedType' /\ BufType' /\ FanType' /\ TaskType' /\ SspType' /\ HistType'
  BY <1>1 DEF TypeInv, SchedType, BufType, FanType, TaskType, SspType, HistType
<1> QED  BY <1>2, <1>3, <1>4 DEF TypeInv

(* What the task collects are the events after both the drained ones and its snapshot. *)
After(s, g) == Max({drained, poll[s][g].from})

LEMMA CollectedEvents ==
    ASSUME TypeInv, NEW s \in Ssps, NEW g \in Gens
    PROVE  /\ After(s, g) \in Nat /\ After(s, g) <= Len(log)
           /\ Span(After(s, g) + 1, Len(log)) \in Seq(Events)
           /\ After(s, g) = drained \/ After(s, g) = poll[s][g].from
           /\ drained <= After(s, g) /\ poll[s][g].from <= After(s, g)
           /\ Len(Span(After(s, g) + 1, Len(log))) = Len(log) - After(s, g)
           /\ \A i \in 1..(Len(log) - After(s, g)) :
                Span(After(s, g) + 1, Len(log))[i] = After(s, g) + i
<1>1. /\ drained \in Nat /\ drained <= Len(log)
      /\ Len(log) \in Nat /\ Len(log) <= MaxSeq /\ MaxSeq \in Nat
      /\ poll[s][g].from \in Nat /\ poll[s][g].from <= Len(log)
  BY PollOfType, SyncBoundAssumption DEF TypeInv, SchedType
<1>2. After(s, g) = IF drained <= poll[s][g].from THEN poll[s][g].from ELSE drained
  BY <1>1, MaxOfTwo DEF After
<1>3. /\ After(s, g) \in Nat /\ After(s, g) <= Len(log)
      /\ After(s, g) = drained \/ After(s, g) = poll[s][g].from
      /\ drained <= After(s, g) /\ poll[s][g].from <= After(s, g)
  BY <1>1, <1>2
<1>4. After(s, g) + 1 \in Nat /\ After(s, g) + 1 >= 1 /\ After(s, g) + 1 <= Len(log) + 1
  BY <1>1, <1>3
<1>5. /\ Span(After(s, g) + 1, Len(log)) \in Seq(Events)
      /\ Len(Span(After(s, g) + 1, Len(log))) = Len(log) + 1 - (After(s, g) + 1)
      /\ \A i \in 1..(Len(log) + 1 - (After(s, g) + 1)) :
            Span(After(s, g) + 1, Len(log))[i] = (After(s, g) + 1) + i - 1
  BY <1>1, <1>4, SpanProperties
<1>6. Len(log) + 1 - (After(s, g) + 1) = Len(log) - After(s, g)
  BY <1>1, <1>3
<1>7. ASSUME NEW i \in 1..(Len(log) - After(s, g))
      PROVE  Span(After(s, g) + 1, Len(log))[i] = After(s, g) + i
  <2>1. (After(s, g) + 1) + i - 1 = After(s, g) + i
    BY <1>1, <1>3
  <2> QED  BY <1>5, <1>6, <2>1
<1> QED  BY <1>3, <1>5, <1>6, <1>7

LEMMA PollCollectType ==
    ASSUME TypeInv, NEW s \in Ssps, NEW g \in Gens, PollCollect(s, g)
    PROVE  TypeInv'
<1> USE DEF schedVars, memberVars, sspVars, histVars, others
<1> DEFINE events == Span(Max({drained, poll[s][g].from}) + 1, Len(log))
<1>1. /\ UNCHANGED <<log, rows, snap, drained, status, spoiled, inPool, state, overflowed, resync, gen, buf,
                     bootSeq, failures, fan, redelivery, proc, shown, faults, waived, strayed>>
      /\ Replay(s, g, events, "replay", "drain")
  BY DEF PollCollect
<1>2. events \in Seq(Events)
  BY CollectedEvents DEF After
<1> HIDE DEF events
<1>3. PollType'
  BY <1>1, <1>2, ReplayType DEF PollPhases
<1>4. SchedType' /\ PoolType' /\ BufType' /\ FanType' /\ TaskType' /\ SspType' /\ HistType'
  BY <1>1 DEF TypeInv, SchedType, PoolType, BufType, FanType, TaskType, SspType, HistType
<1> QED  BY <1>3, <1>4 DEF TypeInv

LEMMA PollDrainType ==
    ASSUME TypeInv, NEW s \in Ssps, NEW g \in Gens, PollDrain(s, g)
    PROVE  TypeInv'
<1> USE DEF schedVars, memberVars, sspVars, others
<1>1. /\ UNCHANGED <<log, rows, snap, drained, status, spoiled, inPool, state, overflowed, resync, gen,
                     bootSeq, failures, fan, redelivery, proc, shown, faults, waived>>
      /\ Replay(s, g, buf[s], "replay", "verify") /\ buf' = [buf EXCEPT ![s] = <<>>]
      /\ UNCHANGED strayed \/ Stray(s, g, "poll")
  BY DEF PollDrain
<1>2. buf[s] \in Seq(Events)
  BY DEF TypeInv, BufType
<1>3. PollType'
  BY <1>1, <1>2, ReplayType DEF PollPhases
<1>4. BufType'
  BY <1>1, NoEvents, SetBufType
<1>5. strayed' \subseteq Ssps \X {"poll", "redelivery"}
  BY <1>1, StrayType DEF TypeInv, HistType
<1>6. SchedType' /\ PoolType' /\ FanType' /\ TaskType' /\ SspType' /\ HistType'
  BY <1>1, <1>5 DEF TypeInv, SchedType, PoolType, FanType, TaskType, SspType, HistType
<1> QED  BY <1>3, <1>4, <1>6 DEF TypeInv

(* The end of a batch: the task goes on, drains, fails or goes on to the final drain. *)
LEMMA AfterReplayType ==
    ASSUME TypeInv, NEW s \in Ssps, NEW g \in Gens, NEW task \in PollRecord,
           task.pc \in {"replay", "last"}, task.from <= Len(log), UNCHANGED log,
           AfterReplay(s, g, task)
    PROVE  /\ PollType' /\ resync' \subseteq resync \cup {s} /\ resync \subseteq resync'
           /\ \/ task.todo # <<>> /\ poll'[s][g] = task
              \/ /\ task.todo = <<>> /\ task.pc = "replay"
                 /\ poll'[s][g].pc = "drain" /\ poll'[s][g].seen = task.seen
              \/ poll'[s][g] = [NoPoll EXCEPT !.pc = "failed"]
              \/ /\ task.todo = <<>> /\ task.pc = "last" /\ ~task.rejected
                 /\ poll'[s][g] = [NoPoll EXCEPT !.pc = "final"]
<1>1. UNCHANGED log /\ task.from <= Len(log)
  OBVIOUS
<1>2. CASE task.todo # <<>>
  <2>1. SetPoll(s, g, task) /\ UNCHANGED resync
    BY <1>2 DEF AfterReplay
  <2> QED  BY <1>1, <1>2, <2>1, SetPollType
<1>3. CASE task.todo = <<>> /\ task.pc = "replay"
  <2> DEFINE no == FALSE
             next == [task EXCEPT !.pc = "drain", !.rejected = no]
  <2>1. SetPoll(s, g, next) /\ UNCHANGED resync
    BY <1>3 DEF AfterReplay
  <2>2. no \in BOOLEAN
    OBVIOUS
  <2> HIDE DEF no
  <2>3. next \in PollRecord /\ next.pc = "drain" /\ next.seen = task.seen /\ next.from = task.from
    BY <2>2 DEF PollRecord, PollPhases
  <2> HIDE DEF next
  <2> QED  BY <1>1, <1>3, <2>1, <2>3, SetPollType
<1>4. CASE task.todo = <<>> /\ task.pc # "replay"
  <2>1. \/ Goto(s, g, "failed") /\ resync' = resync \cup {s}
        \/ Goto(s, g, "final") /\ UNCHANGED resync /\ ~RejectionCounts(task)
    BY <1>4 DEF AfterReplay
  <2>2. CASE Goto(s, g, "failed") /\ resync' = resync \cup {s}
    BY <1>1, <2>2, GotoType DEF PollPhases
  <2>3. CASE Goto(s, g, "final") /\ UNCHANGED resync /\ ~RejectionCounts(task)
    <3>1. PollType' /\ poll'[s][g] = [NoPoll EXCEPT !.pc = "final"]
      BY <1>1, <2>3, GotoType DEF PollPhases
    <3> QED  BY <1>4, <2>3, <3>1 DEF RejectionCounts
  <2> QED  BY <2>1, <2>2, <2>3
<1> QED  BY <1>2, <1>3, <1>4

LEMMA PollPostType ==
    ASSUME TypeInv, NEW s \in Ssps, NEW g \in Gens, PollPost(s, g)
    PROVE  TypeInv'
<1> USE DEF schedVars, others
<1> DEFINE task == poll[s][g]
           e == Head(task.todo)
           next == [task EXCEPT !.todo = Tail(@)]
           yes == TRUE
           skipped == [next EXCEPT !.rejected = yes]
<1>1. /\ task.pc \in {"replay", "last"}
      /\ UNCHANGED <<log, rows, snap, drained, status, spoiled, inPool, state, overflowed, gen, bootSeq,
                     failures, buf, fan, redelivery, proc, waived>>
      /\ UNCHANGED faults \/ Fault("post")
      /\ UNCHANGED strayed \/ Stray(s, g, "poll")
      /\ UNCHANGED shown \/ shown' = [shown EXCEPT ![s] = Put(@, e)]
  BY DEF PollPost
<1>2. \/ AfterReplay(s, g, next) \/ AfterReplay(s, g, skipped)
      \/ (Goto(s, g, "failed") \/ UNCHANGED poll) /\ UNCHANGED resync
  BY DEF PollPost
<1>3. /\ task \in PollRecord /\ task.from <= Len(log) /\ task.todo # <<>>
      /\ task.todo \in Seq(Events)
  BY <1>1, PollOfType DEF PollRecord
<1>4. e \in Events /\ Tail(task.todo) \in Seq(Events)
  BY <1>3
<1>5. next \in PollRecord /\ next.pc = task.pc /\ next.from = task.from
  <2> HIDE DEF task
  <2> QED  BY <1>3, <1>4 DEF PollRecord
<1>6. yes \in BOOLEAN
  OBVIOUS
<1>7. skipped \in PollRecord /\ skipped.pc = task.pc /\ skipped.from = task.from
  <2> HIDE DEF next, yes, task
  <2> QED  BY <1>5, <1>6 DEF PollRecord
<1>8. PollType' /\ resync' \subseteq resync \cup {s}
  <2> HIDE DEF next, skipped, task
  <2>1. CASE AfterReplay(s, g, next)
    BY <1>1, <1>3, <1>5, <2>1, AfterReplayType
  <2>2. CASE AfterReplay(s, g, skipped)
    BY <1>1, <1>3, <1>7, <2>2, AfterReplayType
  <2>3. CASE Goto(s, g, "failed") /\ UNCHANGED resync
    <3>1. UNCHANGED log
      BY <1>1
    <3> QED  BY <3>1, <2>3, GotoType DEF PollPhases
  <2>4. CASE UNCHANGED poll /\ UNCHANGED resync
    BY <1>1, <2>4 DEF TypeInv, PollType
  <2> QED  BY <1>2, <2>1, <2>2, <2>3, <2>4
<1>9. SspType'
  <2> HIDE DEF e
  <2> QED  BY <1>1, <1>4, PutType DEF TypeInv, SspType
<1>10. HistType'
  BY <1>1, FaultType, StrayType DEF TypeInv, HistType
<1>11. PoolType'
  BY <1>1, <1>8 DEF TypeInv, PoolType
<1>12. SchedType' /\ BufType' /\ FanType' /\ TaskType'
  BY <1>1 DEF TypeInv, SchedType, BufType, FanType, TaskType
<1> QED  BY <1>8, <1>9, <1>10, <1>11, <1>12 DEF TypeInv

(* What the verdict of the catch-up check does to the task. *)
LEMMA PollVerifyCases ==
    ASSUME TypeInv, NEW s \in Ssps, NEW g \in Gens, PollVerify(s, g)
    PROVE  /\ poll[s][g].pc = "verify"
           /\ UNCHANGED <<log, rows, snap, drained, status, spoiled, inPool, state, overflowed,
                          resync, gen, bootSeq, buf, fan, redelivery, proc, shown, strayed>>
           /\ UNCHANGED faults \/ Fault("info")
           /\ waived \subseteq waived' /\ waived' \subseteq waived \cup {s}
           /\ \/ UNCHANGED failures
              \/ failures' = [failures EXCEPT ![s] = 0]
              \/ failures' = [failures EXCEPT ![s] = @ + 1] /\ ~Admits(failures[s] + 1)
           /\ \/ /\ Goto(s, g, "final")
                 /\ CaughtUp(s, poll[s][g]) \/ s \in waived'
              \/ Goto(s, g, "failed") \/ Goto(s, g, "flag")
              \/ SetPoll(s, g, [NoPoll EXCEPT !.pc = "clone", !.from = Len(log)])
  BY DEF PollVerify, schedVars, sspVars, others

LEMMA CloneTask ==
    ASSUME TypeInv
    PROVE  /\ [NoPoll EXCEPT !.pc = "clone", !.from = Len(log)] \in PollRecord
           /\ [NoPoll EXCEPT !.pc = "clone", !.from = Len(log)].pc = "clone"
           /\ [NoPoll EXCEPT !.pc = "clone", !.from = Len(log)].from = Len(log)
<1>1. Len(log) \in 0..MaxSeq /\ NoPoll \in PollRecord
  BY SyncBoundAssumption DEF TypeInv, SchedType, NoPoll, PollRecord, PollPhases, Nothing
<1> QED  BY <1>1 DEF PollRecord, PollPhases

LEMMA PollVerifyType ==
    ASSUME TypeInv, NEW s \in Ssps, NEW g \in Gens, PollVerify(s, g)
    PROVE  TypeInv'
<1>1. /\ UNCHANGED <<log, rows, snap, drained, status, spoiled, inPool, state, overflowed,
                     resync, gen, bootSeq, buf, fan, redelivery, proc, shown, strayed>>
      /\ UNCHANGED faults \/ Fault("info")
      /\ waived' \subseteq waived \cup {s}
  BY PollVerifyCases
<1>2. SchedType'
  BY <1>1 DEF TypeInv, SchedType
<1>3. failures' \in [Ssps -> 0..(AdmitAfter - 1)]
  <2>1. failures[s] \in Nat /\ AdmitAfter \in Nat \ {0} /\ failures \in [Ssps -> 0..(AdmitAfter - 1)]
    BY ThresholdAssumption DEF TypeInv, PoolType
  <2>2. \/ UNCHANGED failures
        \/ failures' = [failures EXCEPT ![s] = 0]
        \/ failures' = [failures EXCEPT ![s] = @ + 1] /\ ~Admits(failures[s] + 1)
    BY PollVerifyCases
  <2> QED  BY <2>1, <2>2 DEF Admits
<1>4. PoolType'
  BY <1>1, <1>3 DEF TypeInv, PoolType
<1>5. PollType'
  <2> DEFINE clone == [NoPoll EXCEPT !.pc = "clone", !.from = Len(log)]
  <2>1. \/ Goto(s, g, "final") \/ Goto(s, g, "failed") \/ Goto(s, g, "flag")
        \/ SetPoll(s, g, clone)
    BY PollVerifyCases
  <2>2. \A p \in {"final", "failed", "flag"} : p \in PollPhases \ {"replay", "last"}
    BY DEF PollPhases
  <2>3. clone \in PollRecord /\ clone.pc = "clone" /\ clone.from <= Len(log)
    BY CloneTask, PollOfType
  <2> HIDE DEF clone
  <2> QED  BY <1>1, <2>1, <2>2, <2>3, GotoType, SetPollType
<1>6. HistType'
  BY <1>1, FaultType DEF TypeInv, HistType
<1>7. BufType' /\ FanType' /\ TaskType' /\ SspType'
  BY <1>1 DEF TypeInv, BufType, FanType, TaskType, SspType
<1> QED  BY <1>2, <1>4, <1>5, <1>6, <1>7 DEF TypeInv

(* The outcomes of a re-clone. *)
LEMMA PollCloneCases ==
    ASSUME TypeInv, NEW s \in Ssps, NEW g \in Gens, PollClone(s, g)
    PROVE  LET n == poll[s][g].from IN
           /\ poll[s][g].pc = "clone" /\ n \in Nat /\ n <= Len(log)
           /\ UNCHANGED <<log, drained, status, inPool, state, overflowed, resync, gen, bootSeq,
                          failures, buf, fan, redelivery, proc, shown, faults, strayed>>
           /\ waived \subseteq waived' /\ waived' \subseteq waived \cup Unverified
           /\ Goto(s, g, "flagall") \/ Goto(s, g, "flag")
           /\ \/ Goto(s, g, "flag") /\ UNCHANGED <<rows, snap, spoiled, waived>>
              \/ /\ spoiled' = TRUE /\ Unverified \subseteq waived' /\ snap' \in {0, n}
                 /\ rows' \in [Rows -> 0..Len(log)]
              \/ /\ Goto(s, g, "flagall")
                 /\ spoiled' = FALSE /\ UNCHANGED waived /\ snap' = n /\ rows' \in Fetched(n)
                 /\ drained <= n /\ snap <= n
           /\ Goto(s, g, "flagall") \/ UNCHANGED snap \/ Unverified \subseteq waived'
<1> USE DEF memberVars, sspVars, others
<1> DEFINE n == poll[s][g].from
           short == drained > n \/ snap > n
<1>1. /\ n \in Nat /\ n <= Len(log) /\ drained \in Nat /\ snap \in Nat /\ Len(log) \in Nat
  BY PollOfType DEF TypeInv, SchedType
<1>2. /\ poll[s][g].pc = "clone"
      /\ UNCHANGED <<log, drained, status, inPool, state, overflowed, resync, gen, bootSeq,
                     failures, buf, fan, redelivery, proc, shown, faults, strayed>>
  BY DEF PollClone
<1>3. \/ \E c \in Fetched(n) : Replaced(c, n, short) /\ Goto(s, g, "flagall")
      \/ UNCHANGED <<rows, snap, spoiled, waived>> /\ Goto(s, g, "flag")
      \/ \E c \in Fetched(n), R \in SUBSET Rows :
           /\ \/ Replaced([r \in Rows |-> IF r \in R THEN c[r] ELSE 0], 0, TRUE)
              \/ Replaced(c, n, TRUE)
           /\ Goto(s, g, "flag")
  BY DEF PollClone
<1>4. ASSUME NEW c \in Fetched(n), Replaced(c, n, short), Goto(s, g, "flagall")
      PROVE  /\ waived \subseteq waived' /\ waived' \subseteq waived \cup Unverified
             /\ \/ /\ spoiled' = TRUE /\ Unverified \subseteq waived' /\ snap' = n
                   /\ rows' \in [Rows -> 0..Len(log)]
                \/ /\ spoiled' = FALSE /\ UNCHANGED waived /\ snap' = n /\ rows' \in Fetched(n)
                   /\ drained <= n /\ snap <= n
  <2>1. /\ c \in [Rows -> 0..Len(log)]
        /\ rows' = c /\ snap' = n /\ spoiled' = short
        /\ waived' = IF short THEN waived \cup Unverified ELSE waived
    BY <1>4 DEF Replaced, Fetched
  <2>2. CASE short
    BY <2>1, <2>2
  <2>3. CASE ~short
    <3>1. drained <= n /\ snap <= n
      BY <1>1, <2>3
    <3> HIDE DEF n
    <3> QED  BY <1>4, <2>1, <2>3, <3>1
  <2> QED  BY <2>2, <2>3
<1>5. ASSUME NEW c \in Fetched(n), NEW R \in SUBSET Rows,
             \/ Replaced([r \in Rows |-> IF r \in R THEN c[r] ELSE 0], 0, TRUE)
             \/ Replaced(c, n, TRUE)
      PROVE  /\ waived' = waived \cup Unverified /\ spoiled' = TRUE /\ snap' \in {0, n}
             /\ rows' \in [Rows -> 0..Len(log)]
  <2>1. c \in [Rows -> 0..Len(log)]
    BY DEF Fetched
  <2>2. [r \in Rows |-> IF r \in R THEN c[r] ELSE 0] \in [Rows -> 0..Len(log)]
    BY <1>1, <2>1
  <2> QED  BY <1>5, <2>1, <2>2 DEF Replaced
<1> HIDE DEF short, n
<1>6. CASE \E c \in Fetched(n) : Replaced(c, n, short) /\ Goto(s, g, "flagall")
  <2>1. PICK c \in Fetched(n) : Replaced(c, n, short) /\ Goto(s, g, "flagall")
    BY <1>6
  <2> QED  BY <1>1, <1>2, <1>4, <2>1, Zenon DEF n
<1>7. CASE UNCHANGED <<rows, snap, spoiled, waived>> /\ Goto(s, g, "flag")
  BY <1>1, <1>2, <1>7, Zenon DEF n
<1>8. CASE \E c \in Fetched(n), R \in SUBSET Rows :
             /\ \/ Replaced([r \in Rows |-> IF r \in R THEN c[r] ELSE 0], 0, TRUE)
                \/ Replaced(c, n, TRUE)
             /\ Goto(s, g, "flag")
  <2>1. /\ Goto(s, g, "flag") /\ waived' = waived \cup Unverified /\ spoiled' = TRUE
        /\ snap' \in {0, n} /\ rows' \in [Rows -> 0..Len(log)]
    BY <1>5, <1>8
  <2> QED  BY <1>1, <1>2, <2>1, Zenon DEF n
<1> QED  BY <1>3, <1>6, <1>7, <1>8

LEMMA PollCloneType ==
    ASSUME TypeInv, NEW s \in Ssps, NEW g \in Gens, PollClone(s, g)
    PROVE  TypeInv'
<1>1. /\ UNCHANGED <<log, drained, status, inPool, state, overflowed, resync, gen, bootSeq,
                     failures, buf, fan, redelivery, proc, shown, faults, strayed>>
      /\ waived' \subseteq waived \cup Unverified
      /\ Goto(s, g, "flagall") \/ Goto(s, g, "flag")
  BY PollCloneCases
<1>2. snap' \in Nat /\ snap' <= Len(log) /\ spoiled' \in BOOLEAN /\ rows' \in [Rows -> 0..MaxSeq]
  <2>1. /\ snap \in Nat /\ snap <= Len(log) /\ spoiled \in BOOLEAN
        /\ rows \in [Rows -> 0..MaxSeq] /\ Len(log) \in Nat /\ Len(log) <= MaxSeq /\ MaxSeq \in Nat
    BY SyncBoundAssumption DEF TypeInv, SchedType
  <2>2. \A f \in [Rows -> 0..Len(log)] : f \in [Rows -> 0..MaxSeq]
    BY <2>1
  <2>3. PICK n \in Nat : n = poll[s][g].from /\ n <= Len(log)
    BY PollCloneCases
  <2>4. \/ UNCHANGED <<rows, snap, spoiled>>
        \/ snap' \in {0, n} /\ spoiled' \in BOOLEAN /\ rows' \in [Rows -> 0..Len(log)]
    BY <2>3, PollCloneCases DEF Fetched
  <2> QED  BY <2>1, <2>2, <2>3, <2>4
<1>3. SchedType'
  BY <1>1, <1>2 DEF TypeInv, SchedType
<1>4. PollType'
  BY <1>1, GotoType DEF PollPhases
<1>5. HistType'
  BY <1>1 DEF TypeInv, HistType, Unverified
<1>6. PoolType' /\ BufType' /\ FanType' /\ TaskType' /\ SspType'
  BY <1>1 DEF TypeInv, PoolType, BufType, FanType, TaskType, SspType
<1> QED  BY <1>3, <1>4, <1>5, <1>6 DEF TypeInv

LEMMA PollFlagType ==
    ASSUME TypeInv, NEW s \in Ssps, NEW g \in Gens, PollFlag(s, g)
    PROVE  TypeInv'
<1> USE DEF schedVars, sspVars, histVars, others
<1>1. /\ UNCHANGED <<log, rows, snap, drained, status, spoiled, inPool, state, overflowed, gen,
                     bootSeq, failures, buf, fan, redelivery, proc, shown, faults, waived,
                     strayed>>
      /\ resync' = resync \cup Flagged(s, g) /\ Goto(s, g, "unfreeze")
  BY DEF PollFlag
<1>2. PollType'
  BY <1>1, GotoType DEF PollPhases
<1>3. PoolType'
  BY <1>1 DEF TypeInv, PoolType, Flagged
<1>4. SchedType' /\ BufType' /\ FanType' /\ TaskType' /\ SspType' /\ HistType'
  BY <1>1 DEF TypeInv, SchedType, BufType, FanType, TaskType, SspType, HistType
<1> QED  BY <1>2, <1>3, <1>4 DEF TypeInv

LEMMA PollFinalType ==
    ASSUME TypeInv, NEW s \in Ssps, NEW g \in Gens, PollFinal(s, g)
    PROVE  TypeInv'
<1> USE DEF schedVars, memberVars, sspVars, histVars, others
<1>1. UNCHANGED <<log, rows, snap, drained, status, spoiled, fan, redelivery, proc, shown, faults, waived,
                  strayed>>
  BY DEF PollFinal
<1>2. \/ Goto(s, g, "failed") /\ UNCHANGED <<memberVars, buf>>
      \/ /\ Replay(s, g, buf[s], "last", "unfreeze") /\ buf' = [buf EXCEPT ![s] = <<>>]
         /\ MarkReady(s) \/ UNCHANGED memberVars
  BY DEF PollFinal
<1>3. buf[s] \in Seq(Events) /\ UNCHANGED log
  BY <1>1 DEF TypeInv, BufType
<1>4. PollType'
  <2>1. CASE Goto(s, g, "failed")
    BY <1>3, <2>1, GotoType DEF PollPhases
  <2>2. CASE Replay(s, g, buf[s], "last", "unfreeze")
    BY <1>1, <1>3, <2>2, ReplayType DEF PollPhases
  <2> QED  BY <1>2, <2>1, <2>2
<1>5. BufType'
  <2>1. CASE UNCHANGED buf  BY <2>1 DEF TypeInv, BufType
  <2>2. CASE buf' = [buf EXCEPT ![s] = <<>>]  BY <2>2, NoEvents, SetBufType
  <2> QED  BY <1>2, <2>1, <2>2
<1>6. PoolType'
  <2>1. CASE UNCHANGED memberVars  BY <2>1 DEF TypeInv, PoolType
  <2> QED  BY <1>2, <2>1, MarkReadyType
<1>7. SchedType' /\ FanType' /\ TaskType' /\ SspType' /\ HistType'
  BY <1>1 DEF TypeInv, SchedType, FanType, TaskType, SspType, HistType
<1> QED  BY <1>4, <1>5, <1>6, <1>7 DEF TypeInv

LEMMA PollEndType ==
    ASSUME TypeInv, NEW s \in Ssps, NEW g \in Gens, PollUnfreeze(s, g) \/ PollCleanup(s, g)
    PROVE  TypeInv'
<1> USE DEF memberVars, sspVars, histVars, others
<1>1. /\ UNCHANGED <<log, rows, snap, drained, spoiled, fan, redelivery, proc, shown, faults, waived, strayed>>
      /\ UNCHANGED <<memberVars, buf>> \/ RemoveSsp(s)
      /\ SetPoll(s, g, NoPoll) \/ SetPoll(s, g, [NoPoll EXCEPT !.pc = "thaw"])
  BY DEF PollUnfreeze, PollCleanup
<1>2. status' \in {"ready", "frozen"}
  BY DEF PollUnfreeze, PollCleanup, TypeInv, SchedType
<1>3. PollType'
  <2>1. /\ NoPoll \in PollRecord /\ NoPoll.pc = "none" /\ NoPoll.from <= Len(log)
        /\ UNCHANGED log
    BY <1>1, PollOfType, SyncBoundAssumption DEF NoPoll, PollRecord, PollPhases, Nothing
  <2>2. CASE SetPoll(s, g, NoPoll)
    BY <2>1, <2>2, SetPollType
  <2>3. CASE Goto(s, g, "thaw")
    BY <2>1, <2>3, GotoType DEF PollPhases
  <2> QED  BY <1>1, <2>2, <2>3 DEF Goto
<1>4. PoolType' /\ BufType'
  <2>1. CASE UNCHANGED <<memberVars, buf>>  BY <2>1 DEF TypeInv, PoolType, BufType
  <2> QED  BY <1>1, <2>1, RemoveType
<1>5. SchedType' /\ FanType' /\ TaskType' /\ SspType' /\ HistType'
  BY <1>1, <1>2 DEF TypeInv, SchedType, FanType, TaskType, SspType, HistType
<1> QED  BY <1>3, <1>4, <1>5 DEF TypeInv

LEMMA TypeStep == TypeInv /\ [Next]_vars => TypeInv'
<1> SUFFICES ASSUME TypeInv, [Next]_vars PROVE TypeInv'
  OBVIOUS
<1>1. CASE UNCHANGED vars
  <2>1. UNCHANGED <<log, rows, snap, drained, status, spoiled, inPool, state, overflowed, resync, gen, bootSeq,
                    failures, buf, fan, redelivery, poll, proc, shown, faults, waived, strayed>>
    BY <1>1 DEF vars, schedVars, memberVars, sspVars, histVars
  <2> QED  BY <2>1 DEF TypeInv, SchedType, PoolType, BufType, FanType, TaskType, PollType,
                       SspType, HistType
<1>2. CASE SnapshotTick \/ \E r \in Rows : Ingest(r)
  BY <1>2, StreamType
<1>3. CASE FanOut
  BY <1>3, FanTakeType, FanPostType, FanMarkType DEF FanOut
<1>4. ASSUME NEW s \in Ssps, Ssp(s) \/ CrashSsp(s) \/ Evict(s) PROVE TypeInv'
  BY <1>4, RegisterType, ProcessType, EvictType DEF Ssp
<1>5. ASSUME NEW s \in Ssps, Redeliver(s) PROVE TypeInv'
  BY <1>5, RedeliverTakeType, RedeliverPostType DEF Redeliver
<1>6. ASSUME NEW s \in Ssps, NEW g \in Gens, Poll(s, g) PROVE TypeInv'
  BY <1>6, PollHealthType, PollMarkType, PollCollectType, PollDrainType, PollPostType,
     PollVerifyType, PollCloneType, PollFlagType, PollFinalType, PollEndType DEF Poll
<1> QED  BY <1>1, <1>2, <1>3, <1>4, <1>5, <1>6 DEF Next

(* Type correctness, for any number of SSPs, rows, events and registrations: every queue holds
   accepted events only, a task that posts has something to post, and the failure counter of
   the catch-up breaker stays under the threshold that admits the SSP. *)
THEOREM TypeCorrect == Spec => []TypeOK
<1>1. Init => TypeInv
  BY InitType
<1>2. TypeInv /\ [Next]_vars => TypeInv'
  BY TypeStep
<1>3. TypeInv => TypeOK
  BY TypeInvTypeOK
<1> QED  BY <1>1, <1>2, <1>3, PTL DEF Spec

-----------------------------------------------------------------------------
(* The invariant behind ReadyIsCurrent.  It is about one SSP s as long as s is tracked: in
   the pool, with nothing dropped from its buffer and untouched by an earlier registration's
   tasks. *)

Unstrayed(s) == \A x \in strayed : x[1] # s
Tracked(s) == s \in inPool /\ s \notin overflowed /\ Unstrayed(s)
Mine(s, i) == redelivery[s][i].pc # "none" /\ redelivery[s][i].gen = gen[s]
Posting(s, i) == Mine(s, i) /\ redelivery[s][i].pc = "post"
PollOf(s) == poll[s][gen[s]]

(* queue holds the last events up to event b, in order. *)
Run(queue, b) == /\ Len(queue) <= b
                 /\ \A i \in 1..Len(queue) : queue[i] = b - Len(queue) + i

(* rs shows the first n events, each or a later one of its row. *)
Shows(rs, n) == \A e \in 1..n : rs[log[e]] >= e

(* The last event that is neither in the buffer of s nor due to be put there. *)
Back(s) == Due(s) - Len(buf[s])

(* What the pool, the process and the tasks of a registration agree on. *)
Phase(s) ==
    /\ s \in inPool => gen[s] >= 1 /\ state[s] # "none"
    /\ s \in inPool /\ PollOf(s).pc \in {"health", "mark"} => state[s] = "bootstrapping"
    /\ s \in inPool /\ PollOf(s).pc \in {"collect", "replay", "drain", "verify", "final", "last"}
         => state[s] = "replaying"
    /\ s \in inPool /\ proc[s] = "loading" =>
         state[s] = "bootstrapping" /\ PollOf(s).pc \in {"health", "failed", "none"}
    /\ state[s] = "ready" => s \notin overflowed

(* No task is of a registration to come, and one that has replayed nothing has seen nothing. *)
Past(s) ==
    /\ \A i \in Slots : redelivery[s][i].gen <= gen[s]
    /\ \A g \in Gens : /\ g > gen[s] => poll[s][g].pc = "none"
                       /\ poll[s][g].pc \in {"health", "mark", "collect"} => poll[s][g].seen = Nothing

(* One task redelivers to s, while s lags. *)
OneTask(s) ==
    s \in inPool /\ Unstrayed(s) =>
        \A i, j \in Slots : Mine(s, i) => state[s] = "lagging" /\ (Mine(s, j) => i = j)

(* The buffer holds the last events up to the due one; what a task has in hand are those
   before it.  A live SSP, or one a copy is under way to, has nothing buffered. *)
Queued(s) ==
    /\ Run(buf[s], Due(s))
    /\ fan.to[s] # NoCopy \/ state[s] = "ready" => buf[s] = <<>>
    /\ state[s] = "lagging" => fan.to[s] = NoCopy
Hand(s, queue) == Run(queue, Back(s)) /\ fan.to[s] = NoCopy
Order(s) ==
    Tracked(s) =>
        /\ Queued(s)
        /\ PollOf(s).pc = "last" => Hand(s, PollOf(s).todo)
        /\ \A i \in Slots : Posting(s, i) => Hand(s, redelivery[s][i].batch)

(* Before the catch-up check the replayed rows or the snapshot account for every event that
   is not buffered. *)
Accounted(task, e) == \/ task.seen[log[e]] >= e
                      \/ task.seen[log[e]] = 0 /\ e <= snap
Replays(s) ==
    Tracked(s) /\ s \notin waived /\ PollOf(s).pc \in {"replay", "drain", "verify"} =>
        /\ \A e \in 1..fan.last : e <= Back(s) \/ fan.to[s] # NoCopy => Accounted(PollOf(s), e)
        /\ PollOf(s).pc = "replay" => PollOf(s).seen # Nothing

(* An SSP that serves, lags or has passed the check shows every event that is neither buffered
   nor in a task's hand; before the replay, every one the replay will not bring. *)
Showing(s) ==
    Tracked(s) /\ s \notin waived /\ Answers(s) =>
        /\ state[s] = "ready" => Shows(shown[s], Back(s))
        /\ state[s] = "lagging" /\ (\A i \in Slots : ~Posting(s, i)) => Shows(shown[s], Back(s))
        /\ \A i \in Slots : Posting(s, i) =>
             Shows(shown[s], Back(s) - Len(redelivery[s][i].batch))
        /\ PollOf(s).pc \in {"health", "mark", "collect"} =>
             \A e \in 1..Back(s) : \/ e > drained /\ e > PollOf(s).from
                                   \/ shown[s][log[e]] >= e
        /\ PollOf(s).pc \in {"drain", "verify"} /\ PollOf(s).seen = Nothing =>
             Shows(shown[s], Back(s))
        /\ PollOf(s).pc = "final" => Shows(shown[s], Back(s))
        /\ PollOf(s).pc = "last" /\ ~PollOf(s).rejected =>
             Shows(shown[s], Back(s) - Len(PollOf(s).todo))

Followed(s) == Phase(s) /\ Past(s) /\ OneTask(s) /\ Order(s) /\ Replays(s) /\ Showing(s)
EventsFollowed == \A s \in Ssps : Followed(s)

(* A replica that no re-clone has left short shows every event drained into it, and its seq;
   an SSP that bootstraps from it, and is not waived, asked for no later one. *)
Held == ~spoiled => drained <= snap /\ Shows(rows, snap)
Based(s) ==
    s \in inPool /\ state[s] \in Active /\ s \notin waived =>
        /\ ~spoiled
        /\ PollOf(s).pc \in {"health", "mark", "collect"} => PollOf(s).from <= snap
Grounded == Held /\ \A s \in Ssps : Based(s)

-----------------------------------------------------------------------------
(* Runs of events. *)

LEMMA RunEmpty ==
    ASSUME NEW b \in Nat
    PROVE  Run(<<>>, b)
  BY DEF Run

LEMMA RunSpan ==
    ASSUME NEW a \in Nat, NEW b \in Nat, a >= 1, a <= b + 1, b <= MaxSeq
    PROVE  Run(Span(a, b), b)
<1>1. /\ Len(Span(a, b)) = b + 1 - a
      /\ \A i \in 1..(b + 1 - a) : Span(a, b)[i] = a + i - 1
  BY SpanProperties
<1>2. \A i \in 1..(b + 1 - a) : a + i - 1 = b - (b + 1 - a) + i
  OBVIOUS
<1> QED  BY <1>1, <1>2 DEF Run

LEMMA RunConcat ==
    ASSUME NEW p \in Seq(Events), NEW q \in Seq(Events), NEW b \in Nat,
           Run(q, b), Run(p, b - Len(q))
    PROVE  p \o q \in Seq(Events) /\ Len(p \o q) = Len(p) + Len(q) /\ Run(p \o q, b)
<1>1. /\ p \o q \in Seq(Events) /\ Len(p \o q) = Len(p) + Len(q)
      /\ Len(p) \in Nat /\ Len(q) \in Nat
      /\ \A i \in 1..(Len(p) + Len(q)) :
            (p \o q)[i] = IF i <= Len(p) THEN p[i] ELSE q[i - Len(p)]
  BY ConcatProperties
<1>2. Len(q) <= b /\ \A i \in 1..Len(q) : q[i] = b - Len(q) + i
  BY DEF Run
<1>3. Len(p) <= b - Len(q) /\ \A i \in 1..Len(p) : p[i] = (b - Len(q)) - Len(p) + i
  BY DEF Run
<1>4. ASSUME NEW i \in 1..(Len(p) + Len(q))
      PROVE  (p \o q)[i] = b - (Len(p) + Len(q)) + i
  <2>1. CASE i <= Len(p)
    <3>1. (p \o q)[i] = p[i] /\ i \in 1..Len(p)
      BY <1>1, <2>1
    <3> QED  BY <1>1, <1>3, <3>1
  <2>2. CASE ~(i <= Len(p))
    <3>1. (p \o q)[i] = q[i - Len(p)] /\ i - Len(p) \in 1..Len(q)
      BY <1>1, <2>2
    <3>2. q[i - Len(p)] = b - Len(q) + (i - Len(p))
      BY <1>2, <3>1
    <3> QED  BY <1>1, <3>1, <3>2
  <2> QED  BY <2>1, <2>2
<1>5. Len(p) + Len(q) <= b
  BY <1>1, <1>3
<1> QED  BY <1>1, <1>4, <1>5 DEF Run

LEMMA RunTail ==
    ASSUME NEW q \in Seq(Events), NEW b \in Nat, Run(q, b), q # <<>>
    PROVE  /\ Tail(q) \in Seq(Events) /\ Len(Tail(q)) = Len(q) - 1 /\ Run(Tail(q), b)
           /\ Head(q) = b - Len(q) + 1 /\ Head(q) \in 1..b /\ Len(q) \in 1..b
<1>1. /\ Len(q) \in Nat /\ Len(q) >= 1 /\ Tail(q) \in Seq(Events)
      /\ Len(Tail(q)) = Len(q) - 1 /\ Head(q) = q[1]
      /\ \A i \in 1..(Len(q) - 1) : Tail(q)[i] = q[i + 1]
  BY HeadTailProperties, LenProperties, EmptySeq
<1>2. Len(q) <= b /\ \A i \in 1..Len(q) : q[i] = b - Len(q) + i
  BY DEF Run
<1>3. \A i \in 1..(Len(q) - 1) : Tail(q)[i] = b - (Len(q) - 1) + i
  BY <1>1, <1>2
<1>4. Run(Tail(q), b)
  BY <1>1, <1>2, <1>3 DEF Run
<1>5. Head(q) = b - Len(q) + 1 /\ Head(q) \in 1..b /\ Len(q) \in 1..b
  BY <1>1, <1>2
<1> QED  BY <1>1, <1>4, <1>5

(* What a row shows after events were put. *)

LEMMA PutShows ==
    ASSUME TypeInv, NEW rs \in [Rows -> 0..MaxSeq], NEW e \in 1..Len(log), Shows(rs, e - 1)
    PROVE  Shows(Put(rs, e), e)
<1>1. Len(log) \in Nat /\ MaxSeq \in Nat /\ \A d \in 1..Len(log) : log[d] \in Rows
  <2>1. log \in Seq(Rows) /\ MaxSeq \in Nat
    BY SyncBoundAssumption DEF TypeInv, SchedType
  <2> QED  BY <2>1
<1>2. \A r \in Rows : Put(rs, e)[r] = IF r = log[e] THEN e ELSE rs[r]
  BY DEF Put
<1>3. ASSUME NEW d \in 1..e PROVE Put(rs, e)[log[d]] >= d
  <2>1. d \in 1..Len(log) /\ log[d] \in Rows
    BY <1>1
  <2>2. CASE log[d] = log[e]  BY <1>1, <1>2, <2>1, <2>2
  <2>3. CASE log[d] # log[e]
    <3>1. d \in 1..(e - 1)
      BY <1>1, <2>3
    <3> QED  BY <1>2, <2>1, <2>3, <3>1 DEF Shows
  <2> QED  BY <2>2, <2>3
<1> QED  BY <1>3 DEF Shows

LEMMA ShowsFewer ==
    ASSUME NEW rs, NEW m \in Int, NEW n \in Int, m <= n, Shows(rs, n)
    PROVE  Shows(rs, m)
  BY DEF Shows

(* The rs after events a..b, for any earlier event and for those of the span. *)
LEMMA PutSpan ==
    ASSUME TypeInv, NEW rs \in [Rows -> 0..MaxSeq], NEW a \in Nat, NEW b \in Nat,
           a >= 1, a <= b + 1, b <= Len(log)
    PROVE  /\ PutAll(rs, Span(a, b)) \in [Rows -> 0..MaxSeq]
           /\ \A e \in a..b : PutAll(rs, Span(a, b))[log[e]] >= e
           /\ \A r \in Rows : \/ PutAll(rs, Span(a, b))[r] = rs[r]
                              \/ /\ PutAll(rs, Span(a, b))[r] \in a..b
                                 /\ log[PutAll(rs, Span(a, b))[r]] = r
<1>1. /\ Len(log) \in Nat /\ Len(log) <= MaxSeq /\ MaxSeq \in Nat
      /\ \A d \in 1..Len(log) : log[d] \in Rows
  BY SyncBoundAssumption DEF TypeInv, SchedType
<1>2. b <= MaxSeq
  BY <1>1
<1> DEFINE events == Span(a, b)
           new == PutAll(rs, events)
<1>3. /\ events \in Seq(Events) /\ Len(events) = b + 1 - a
      /\ \A i \in 1..(b + 1 - a) : events[i] = a + i - 1
  BY <1>2, SpanProperties
<1>4. DOMAIN events = 1..(b + 1 - a)
  BY <1>3
<1> HIDE DEF events
<1>5. /\ new \in [Rows -> 0..MaxSeq]
      /\ \A r \in Rows :
            \/ /\ \A i \in DOMAIN events : log[events[i]] # r
               /\ new[r] = rs[r]
            \/ \E i \in DOMAIN events :
                 /\ log[events[i]] = r /\ new[r] = events[i]
                 /\ \A j \in DOMAIN events : log[events[j]] = r => j <= i
  BY <1>3, PutAllProperties
<1> HIDE DEF new
<1>6. ASSUME NEW r \in Rows PROVE new[r] = rs[r] \/ (new[r] \in a..b /\ log[new[r]] = r)
  <2>1. CASE new[r] = rs[r]  BY <2>1
  <2>2. ASSUME NEW i \in DOMAIN events, log[events[i]] = r, new[r] = events[i]
        PROVE  new[r] \in a..b /\ log[new[r]] = r
    BY <1>3, <1>4, <2>2
  <2> QED  BY <1>5, <2>1, <2>2
<1>7. ASSUME NEW e \in a..b PROVE new[log[e]] >= e
  <2>1. log[e] \in Rows /\ e - a + 1 \in DOMAIN events /\ events[e - a + 1] = e
    <3>1. e \in 1..Len(log) /\ e - a + 1 \in 1..(b + 1 - a)
      BY <1>1
    <3>2. a + (e - a + 1) - 1 = e
      OBVIOUS
    <3> QED  BY <1>1, <1>3, <1>4, <3>1, <3>2
  <2>2. PICK i \in DOMAIN events : /\ new[log[e]] = events[i]
                                   /\ \A j \in DOMAIN events : log[events[j]] = log[e] => j <= i
    BY <1>5, <2>1
  <2>3. e - a + 1 <= i
    BY <2>1, <2>2
  <2>4. events[i] = a + i - 1 /\ i \in Int
    BY <1>3, <1>4
  <2> QED  BY <2>2, <2>3, <2>4
<1> QED  BY <1>5, <1>6, <1>7 DEF new, events

LEMMA SpanShows ==
    ASSUME TypeInv, NEW rs \in [Rows -> 0..MaxSeq], NEW a \in Nat, NEW b \in Nat,
           a >= 1, a <= b + 1, b <= Len(log), Shows(rs, a - 1)
    PROVE  Shows(PutAll(rs, Span(a, b)), b)
<1> DEFINE new == PutAll(rs, Span(a, b))
<1>1. /\ new \in [Rows -> 0..MaxSeq]
      /\ \A e \in a..b : new[log[e]] >= e
      /\ \A r \in Rows : new[r] = rs[r] \/ new[r] \in a..b
  BY PutSpan
<1> HIDE DEF new
<1>2. Len(log) \in Nat /\ \A d \in 1..Len(log) : log[d] \in Rows
  BY DEF TypeInv, SchedType
<1>3. ASSUME NEW e \in 1..b PROVE new[log[e]] >= e
  <2>1. CASE e >= a  BY <1>1, <2>1
  <2>2. CASE e < a
    <3>1. rs[log[e]] >= e /\ log[e] \in Rows
      BY <1>2, <2>2 DEF Shows
    <3> QED  BY <1>1, <2>2, <3>1
  <2> QED  BY <2>1, <2>2
<1> QED  BY <1>3 DEF Shows, new

(* The rows of a snapshot show the events up to it, and no others. *)
LEMMA AtShows ==
    ASSUME TypeInv, NEW n \in Nat, n <= Len(log)
    PROVE  /\ At(n) \in [Rows -> 0..MaxSeq] /\ Shows(At(n), n)
           /\ \A r \in Rows : At(n)[r] = 0 \/ (At(n)[r] \in 1..n /\ log[At(n)[r]] = r)
<1>1. Nothing \in [Rows -> 0..MaxSeq] /\ \A r \in Rows : Nothing[r] = 0
  BY SyncBoundAssumption DEF Nothing
<1>2. Shows(Nothing, 1 - 1)
  BY DEF Shows
<1>3. 1 <= n + 1 /\ 1 >= 1 /\ 1 \in Nat
  OBVIOUS
<1>4. Shows(PutAll(Nothing, Span(1, n)), n)
  BY <1>1, <1>2, <1>3, SpanShows
<1>5. /\ PutAll(Nothing, Span(1, n)) \in [Rows -> 0..MaxSeq]
      /\ \A r \in Rows : \/ PutAll(Nothing, Span(1, n))[r] = Nothing[r]
                         \/ /\ PutAll(Nothing, Span(1, n))[r] \in 1..n
                            /\ log[PutAll(Nothing, Span(1, n))[r]] = r
  BY <1>1, <1>3, PutSpan
<1> QED  BY <1>1, <1>4, <1>5 DEF At

-----------------------------------------------------------------------------
(* A step that is not about s. *)

LEMMA DueBounds ==
    ASSUME TypeInv, NEW s \in Ssps
    PROVE  /\ Due(s) \in Nat /\ Due(s) <= fan.last /\ fan.last \in Nat /\ fan.last <= Len(log)
           /\ Len(log) \in Nat /\ Len(log) <= MaxSeq /\ MaxSeq \in Nat
           /\ fan.to[s] = NoCopy => Due(s) = fan.last
           /\ fan.to[s] # NoCopy => /\ Due(s) = fan.to[s].next - 1
                                    /\ fan.to[s].next \in 1..fan.last
           /\ buf[s] \in Seq(Events) /\ Len(buf[s]) \in Nat
           /\ Back(s) \in Int /\ Back(s) <= Due(s) /\ Back(s) <= Len(log)
<1>1. /\ fan.last \in Nat /\ fan.last <= Len(log) /\ Len(log) \in Nat /\ Len(log) <= MaxSeq
      /\ MaxSeq \in Nat
      /\ fan.to[s] # NoCopy => fan.to[s].next \in 1..fan.last
  BY FanOfType
<1>2. /\ fan.to[s] = NoCopy => Due(s) = fan.last
      /\ fan.to[s] # NoCopy => Due(s) = fan.to[s].next - 1
  BY DEF Due
<1>3. Due(s) \in Nat /\ Due(s) <= fan.last
  BY <1>1, <1>2
<1>4. buf[s] \in Seq(Events) /\ Len(buf[s]) \in Nat
  BY DEF TypeInv, BufType
<1> QED  BY <1>1, <1>2, <1>3, <1>4 DEF Back

Extends == /\ snap <= snap' \/ Unverified \subseteq waived'
           /\ Len(log) <= Len(log')
           /\ \A e \in 1..Len(log) : log'[e] = log[e]
Rests(s) ==
    /\ s \in inPool' <=> s \in inPool
    /\ s \in overflowed' <=> s \in overflowed
    /\ s \in waived => s \in waived'
    /\ Unstrayed(s)' => Unstrayed(s)
    /\ state'[s] = state[s] /\ gen'[s] = gen[s] /\ buf'[s] = buf[s]
    /\ redelivery'[s] = redelivery[s]
    /\ fan'.to[s] = fan.to[s] /\ fan'.last = fan.last
    /\ proc'[s] = proc[s] /\ shown'[s] = shown[s]
Stays(s) == Rests(s) /\ poll'[s] = poll[s]
Ended == {"none", "failed", "clone", "flag", "flagall", "unfreeze", "thaw"}

(* A step that leaves s alone but for tasks of earlier registrations, or for the end of the
   current one's. *)
LEMMA RestsFollowed ==
    ASSUME TypeInv, TypeInv', NEW s \in Ssps, Followed(s), Extends, Rests(s), Past(s)',
           drained' = drained \/ state[s] \notin Active,
           \/ PollOf(s)' = PollOf(s)
           \/ /\ PollOf(s)'.pc \in Ended
              /\ s \in inPool /\ proc[s] = "loading" => PollOf(s)'.pc \in {"none", "failed"}
    PROVE  Followed(s)'
<1>1. /\ Due(s) \in Nat /\ Due(s) <= fan.last /\ fan.last \in Nat /\ fan.last <= Len(log)
      /\ Len(log) \in Nat /\ Back(s) \in Int /\ Back(s) <= Len(log) /\ Len(buf[s]) \in Nat
  BY DueBounds
<1>2. Due(s)' = Due(s)
  BY DEF Rests, Due
<1>3. Back(s)' = Back(s)
  BY <1>2 DEF Rests, Back
<1>4. /\ Tracked(s)' => Tracked(s)
      /\ s \in inPool' <=> s \in inPool
      /\ Unstrayed(s)' => Unstrayed(s)
  BY DEF Rests, Tracked
<1>6. /\ \A i \in Slots : redelivery'[s][i] = redelivery[s][i]
      /\ gen'[s] = gen[s] /\ state'[s] = state[s] /\ buf'[s] = buf[s] /\ proc'[s] = proc[s]
      /\ shown'[s] = shown[s] /\ fan'.to[s] = fan.to[s] /\ fan'.last = fan.last
  BY DEF Rests
<1>7. Phase(s)'
  BY <1>4, <1>6 DEF Followed, Phase, Rests, Ended
<1>9. OneTask(s)'
  BY <1>4, <1>6 DEF Followed, OneTask, Mine
<1>10. Order(s)'
  <2> SUFFICES ASSUME Tracked(s)' PROVE Order(s)'
    BY DEF Order
  <2>1. /\ Queued(s) /\ (PollOf(s).pc = "last" => Hand(s, PollOf(s).todo))
        /\ \A i \in Slots : Posting(s, i) => Hand(s, redelivery[s][i].batch)
    BY <1>4 DEF Followed, Order
  <2>2. Queued(s)'
    BY <1>2, <1>6, <2>1 DEF Queued, Run
  <2>4. PollOf(s)'.pc = "last" => Hand(s, PollOf(s).todo)'
    BY <1>3, <1>6, <2>1 DEF Hand, Run, Ended
  <2>5. \A i \in Slots : Posting(s, i)' => Hand(s, redelivery[s][i].batch)'
    BY <1>3, <1>6, <2>1 DEF Posting, Mine, Hand, Run
  <2> QED  BY <2>2, <2>4, <2>5 DEF Order
<1>11. Replays(s)'
  <2> SUFFICES ASSUME Tracked(s)', s \notin waived',
                      PollOf(s)'.pc \in {"replay", "drain", "verify"}
               PROVE  Replays(s)'
    BY DEF Replays
  <2>0. PollOf(s)' = PollOf(s) /\ s \notin waived
    BY DEF Ended, Rests
  <2>1. /\ \A e \in 1..fan.last : e <= Back(s) \/ fan.to[s] # NoCopy => Accounted(PollOf(s), e)
        /\ PollOf(s).pc = "replay" => PollOf(s).seen # Nothing
    BY <1>4, <2>0 DEF Followed, Replays
  <2>2. \A e \in 1..fan.last : log'[e] = log[e] /\ (e <= snap => e <= snap')
    <3>1. state[s] = "replaying"
      BY <1>4, <2>0 DEF Followed, Phase, Tracked
    <3>2. s \in Unverified
      BY <3>1 DEF Unverified, Active
    <3>3. snap \in Nat /\ snap' \in Nat /\ snap' >= snap
      BY <3>2 DEF TypeInv, SchedType, Extends
    <3> QED  BY <1>1, <3>3 DEF Extends
  <2> QED  BY <1>3, <1>6, <2>0, <2>1, <2>2 DEF Replays, Accounted
<1>12. Showing(s)'
  <2> SUFFICES ASSUME Tracked(s)', s \notin waived', Answers(s)' PROVE Showing(s)'
    BY DEF Showing
  <2>1. Tracked(s) /\ s \notin waived /\ Answers(s)
    BY <1>4, <1>6 DEF Rests, Answers
  <2>2. ASSUME NEW n \in Int, n <= Len(log), Shows(shown[s], n) PROVE Shows(shown[s], n)'
    <3>1. ASSUME NEW e \in 1..n PROVE shown'[s][log'[e]] >= e
      <4>1. e \in 1..Len(log)
        BY <1>1, <2>2
      <4>2. log'[e] = log[e]
        BY <4>1 DEF Extends
      <4> QED  BY <1>6, <2>2, <4>2 DEF Shows
    <3> QED  BY <3>1 DEF Shows
  <2>3. /\ state[s] = "ready" => Shows(shown[s], Back(s))'
        /\ state[s] = "lagging" /\ (\A i \in Slots : ~Posting(s, i)) => Shows(shown[s], Back(s))'
        /\ PollOf(s).pc \in {"drain", "verify"} /\ PollOf(s).seen = Nothing =>
             Shows(shown[s], Back(s))'
        /\ PollOf(s).pc = "final" => Shows(shown[s], Back(s))'
    BY <1>1, <1>3, <2>1, <2>2 DEF Followed, Showing
  <2>4. \A i \in Slots : Posting(s, i)' <=> Posting(s, i)
    BY <1>6 DEF Posting, Mine
  <2>5. ASSUME NEW i \in Slots, Posting(s, i)
        PROVE  Shows(shown[s], Back(s) - Len(redelivery[s][i].batch))'
    <3>1. Len(redelivery[s][i].batch) \in Nat
      BY TaskOfType DEF TaskRecord
    <3>2. Shows(shown[s], Back(s) - Len(redelivery[s][i].batch))
      BY <2>1, <2>5 DEF Followed, Showing
    <3> QED  BY <1>1, <1>3, <1>6, <2>2, <3>1, <3>2, SMTT(40)
  <2>6. ASSUME PollOf(s).pc \in {"health", "mark", "collect"}, NEW e \in 1..Back(s)
        PROVE  (e > drained' /\ e > PollOf(s).from) \/ shown'[s][log'[e]] >= e
    <3>1. s \in inPool /\ state[s] \in Active
      BY <2>1, <2>6 DEF Followed, Phase, Tracked, Active
    <3>2. (e > drained /\ e > PollOf(s).from) \/ shown[s][log[e]] >= e
      BY <2>1, <2>6 DEF Followed, Showing
    <3>3. log'[e] = log[e]
      BY <1>1 DEF Extends
    <3> QED  BY <1>6, <3>1, <3>2, <3>3
  <2>7. ASSUME PollOf(s)' = PollOf(s), PollOf(s).pc = "last", ~PollOf(s).rejected
        PROVE  Shows(shown[s], Back(s) - Len(PollOf(s).todo))'
    <3>1. Len(PollOf(s).todo) \in Nat
      <4>1. gen[s] \in Gens
        BY <2>1 DEF Followed, Phase, Tracked, TypeInv, PoolType, Gens
      <4> QED  BY <4>1, PollOfType DEF PollOf, PollRecord
    <3>2. Shows(shown[s], Back(s) - Len(PollOf(s).todo))
      BY <2>1, <2>7 DEF Followed, Showing
    <3> QED  BY <1>1, <1>3, <2>2, <2>7, <3>1, <3>2
  <2> QED  BY <1>3, <1>6, <2>3, <2>4, <2>5, <2>6, <2>7 DEF Showing, Ended
<1> QED  BY <1>7, <1>9, <1>10, <1>11, <1>12 DEF Followed

LEMMA StaysFollowed ==
    ASSUME TypeInv, TypeInv', NEW s \in Ssps, Followed(s), Extends, Stays(s),
           drained' = drained \/ state[s] \notin Active
    PROVE  Followed(s)'
<1>1. PollOf(s)' = PollOf(s) /\ Past(s)'
  BY DEF Followed, Past, PollOf, Stays, Rests
<1> QED  BY <1>1, RestsFollowed DEF Stays

(* A step about s leaves the other SSPs alone. *)
LEMMA OthersStay ==
    ASSUME TypeInv, TypeInv', EventsFollowed, NEW s \in Ssps, Extends, UNCHANGED drained,
           \A q \in Ssps : q # s => Stays(q), Followed(s)'
    PROVE  EventsFollowed'
<1>1. ASSUME NEW q \in Ssps PROVE Followed(q)'
  <2>1. CASE q = s  BY <2>1
  <2>2. CASE q # s
    <3>1. Followed(q) /\ Stays(q)
      BY <2>2 DEF EventsFollowed
    <3> QED  BY <3>1, StaysFollowed
  <2> QED  BY <2>1, <2>2
<1> QED  BY <1>1 DEF EventsFollowed

LEMMA SetPollAt ==
    ASSUME TypeInv, NEW s \in Ssps, NEW g \in Gens, NEW task, SetPoll(s, g, task)
    PROVE  /\ \A h \in Gens : poll'[s][h] = IF h = g THEN task ELSE poll[s][h]
           /\ \A q \in Ssps : q # s => poll'[q] = poll[q]
  BY DEF TypeInv, PollType, SetPoll

LEMMA SetTaskAt ==
    ASSUME TypeInv, NEW s \in Ssps, NEW i \in Slots, NEW task, SetTask(s, i, task)
    PROVE  /\ \A j \in Slots : redelivery'[s][j] = IF j = i THEN task ELSE redelivery[s][j]
           /\ \A q \in Ssps : q # s => redelivery'[q] = redelivery[q]
  BY DEF TypeInv, TaskType, SetTask

LEMMA StrayOthers ==
    ASSUME NEW s \in Ssps, NEW g, NEW who, Stray(s, g, who)
    PROVE  /\ \A q \in Ssps : Unstrayed(q)' => Unstrayed(q)
           /\ Unstrayed(s)' => g = gen[s] /\ UNCHANGED strayed
<1>1. strayed \subseteq strayed'
  BY DEF Stray
<1>2. g # gen[s] => <<s, who>> \in strayed'
  BY DEF Stray
<1>3. <<s, who>>[1] = s
  OBVIOUS
<1>4. Unstrayed(s)' => g = gen[s]
  BY <1>2, <1>3 DEF Unstrayed
<1> QED  BY <1>1, <1>4 DEF Unstrayed, Stray

(* The registrations of s, after a step of one of their tasks. *)
LEMMA PastKept ==
    ASSUME NEW s \in Ssps, Past(s), gen'[s] = gen[s],
           redelivery'[s] = redelivery[s], poll'[s] = poll[s]
    PROVE  Past(s)'
  BY DEF Past

LEMMA PastPoll ==
    ASSUME TypeInv, NEW s \in Ssps, NEW g \in Gens, NEW task, Past(s), SetPoll(s, g, task),
           poll[s][g].pc # "none",
           task.pc \in {"health", "mark", "collect"} => task.seen = Nothing,
           gen'[s] = gen[s], redelivery'[s] = redelivery[s]
    PROVE  Past(s)' /\ g <= gen[s]
<1>1. \A h \in Gens : poll'[s][h] = IF h = g THEN task ELSE poll[s][h]
  BY SetPollAt
<1>2. gen[s] \in Nat /\ g \in Nat
  BY SyncBoundAssumption DEF TypeInv, PoolType, Gens
<1>3. g <= gen[s]
  BY <1>2 DEF Past
<1> QED  BY <1>1, <1>2, <1>3 DEF Past

LEMMA PastTask ==
    ASSUME TypeInv, NEW s \in Ssps, NEW i \in Slots, NEW task, Past(s), SetTask(s, i, task),
           task.gen <= gen[s], gen'[s] = gen[s], poll'[s] = poll[s]
    PROVE  Past(s)'
<1>1. \A j \in Slots : redelivery'[s][j] = IF j = i THEN task ELSE redelivery[s][j]
  BY SetTaskAt
<1> QED  BY <1>1 DEF Past

(* What a step keeps of the invariant of s, by the state it leaves alone. *)
LEMMA OneTaskKept ==
    ASSUME NEW s \in Ssps, OneTask(s), gen'[s] = gen[s], redelivery'[s] = redelivery[s],
           s \in inPool' => s \in inPool, Unstrayed(s)' => Unstrayed(s),
           state'[s] = state[s] \/ \A i \in Slots : ~Mine(s, i)
    PROVE  OneTask(s)'
<1>1. \A i \in Slots : Mine(s, i)' <=> Mine(s, i)
  BY DEF Mine
<1> QED  BY <1>1 DEF OneTask

LEMMA OrderKept ==
    ASSUME NEW s \in Ssps, Order(s), Tracked(s)' => Tracked(s), gen'[s] = gen[s],
           redelivery'[s] = redelivery[s], buf'[s] = buf[s],
           fan'.to[s] = fan.to[s], fan'.last = fan.last,
           state'[s] = state[s] \/ state'[s] \notin {"ready", "lagging"},
           PollOf(s)'.pc = "last" => PollOf(s).pc = "last" /\ PollOf(s)'.todo = PollOf(s).todo
    PROVE  Order(s)'
<1> SUFFICES ASSUME Tracked(s)' PROVE Order(s)'
  BY DEF Order
<1>1. Due(s)' = Due(s) /\ Back(s)' = Back(s)
  BY DEF Due, Back
<1>2. /\ Queued(s) /\ (PollOf(s).pc = "last" => Hand(s, PollOf(s).todo))
      /\ \A i \in Slots : Posting(s, i) => Hand(s, redelivery[s][i].batch)
  BY DEF Order
<1>3. Queued(s)'
  BY <1>1, <1>2 DEF Queued, Run
<1>4. PollOf(s)'.pc = "last" => Hand(s, PollOf(s).todo)'
  BY <1>1, <1>2 DEF Hand, Run
<1>5. \A i \in Slots : Posting(s, i)' => Hand(s, redelivery[s][i].batch)'
  BY <1>1, <1>2 DEF Posting, Mine, Hand, Run
<1> QED  BY <1>3, <1>4, <1>5 DEF Order

LEMMA ReplaysKept ==
    ASSUME NEW s \in Ssps, Replays(s), Tracked(s)' => Tracked(s), UNCHANGED <<log, snap>>,
           s \in waived => s \in waived',
           buf'[s] = buf[s], fan'.to[s] = fan.to[s], fan'.last = fan.last,
           PollOf(s)'.pc \in {"replay", "drain", "verify"} =>
             /\ PollOf(s).pc \in {"replay", "drain", "verify"} /\ PollOf(s)'.seen = PollOf(s).seen
             /\ PollOf(s)'.pc = "replay" => PollOf(s).pc = "replay"
    PROVE  Replays(s)'
<1>1. Back(s)' = Back(s)
  BY DEF Due, Back
<1> QED  BY <1>1 DEF Replays, Accounted

LEMMA RemovedFollows ==
    ASSUME TypeInv, NEW s \in Ssps, RemoveSsp(s), Past(s)'
    PROVE  /\ Followed(s)'
           /\ \A q \in Ssps : q # s => /\ q \in inPool' <=> q \in inPool
                                       /\ q \in overflowed' <=> q \in overflowed
                                       /\ state'[q] = state[q] /\ buf'[q] = buf[q]
                                       /\ gen'[q] = gen[q]
<1>1. s \notin inPool' /\ state'[s] = "none"
  BY DEF RemoveSsp, TypeInv, PoolType
<1>2. ~Tracked(s)'
  BY <1>1 DEF Tracked
<1>3. Followed(s)'
  BY <1>1, <1>2 DEF Followed, Phase, OneTask, Order, Replays, Showing
<1>4. \A q \in Ssps : q # s => state'[q] = state[q] /\ buf'[q] = buf[q]
  BY DEF RemoveSsp, TypeInv, PoolType, BufType
<1> QED  BY <1>3, <1>4 DEF RemoveSsp

LEMMA StreamFollows ==
    ASSUME TypeInv, TypeInv', EventsFollowed, SnapshotTick \/ \E r \in Rows : Ingest(r)
    PROVE  EventsFollowed'
<1> USE DEF memberVars, sspVars, histVars
<1>1. /\ UNCHANGED <<inPool, state, overflowed, resync, gen, bootSeq, failures, buf, fan,
                     redelivery, poll, proc, shown, waived, strayed>>
      /\ UNCHANGED drained \/ ~HasActive(state)
  BY DEF SnapshotTick, Ingest
<1>2. Extends
  <2>1. CASE SnapshotTick
    <3>1. snap <= snap' /\ UNCHANGED log /\ Len(log) \in Nat
      BY <2>1, DrainType DEF SnapshotTick, TypeInv, SchedType
    <3> QED  BY <3>1 DEF Extends
  <2>2. ASSUME NEW r \in Rows, Ingest(r) PROVE Extends
    <3>1. log \in Seq(Rows) /\ log' = Append(log, r) /\ snap \in Nat /\ UNCHANGED snap
      BY <2>2 DEF Ingest, TypeInv, SchedType
    <3>2. Len(log) \in Nat /\ Len(log') = Len(log) + 1 /\ \A e \in 1..Len(log) : log'[e] = log[e]
      BY <3>1, AppendProperties
    <3> QED  BY <3>1, <3>2 DEF Extends
  <2> QED  BY <2>1, <2>2
<1>3. ASSUME NEW s \in Ssps PROVE Followed(s)'
  <2>1. Stays(s)
    BY <1>1 DEF Stays, Rests, Unstrayed
  <2>2. drained' = drained \/ state[s] \notin Active
    BY <1>1 DEF HasActive
  <2> QED  BY <1>2, <2>1, <2>2, StaysFollowed DEF EventsFollowed
<1> QED  BY <1>3 DEF EventsFollowed

LEMMA EvictFollows ==
    ASSUME TypeInv, TypeInv', EventsFollowed, NEW s \in Ssps, Evict(s)
    PROVE  EventsFollowed'
<1>1. /\ RemoveSsp(s)
      /\ UNCHANGED <<log, rows, snap, drained, status, spoiled, fan, redelivery, poll, proc, shown, waived,
                     strayed, gen>>
  BY DEF Evict, schedVars, sspVars, histVars, RemoveSsp
<1>2. Past(s)'
  BY <1>1, PastKept DEF EventsFollowed, Followed
<1>3. Followed(s)'
  BY <1>1, <1>2, RemovedFollows
<1>4. \A q \in Ssps : q # s => Stays(q)
  BY <1>1, <1>2, RemovedFollows DEF Stays, Rests, Unstrayed
<1>5. Extends
  BY <1>1 DEF Extends, TypeInv, SchedType
<1> QED  BY <1>1, <1>3, <1>4, <1>5, OthersStay

(* A registration starts with an empty buffer, and none of its tasks is under way. *)
LEMMA RegisterFollows ==
    ASSUME TypeInv, TypeInv', EventsFollowed, NEW s \in Ssps, Register(s)
    PROVE  EventsFollowed'
<1>1. /\ gen[s] < MaxGen
      /\ inPool' = inPool \cup {s} /\ state' = [state EXCEPT ![s] = "bootstrapping"]
      /\ buf' = [buf EXCEPT ![s] = <<>>] /\ overflowed' = overflowed \ {s}
      /\ gen' = [gen EXCEPT ![s] = @ + 1]
      /\ proc' = [proc EXCEPT ![s] = "loading"]
      /\ (\A q \in waived : q # s => q \in waived') /\ strayed' = {x \in strayed : x[1] # s}
      /\ UNCHANGED <<log, fan, redelivery, shown>>
      /\ SetPoll(s, gen[s] + 1, [NoPoll EXCEPT !.pc = "health", !.from = snap'])
  BY DEF Register, SetPoll
<1>2. \/ snap <= snap' /\ ~SiblingActive(s)
      \/ UNCHANGED <<snap, drained>>
  BY DrainType DEF Register
<1>3. gen[s] \in Nat /\ gen[s] + 1 \in Gens
  BY <1>1, SyncBoundAssumption DEF TypeInv, PoolType, Gens
<1>4. Extends
  BY <1>1, <1>2 DEF Extends, TypeInv, SchedType
<1> DEFINE task == [NoPoll EXCEPT !.pc = "health", !.from = snap']
<1>5. task.pc = "health" /\ task.seen = Nothing
  BY DEF NoPoll
<1> HIDE DEF task
<1>6. /\ \A h \in Gens : poll'[s][h] = IF h = gen[s] + 1 THEN task ELSE poll[s][h]
      /\ \A q \in Ssps : q # s => poll'[q] = poll[q]
  BY <1>1, <1>3, SetPollAt DEF task
<1>7. ASSUME NEW q \in Ssps, q # s PROVE Followed(q)'
  <2>1. Stays(q)
    <3>1. /\ state'[q] = state[q] /\ gen'[q] = gen[q] /\ buf'[q] = buf[q] /\ proc'[q] = proc[q]
      BY <1>1, <1>7 DEF TypeInv, PoolType, BufType, SspType
    <3>2. Unstrayed(q)' => Unstrayed(q)
      BY <1>1, <1>7 DEF Unstrayed
    <3> QED  BY <1>1, <1>6, <1>7, <3>1, <3>2 DEF Stays, Rests
  <2>2. drained' = drained \/ state[q] \notin Active
    <3>1. CASE ~SiblingActive(s)
      <4>1. [state EXCEPT ![s] = "none"][q] = state[q]
        BY <1>7 DEF TypeInv, PoolType
      <4> QED  BY <3>1, <4>1 DEF SiblingActive, HasActive
    <3> QED  BY <1>2, <3>1
  <2> QED  BY <1>4, <2>1, <2>2, StaysFollowed DEF EventsFollowed
<1>8. /\ s \in inPool' /\ state'[s] = "bootstrapping" /\ buf'[s] = <<>> /\ proc'[s] = "loading"
      /\ gen'[s] = gen[s] + 1 /\ s \notin overflowed'
      /\ poll'[s][gen'[s]] = task
  BY <1>1, <1>3, <1>6 DEF TypeInv, PoolType, BufType, SspType
<1>9. PollOf(s)' = task /\ PollOf(s)'.pc = "health"
  BY <1>5, <1>8 DEF PollOf
<1>10. Phase(s)'
  BY <1>3, <1>8, <1>9 DEF Phase
<1>11. Past(s) /\ \A i \in Slots : redelivery[s][i].gen \in Nat
  BY TaskOfType, SyncBoundAssumption DEF EventsFollowed, Followed, TaskRecord
<1>12. Past(s)'
  <2>1. \A i \in Slots : redelivery'[s][i].gen <= gen'[s]
    BY <1>1, <1>3, <1>8, <1>11 DEF Past
  <2>2. ASSUME NEW h \in Gens
        PROVE  /\ h > gen'[s] => poll'[s][h].pc = "none"
               /\ poll'[s][h].pc \in {"health", "mark", "collect"} => poll'[s][h].seen = Nothing
    <3>1. h \in Nat
      BY SyncBoundAssumption DEF Gens
    <3> QED  BY <1>3, <1>5, <1>6, <1>8, <1>11, <3>1 DEF Past
  <2> QED  BY <2>1, <2>2 DEF Past
<1>13. \A i \in Slots : ~Mine(s, i)'
  BY <1>1, <1>3, <1>8, <1>11 DEF Past, Mine
<1>14. OneTask(s)'
  BY <1>13 DEF OneTask
<1>15. Order(s)'
  <2>1. Run(buf[s], Due(s))'
    <3>1. Due(s)' = Due(s)
      BY <1>1 DEF Due
    <3>2. Due(s)' \in Nat
      BY <3>1, DueBounds
    <3> QED  BY <1>8, <3>2 DEF Run
  <2>2. Queued(s)'
    BY <1>8, <2>1 DEF Queued
  <2> QED  BY <1>9, <1>13, <2>2 DEF Order, Posting
<1>16. Replays(s)' /\ Showing(s)'
  BY <1>8, <1>9 DEF Replays, Showing, Answers
<1>17. Followed(s)'
  BY <1>10, <1>12, <1>14, <1>15, <1>16 DEF Followed
<1> QED  BY <1>7, <1>17 DEF EventsFollowed

(* The snapshot that s loads holds every event its replay will not bring. *)
LEMMA LoadFollows ==
    ASSUME TypeInv, TypeInv', EventsFollowed, Grounded, NEW s \in Ssps, Load(s)
    PROVE  EventsFollowed'
<1> USE DEF schedVars, memberVars, histVars
<1>1. /\ proc[s] = "loading" /\ proc' = [proc EXCEPT ![s] = "up"]
      /\ shown' = [shown EXCEPT ![s] = rows]
      /\ UNCHANGED <<log, snap, drained, inPool, state, overflowed, gen, buf, fan, redelivery,
                     poll, waived, strayed>>
  BY DEF Load
<1>2. /\ \A q \in Ssps : q # s => proc'[q] = proc[q] /\ shown'[q] = shown[q]
      /\ proc'[s] = "up" /\ shown'[s] = rows
  BY <1>1 DEF TypeInv, SspType
<1>3. \A q \in Ssps : q # s => Stays(q)
  BY <1>1, <1>2 DEF Stays, Rests, Unstrayed
<1>4. Extends
  BY <1>1 DEF Extends, TypeInv, SchedType
<1>5. Followed(s)
  BY DEF EventsFollowed
<1>6. Due(s)' = Due(s) /\ Back(s)' = Back(s) /\ PollOf(s)' = PollOf(s)
  BY <1>1 DEF Due, Back, PollOf
<1>7. (Tracked(s)' <=> Tracked(s)) /\ (Unstrayed(s)' <=> Unstrayed(s))
  BY <1>1 DEF Tracked, Unstrayed
<1>8. Phase(s)'
  BY <1>1, <1>2, <1>5, <1>6 DEF Followed, Phase
<1>9. Past(s)'
  BY <1>1, <1>5, PastKept DEF Followed
<1>10. OneTask(s)'
  BY <1>1, <1>5, <1>7, OneTaskKept DEF Followed
<1>11. Order(s)'
  BY <1>1, <1>5, <1>6, <1>7, OrderKept DEF Followed
<1>12. Replays(s)'
  BY <1>1, <1>5, <1>6, <1>7, ReplaysKept DEF Followed
<1>13. Showing(s)'
  <2> SUFFICES ASSUME Tracked(s), s \notin waived PROVE Showing(s)'
    BY <1>1, <1>7 DEF Showing
  <2>1. state'[s] = "bootstrapping" /\ PollOf(s)'.pc \in {"health", "failed", "none"}
    BY <1>1, <1>5, <1>6 DEF Followed, Phase, Tracked
  <2>2. \A i \in Slots : ~Posting(s, i)'
    BY <1>1, <1>5, <2>1 DEF Followed, OneTask, Tracked, Posting, Mine
  <2>3. ASSUME PollOf(s).pc = "health", NEW e \in 1..Back(s)
        PROVE  (e > drained /\ e > PollOf(s).from) \/ rows[log[e]] >= e
    <3>0. s \in inPool /\ state[s] \in Active
      BY <1>1, <2>1 DEF Tracked, Active
    <3>1. /\ snap \in Nat /\ snap <= Len(log) /\ drained \in Nat /\ drained <= snap
          /\ Len(log) \in Nat /\ Back(s) \in Int /\ Back(s) <= Len(log)
          /\ Shows(rows, snap) /\ PollOf(s).from <= snap
      BY <2>3, <3>0, DueBounds DEF Grounded, Held, Based, TypeInv, SchedType
    <3>2. gen[s] \in Gens
      BY <1>5 DEF Followed, Phase, Tracked, TypeInv, PoolType, Gens
    <3>3. PollOf(s).from \in Nat
      BY <3>2, PollOfType DEF PollOf
    <3>4. CASE e <= snap
      <4>1. e \in 1..snap
        BY <3>1, <3>4
      <4> QED  BY <3>1, <4>1 DEF Shows
    <3>5. CASE e > snap
      BY <3>1, <3>3, <3>5
    <3> QED  BY <3>1, <3>4, <3>5
  <2> QED  BY <1>1, <1>2, <1>6, <2>1, <2>2, <2>3 DEF Showing
<1>14. Followed(s)'
  BY <1>8, <1>9, <1>10, <1>11, <1>12, <1>13 DEF Followed
<1> QED  BY <1>1, <1>3, <1>4, <1>14, OthersStay

LEMMA StopFollows ==
    ASSUME TypeInv, TypeInv', EventsFollowed, NEW s \in Ssps, CrashSsp(s) \/ Heartbeat(s)
    PROVE  EventsFollowed'
<1> USE DEF schedVars, memberVars, histVars, sspVars
<1>1. /\ UNCHANGED <<log, snap, drained, inPool, state, overflowed, gen, buf, fan, redelivery,
                     poll, waived, strayed>>
      /\ \/ UNCHANGED <<proc, shown>>
         \/ /\ proc' = [proc EXCEPT ![s] = "down"]
            /\ shown' = [shown EXCEPT ![s] = Nothing]
  BY DEF CrashSsp, Heartbeat
<1>2. \A q \in Ssps : q # s => Stays(q)
  BY <1>1 DEF Stays, Rests, Unstrayed, TypeInv, SspType
<1>3. Extends
  BY <1>1 DEF Extends, TypeInv, SchedType
<1>4. Followed(s)
  BY DEF EventsFollowed
<1>5. CASE UNCHANGED <<proc, shown>>
  <2>1. Stays(s)
    BY <1>1, <1>5 DEF Stays, Rests, Unstrayed
  <2> QED  BY <1>1, <1>2, <1>3, <1>4, <2>1, StaysFollowed, OthersStay
<1>6. CASE proc' = [proc EXCEPT ![s] = "down"]
  <2>1. proc'[s] = "down"
    BY <1>6 DEF TypeInv, SspType
  <2>2. PollOf(s)' = PollOf(s) /\ (Tracked(s)' => Tracked(s)) /\ (Unstrayed(s)' => Unstrayed(s))
    BY <1>1 DEF PollOf, Tracked, Unstrayed
  <2>3. Phase(s)'
    BY <1>1, <1>4, <2>1, <2>2 DEF Followed, Phase
  <2>4. Past(s)'
    BY <1>1, <1>4, PastKept DEF Followed
  <2>5. OneTask(s)'
    BY <1>1, <1>4, <2>2, OneTaskKept DEF Followed
  <2>6. Order(s)'
    BY <1>1, <1>4, <2>2, OrderKept DEF Followed
  <2>7. Replays(s)'
    BY <1>1, <1>4, <2>2, ReplaysKept DEF Followed
  <2>8. Showing(s)'
    BY <2>1 DEF Showing, Answers
  <2>9. Followed(s)'
    BY <2>3, <2>4, <2>5, <2>6, <2>7, <2>8 DEF Followed
  <2> QED  BY <1>1, <1>2, <1>3, <2>9, OthersStay
<1> QED  BY <1>1, <1>5, <1>6

(* A new batch: a live SSP gets a copy, which is not due yet; for any other in the pool the
   events go to the end of its buffer, or it overflows. *)
LEMMA FanTakeFollows ==
    ASSUME TypeInv, TypeInv', EventsFollowed, FanTake
    PROVE  EventsFollowed'
<1>1. PICK last \in (fan.last + 1)..Len(log) :
        LET events == Span(fan.last + 1, last)
            queue == {s \in inPool : state[s] \in Queues}
        IN /\ Len(events) <= MaxBatch
           /\ fan' = [last |-> last,
                      to |-> [s \in Ssps |-> IF s \in inPool /\ state[s] = "ready"
                                             THEN [st |-> "pending", next |-> fan.last + 1]
                                             ELSE NoCopy]]
           /\ buf' = [s \in Ssps |-> IF s \in queue THEN Buffered(s, events).buf ELSE buf[s]]
           /\ overflowed' = overflowed \cup {s \in queue : Buffered(s, events).over}
  BY DEF FanTake
<1>2. /\ UNCHANGED <<log, rows, snap, drained, status, spoiled, inPool, state, resync, gen, bootSeq, failures,
                     redelivery, poll, proc, shown, faults, waived, strayed>>
      /\ \A s \in Ssps : fan.to[s] = NoCopy
  BY DEF FanTake, schedVars, sspVars, histVars, Idle
<1> DEFINE events == Span(fan.last + 1, last)
<1>3. /\ fan.last \in Nat /\ last \in Nat /\ fan.last + 1 <= last /\ last <= Len(log)
      /\ Len(log) \in Nat /\ Len(log) <= MaxSeq /\ MaxSeq \in Nat /\ last <= MaxSeq
  <2>1. /\ fan.last \in Nat /\ Len(log) \in Nat /\ Len(log) <= MaxSeq /\ MaxSeq \in Nat
    BY SyncBoundAssumption DEF TypeInv, FanType, SchedType
  <2> QED  BY <2>1
<1>4. events \in Seq(Events) /\ Len(events) = last - fan.last /\ Run(events, last)
  <2>1. /\ fan.last + 1 \in Nat /\ last \in Nat /\ fan.last + 1 >= 1
        /\ fan.last + 1 <= last + 1 /\ last <= MaxSeq /\ last + 1 - (fan.last + 1) = last - fan.last
    BY <1>3
  <2> QED  BY <2>1, SpanProperties, RunSpan
<1>5. ASSUME NEW s \in Ssps PROVE Followed(s)'
  <2>1. /\ fan.to[s] = NoCopy /\ Due(s) = fan.last /\ buf[s] \in Seq(Events)
        /\ Len(buf[s]) \in Nat /\ Back(s) = fan.last - Len(buf[s])
    BY <1>2, DueBounds DEF Due, Back
  <2>2. /\ fan'.last = last
        /\ s \in inPool /\ state[s] = "ready" =>
              fan'.to[s] = [st |-> "pending", next |-> fan.last + 1]
        /\ ~(s \in inPool /\ state[s] = "ready") => fan'.to[s] = NoCopy
    BY <1>1
  <2>3. /\ s \in inPool /\ state[s] \in Queues =>
              /\ buf'[s] = Buffered(s, events).buf
              /\ Buffered(s, events).over => s \in overflowed'
        /\ ~(s \in inPool /\ state[s] \in Queues) =>
              buf'[s] = buf[s] /\ (s \in overflowed' <=> s \in overflowed)
        /\ s \in overflowed => s \in overflowed'
    BY <1>1
  <2>4. Followed(s)
    BY DEF EventsFollowed
  <2>5. "ready" \notin Queues /\ state[s] \in Queues \cup {"none", "ready"}
    BY DEF Queues, Active, TypeInv, PoolType
  <2>6. (Tracked(s)' => Tracked(s)) /\ (Unstrayed(s)' <=> Unstrayed(s)) /\ PollOf(s)' = PollOf(s)
    BY <1>2, <2>3 DEF Tracked, Unstrayed, PollOf
  <2>7. Phase(s)'
    BY <1>2, <2>3, <2>4, <2>5, <2>6 DEF Followed, Phase
  <2>8. Past(s)' /\ OneTask(s)'
    BY <1>2, <2>4, <2>6, PastKept, OneTaskKept DEF Followed
  <2>9. \A i \in Slots : Posting(s, i)' <=> Posting(s, i)
    BY <1>2 DEF Posting, Mine
  <2>10. ASSUME Tracked(s)', state[s] = "ready"
         PROVE  Order(s)' /\ Replays(s)' /\ Showing(s)'
    <3>1. /\ fan'.to[s] # NoCopy /\ fan'.to[s].next = fan.last + 1 /\ buf'[s] = buf[s]
          /\ s \in inPool
      BY <2>2, <2>3, <2>5, <2>6, <2>10 DEF NoCopy, Tracked
    <3>2. Due(s)' = Due(s) /\ Back(s)' = Back(s)
      BY <1>3, <2>1, <3>1 DEF Due, Back
    <3>3. PollOf(s).pc \notin {"health", "mark", "collect", "replay", "drain", "verify", "final", "last"}
      BY <2>4, <2>10, <3>1 DEF Followed, Phase
    <3>4. \A i \in Slots : ~Posting(s, i)
      BY <2>4, <2>6, <2>10 DEF Followed, OneTask, Tracked, Posting
    <3>5. Order(s)'
      <4>1. Queued(s)'
        BY <1>2, <2>4, <2>6, <2>10, <3>1, <3>2 DEF Followed, Order, Queued, Run
      <4> QED  BY <2>6, <2>9, <3>3, <3>4, <4>1 DEF Order
    <3>6. Replays(s)'
      BY <2>6, <3>3 DEF Replays
    <3>7. Showing(s)'
      <4>1. Answers(s)' /\ s \notin waived' => Shows(shown[s], Back(s))'
        BY <1>2, <2>4, <2>6, <2>10, <3>2 DEF Followed, Showing, Shows, Answers
      <4> QED  BY <1>2, <2>6, <2>9, <2>10, <3>3, <3>4, <4>1 DEF Showing
    <3> QED  BY <3>5, <3>6, <3>7
  <2>11. ASSUME Tracked(s)', state[s] # "ready"
         PROVE  Order(s)' /\ Replays(s)' /\ Showing(s)'
    <3>1. s \in inPool /\ state[s] \in Queues /\ s \notin overflowed'
      BY <2>4, <2>5, <2>6, <2>11 DEF Followed, Phase, Tracked
    <3>2. buf'[s] = buf[s] \o events /\ fan'.to[s] = NoCopy
      BY <1>4, <2>2, <2>3, <2>11, <3>1, BufferedProperties DEF TypeInv, BufType
    <3>3. Due(s)' = last
      BY <2>2, <3>2 DEF Due
    <3>4. Order(s)
      BY <2>4 DEF Followed
    <3> HIDE DEF events
    <3>5. Run(buf[s], fan.last) /\ last - Len(events) = fan.last
      <4>1. Queued(s)
        BY <2>6, <2>11, <3>4 DEF Order
      <4>2. Run(buf[s], fan.last)
        BY <2>1, <4>1 DEF Queued
      <4> QED  BY <1>3, <1>4, <4>2
    <3>6. Len(buf'[s]) = Len(buf[s]) + Len(events) /\ Run(buf'[s], last)
      BY <1>3, <1>4, <2>1, <3>2, <3>5, RunConcat
    <3>7. Back(s)' = Back(s)
      BY <1>3, <1>4, <2>1, <3>3, <3>6 DEF Back
    <3>8. Order(s)'
      <4>1. Queued(s)'
        <5>1. Run(buf[s], Due(s))'
          BY <3>3, <3>6 DEF Run
        <5> QED  BY <1>2, <2>11, <3>2, <5>1 DEF Queued
      <4>2. PollOf(s)'.pc = "last" => Hand(s, PollOf(s).todo)'
        BY <2>6, <2>11, <3>2, <3>4, <3>7 DEF Order, Hand, Run
      <4>3. \A i \in Slots : Posting(s, i)' => Hand(s, redelivery[s][i].batch)'
        BY <1>2, <2>6, <2>9, <2>11, <3>2, <3>4, <3>7 DEF Order, Hand, Run
      <4> QED  BY <4>1, <4>2, <4>3 DEF Order
    <3>9. Replays(s)'
      <4>1. Replays(s) /\ Back(s) <= fan.last
        BY <1>3, <2>1, <2>4 DEF Followed
      <4>2. Back(s) \in Int
        BY <1>3, <2>1
      <4> QED  BY <1>2, <1>3, <2>1, <2>2, <2>6, <3>2, <3>7, <4>1, <4>2 DEF Replays, Accounted
    <3>10. Showing(s)'
      BY <1>2, <2>4, <2>6, <2>9, <2>11, <3>7 DEF Followed, Showing, Shows, Answers
    <3> QED  BY <3>8, <3>9, <3>10
  <2>12. CASE ~Tracked(s)'
    BY <2>7, <2>8, <2>12 DEF Followed, Order, Replays, Showing
  <2> QED  BY <2>7, <2>8, <2>10, <2>11, <2>12 DEF Followed
<1> QED  BY <1>5 DEF EventsFollowed

(* Posts to an SSP: a copy is under way, so no task has anything in hand and nothing is
   buffered, and what was applied starts at the first event that is not due. *)
LEMMA FanPostFollows ==
    ASSUME TypeInv, TypeInv', EventsFollowed, NEW s \in Ssps, FanPost(s)
    PROVE  EventsFollowed'
<1>1. /\ fan.to[s].st = "pending"
      /\ UNCHANGED <<log, rows, snap, drained, status, spoiled, inPool, state, overflowed, resync, gen,
                     bootSeq, failures, buf, redelivery, poll, proc, waived, strayed>>
  BY FanPostCases
<1>2. /\ fan.to[s].next \in 1..fan.last /\ fan.last \in Nat /\ fan.last <= Len(log)
      /\ Len(log) \in Nat /\ fan.to[s].next \in Nat /\ fan.to[s] # NoCopy
  BY <1>1, FanOfType DEF NoCopy
<1> DEFINE first == fan.to[s].next
<1>3. /\ fan'.last = fan.last
      /\ \A q \in Ssps : q # s => fan'.to[q] = fan.to[q] /\ shown'[q] = shown[q]
  <2>1. ASSUME NEW copy, fan' = [fan EXCEPT !.to[s] = copy]
        PROVE  fan'.last = fan.last /\ \A q \in Ssps : q # s => fan'.to[q] = fan.to[q]
    BY <2>1 DEF TypeInv, FanType
  <2>2. \E copy : fan' = [fan EXCEPT !.to[s] = copy]
    <3>1. CASE fan' = [fan EXCEPT !.to[s].st = "failed"]
      <4>1. fan' = [fan EXCEPT !.to[s] = [fan.to[s] EXCEPT !.st = "failed"]]
        BY <3>1 DEF TypeInv, FanType
      <4> QED  BY <4>1
    <3> QED  BY <3>1, FanPostCases
  <2>3. \E rs : shown' = shown \/ shown' = [shown EXCEPT ![s] = rs]
    BY FanPostCases
  <2>4. \A q \in Ssps : q # s => shown'[q] = shown[q]
    BY <2>3 DEF TypeInv, SspType
  <2> QED  BY <2>1, <2>2, <2>4
<1>4. PICK to \in (first - 1)..fan.last :
        /\ \/ shown'[s] = PutAll(shown[s], Span(first, to))
           \/ to = first - 1 /\ shown'[s] = shown[s]
        /\ \/ fan'.to[s] = NoCopy /\ to = fan.last
           \/ /\ fan'.to[s].st = "failed" /\ fan'.to[s].next \in first..fan.last
              /\ fan'.to[s].next - 1 <= to
  <2>1. CASE /\ fan' = [fan EXCEPT !.to[s] = NoCopy]
             /\ shown' = [shown EXCEPT ![s] = PutAll(@, Span(first, fan.last))]
    <3>1. fan'.to[s] = NoCopy /\ shown'[s] = PutAll(shown[s], Span(first, fan.last))
      BY <2>1 DEF TypeInv, FanType, SspType
    <3>2. fan.last \in (first - 1)..fan.last
      BY <1>2
    <3> QED  BY <3>1, <3>2
  <2>2. CASE fan' = [fan EXCEPT !.to[s].st = "failed"] /\ UNCHANGED shown
    <3>1. fan'.to[s].st = "failed" /\ fan'.to[s].next = first /\ shown'[s] = shown[s]
      <4>1. fan'.to[s] = [fan.to[s] EXCEPT !.st = "failed"] /\ fan.to[s] \in CopyRecord
        BY <2>2 DEF TypeInv, FanType
      <4> QED  BY <2>2, <4>1 DEF CopyRecord
    <3>2. first - 1 \in (first - 1)..fan.last /\ first \in first..fan.last /\ first - 1 <= first - 1
      BY <1>2
    <3> QED  BY <3>1, <3>2
  <2>3. ASSUME NEW from \in first..fan.last, NEW t \in (first - 1)..fan.last, from - 1 <= t,
               fan' = [fan EXCEPT !.to[s] = [st |-> "failed", next |-> from]],
               shown' = [shown EXCEPT ![s] = PutAll(@, Span(first, t))]
        PROVE  /\ shown'[s] = PutAll(shown[s], Span(first, t))
               /\ fan'.to[s].st = "failed" /\ fan'.to[s].next = from
    BY <2>3 DEF TypeInv, FanType, SspType
  <2>4. CASE \E from \in first..fan.last, t \in (first - 1)..fan.last :
               /\ from - 1 <= t
               /\ fan' = [fan EXCEPT !.to[s] = [st |-> "failed", next |-> from]]
               /\ shown' = [shown EXCEPT ![s] = PutAll(@, Span(first, t))]
    BY <2>3, <2>4
  <2> QED  BY <2>1, <2>2, <2>4, FanPostCases
<1>5. \A q \in Ssps : q # s => Stays(q)
  BY <1>1, <1>3 DEF Stays, Rests, Unstrayed
<1>6. Extends
  BY <1>1 DEF Extends, TypeInv, SchedType
<1>7. Followed(s)
  BY DEF EventsFollowed
<1>8. (Tracked(s)' <=> Tracked(s)) /\ (Unstrayed(s)' => Unstrayed(s)) /\ PollOf(s)' = PollOf(s)
  BY <1>1 DEF Tracked, Unstrayed, PollOf
<1>9. Phase(s)' /\ Past(s)' /\ OneTask(s)'
  BY <1>1, <1>7, <1>8, PastKept, OneTaskKept DEF Followed, Phase
<1>10. ASSUME ~Tracked(s) PROVE Followed(s)'
  BY <1>8, <1>9, <1>10 DEF Followed, Order, Replays, Showing
<1>11. ASSUME Tracked(s) PROVE Followed(s)'
  <2>1. /\ buf[s] = <<>> /\ buf'[s] = <<>> /\ state[s] # "lagging" /\ PollOf(s).pc # "last"
        /\ \A i \in Slots : ~Posting(s, i)
    BY <1>1, <1>2, <1>7, <1>11 DEF Followed, Order, Queued, Hand
  <2>2. Back(s) = first - 1
    BY <1>2, <2>1 DEF Back, Due
  <2>3. to \in Int /\ first - 1 <= to /\ to <= fan.last /\ to \in Nat
    BY <1>2
  <2>4. Due(s)' \in Nat /\ Back(s)' = Due(s)' /\ Due(s)' <= to /\ Due(s)' <= fan.last
    <3>1. CASE fan'.to[s] = NoCopy /\ to = fan.last
      BY <1>2, <1>3, <2>1, <2>3, <3>1 DEF Due, Back
    <3>2. CASE fan'.to[s].st = "failed" /\ fan'.to[s].next \in first..fan.last /\ fan'.to[s].next - 1 <= to
      <4>1. fan'.to[s] # NoCopy
        BY <3>2 DEF NoCopy
      <4> QED  BY <1>2, <2>1, <2>3, <3>2, <4>1 DEF Due, Back
    <3> QED  BY <1>4, <3>1, <3>2
  <2>5. \A i \in Slots : ~Posting(s, i)'
    BY <1>1, <2>1 DEF Posting, Mine
  <2>6. Order(s)'
    <3>1. Queued(s)'
      BY <1>1, <2>1, <2>4 DEF Queued, Run
    <3> QED  BY <1>8, <2>1, <2>5, <3>1 DEF Order
  <2>7. Replays(s)'
    BY <1>1, <1>2, <1>3, <1>7, <1>8, <1>11 DEF Followed, Replays, Accounted
  <2>8. shown[s] \in [Rows -> 0..MaxSeq] /\ \A e \in 1..Len(log) : log[e] \in Rows
    BY DEF TypeInv, SspType, SchedType
  <2>9. /\ \A e \in first..to : shown'[s][log[e]] >= e
        /\ \A r \in Rows : shown'[s][r] = shown[s][r] \/ shown'[s][r] \in first..to
    <3>1. CASE shown'[s] = PutAll(shown[s], Span(first, to))
      <4>1. first \in Nat /\ first >= 1 /\ first <= to + 1 /\ to <= Len(log)
        BY <1>2, <2>3
      <4> HIDE DEF first
      <4>2. /\ \A e \in first..to : PutAll(shown[s], Span(first, to))[log[e]] >= e
            /\ \A r \in Rows : \/ PutAll(shown[s], Span(first, to))[r] = shown[s][r]
                               \/ PutAll(shown[s], Span(first, to))[r] \in first..to
        BY <2>3, <2>8, <4>1, PutSpan
      <4> QED  BY <3>1, <4>2
    <3>2. CASE to = first - 1 /\ shown'[s] = shown[s]
      BY <1>2, <3>2
    <3> QED  BY <1>4, <3>1, <3>2
  <2>10. ASSUME Shows(shown[s], Back(s)) PROVE Shows(shown[s], Back(s))'
    <3>1. ASSUME NEW e \in 1..Back(s)' PROVE shown'[s][log[e]] >= e
      <4>1. e \in Nat /\ e <= to /\ e \in 1..Len(log) /\ log[e] \in Rows
        BY <1>2, <2>3, <2>4, <2>8
      <4>2. CASE e >= first  BY <1>2, <2>3, <2>9, <4>1, <4>2
      <4>3. CASE e < first
        <5>1. e \in 1..Back(s)
          BY <1>2, <2>2, <4>1, <4>3
        <5>2. shown[s][log[e]] >= e /\ shown[s][log[e]] \in Nat
          BY <2>8, <2>10, <4>1, <5>1, SyncBoundAssumption DEF Shows
        <5> QED  BY <1>2, <2>3, <2>9, <4>1, <4>3, <5>2
      <4> QED  BY <1>2, <4>1, <4>2, <4>3
    <3> QED  BY <1>1, <3>1 DEF Shows
  <2>11. ASSUME NEW e \in 1..Back(s)',
                \A d \in 1..Back(s) : (d > drained /\ d > PollOf(s).from) \/ shown[s][log[d]] >= d
         PROVE  (e > drained /\ e > PollOf(s).from) \/ shown'[s][log[e]] >= e
    <3>1. e \in Nat /\ e <= to /\ e \in 1..Len(log) /\ log[e] \in Rows
      BY <1>2, <2>3, <2>4, <2>8
    <3>2. CASE e >= first  BY <1>2, <2>3, <2>9, <3>1, <3>2
    <3>3. CASE e < first
      <4>1. e \in 1..Back(s)
        BY <1>2, <2>2, <3>1, <3>3
      <4>2. \/ e > drained /\ e > PollOf(s).from
            \/ shown[s][log[e]] >= e /\ shown[s][log[e]] \in Nat
        BY <2>8, <2>11, <3>1, <4>1, SyncBoundAssumption
      <4> QED  BY <1>2, <2>3, <2>9, <3>1, <3>3, <4>2
    <3> QED  BY <1>2, <3>1, <3>2, <3>3
  <2>12. Showing(s)'
    <3> SUFFICES ASSUME s \notin waived, Answers(s) PROVE Showing(s)'
      BY <1>1 DEF Showing, Answers
    <3>1. /\ state[s] = "ready" => Shows(shown[s], Back(s))
          /\ PollOf(s).pc \in {"health", "mark", "collect"} =>
               \A d \in 1..Back(s) : (d > drained /\ d > PollOf(s).from) \/ shown[s][log[d]] >= d
          /\ PollOf(s).pc \in {"drain", "verify"} /\ PollOf(s).seen = Nothing =>
               Shows(shown[s], Back(s))
          /\ PollOf(s).pc = "final" => Shows(shown[s], Back(s))
      BY <1>7, <1>11 DEF Followed, Showing
    <3> QED  BY <1>1, <1>8, <2>1, <2>5, <2>10, <2>11, <3>1 DEF Showing
  <2> QED  BY <1>9, <2>6, <2>7, <2>12 DEF Followed
<1> QED  BY <1>1, <1>5, <1>6, <1>10, <1>11, OthersStay

(* What was not delivered is queued, right behind the last event s was due. *)
LEMMA FanMarkFollows ==
    ASSUME TypeInv, TypeInv', EventsFollowed, NEW s \in Ssps, FanMark(s)
    PROVE  EventsFollowed'
<1> USE DEF schedVars, sspVars, histVars
<1> DEFINE events == Span(fan.to[s].next, fan.last)
           lags == state[s] = "ready"
           fresh == [pc |-> "start", gen |-> gen[s], batch |-> <<>>]
<1>1. /\ fan.to[s].st = "failed" /\ fan' = [fan EXCEPT !.to[s] = NoCopy]
      /\ state' = [state EXCEPT ![s] = IF lags THEN "lagging" ELSE @]
      /\ UNCHANGED <<log, snap, drained, inPool, gen, poll, proc, shown, waived, strayed>>
  BY DEF FanMark
<1>2. /\ fan.to[s].next \in 1..fan.last /\ fan.last \in Nat /\ fan.last <= Len(log)
      /\ Len(log) \in Nat /\ Len(log) <= MaxSeq /\ MaxSeq \in Nat
      /\ fan.to[s].next \in Nat /\ fan.to[s] # NoCopy
  BY <1>1, FanOfType DEF NoCopy
<1>3. /\ state'[s] = IF lags THEN "lagging" ELSE state[s]
      /\ fan'.last = fan.last /\ fan'.to[s] = NoCopy
      /\ \A q \in Ssps : q # s => state'[q] = state[q] /\ fan'.to[q] = fan.to[q]
  BY <1>1 DEF TypeInv, PoolType, FanType
<1>4. IF state'[s] \in Queues
      THEN /\ buf' = [buf EXCEPT ![s] = Buffered(s, events).buf]
           /\ overflowed' = IF Buffered(s, events).over THEN overflowed \cup {s} ELSE overflowed
      ELSE UNCHANGED <<buf, overflowed>>
  BY DEF FanMark
<1>5. IF lags THEN \E i \in Slots : redelivery[s][i] = NoTask /\ SetTask(s, i, fresh)
      ELSE UNCHANGED redelivery
  BY DEF FanMark, SetTask
<1>6. /\ events \in Seq(Events) /\ Len(events) = fan.last + 1 - fan.to[s].next
      /\ Run(events, fan.last)
  <2>1. /\ fan.to[s].next >= 1 /\ fan.to[s].next <= fan.last + 1 /\ fan.last <= MaxSeq
    BY <1>2
  <2> QED  BY <1>2, <2>1, SpanProperties, RunSpan
<1>7. \A q \in Ssps : q # s => /\ buf'[q] = buf[q] /\ (q \in overflowed' <=> q \in overflowed)
                               /\ redelivery'[q] = redelivery[q]
  <2>1. \A q \in Ssps : q # s => buf'[q] = buf[q] /\ (q \in overflowed' <=> q \in overflowed)
    BY <1>4 DEF TypeInv, BufType
  <2>2. \A q \in Ssps : q # s => redelivery'[q] = redelivery[q]
    <3>1. CASE UNCHANGED redelivery  BY <3>1
    <3>2. CASE \E i \in Slots : SetTask(s, i, fresh)  BY <3>2, SetTaskAt
    <3> QED  BY <1>5, <3>1, <3>2
  <2> QED  BY <2>1, <2>2
<1>8. \A q \in Ssps : q # s => Stays(q)
  BY <1>1, <1>3, <1>7 DEF Stays, Rests, Unstrayed
<1>9. Extends
  BY <1>1 DEF Extends, TypeInv, SchedType
<1>10. Followed(s)
  BY DEF EventsFollowed
<1>11. overflowed \subseteq overflowed' /\ "lagging" \in Queues
  BY <1>4 DEF Queues
<1>12. (Tracked(s)' => Tracked(s)) /\ (Unstrayed(s)' <=> Unstrayed(s)) /\ PollOf(s)' = PollOf(s)
  BY <1>1, <1>11 DEF Tracked, Unstrayed, PollOf
<1>13. Phase(s)'
  <2>1. state'[s] # "ready"
    BY <1>3
  <2>2. s \in inPool /\ lags => /\ PollOf(s).pc \notin {"health", "mark", "collect", "replay",
                                                       "drain", "verify", "final", "last"}
                                /\ proc[s] # "loading"
    BY <1>10 DEF Followed, Phase
  <2> QED  BY <1>1, <1>3, <1>10, <1>12, <2>1, <2>2 DEF Followed, Phase
<1>14. Past(s)'
  <2>1. CASE UNCHANGED redelivery
    BY <1>1, <1>10, <2>1, PastKept DEF Followed
  <2>2. ASSUME NEW i \in Slots, SetTask(s, i, fresh) PROVE Past(s)'
    <3>1. fresh.gen <= gen[s]
      BY SyncBoundAssumption DEF TypeInv, PoolType
    <3> HIDE DEF fresh
    <3> QED  BY <1>1, <1>10, <2>2, <3>1, PastTask DEF Followed
  <2> QED  BY <1>5, <2>1, <2>2
<1>15. OneTask(s)'
  <2>1. CASE ~lags
    BY <1>1, <1>3, <1>5, <1>10, <1>12, <2>1, OneTaskKept DEF Followed
  <2>2. CASE lags
    <3> SUFFICES ASSUME s \in inPool, Unstrayed(s) PROVE OneTask(s)'
      BY <1>1, <1>12 DEF OneTask
    <3>1. PICK i \in Slots : SetTask(s, i, fresh)
      BY <1>5, <2>2
    <3>2. \A j \in Slots : ~Mine(s, j)
      BY <1>10, <2>2 DEF Followed, OneTask
    <3>3. \A j \in Slots : redelivery'[s][j] = IF j = i THEN fresh ELSE redelivery[s][j]
      BY <3>1, SetTaskAt
    <3>4. \A j \in Slots : Mine(s, j)' => j = i
      BY <1>1, <3>2, <3>3 DEF Mine
    <3> QED  BY <1>3, <2>2, <3>4 DEF OneTask
  <2> QED  BY <2>1, <2>2
<1>16. ASSUME ~Tracked(s)' PROVE Followed(s)'
  BY <1>13, <1>14, <1>15, <1>16 DEF Followed, Order, Replays, Showing
<1>17. ASSUME Tracked(s)' PROVE Followed(s)'
  <2>1. /\ buf[s] = <<>> /\ state[s] # "lagging" /\ PollOf(s).pc # "last"
        /\ \A i \in Slots : ~Posting(s, i)
    BY <1>2, <1>10, <1>12, <1>17 DEF Followed, Order, Queued, Hand
  <2>2. Back(s) = fan.to[s].next - 1
    BY <1>2, <2>1 DEF Back, Due
  <2>3. state'[s] \in Queues
    <3>1. s \in inPool /\ state[s] # "none" /\ state[s] \in Queues \cup {"none", "ready"}
      BY <1>10, <1>12, <1>17 DEF Followed, Phase, Tracked, TypeInv, PoolType
    <3> QED  BY <1>3, <1>11, <3>1
  <2>4. buf' = [buf EXCEPT ![s] = Buffered(s, events).buf] /\ ~Buffered(s, events).over
    BY <1>4, <1>17, <2>3 DEF Tracked
  <2> HIDE DEF events
  <2>5. buf'[s] = events
    <3>1. Buffered(s, events).buf = buf[s] \o events
      BY <1>6, <2>4, BufferedProperties DEF TypeInv, BufType
    <3>2. buf[s] \o events = events
      BY <1>6, <2>1, ConcatEmptySeq
    <3> QED  BY <2>4, <3>1, <3>2 DEF TypeInv, BufType
  <2>6. Due(s)' = fan.last /\ Back(s)' = Back(s)
    <3>1. Due(s)' = fan.last
      BY <1>3 DEF Due
    <3>2. Back(s)' = fan.last - (fan.last + 1 - fan.to[s].next)
      BY <1>6, <2>5, <3>1 DEF Back
    <3> QED  BY <1>2, <2>2, <3>1, <3>2
  <2>7. \A i \in Slots : ~Posting(s, i)'
    <3>1. CASE ~lags
      BY <1>1, <1>5, <2>1, <3>1 DEF Posting, Mine
    <3>2. CASE lags
      <4>1. PICK i \in Slots : SetTask(s, i, fresh)
        BY <1>5, <3>2
      <4>2. \A j \in Slots : redelivery'[s][j] = IF j = i THEN fresh ELSE redelivery[s][j]
        BY <4>1, SetTaskAt
      <4>3. fresh.pc # "post"
        OBVIOUS
      <4> HIDE DEF fresh
      <4> QED  BY <1>1, <2>1, <4>2, <4>3 DEF Posting, Mine
    <3> QED  BY <3>1, <3>2
  <2>8. Order(s)'
    <3>1. Run(buf[s], Due(s))'
      BY <1>6, <2>5, <2>6 DEF Run
    <3>2. Queued(s)'
      BY <1>3, <3>1 DEF Queued
    <3> QED  BY <1>12, <2>1, <2>7, <3>2 DEF Order
  <2>9. Replays(s)'
    BY <1>1, <1>2, <1>3, <1>10, <1>12, <1>17, <2>6 DEF Followed, Replays, Accounted
  <2>10. Showing(s)'
    <3> SUFFICES ASSUME s \notin waived, Answers(s) PROVE Showing(s)'
      BY <1>1 DEF Showing, Answers
    <3>1. /\ lags => Shows(shown[s], Back(s))
          /\ PollOf(s).pc \in {"health", "mark", "collect"} =>
               \A d \in 1..Back(s) : (d > drained /\ d > PollOf(s).from) \/ shown[s][log[d]] >= d
          /\ PollOf(s).pc \in {"drain", "verify"} /\ PollOf(s).seen = Nothing =>
               Shows(shown[s], Back(s))
          /\ PollOf(s).pc = "final" => Shows(shown[s], Back(s))
      BY <1>10, <1>12, <1>17 DEF Followed, Showing
    <3>2. Shows(shown[s], Back(s)) => Shows(shown[s], Back(s))'
      BY <1>1, <2>6 DEF Shows
    <3>3. state'[s] # "ready" /\ (state'[s] = "lagging" => lags)
      BY <1>3, <2>1
    <3> QED  BY <1>1, <1>12, <2>1, <2>6, <2>7, <3>1, <3>2, <3>3 DEF Showing
  <2> QED  BY <1>13, <1>14, <1>15, <2>8, <2>9, <2>10 DEF Followed
<1> QED  BY <1>1, <1>8, <1>9, <1>16, <1>17, OthersStay

-----------------------------------------------------------------------------
(* Redelivery. *)

(* The task takes the whole buffer, or finds it empty and s is live again. *)
LEMMA RedeliverTakeFollows ==
    ASSUME TypeInv, TypeInv', EventsFollowed, NEW s \in Ssps, NEW i \in Slots, RedeliverTake(s, i)
    PROVE  EventsFollowed'
<1> USE DEF schedVars, memberVars, sspVars
<1> DEFINE task == redelivery[s][i]
           taken == [task EXCEPT !.pc = "post", !.batch = buf[s]]
           goes == s \in inPool /\ state[s] = "lagging" /\ s \notin overflowed
<1>1. /\ task.pc = "start"
      /\ UNCHANGED <<log, snap, drained, fan, poll, proc, shown, waived>>
  BY DEF RedeliverTake
<1>2. \/ /\ SetTask(s, i, NoTask) /\ UNCHANGED <<inPool, state, overflowed, gen, buf, strayed>>
      \/ /\ goes /\ Stray(s, task.gen, "redelivery") /\ buf' = [buf EXCEPT ![s] = <<>>]
         /\ \/ buf[s] = <<>> /\ MarkReady(s) /\ SetTask(s, i, NoTask)
            \/ /\ buf[s] # <<>> /\ SetTask(s, i, taken)
               /\ UNCHANGED <<inPool, state, overflowed, gen>>
  BY DEF RedeliverTake
<1>3. /\ UNCHANGED <<inPool, gen>>
      /\ \A q \in Ssps : q # s => /\ state'[q] = state[q] /\ buf'[q] = buf[q]
                                  /\ q \in overflowed' <=> q \in overflowed
                                  /\ redelivery'[q] = redelivery[q]
                                  /\ Unstrayed(q)' => Unstrayed(q)
      /\ Unstrayed(s)' => Unstrayed(s)
  <2>1. UNCHANGED <<inPool, gen>>
    BY <1>2 DEF MarkReady
  <2>2. \A q \in Ssps : q # s => /\ state'[q] = state[q] /\ buf'[q] = buf[q]
                                 /\ q \in overflowed' <=> q \in overflowed
    BY <1>2 DEF MarkReady, TypeInv, PoolType, BufType
  <2>3. \A q \in Ssps : q # s => redelivery'[q] = redelivery[q]
    <3> HIDE DEF taken
    <3> QED  BY <1>2, SetTaskAt
  <2>4. \A q \in Ssps : Unstrayed(q)' => Unstrayed(q)
    BY <1>2, StrayOthers DEF Unstrayed
  <2> QED  BY <2>1, <2>2, <2>3, <2>4
<1>4. \A q \in Ssps : q # s => Stays(q)
  BY <1>1, <1>3 DEF Stays, Rests
<1>5. Extends
  BY <1>1 DEF Extends, TypeInv, SchedType
<1>6. Followed(s)
  BY DEF EventsFollowed
<1>7. task \in TaskRecord /\ buf[s] \in Seq(Events) /\ task.gen \in Nat /\ gen[s] \in Nat
  <2>1. task \in TaskRecord
    BY TaskOfType
  <2>2. buf[s] \in Seq(Events) /\ gen[s] \in Nat /\ MaxGen \in Nat
    BY SyncBoundAssumption DEF TypeInv, BufType, PoolType
  <2> HIDE DEF task
  <2>3. task.gen \in Nat
    BY <2>1, <2>2 DEF TaskRecord
  <2> QED  BY <2>1, <2>2, <2>3
<1>8. taken.pc = "post" /\ taken.batch = buf[s] /\ taken.gen = task.gen
  BY <1>7 DEF TaskRecord
<1>9. NoTask.pc = "none" /\ NoTask.gen = 0
  BY DEF NoTask
<1> HIDE DEF taken
<1>10. Past(s)'
  <2>1. task.gen <= gen[s]
    BY <1>6 DEF Followed, Past
  <2>2. SetTask(s, i, NoTask) \/ SetTask(s, i, taken)
    BY <1>2
  <2>3. Past(s) /\ gen'[s] = gen[s] /\ poll'[s] = poll[s]
    BY <1>1, <1>3, <1>6 DEF Followed
  <2> QED  BY <1>7, <1>8, <1>9, <2>1, <2>2, <2>3, PastTask
<1>11. PollOf(s)' = PollOf(s)
  BY <1>1, <1>3 DEF PollOf
<1>12. ASSUME SetTask(s, i, NoTask), UNCHANGED <<inPool, state, overflowed, gen, buf, strayed>>
       PROVE  Followed(s)'
  <2>1. \A j \in Slots : redelivery'[s][j] = IF j = i THEN NoTask ELSE redelivery[s][j]
    BY <1>12, SetTaskAt
  <2>2. \A j \in Slots : Mine(s, j)' => Mine(s, j)
    BY <1>9, <1>12, <2>1 DEF Mine
  <2>3. \A j \in Slots : /\ Posting(s, j)' <=> Posting(s, j)
                         /\ Posting(s, j) => redelivery'[s][j] = redelivery[s][j]
    BY <1>1, <1>9, <1>12, <2>1 DEF Posting, Mine
  <2>4. Due(s)' = Due(s) /\ Back(s)' = Back(s)
    BY <1>1, <1>12 DEF Due, Back
  <2>5. (Tracked(s)' => Tracked(s)) /\ (Unstrayed(s)' => Unstrayed(s))
    BY <1>12 DEF Tracked, Unstrayed
  <2>6. Phase(s)'
    BY <1>1, <1>6, <1>11, <1>12 DEF Followed, Phase
  <2>7. OneTask(s)'
    BY <1>6, <1>12, <2>2, <2>5 DEF Followed, OneTask
  <2>8. Order(s)'
    <3> SUFFICES ASSUME Tracked(s)' PROVE Order(s)'
      BY DEF Order
    <3>1. Queued(s)'
      BY <1>1, <1>6, <1>12, <2>4, <2>5 DEF Followed, Order, Queued, Run
    <3>2. PollOf(s)'.pc = "last" => Hand(s, PollOf(s).todo)'
      BY <1>1, <1>6, <1>11, <2>4, <2>5 DEF Followed, Order, Hand, Run
    <3>3. \A j \in Slots : Posting(s, j)' => Hand(s, redelivery[s][j].batch)'
      BY <1>1, <1>6, <2>3, <2>4, <2>5 DEF Followed, Order, Hand, Run
    <3> QED  BY <3>1, <3>2, <3>3 DEF Order
  <2>9. Replays(s)'
    BY <1>1, <1>6, <1>11, <1>12, <2>5, ReplaysKept DEF Followed
  <2>10. Showing(s)'
    BY <1>1, <1>6, <1>11, <1>12, <2>3, <2>4, <2>5 DEF Followed, Showing, Shows, Answers
  <2> QED  BY <1>10, <2>6, <2>7, <2>8, <2>9, <2>10 DEF Followed
<1>13. ASSUME goes, Stray(s, task.gen, "redelivery"), buf' = [buf EXCEPT ![s] = <<>>],
              \/ buf[s] = <<>> /\ MarkReady(s) /\ SetTask(s, i, NoTask)
              \/ /\ buf[s] # <<>> /\ SetTask(s, i, taken)
                 /\ UNCHANGED <<inPool, state, overflowed, gen>>
       PROVE  Followed(s)'
  <2>1. /\ buf'[s] = <<>> /\ s \notin overflowed'
        /\ IF buf[s] = <<>> THEN state'[s] = "ready" ELSE state'[s] = "lagging"
    BY <1>13 DEF MarkReady, TypeInv, PoolType, BufType
  <2>2. /\ PollOf(s).pc \notin {"health", "mark", "collect", "replay", "drain", "verify",
                                "final", "last"}
        /\ proc[s] # "loading" /\ gen[s] >= 1
    BY <1>6, <1>13 DEF Followed, Phase
  <2>3. Phase(s)'
    BY <1>1, <1>3, <1>11, <2>1, <2>2 DEF Phase
  <2>4. ASSUME ~Unstrayed(s)' PROVE Followed(s)'
    BY <1>10, <2>3, <2>4 DEF Followed, Tracked, OneTask, Order, Replays, Showing
  <2>5. ASSUME Unstrayed(s)' PROVE Followed(s)'
    <3>1. task.gen = gen[s] /\ Tracked(s)
      BY <1>3, <1>13, <2>5, StrayOthers DEF Tracked
    <3>2. \A j \in Slots : Mine(s, j) => j = i
      BY <1>1, <1>6, <3>1 DEF Followed, OneTask, Tracked, Mine
    <3>3. \A j \in Slots : ~Posting(s, j)
      BY <1>1, <3>2 DEF Posting
    <3>4. Queued(s) /\ fan.to[s] = NoCopy
      BY <1>6, <1>13, <3>1 DEF Followed, Order, Queued
    <3>5. s \notin waived /\ Answers(s) => Shows(shown[s], Back(s))
      BY <1>6, <1>13, <3>1, <3>3 DEF Followed, Showing
    <3>6. /\ Due(s)' = Due(s) /\ Due(s) \in Nat /\ Back(s)' = Due(s)
          /\ Len(buf[s]) \in Nat /\ Back(s) = Due(s) - Len(buf[s])
      <4>1. Due(s)' = Due(s) /\ Due(s) \in Nat /\ Len(buf[s]) \in Nat /\ Back(s) = Due(s) - Len(buf[s])
        BY <1>1, DueBounds DEF Due, Back
      <4>2. Back(s)' = Due(s) - 0
        BY <2>1, <4>1 DEF Back
      <4> QED  BY <4>1, <4>2
    <3>7. Queued(s)'
      BY <1>1, <2>1, <3>4, <3>6 DEF Queued, Run
    <3>8. CASE buf[s] = <<>>
      <4>1. \A j \in Slots : redelivery'[s][j] = IF j = i THEN NoTask ELSE redelivery[s][j]
        BY <1>13, <3>8, SetTaskAt
      <4>2. \A j \in Slots : ~Mine(s, j)' /\ ~Posting(s, j)'
        BY <1>3, <1>9, <3>2, <4>1 DEF Mine, Posting
      <4>3. OneTask(s)'
        BY <4>2 DEF OneTask
      <4>4. Order(s)' /\ Replays(s)'
        BY <1>11, <2>2, <3>7, <4>2 DEF Order, Replays
      <4>5. Back(s)' = Back(s)
        BY <3>6, <3>8
      <4>6. s \notin waived' /\ Answers(s)' => Shows(shown[s], Back(s))'
        BY <1>1, <3>5, <4>5 DEF Shows, Answers
      <4>7. Showing(s)'
        BY <1>11, <2>2, <4>2, <4>6 DEF Showing
      <4> QED  BY <1>10, <2>3, <4>3, <4>4, <4>7 DEF Followed
    <3>9. CASE buf[s] # <<>>
      <4>1. \A j \in Slots : redelivery'[s][j] = IF j = i THEN taken ELSE redelivery[s][j]
        BY <1>13, <3>9, SetTaskAt
      <4>2. state'[s] = "lagging" /\ redelivery'[s][i].batch = buf[s]
        BY <1>8, <2>1, <3>9, <4>1
      <4>3. \A j \in Slots : Mine(s, j)' => j = i
        BY <1>3, <3>2, <4>1 DEF Mine
      <4>4. \A j \in Slots : Posting(s, j)' <=> j = i
        BY <1>3, <1>8, <3>1, <4>1, <4>3 DEF Mine, Posting
      <4>5. OneTask(s)'
        BY <4>2, <4>3 DEF OneTask
      <4>6. Hand(s, redelivery[s][i].batch)'
        BY <1>1, <3>4, <3>6, <4>2 DEF Queued, Hand, Run
      <4>7. Order(s)'
        BY <1>11, <2>2, <3>7, <4>4, <4>6 DEF Order
      <4>8. Replays(s)'
        BY <1>11, <2>2 DEF Replays
      <4>9. s \notin waived' /\ Answers(s)' =>
              Shows(shown[s], Back(s) - Len(redelivery[s][i].batch))'
        BY <1>1, <3>5, <3>6, <4>2 DEF Shows, Answers
      <4>10. Showing(s)'
        BY <1>11, <2>2, <4>2, <4>4, <4>9 DEF Showing
      <4> QED  BY <1>10, <2>3, <4>5, <4>7, <4>8, <4>10 DEF Followed
    <3> QED  BY <3>8, <3>9
  <2> QED  BY <2>4, <2>5
<1>14. Followed(s)'
  BY <1>2, <1>12, <1>13
<1> QED  BY <1>1, <1>4, <1>5, <1>14, OthersStay

(* One post: the next event is the first that s does not show; a failed one puts the rest back
   where it was taken from. *)
LEMMA RedeliverPostFollows ==
    ASSUME TypeInv, TypeInv', EventsFollowed, NEW s \in Ssps, NEW i \in Slots, RedeliverPost(s, i)
    PROVE  EventsFollowed'
<1> USE DEF schedVars, memberVars
<1> DEFINE task == redelivery[s][i]
           e == Head(task.batch)
           rest == Tail(task.batch)
           posted == [task EXCEPT !.batch = rest, !.pc = IF rest = <<>> THEN "start" ELSE "post"]
           back == [task EXCEPT !.batch = <<>>, !.pc = "start"]
<1>1. /\ task.pc = "post" /\ Stray(s, task.gen, "redelivery")
      /\ UNCHANGED <<log, snap, drained, inPool, state, overflowed, gen, fan, poll, proc, waived>>
  BY DEF RedeliverPost
<1>2. \/ SetTask(s, i, posted) /\ UNCHANGED buf /\ shown' = [shown EXCEPT ![s] = Put(@, e)]
      \/ /\ SetTask(s, i, back) /\ buf' = [buf EXCEPT ![s] = task.batch \o @]
         /\ UNCHANGED shown \/ shown' = [shown EXCEPT ![s] = Put(@, e)]
  BY DEF RedeliverPost
<1>3. /\ task \in TaskRecord /\ task.batch # <<>> /\ task.batch \in Seq(Events)
      /\ rest \in Seq(Events) /\ task.gen \in Nat /\ gen[s] \in Nat
  BY <1>1, TaskOfType, SyncBoundAssumption DEF TaskRecord, TypeInv, PoolType
<1>4. \A batch \in Seq(Events), pc \in {"start", "post"} :
        /\ [task EXCEPT !.batch = batch, !.pc = pc].pc = pc
        /\ [task EXCEPT !.batch = batch, !.pc = pc].batch = batch
        /\ [task EXCEPT !.batch = batch, !.pc = pc].gen = task.gen
  <2> HIDE DEF task
  <2> QED  BY <1>3 DEF TaskRecord
<1>5. /\ posted.pc = (IF rest = <<>> THEN "start" ELSE "post")
      /\ posted.batch = rest /\ posted.gen = task.gen
      /\ back.pc = "start" /\ back.batch = <<>> /\ back.gen = task.gen
  <2>1. (IF rest = <<>> THEN "start" ELSE "post") \in {"start", "post"}
    OBVIOUS
  <2> HIDE DEF task, rest
  <2> QED  BY <1>3, <1>4, <2>1, NoEvents
<1> HIDE DEF posted, back
<1>6. \A q \in Ssps : q # s => /\ buf'[q] = buf[q] /\ shown'[q] = shown[q]
                               /\ redelivery'[q] = redelivery[q]
  <2>1. \A q \in Ssps : q # s => buf'[q] = buf[q] /\ shown'[q] = shown[q]
    <3>1. \E b, rs : /\ UNCHANGED buf \/ buf' = [buf EXCEPT ![s] = b]
                     /\ UNCHANGED shown \/ shown' = [shown EXCEPT ![s] = rs]
      BY <1>2
    <3> QED  BY <3>1 DEF TypeInv, BufType, SspType
  <2>2. \A q \in Ssps : q # s => redelivery'[q] = redelivery[q]
    BY <1>2, SetTaskAt
  <2> QED  BY <2>1, <2>2
<1>7. \A q \in Ssps : q # s => Stays(q)
  BY <1>1, <1>6, StrayOthers DEF Stays, Rests
<1>8. Extends
  BY <1>1 DEF Extends, TypeInv, SchedType
<1>9. Followed(s)
  BY DEF EventsFollowed
<1>10. PollOf(s)' = PollOf(s) /\ Phase(s)'
  BY <1>1, <1>9 DEF PollOf, Followed, Phase
<1>11. Past(s)'
  <2>1. task.gen <= gen[s] /\ Past(s)
    BY <1>9 DEF Followed, Past
  <2>2. SetTask(s, i, posted) \/ SetTask(s, i, back)
    BY <1>2
  <2> QED  BY <1>1, <1>5, <2>1, <2>2, PastTask
<1>12. \E new \in {posted, back} : \A j \in Slots :
         redelivery'[s][j] = IF j = i THEN new ELSE redelivery[s][j]
  <2>1. ASSUME NEW new \in {posted, back}, SetTask(s, i, new)
        PROVE  \A j \in Slots : redelivery'[s][j] = IF j = i THEN new ELSE redelivery[s][j]
    BY <2>1, SetTaskAt
  <2>2. \E new \in {posted, back} : SetTask(s, i, new)
    BY <1>2
  <2> QED  BY <2>1, <2>2
<1>13. \A j \in Slots : Mine(s, j)' <=> Mine(s, j)
  <2>1. posted.pc # "none" /\ back.pc # "none" /\ task.pc # "none"
    BY <1>1, <1>5
  <2> QED  BY <1>1, <1>5, <1>12, <2>1 DEF Mine
<1>14. OneTask(s)'
  <2>1. Unstrayed(s)' => Unstrayed(s)
    BY <1>1, StrayOthers
  <2> QED  BY <1>1, <1>9, <1>13, <2>1 DEF Followed, OneTask
<1>15. ASSUME ~Tracked(s)' PROVE Followed(s)'
  BY <1>10, <1>11, <1>14, <1>15 DEF Followed, Order, Replays, Showing
<1>16. ASSUME Tracked(s)' PROVE Followed(s)'
  <2>1. Tracked(s) /\ task.gen = gen[s] /\ Posting(s, i) /\ Mine(s, i)
    BY <1>1, <1>16, StrayOthers DEF Tracked, Posting, Mine
  <2>2. state[s] = "lagging" /\ \A j \in Slots : Mine(s, j) => j = i
    BY <1>9, <2>1 DEF Followed, OneTask, Tracked
  <2>3. PollOf(s).pc \notin {"health", "mark", "collect", "replay", "drain", "verify", "final", "last"}
    BY <1>9, <2>1, <2>2 DEF Followed, Phase, Tracked
  <2>4. Queued(s) /\ Hand(s, task.batch) /\ fan.to[s] = NoCopy
    BY <1>9, <2>1, <2>2 DEF Followed, Order, Queued
  <2>5. /\ Due(s)' = Due(s) /\ Due(s) \in Nat /\ Back(s) = Due(s) - Len(buf[s])
        /\ Len(buf[s]) \in Nat /\ buf[s] \in Seq(Events) /\ Back(s) <= Len(log)
    BY <1>1, DueBounds DEF Due, Back
  <2>6. Len(buf[s]) <= Due(s) /\ Back(s) \in Nat
    BY <2>4, <2>5 DEF Queued, Run
  <2>7. /\ Len(rest) = Len(task.batch) - 1 /\ Run(rest, Back(s))
        /\ e = Back(s) - Len(task.batch) + 1 /\ e \in 1..Back(s) /\ Len(task.batch) \in 1..Back(s)
    BY <1>3, <2>4, <2>6, RunTail DEF Hand
  <2>8. s \notin waived /\ Answers(s) => Shows(shown[s], Back(s) - Len(task.batch))
    BY <1>9, <2>1 DEF Followed, Showing
  <2>9. Replays(s)'
    BY <1>10, <2>3 DEF Replays
  <2> HIDE DEF e, rest
  <2>n. /\ Len(task.batch) \in Nat /\ e \in Int /\ Back(s) - Len(task.batch) \in Int
        /\ e = (Back(s) - Len(task.batch)) + 1 /\ e = Back(s) - Len(rest)
    <3>1. PICK n \in Nat : n = Len(task.batch)
      BY <1>3
    <3>2. PICK b \in Nat : b = Back(s)
      BY <2>6
    <3>3. Len(rest) = n - 1 /\ e = b - n + 1
      BY <2>7, <3>1, <3>2
    <3>4. e = (b - n) + 1 /\ e = b - (n - 1) /\ e \in Int /\ b - n \in Int
      BY <3>3
    <3> QED  BY <3>1, <3>2, <3>3, <3>4
  <2>10. s \notin waived /\ Answers(s) => Shows(Put(shown[s], e), e)
    <3>1. e - 1 = Back(s) - Len(task.batch) /\ e \in 1..Len(log)
      <4>1. Len(log) \in Nat
        BY DueBounds
      <4> QED  BY <2>5, <2>6, <2>7, <4>1
    <3>2. shown[s] \in [Rows -> 0..MaxSeq]
      BY DEF TypeInv, SspType
    <3> QED  BY <2>8, <3>1, <3>2, PutShows
  <2>11. ASSUME SetTask(s, i, posted), UNCHANGED buf, shown' = [shown EXCEPT ![s] = Put(@, e)]
         PROVE  Followed(s)'
    <3>1. \A j \in Slots : redelivery'[s][j] = IF j = i THEN posted ELSE redelivery[s][j]
      BY <2>11, SetTaskAt
    <3>2. Back(s)' = Back(s) /\ shown'[s] = Put(shown[s], e)
      BY <2>5, <2>11 DEF Back, TypeInv, SspType
    <3>3. \A j \in Slots : Posting(s, j)' <=> j = i /\ rest # <<>>
      BY <1>5, <1>13, <2>1, <2>2, <3>1 DEF Posting
    <3>4. redelivery'[s][i].batch = rest
      BY <1>5, <3>1
    <3>5. Order(s)'
      <4>1. Queued(s)'
        BY <1>1, <2>4, <2>5, <2>11 DEF Queued, Run
      <4>2. Hand(s, redelivery[s][i].batch)'
        BY <1>1, <2>4, <2>7, <3>2, <3>4 DEF Hand, Run
      <4> QED  BY <1>10, <2>3, <3>3, <4>1, <4>2 DEF Order
    <3>6. s \notin waived' /\ Answers(s)' => Shows(shown'[s], e)
      BY <1>1, <2>10, <3>2 DEF Answers
    <3>7. e = Back(s) - Len(rest)
      BY <2>n
    <3>8. rest = <<>> => e = Back(s)
      BY <2>6, <3>7
    <3>9. Showing(s)'
      <4> SUFFICES ASSUME s \notin waived', Answers(s)' PROVE Showing(s)'
        BY DEF Showing
      <4>1. Shows(shown[s], Back(s) - Len(redelivery[s][i].batch))'
        BY <1>1, <3>2, <3>4, <3>6, <3>7 DEF Shows
      <4>2. rest = <<>> => Shows(shown[s], Back(s))'
        BY <1>1, <3>2, <3>6, <3>8 DEF Shows
      <4> QED  BY <1>1, <1>10, <2>2, <2>3, <3>3, <4>1, <4>2 DEF Showing
    <3> QED  BY <1>10, <1>11, <1>14, <2>9, <3>5, <3>9 DEF Followed
  <2>12. ASSUME SetTask(s, i, back), buf' = [buf EXCEPT ![s] = task.batch \o @],
                UNCHANGED shown \/ shown' = [shown EXCEPT ![s] = Put(@, e)]
         PROVE  Followed(s)'
    <3>1. \A j \in Slots : redelivery'[s][j] = IF j = i THEN back ELSE redelivery[s][j]
      BY <2>12, SetTaskAt
    <3>2. \A j \in Slots : ~Posting(s, j)'
      BY <1>5, <1>13, <2>2, <3>1 DEF Posting
    <3>3. buf'[s] = task.batch \o buf[s]
      BY <2>12 DEF TypeInv, BufType
    <3>4. Run(buf[s], Due(s)) /\ Run(task.batch, Due(s) - Len(buf[s]))
      BY <2>4, <2>5 DEF Queued, Hand
    <3>5. Len(buf'[s]) = Len(task.batch) + Len(buf[s]) /\ Run(buf'[s], Due(s))
      BY <1>3, <2>5, <3>3, <3>4, RunConcat
    <3>6. Back(s)' = Back(s) - Len(task.batch)
      <4>1. Back(s)' = Due(s) - (Len(task.batch) + Len(buf[s]))
        BY <2>5, <3>5 DEF Back
      <4>2. PICK d \in Nat : d = Due(s)
        BY <2>5
      <4>3. PICK m \in Nat : m = Len(buf[s])
        BY <2>5
      <4>4. PICK n \in Nat : n = Len(task.batch)
        BY <2>n
      <4>5. Back(s)' = d - (n + m) /\ Back(s) = d - m
        BY <2>5, <4>1, <4>2, <4>3, <4>4
      <4> HIDE DEF task
      <4>6. d - (n + m) = (d - m) - n
        OBVIOUS
      <4> QED  BY <4>4, <4>5, <4>6
    <3>7. Order(s)'
      <4>1. Run(buf[s], Due(s))'
        BY <2>5, <3>5 DEF Run
      <4>2. Queued(s)'
        BY <1>1, <2>2, <2>4, <4>1 DEF Queued
      <4> QED  BY <1>10, <2>3, <3>2, <4>2 DEF Order
    <3>8. s \notin waived /\ Answers(s) => Shows(shown'[s], Back(s) - Len(task.batch))
      <4>1. CASE UNCHANGED shown  BY <2>8, <4>1
      <4>2. CASE shown' = [shown EXCEPT ![s] = Put(@, e)]
        <5>1. shown'[s] = Put(shown[s], e)
          BY <4>2 DEF TypeInv, SspType
        <5>2. Back(s) - Len(task.batch) \in Int /\ e \in Int /\ Back(s) - Len(task.batch) <= e
          BY <2>n
        <5> QED  BY <2>10, <5>1, <5>2, ShowsFewer
      <4> QED  BY <2>12, <4>1, <4>2
    <3>9. Showing(s)'
      <4> SUFFICES ASSUME s \notin waived', Answers(s)' PROVE Showing(s)'
        BY DEF Showing
      <4>1. Shows(shown[s], Back(s))'
        BY <1>1, <3>6, <3>8 DEF Shows, Answers
      <4> QED  BY <1>1, <1>10, <2>2, <2>3, <3>2, <4>1 DEF Showing
    <3> QED  BY <1>10, <1>11, <1>14, <2>9, <3>7, <3>9 DEF Followed
  <2> QED  BY <1>2, <2>11, <2>12 DEF e
<1>17. Followed(s)'
  BY <1>15, <1>16
<1> QED  BY <1>1, <1>7, <1>8, <1>17, OthersStay

-----------------------------------------------------------------------------
(* The poll task: registrations that are over, and the end of the current one's. *)

LEMMA OverFollows ==
    ASSUME TypeInv, TypeInv', EventsFollowed, NEW s \in Ssps, NEW g \in Gens, NEW task,
           SetPoll(s, g, task), poll[s][g].pc # "none",
           task.pc \in {"health", "mark", "collect"} => task.seen = Nothing,
           Extends, UNCHANGED drained, \A q \in Ssps : Rests(q),
           \/ g # gen[s]
           \/ /\ task.pc \in Ended
              /\ s \in inPool /\ proc[s] = "loading" => task.pc \in {"none", "failed"}
    PROVE  EventsFollowed'
<1>1. /\ \A h \in Gens : poll'[s][h] = IF h = g THEN task ELSE poll[s][h]
      /\ \A q \in Ssps : q # s => poll'[q] = poll[q]
  BY SetPollAt
<1>2. \A q \in Ssps : q # s => Stays(q)
  BY <1>1 DEF Stays
<1>3. Past(s)' /\ g <= gen[s]
  BY PastPoll DEF EventsFollowed, Followed, Rests
<1>4. gen[s] \in Gens /\ gen'[s] = gen[s]
  BY <1>3, SyncBoundAssumption DEF TypeInv, PoolType, Gens, Rests
<1>5. PollOf(s)' = IF gen[s] = g THEN task ELSE PollOf(s)
  BY <1>1, <1>4 DEF PollOf
<1>6. Followed(s)'
  BY <1>3, <1>5, RestsFollowed DEF EventsFollowed
<1> QED  BY <1>2, <1>6, OthersStay

LEMMA GotoEnded ==
    ASSUME NEW p
    PROVE  [NoPoll EXCEPT !.pc = p].pc = p /\ [NoPoll EXCEPT !.pc = p].seen = Nothing
  BY DEF NoPoll

LEMMA PollHealthFollows ==
    ASSUME TypeInv, TypeInv', EventsFollowed, NEW s \in Ssps, NEW g \in Gens, PollHealth(s, g)
    PROVE  EventsFollowed'
<1> USE DEF schedVars, memberVars, sspVars, histVars, others
<1> DEFINE failed == [NoPoll EXCEPT !.pc = "failed"]
           mark == [poll[s][g] EXCEPT !.pc = "mark"]
<1>1. /\ poll[s][g].pc = "health"
      /\ UNCHANGED <<log, snap, drained, inPool, state, overflowed, gen, buf, fan, redelivery,
                     proc, shown, waived, strayed>>
      /\ SetPoll(s, g, failed) \/ (Answers(s) /\ SetPoll(s, g, mark))
  BY DEF PollHealth, Goto
<1>2. Extends /\ \A q \in Ssps : Rests(q)
  BY <1>1 DEF Extends, TypeInv, SchedType, Rests, Unstrayed
<1>3. failed.pc = "failed"
  BY GotoEnded
<1>4. /\ mark.pc = "mark" /\ mark.seen = poll[s][g].seen /\ mark.from = poll[s][g].from
      /\ poll[s][g].seen = Nothing
  <2>1. mark.pc = "mark" /\ mark.seen = poll[s][g].seen /\ mark.from = poll[s][g].from
    BY PollOfType DEF PollRecord
  <2> QED  BY <1>1, <2>1 DEF EventsFollowed, Followed, Past
<1> HIDE DEF failed, mark
<1>5. CASE SetPoll(s, g, failed)
  BY <1>1, <1>2, <1>3, <1>5, OverFollows DEF Ended
<1>6. CASE SetPoll(s, g, mark) /\ g # gen[s]
  BY <1>1, <1>2, <1>4, <1>6, OverFollows
<1>7. CASE SetPoll(s, g, mark) /\ g = gen[s] /\ Answers(s)
  <2>1. /\ \A h \in Gens : poll'[s][h] = IF h = g THEN mark ELSE poll[s][h]
        /\ \A q \in Ssps : q # s => poll'[q] = poll[q]
    BY <1>7, SetPollAt
  <2>2. \A q \in Ssps : q # s => Stays(q)
    BY <1>2, <2>1 DEF Stays
  <2>3. PollOf(s)' = mark /\ PollOf(s) = poll[s][g]
    BY <1>1, <1>7, <2>1 DEF PollOf
  <2>4. Followed(s)
    BY DEF EventsFollowed
  <2>5. (Tracked(s)' => Tracked(s)) /\ (Unstrayed(s)' => Unstrayed(s))
    BY <1>1 DEF Tracked, Unstrayed
  <2>6. Phase(s)'
    BY <1>1, <1>4, <1>7, <2>3, <2>4 DEF Followed, Phase, Answers
  <2>7. Past(s)'
    BY <1>1, <1>4, <1>7, <2>4, PastPoll DEF Followed
  <2>8. OneTask(s)'
    BY <1>1, <2>4, <2>5, OneTaskKept DEF Followed
  <2>9. Order(s)'
    BY <1>1, <1>4, <2>3, <2>4, <2>5, OrderKept DEF Followed
  <2>10. Replays(s)'
    BY <1>4, <2>3 DEF Replays
  <2>11. \A i \in Slots : Posting(s, i)' <=> Posting(s, i)
    BY <1>1 DEF Posting, Mine
  <2>12. Due(s)' = Due(s) /\ Back(s)' = Back(s)
    BY <1>1 DEF Due, Back
  <2>13. Showing(s)'
    BY <1>1, <1>4, <2>3, <2>4, <2>5, <2>11, <2>12 DEF Followed, Showing, Shows, Answers
  <2>14. Followed(s)'
    BY <2>6, <2>7, <2>8, <2>9, <2>10, <2>13 DEF Followed
  <2> QED  BY <1>1, <1>2, <2>2, <2>14, OthersStay
<1> QED  BY <1>1, <1>5, <1>6, <1>7

LEMMA PollMarkFollows ==
    ASSUME TypeInv, TypeInv', EventsFollowed, NEW s \in Ssps, NEW g \in Gens, PollMark(s, g)
    PROVE  EventsFollowed'
<1> USE DEF schedVars, sspVars, histVars, others
<1> DEFINE failed == [NoPoll EXCEPT !.pc = "failed"]
           collect == [poll[s][g] EXCEPT !.pc = "collect"]
<1>1. /\ poll[s][g].pc = "mark"
      /\ UNCHANGED <<log, snap, drained, inPool, overflowed, gen, buf, fan, redelivery,
                     proc, shown, waived, strayed>>
      /\ \/ SetPoll(s, g, failed) /\ UNCHANGED state
         \/ g = gen[s] /\ SetPoll(s, g, collect) /\ state' = [state EXCEPT ![s] = "replaying"]
  BY DEF PollMark, Goto, Superseded
<1>2. Extends
  BY <1>1 DEF Extends, TypeInv, SchedType
<1>3. failed.pc = "failed"
  BY GotoEnded
<1>4. /\ collect.pc = "collect" /\ collect.seen = poll[s][g].seen
      /\ collect.from = poll[s][g].from /\ poll[s][g].seen = Nothing
  <2>1. /\ collect.pc = "collect" /\ collect.seen = poll[s][g].seen
        /\ collect.from = poll[s][g].from
    BY PollOfType DEF PollRecord
  <2> QED  BY <1>1, <2>1 DEF EventsFollowed, Followed, Past
<1> HIDE DEF failed, collect
<1>5. CASE SetPoll(s, g, failed) /\ UNCHANGED state
  <2>1. \A q \in Ssps : Rests(q)
    BY <1>1, <1>5 DEF Rests, Unstrayed
  <2> QED  BY <1>1, <1>2, <1>3, <1>5, <2>1, OverFollows DEF Ended
<1>6. CASE g = gen[s] /\ SetPoll(s, g, collect) /\ state' = [state EXCEPT ![s] = "replaying"]
  <2>1. /\ \A h \in Gens : poll'[s][h] = IF h = g THEN collect ELSE poll[s][h]
        /\ \A q \in Ssps : q # s => poll'[q] = poll[q] /\ state'[q] = state[q]
        /\ state'[s] = "replaying"
    BY <1>6, SetPollAt DEF TypeInv, PoolType
  <2>2. \A q \in Ssps : q # s => Stays(q)
    BY <1>1, <2>1 DEF Stays, Rests, Unstrayed
  <2>3. PollOf(s)' = collect /\ PollOf(s) = poll[s][g]
    BY <1>1, <1>6, <2>1 DEF PollOf
  <2>4. Followed(s)
    BY DEF EventsFollowed
  <2>5. (Tracked(s)' => Tracked(s)) /\ (Unstrayed(s)' => Unstrayed(s))
    BY <1>1 DEF Tracked, Unstrayed
  <2>6. s \in inPool => state[s] = "bootstrapping" /\ proc[s] # "loading"
    BY <1>1, <2>3, <2>4 DEF Followed, Phase
  <2>7. Phase(s)'
    BY <1>1, <1>4, <2>1, <2>3, <2>4, <2>6 DEF Followed, Phase
  <2>8. Past(s)'
    BY <1>1, <1>4, <1>6, <2>4, PastPoll DEF Followed
  <2>9. \A i \in Slots : (Mine(s, i)' <=> Mine(s, i)) /\ (Posting(s, i)' <=> Posting(s, i))
    BY <1>1 DEF Posting, Mine
  <2>10. s \in inPool /\ Unstrayed(s) => \A i \in Slots : ~Mine(s, i)
    BY <2>4, <2>6 DEF Followed, OneTask
  <2>11. OneTask(s)'
    BY <1>1, <2>5, <2>9, <2>10 DEF OneTask
  <2>12. Order(s)'
    BY <1>1, <1>4, <2>1, <2>3, <2>4, <2>5, OrderKept DEF Followed
  <2>13. Replays(s)'
    BY <1>4, <2>3 DEF Replays
  <2>14. Due(s)' = Due(s) /\ Back(s)' = Back(s)
    BY <1>1 DEF Due, Back
  <2>15. Showing(s)'
    BY <1>1, <1>4, <2>1, <2>3, <2>4, <2>5, <2>9, <2>14 DEF Followed, Showing, Shows, Answers
  <2>16. Followed(s)'
    BY <2>7, <2>8, <2>11, <2>12, <2>13, <2>15 DEF Followed
  <2> QED  BY <1>1, <1>2, <2>2, <2>16, OthersStay
<1> QED  BY <1>1, <1>5, <1>6

(* Replay of a batch: the new task.  Past the catch-up check it records no seen rows. *)
LEMMA ReplayBatch ==
    ASSUME TypeInv, NEW s \in Ssps, NEW g \in Gens, NEW events \in Seq(Events),
           NEW done \in PollPhases, Replay(s, g, events, "replay", done)
    PROVE  \E task \in PollRecord :
             /\ SetPoll(s, g, task)
             /\ task.todo = events /\ ~task.rejected
             /\ task.pc = IF events = <<>> THEN done ELSE "replay"
             /\ task.seen = PutAll(poll[s][g].seen, events)
<1> DEFINE seen == PutAll(poll[s][g].seen, events)
           pc == IF events = <<>> THEN done ELSE "replay"
           no == FALSE
           task == Updated(poll[s][g], pc, 0, events, seen, no)
<1>1. poll[s][g] \in PollRecord /\ poll[s][g].seen \in [Rows -> 0..MaxSeq]
  BY PollOfType DEF PollRecord
<1>2. seen \in [Rows -> 0..MaxSeq]
  BY <1>1, PutAllProperties
<1>3. pc \in PollPhases
  BY DEF PollPhases
<1>4. SetPoll(s, g, task)
  BY DEF Replay, Updated
<1>5. 0 \in 0..MaxSeq /\ no \in BOOLEAN
  BY SyncBoundAssumption
<1> HIDE DEF seen, pc, no
<1>6. /\ task \in PollRecord /\ task.todo = events /\ task.rejected = no
      /\ task.pc = pc /\ task.seen = seen
  BY <1>1, <1>2, <1>3, <1>5 DEF PollRecord, Updated
<1> HIDE DEF task
<1> QED  BY <1>4, <1>6 DEF seen, pc, no

LEMMA ReplayLast ==
    ASSUME TypeInv, NEW s \in Ssps, NEW g \in Gens, NEW events \in Seq(Events),
           NEW done \in PollPhases, Replay(s, g, events, "last", done)
    PROVE  \E task \in PollRecord :
             /\ SetPoll(s, g, task)
             /\ task.todo = events /\ ~task.rejected
             /\ task.pc = IF events = <<>> THEN done ELSE "last"
             /\ task.seen = poll[s][g].seen
<1> DEFINE seen == poll[s][g].seen
           pc == IF events = <<>> THEN done ELSE "last"
           no == FALSE
           task == Updated(poll[s][g], pc, 0, events, seen, no)
<1>1. poll[s][g] \in PollRecord /\ poll[s][g].seen \in [Rows -> 0..MaxSeq]
  BY PollOfType DEF PollRecord
<1>2. seen \in [Rows -> 0..MaxSeq]
  BY <1>1, PutAllProperties
<1>3. pc \in PollPhases
  BY DEF PollPhases
<1>4. SetPoll(s, g, task)
  BY DEF Replay, Updated
<1>5. 0 \in 0..MaxSeq /\ no \in BOOLEAN
  BY SyncBoundAssumption
<1> HIDE DEF seen, pc, no
<1>6. /\ task \in PollRecord /\ task.todo = events /\ task.rejected = no
      /\ task.pc = pc /\ task.seen = seen
  BY <1>1, <1>2, <1>3, <1>5 DEF PollRecord, Updated
<1> HIDE DEF task
<1> QED  BY <1>4, <1>6 DEF seen, pc, no

LEMMA PutNone ==
    ASSUME NEW rs \in [Rows -> 0..MaxSeq]
    PROVE  PutAll(rs, <<>>) = rs
<1>1. DOMAIN <<>> = {}
  OBVIOUS
<1> QED  BY <1>1 DEF PutAll

(* The events the task collects, and the snapshot under them, account for everything. *)
LEMMA PollCollectFollows ==
    ASSUME TypeInv, TypeInv', EventsFollowed, Grounded, NEW s \in Ssps, NEW g \in Gens,
           PollCollect(s, g)
    PROVE  EventsFollowed'
<1> USE DEF schedVars, memberVars, sspVars, histVars, others
<1> DEFINE m == After(s, g)
           events == Span(m + 1, Len(log))
<1>1. /\ poll[s][g].pc = "collect"
      /\ UNCHANGED <<log, snap, drained, inPool, state, overflowed, gen, buf, fan, redelivery,
                     proc, shown, waived, strayed>>
      /\ Replay(s, g, events, "replay", "drain")
  BY DEF PollCollect, After
<1>2. Extends /\ \A q \in Ssps : Rests(q)
  BY <1>1 DEF Extends, TypeInv, SchedType, Rests, Unstrayed
<1>3. /\ m \in Nat /\ m <= Len(log) /\ events \in Seq(Events) /\ Len(events) = Len(log) - m
      /\ m = drained \/ m = poll[s][g].from
      /\ drained <= m /\ poll[s][g].from <= m
      /\ drained \in Nat /\ poll[s][g].from \in Nat /\ snap \in Nat /\ Len(log) \in Nat
  <2>1. /\ m \in Nat /\ m <= Len(log) /\ events \in Seq(Events) /\ Len(events) = Len(log) - m
        /\ m = drained \/ m = poll[s][g].from
        /\ drained <= m /\ poll[s][g].from <= m
    BY CollectedEvents
  <2>2. /\ drained \in Nat /\ poll[s][g].from \in Nat /\ snap \in Nat /\ Len(log) \in Nat
    BY PollOfType DEF TypeInv, SchedType
  <2> QED  BY <2>1, <2>2
<1>4. poll[s][g].seen = Nothing
  BY <1>1 DEF EventsFollowed, Followed, Past
<1>5. PICK task \in PollRecord :
        /\ SetPoll(s, g, task) /\ task.pc = IF events = <<>> THEN "drain" ELSE "replay"
        /\ task.seen = PutAll(Nothing, events)
  <2> HIDE DEF events
  <2>1. "drain" \in PollPhases
    BY DEF PollPhases
  <2>2. \E task \in PollRecord :
          /\ SetPoll(s, g, task)
          /\ task.todo = events /\ ~task.rejected
          /\ task.pc = IF events = <<>> THEN "drain" ELSE "replay"
          /\ task.seen = PutAll(poll[s][g].seen, events)
    BY <1>1, <1>3, <2>1, ReplayBatch
  <2> QED  BY <1>4, <2>2
<1>6. CASE g # gen[s]
  <2> HIDE DEF events
  <2> QED  BY <1>1, <1>2, <1>5, <1>6, OverFollows
<1>7. CASE g = gen[s]
  <2>1. /\ \A h \in Gens : poll'[s][h] = IF h = g THEN task ELSE poll[s][h]
        /\ \A q \in Ssps : q # s => poll'[q] = poll[q]
    BY <1>5, SetPollAt
  <2>2. \A q \in Ssps : q # s => Stays(q)
    BY <1>2, <2>1 DEF Stays
  <2>3. PollOf(s)' = task /\ PollOf(s) = poll[s][g] /\ task.pc \in {"drain", "replay"}
    BY <1>1, <1>5, <1>7, <2>1 DEF PollOf
  <2>4. Followed(s)
    BY DEF EventsFollowed
  <2>5. (Tracked(s)' => Tracked(s)) /\ (Unstrayed(s)' => Unstrayed(s))
    BY <1>1 DEF Tracked, Unstrayed
  <2>6. s \in inPool => state[s] = "replaying" /\ proc[s] # "loading"
    BY <1>1, <2>3, <2>4 DEF Followed, Phase
  <2>7. Phase(s)'
    BY <1>1, <2>3, <2>4, <2>6 DEF Followed, Phase
  <2>8. Past(s)'
    BY <1>1, <1>5, <2>3, <2>4, PastPoll DEF Followed
  <2>9. OneTask(s)'
    BY <1>1, <2>4, <2>5, OneTaskKept DEF Followed
  <2>10. Order(s)'
    BY <1>1, <2>3, <2>4, <2>5, OrderKept DEF Followed
  <2>11. Due(s)' = Due(s) /\ Back(s)' = Back(s) /\ Back(s) \in Int /\ Back(s) <= Len(log)
    BY <1>1, DueBounds DEF Due, Back
  <2>12. /\ \A e \in (m + 1)..Len(log) : task.seen[log[e]] >= e
         /\ \A r \in Rows : task.seen[r] = 0 \/ task.seen[r] \in (m + 1)..Len(log)
    <3>1. /\ m + 1 \in Nat /\ m + 1 >= 1 /\ m + 1 <= Len(log) + 1
          /\ Nothing \in [Rows -> 0..MaxSeq] /\ \A r \in Rows : Nothing[r] = 0
      BY <1>3, SyncBoundAssumption DEF Nothing
    <3> HIDE DEF m
    <3>2. /\ \A e \in (m + 1)..Len(log) : PutAll(Nothing, Span(m + 1, Len(log)))[log[e]] >= e
          /\ \A r \in Rows : \/ PutAll(Nothing, Span(m + 1, Len(log)))[r] = Nothing[r]
                             \/ PutAll(Nothing, Span(m + 1, Len(log)))[r] \in (m + 1)..Len(log)
      <4>1. Len(log) <= Len(log)
        BY <1>3
      <4> QED  BY <1>3, <3>1, <4>1, PutSpan
    <3> QED  BY <1>5, <3>1, <3>2
  <2> HIDE DEF m, events
  <2>13. ASSUME Tracked(s), s \notin waived, NEW e \in 1..Len(log) PROVE Accounted(task, e)
    <3>0. m <= snap
      <4>1. s \in inPool /\ state[s] \in Active
        BY <2>6, <2>13 DEF Tracked, Active
      <4> QED  BY <1>1, <1>3, <2>3, <2>13, <4>1 DEF Grounded, Held, Based
    <3>1. log[e] \in Rows
      BY DEF TypeInv, SchedType
    <3>2. CASE e > m
      BY <1>3, <2>12, <3>2 DEF Accounted
    <3>3. CASE e <= m
      BY <1>3, <2>12, <3>0, <3>1, <3>3 DEF Accounted
    <3> QED  BY <1>3, <3>2, <3>3
  <2>14. task.pc = "replay" => task.seen # Nothing
    <3> SUFFICES ASSUME events # <<>> PROVE task.seen # Nothing
      BY <1>5
    <3>1. Len(events) # 0
      BY <1>3, EmptySeq
    <3>2. m + 1 \in (m + 1)..Len(log) /\ m + 1 \in 1..Len(log)
      BY <1>3, <3>1
    <3>3. task.seen[log[m + 1]] >= m + 1 /\ log[m + 1] \in Rows
      BY <2>12, <3>2 DEF TypeInv, SchedType
    <3>4. task.seen = Nothing => task.seen[log[m + 1]] = 0
      BY <3>3 DEF Nothing
    <3> QED  BY <1>3, <3>3, <3>4
  <2>15. Replays(s)'
    <3> SUFFICES ASSUME Tracked(s), s \notin waived PROVE Replays(s)'
      BY <1>1, <2>5 DEF Replays
    <3>1. \A e \in 1..fan.last : e \in 1..Len(log)
      BY DueBounds
    <3>2. \A e \in 1..fan.last : Accounted(task, e)
      BY <2>13, <3>1
    <3>3. \A e \in 1..fan'.last : Accounted(PollOf(s), e)'
      BY <1>1, <2>3, <3>2 DEF Accounted
    <3> QED  BY <2>3, <2>14, <3>3 DEF Replays
  <2>16. \A i \in Slots : Posting(s, i)' <=> Posting(s, i)
    BY <1>1 DEF Posting, Mine
  <2>17. Showing(s)'
    <3> SUFFICES ASSUME Tracked(s), s \notin waived, Answers(s) PROVE Showing(s)'
      BY <1>1, <2>5 DEF Showing, Answers
    <3>1. task.pc = "drain" => Shows(shown[s], Back(s))'
      <4> SUFFICES ASSUME events = <<>>, NEW e \in 1..Back(s) PROVE shown[s][log[e]] >= e
        BY <1>1, <1>5, <2>11 DEF Shows
      <4>1. m = Len(log)
        BY <1>3
      <4>2. e <= drained \/ e <= poll[s][g].from
        BY <1>3, <2>11, <4>1
      <4>3. (e > drained /\ e > PollOf(s).from) \/ shown[s][log[e]] >= e
        BY <1>1, <2>3, <2>4 DEF Followed, Showing
      <4> QED  BY <1>3, <2>3, <4>2, <4>3
    <3>2. state'[s] = "replaying"
      BY <1>1, <2>6 DEF Tracked
    <3>3. \A i \in Slots : ~Posting(s, i)'
      BY <2>4, <2>6, <2>16 DEF Followed, OneTask, Tracked, Posting
    <3> QED  BY <1>1, <2>3, <3>1, <3>2, <3>3 DEF Showing
  <2>18. Followed(s)'
    BY <2>7, <2>8, <2>9, <2>10, <2>15, <2>17 DEF Followed
  <2> QED  BY <1>1, <1>2, <2>2, <2>18, OthersStay
<1> QED  BY <1>6, <1>7

LEMMA RunIsSpan ==
    ASSUME NEW q \in Seq(Events), NEW b \in Nat, b <= MaxSeq, Run(q, b)
    PROVE  /\ q = Span(b - Len(q) + 1, b)
           /\ b - Len(q) + 1 \in Nat /\ b - Len(q) + 1 >= 1 /\ b - Len(q) + 1 <= b + 1
<1> DEFINE a == b - Len(q) + 1
<1>1. Len(q) \in Nat /\ Len(q) <= b /\ \A i \in 1..Len(q) : q[i] = b - Len(q) + i
  BY DEF Run
<1>2. a \in Nat /\ a >= 1 /\ a <= b + 1 /\ b + 1 - a = Len(q)
  BY <1>1
<1>3. /\ Span(a, b) \in Seq(Events) /\ Len(Span(a, b)) = b + 1 - a
      /\ \A i \in 1..(b + 1 - a) : Span(a, b)[i] = a + i - 1
  BY <1>2, SpanProperties
<1>4. Len(Span(a, b)) = Len(q) /\ \A i \in 1..Len(q) : Span(a, b)[i] = q[i]
  <2>1. \A i \in 1..Len(q) : a + i - 1 = b - Len(q) + i
    BY <1>1
  <2> HIDE DEF a
  <2> QED  BY <1>1, <1>2, <1>3, <2>1
<1>5. Span(a, b) = q
  <2> HIDE DEF a
  <2> QED  BY <1>3, <1>4, SeqEqual
<1> QED  BY <1>2, <1>5

(* A task of an earlier registration interfered. *)
LEMMA StrayedFollows ==
    ASSUME TypeInv, NEW s \in Ssps, NEW g \in Gens, NEW task, Followed(s), SetPoll(s, g, task),
           g # gen[s], poll[s][g].pc # "none", task.pc \notin {"health", "mark", "collect"},
           ~Unstrayed(s)', s \in inPool' <=> s \in inPool, s \in overflowed' <=> s \in overflowed,
           state'[s] = state[s], gen'[s] = gen[s], redelivery'[s] = redelivery[s],
           proc'[s] = proc[s]
    PROVE  Followed(s)'
<1>1. \A h \in Gens : poll'[s][h] = IF h = g THEN task ELSE poll[s][h]
  BY SetPollAt
<1>2. Past(s)' /\ g <= gen[s]
  BY PastPoll DEF Followed
<1>3. gen[s] \in Gens
  BY <1>2, SyncBoundAssumption DEF TypeInv, PoolType, Gens
<1>4. PollOf(s)' = PollOf(s)
  BY <1>1, <1>3 DEF PollOf
<1>5. Phase(s)'
  BY <1>4 DEF Followed, Phase
<1>6. ~Tracked(s)'
  BY DEF Tracked
<1> QED  BY <1>2, <1>5, <1>6 DEF Followed, OneTask, Order, Replays, Showing

(* The buffered events, replayed, take over what the buffer accounted for. *)
LEMMA PollDrainFollows ==
    ASSUME TypeInv, TypeInv', EventsFollowed, NEW s \in Ssps, NEW g \in Gens, PollDrain(s, g)
    PROVE  EventsFollowed'
<1> USE DEF schedVars, memberVars, sspVars, histVars, others
<1>1. /\ poll[s][g].pc = "drain"
      /\ UNCHANGED <<log, snap, drained, inPool, state, overflowed, gen, fan, redelivery,
                     proc, shown, waived>>
      /\ Replay(s, g, buf[s], "replay", "verify")
      /\ buf' = [buf EXCEPT ![s] = <<>>]
      /\ IF buf[s] = <<>> THEN UNCHANGED strayed ELSE Stray(s, g, "poll")
  BY DEF PollDrain
<1>2. buf'[s] = <<>> /\ \A q \in Ssps : q # s => buf'[q] = buf[q]
  BY <1>1 DEF TypeInv, BufType
<1>3. /\ \A q \in Ssps : Unstrayed(q)' => Unstrayed(q)
      /\ buf[s] # <<>> /\ Unstrayed(s)' => g = gen[s]
  <2>1. CASE buf[s] = <<>>  BY <1>1, <2>1 DEF Unstrayed
  <2>2. CASE buf[s] # <<>>
    BY <1>1, <2>2, StrayOthers
  <2> QED  BY <2>1, <2>2
<1>4. Extends /\ \A q \in Ssps : q # s \/ buf[s] = <<>> => Rests(q)
  BY <1>1, <1>2, <1>3 DEF Extends, TypeInv, SchedType, Rests
<1>5. PICK task \in PollRecord :
        /\ SetPoll(s, g, task) /\ task.pc = IF buf[s] = <<>> THEN "verify" ELSE "replay"
        /\ task.seen = PutAll(poll[s][g].seen, buf[s])
  <2>1. "verify" \in PollPhases /\ buf[s] \in Seq(Events)
    BY DEF PollPhases, TypeInv, BufType
  <2> QED  BY <1>1, <2>1, ReplayBatch
<1>6. CASE g # gen[s] /\ buf[s] = <<>>
  <2>1. \A q \in Ssps : Rests(q)
    BY <1>4, <1>6
  <2> QED  BY <1>1, <1>4, <1>5, <1>6, <2>1, OverFollows
<1>7. /\ \A h \in Gens : poll'[s][h] = IF h = g THEN task ELSE poll[s][h]
      /\ \A q \in Ssps : q # s => poll'[q] = poll[q]
  BY <1>5, SetPollAt
<1>8. \A q \in Ssps : q # s => Stays(q)
  BY <1>4, <1>7 DEF Stays
<1>9. Followed(s)
  BY DEF EventsFollowed
<1>10. CASE g # gen[s] /\ buf[s] # <<>>
  <2>1. task.pc \notin {"health", "mark", "collect"} /\ ~Unstrayed(s)'
    BY <1>3, <1>5, <1>10
  <2>2. Followed(s)'
    BY <1>1, <1>5, <1>9, <1>10, <2>1, StrayedFollows
  <2> QED  BY <1>1, <1>4, <1>8, <2>2, OthersStay
<1>11. CASE g = gen[s]
  <2>3. PollOf(s)' = task /\ PollOf(s) = poll[s][g] /\ task.pc \in {"verify", "replay"}
    BY <1>1, <1>5, <1>7, <1>11 DEF PollOf
  <2>5. (Tracked(s)' => Tracked(s)) /\ (Unstrayed(s)' => Unstrayed(s))
    BY <1>1, <1>3 DEF Tracked
  <2>6. s \in inPool => state[s] = "replaying" /\ proc[s] # "loading"
    BY <1>1, <1>9, <2>3 DEF Followed, Phase
  <2>7. Phase(s)'
    BY <1>1, <1>9, <2>3, <2>6 DEF Followed, Phase
  <2>8. Past(s)'
    BY <1>1, <1>5, <1>9, <2>3, PastPoll DEF Followed
  <2>9. OneTask(s)'
    BY <1>1, <1>9, <2>5, OneTaskKept DEF Followed
  <2>10. s \in inPool /\ Unstrayed(s) => \A i \in Slots : ~Posting(s, i)'
    <3>1. \A i \in Slots : Posting(s, i)' <=> Posting(s, i)
      BY <1>1 DEF Posting, Mine
    <3> QED  BY <1>9, <2>6, <3>1 DEF Followed, OneTask, Posting
  <2>11. /\ Due(s)' = Due(s) /\ Due(s) \in Nat /\ Back(s) \in Int /\ Back(s) = Due(s) - Len(buf[s])
         /\ fan.last \in Nat /\ Due(s) <= fan.last /\ fan.last <= Len(log) /\ Len(log) \in Nat
         /\ fan.to[s] = NoCopy => Due(s) = fan.last
         /\ buf[s] \in Seq(Events) /\ Len(buf[s]) \in Nat /\ Due(s) <= MaxSeq /\ MaxSeq \in Nat
    BY <1>1, DueBounds DEF Due, Back
  <2>12. Back(s)' = Due(s)
    <3>1. Len(<<>>) = 0
      OBVIOUS
    <3> QED  BY <1>2, <2>11, <3>1 DEF Back
  <2>13. Order(s)'
    <3> SUFFICES ASSUME Tracked(s)' PROVE Order(s)'
      BY DEF Order
    <3>1. Queued(s)
      BY <1>9, <2>5 DEF Followed, Order
    <3>2. Run(<<>>, Due(s))
      BY <2>11, RunEmpty
    <3>3. Queued(s)'
      <4>1. Run(buf[s], Due(s))'
        BY <1>2, <2>11, <3>2 DEF Run
      <4> QED  BY <1>1, <1>2, <3>1, <4>1 DEF Queued
    <3>4. \A i \in Slots : ~Posting(s, i)'
      BY <2>5, <2>10 DEF Tracked
    <3> QED  BY <2>3, <3>3, <3>4 DEF Order
  <2>14. poll[s][g].seen \in [Rows -> 0..MaxSeq]
    BY PollOfType DEF PollRecord
  <2>15. ASSUME Tracked(s)
         PROVE  /\ \A e \in (Back(s) + 1)..Due(s) : task.seen[log[e]] >= e
                /\ \A r \in Rows : \/ task.seen[r] = poll[s][g].seen[r]
                                   \/ task.seen[r] \in (Back(s) + 1)..Due(s)
    <3>1. Run(buf[s], Due(s))
      BY <1>9, <2>15 DEF Followed, Order, Queued
    <3>2. /\ buf[s] = Span(Back(s) + 1, Due(s))
          /\ Back(s) + 1 \in Nat /\ Back(s) + 1 >= 1 /\ Back(s) + 1 <= Due(s) + 1
      BY <2>11, <3>1, RunIsSpan
    <3>3. Due(s) <= Len(log)
      BY <2>11
    <3>4. /\ \A e \in (Back(s) + 1)..Due(s) :
                PutAll(poll[s][g].seen, Span(Back(s) + 1, Due(s)))[log[e]] >= e
          /\ \A r \in Rows :
                \/ PutAll(poll[s][g].seen, Span(Back(s) + 1, Due(s)))[r] = poll[s][g].seen[r]
                \/ PutAll(poll[s][g].seen, Span(Back(s) + 1, Due(s)))[r] \in (Back(s) + 1)..Due(s)
      BY <2>11, <2>14, <3>2, <3>3, PutSpan
    <3> QED  BY <1>5, <3>2, <3>4
  <2>16. Replays(s)'
    <3> SUFFICES ASSUME Tracked(s), s \notin waived PROVE Replays(s)'
      BY <1>1, <2>5 DEF Replays
    <3>1. \A e \in 1..fan.last : e <= Back(s) \/ fan.to[s] # NoCopy => Accounted(poll[s][g], e)
      BY <1>1, <1>9, <2>3 DEF Followed, Replays
    <3>2. ASSUME NEW e \in 1..fan.last, e <= Due(s) \/ fan.to[s] # NoCopy
          PROVE  Accounted(task, e)
      <4>1. e \in 1..Len(log) /\ log[e] \in Rows
        <5>1. /\ fan.last \in Nat /\ fan.last <= Len(log) /\ Len(log) \in Nat
              /\ \A d \in 1..Len(log) : log[d] \in Rows
          BY DueBounds DEF TypeInv, SchedType
        <5>2. e \in 1..Len(log)
          BY <5>1
        <5> QED  BY <5>1, <5>2
      <4>2. CASE fan.to[s] # NoCopy
        <5>1. buf[s] = <<>>
          BY <1>9, <4>2 DEF Followed, Order, Queued
        <5>2. task.seen = poll[s][g].seen
          BY <1>5, <2>14, <5>1, PutNone
        <5> QED  BY <3>1, <4>2, <5>2 DEF Accounted
      <4>3. CASE e <= Back(s)
        <5>1. Accounted(poll[s][g], e)
          BY <3>1, <4>3
        <5>2. CASE task.seen[log[e]] = poll[s][g].seen[log[e]]
          BY <5>1, <5>2 DEF Accounted
        <5>3. CASE task.seen[log[e]] \in (Back(s) + 1)..Due(s)
          BY <2>11, <4>3, <5>3 DEF Accounted
        <5> QED  BY <2>15, <4>1, <5>2, <5>3
      <4>4. CASE e > Back(s) /\ fan.to[s] = NoCopy
        <5>1. e \in (Back(s) + 1)..Due(s)
          BY <2>11, <3>2, <4>4
        <5> QED  BY <2>15, <5>1 DEF Accounted
      <4> QED  BY <2>11, <4>2, <4>3, <4>4
    <3>3. task.pc = "replay" => task.seen # Nothing
      <4> SUFFICES ASSUME buf[s] # <<>> PROVE task.seen # Nothing
        BY <1>5
      <4>1. Len(buf[s]) # 0
        BY <2>11, EmptySeq
      <4>2. Run(buf[s], Due(s))
        BY <1>9 DEF Followed, Order, Queued
      <4>3. Due(s) \in (Back(s) + 1)..Due(s) /\ Due(s) \in 1..Len(log)
        BY <2>11, <4>1, <4>2 DEF Run
      <4>4. task.seen[log[Due(s)]] >= Due(s) /\ log[Due(s)] \in Rows
        BY <2>15, <4>3 DEF TypeInv, SchedType
      <4>5. task.seen = Nothing => task.seen[log[Due(s)]] = 0
        BY <4>4 DEF Nothing
      <4> QED  BY <2>11, <4>3, <4>4, <4>5
    <3>4. \A e \in 1..fan'.last : e <= Due(s) \/ fan'.to[s] # NoCopy => Accounted(PollOf(s), e)'
      BY <1>1, <2>3, <3>2 DEF Accounted
    <3> QED  BY <2>3, <2>12, <3>3, <3>4 DEF Replays
  <2>17. Showing(s)'
    <3> SUFFICES ASSUME Tracked(s), s \notin waived, Answers(s) PROVE Showing(s)'
      BY <1>1, <2>5 DEF Showing, Answers
    <3>1. task.pc = "verify" /\ task.seen = Nothing => Shows(shown[s], Due(s))
      <4> SUFFICES ASSUME buf[s] = <<>>, task.seen = Nothing PROVE Shows(shown[s], Due(s))
        BY <1>5
      <4>1. poll[s][g].seen = Nothing
        BY <1>5, <2>14, PutNone
      <4>2. Shows(shown[s], Back(s))
        BY <1>1, <1>9, <2>3, <4>1 DEF Followed, Showing
      <4>3. Back(s) = Due(s)
        <5>1. Len(<<>>) = 0
          OBVIOUS
        <5> QED  BY <2>11, <5>1
      <4> QED  BY <4>2, <4>3
    <3>2. state'[s] = "replaying"
      BY <1>1, <2>6 DEF Tracked
    <3>3. \A i \in Slots : ~Posting(s, i)'
      BY <2>10 DEF Tracked
    <3>4. task.pc = "verify" /\ task.seen = Nothing => Shows(shown[s], Back(s))'
      BY <1>1, <2>12, <3>1 DEF Shows
    <3> QED  BY <2>3, <3>2, <3>3, <3>4 DEF Showing
  <2>18. Followed(s)'
    BY <2>7, <2>8, <2>9, <2>13, <2>16, <2>17 DEF Followed
  <2> QED  BY <1>1, <1>4, <1>8, <2>18, OthersStay
<1> QED  BY <1>6, <1>10, <1>11

(* The task after the post of its first event e: it goes on with the others, drains, fails, or
   passes to the final drain, having posted them all; or it stays to post e again. *)
LEMMA PollPostCases ==
    ASSUME TypeInv, NEW s \in Ssps, NEW g \in Gens, PollPost(s, g)
    PROVE  LET task == poll[s][g]
               e == Head(task.todo)
               posted == shown' = [shown EXCEPT ![s] = Put(@, e)] /\ Stray(s, g, "poll")
           IN  /\ task.pc \in {"replay", "last"}
               /\ UNCHANGED <<log, snap, drained, inPool, state, overflowed, gen, buf, fan,
                              redelivery, proc, waived>>
               /\ posted \/ UNCHANGED <<shown, strayed>>
               /\ \E new :
                    /\ SetPoll(s, g, new)
                    /\ \/ new = task
                       \/ /\ new.pc = task.pc /\ new.seen = task.seen
                          /\ new.todo = Tail(task.todo) /\ new.todo # <<>>
                          /\ new.rejected \/ (posted /\ ~task.rejected)
                       \/ task.pc = "replay" /\ new.pc = "drain" /\ new.seen = task.seen
                       \/ new.pc = "failed"
                       \/ /\ task.pc = "last" /\ new.pc = "final" /\ ~task.rejected
                          /\ Tail(task.todo) = <<>> /\ posted
<1> USE DEF schedVars, others
<1> DEFINE task == poll[s][g]
           e == Head(task.todo)
           posted == shown' = [shown EXCEPT ![s] = Put(@, e)] /\ Stray(s, g, "poll")
           next == [task EXCEPT !.todo = Tail(@)]
           yes == TRUE
           skipped == [next EXCEPT !.rejected = yes]
<1>1. /\ task.pc \in {"replay", "last"}
      /\ UNCHANGED <<log, snap, drained, inPool, state, overflowed, gen, buf, fan,
                     redelivery, proc, waived>>
      /\ posted \/ UNCHANGED <<shown, strayed>>
  BY DEF PollPost
<1>2. \/ AfterReplay(s, g, next) /\ posted
      \/ AfterReplay(s, g, skipped)
      \/ Goto(s, g, "failed")
      \/ UNCHANGED poll
  BY DEF PollPost
<1>3. task \in PollRecord /\ task.todo # <<>> /\ task.todo \in Seq(Events)
  BY <1>1, PollOfType DEF PollRecord
<1>4. Tail(task.todo) \in Seq(Events) /\ yes \in BOOLEAN /\ yes
  BY <1>3
<1> HIDE DEF posted, yes
<1>5. /\ next \in PollRecord /\ next.pc = task.pc /\ next.todo = Tail(task.todo)
      /\ next.seen = task.seen /\ next.rejected = task.rejected
  <2> HIDE DEF task
  <2> QED  BY <1>3, <1>4 DEF PollRecord
<1>6. /\ skipped \in PollRecord /\ skipped.pc = task.pc /\ skipped.todo = Tail(task.todo)
      /\ skipped.seen = task.seen /\ skipped.rejected = yes
  <2> HIDE DEF task, next
  <2> QED  BY <1>4, <1>5 DEF PollRecord
<1> DEFINE Step(new) ==
             \/ new = task
             \/ /\ new.pc = task.pc /\ new.seen = task.seen
                /\ new.todo = Tail(task.todo) /\ new.todo # <<>>
                /\ new.rejected \/ (posted /\ ~task.rejected)
             \/ task.pc = "replay" /\ new.pc = "drain" /\ new.seen = task.seen
             \/ new.pc = "failed"
             \/ /\ task.pc = "last" /\ new.pc = "final" /\ ~task.rejected
                /\ Tail(task.todo) = <<>> /\ posted
<1>7. PICK new : SetPoll(s, g, new) /\ new = poll'[s][g]
  <2>1. \E new : SetPoll(s, g, new)
    <3>1. CASE AfterReplay(s, g, next)  BY <3>1 DEF AfterReplay, Goto
    <3>2. CASE AfterReplay(s, g, skipped)  BY <3>2 DEF AfterReplay, Goto
    <3>3. CASE Goto(s, g, "failed")  BY <3>3 DEF Goto
    <3>4. CASE UNCHANGED poll
      <4>1. SetPoll(s, g, task)
        BY <3>4 DEF SetPoll, TypeInv, PollType
      <4> QED  BY <4>1
    <3> QED  BY <1>2, <3>1, <3>2, <3>3, <3>4
  <2> QED  BY <2>1, SetPollAt
<1>8. Step(new)
  <2>1. task.from <= Len(log) /\ UNCHANGED log /\ next.from = task.from /\ skipped.from = task.from
    <3>1. task.from <= Len(log) /\ UNCHANGED log
      BY <1>1, PollOfType
    <3>2. next.from = task.from
      <4> HIDE DEF task
      <4> QED  BY <1>3 DEF PollRecord
    <3>3. skipped.from = next.from
      <4> HIDE DEF next, task
      <4> QED  BY <1>5 DEF PollRecord
    <3> QED  BY <3>1, <3>2, <3>3
  <2> HIDE DEF next, skipped, task
  <2>2. [NoPoll EXCEPT !.pc = "failed"].pc = "failed" /\ [NoPoll EXCEPT !.pc = "final"].pc = "final"
    BY GotoEnded
  <2>3. CASE AfterReplay(s, g, next) /\ posted
    <3>1. \/ next.todo # <<>> /\ poll'[s][g] = next
          \/ /\ next.todo = <<>> /\ next.pc = "replay"
             /\ poll'[s][g].pc = "drain" /\ poll'[s][g].seen = next.seen
          \/ poll'[s][g] = [NoPoll EXCEPT !.pc = "failed"]
          \/ /\ next.todo = <<>> /\ next.pc = "last" /\ ~next.rejected
             /\ poll'[s][g] = [NoPoll EXCEPT !.pc = "final"]
      <4>1. /\ next \in PollRecord /\ next.pc \in {"replay", "last"} /\ next.from <= Len(log)
            /\ UNCHANGED log
        BY <1>1, <1>5, <2>1
      <4>2. AfterReplay(s, g, next)
        BY <2>3
      <4> QED  BY <4>1, <4>2, AfterReplayType
    <3> QED  BY <1>5, <1>7, <2>2, <2>3, <3>1
  <2>4. CASE AfterReplay(s, g, skipped)
    <3>1. \/ skipped.todo # <<>> /\ poll'[s][g] = skipped
          \/ /\ skipped.todo = <<>> /\ skipped.pc = "replay"
             /\ poll'[s][g].pc = "drain" /\ poll'[s][g].seen = skipped.seen
          \/ poll'[s][g] = [NoPoll EXCEPT !.pc = "failed"]
          \/ /\ skipped.todo = <<>> /\ skipped.pc = "last" /\ ~skipped.rejected
             /\ poll'[s][g] = [NoPoll EXCEPT !.pc = "final"]
      <4>1. /\ skipped \in PollRecord /\ skipped.pc \in {"replay", "last"} /\ skipped.from <= Len(log)
            /\ UNCHANGED log
        BY <1>1, <1>6, <2>1
      <4>2. AfterReplay(s, g, skipped)
        BY <2>4
      <4> QED  BY <4>1, <4>2, AfterReplayType
    <3> QED  BY <1>4, <1>6, <1>7, <2>2, <3>1
  <2>5. CASE Goto(s, g, "failed")
    <3>1. poll'[s][g] = [NoPoll EXCEPT !.pc = "failed"]
      BY <2>5, SetPollAt DEF Goto
    <3> QED  BY <1>7, <2>2, <3>1
  <2>6. CASE UNCHANGED poll
    BY <1>7, <2>6 DEF task
  <2> QED  BY <1>2, <2>3, <2>4, <2>5, <2>6
<1> QED  BY <1>1, <1>7, <1>8 DEF posted

(* A post of the task: past the catch-up check each event posted is one more that s shows. *)
LEMMA PollPostFollows ==
    ASSUME TypeInv, TypeInv', EventsFollowed, NEW s \in Ssps, NEW g \in Gens, PollPost(s, g)
    PROVE  EventsFollowed'
<1> DEFINE task == poll[s][g]
           e == Head(task.todo)
           posted == shown' = [shown EXCEPT ![s] = Put(@, e)] /\ Stray(s, g, "poll")
<1>1. /\ task.pc \in {"replay", "last"}
      /\ UNCHANGED <<log, snap, drained, inPool, state, overflowed, gen, buf, fan, redelivery,
                     proc, waived>>
      /\ posted \/ UNCHANGED <<shown, strayed>>
  BY PollPostCases
<1>2. PICK new :
        /\ SetPoll(s, g, new)
        /\ \/ new = task
           \/ /\ new.pc = task.pc /\ new.seen = task.seen
              /\ new.todo = Tail(task.todo) /\ new.todo # <<>>
              /\ new.rejected \/ (posted /\ ~task.rejected)
           \/ task.pc = "replay" /\ new.pc = "drain" /\ new.seen = task.seen
           \/ new.pc = "failed"
           \/ /\ task.pc = "last" /\ new.pc = "final" /\ ~task.rejected
              /\ Tail(task.todo) = <<>> /\ posted
  BY PollPostCases
<1>3. /\ task \in PollRecord /\ task.todo \in Seq(Events) /\ task.todo # <<>>
      /\ shown[s] \in [Rows -> 0..MaxSeq]
  BY <1>1, PollOfType DEF PollRecord, TypeInv, SspType
<1>4. new.pc \in {"replay", "last", "drain", "failed", "final"}
  BY <1>1, <1>2
<1>5. /\ posted => shown'[s] = Put(shown[s], e)
      /\ \A q \in Ssps : q # s => shown'[q] = shown[q]
  <2> HIDE DEF e
  <2> QED  BY <1>1 DEF TypeInv, SspType
<1>6. /\ \A q \in Ssps : Unstrayed(q)' => Unstrayed(q)
      /\ posted /\ Unstrayed(s)' => g = gen[s]
  <2>1. CASE UNCHANGED <<shown, strayed>> /\ ~posted
    BY <2>1 DEF Unstrayed
  <2>2. CASE posted
    BY <2>2, StrayOthers
  <2> QED  BY <1>1, <2>1, <2>2
<1>7. Extends /\ \A q \in Ssps : q # s \/ ~posted => Rests(q)
  <2>1. ~posted => shown'[s] = shown[s]
    BY <1>1
  <2> HIDE DEF posted
  <2> QED  BY <1>1, <1>5, <1>6, <2>1 DEF Extends, TypeInv, SchedType, Rests
<1>8. /\ \A h \in Gens : poll'[s][h] = IF h = g THEN new ELSE poll[s][h]
      /\ \A q \in Ssps : q # s => poll'[q] = poll[q]
  BY <1>2, SetPollAt
<1>9. \A q \in Ssps : q # s => Stays(q)
  BY <1>7, <1>8 DEF Stays
<1>10. Followed(s)
  BY DEF EventsFollowed
<1> HIDE DEF posted, e
<1>11. CASE g # gen[s] /\ ~posted
  <2>1. \A q \in Ssps : Rests(q)
    BY <1>7, <1>11
  <2>2. SetPoll(s, g, new) /\ new.pc \notin {"health", "mark", "collect"} /\ poll[s][g].pc # "none"
    BY <1>1, <1>2, <1>4
  <2> QED  BY <1>1, <1>7, <1>11, <2>1, <2>2, OverFollows
<1>12. CASE g # gen[s] /\ posted
  <2>1. ~Unstrayed(s)'
    BY <1>6, <1>12
  <2>2. SetPoll(s, g, new) /\ new.pc \notin {"health", "mark", "collect"} /\ poll[s][g].pc # "none"
    BY <1>1, <1>2, <1>4
  <2>3. Followed(s)'
    BY <1>1, <1>10, <1>12, <2>1, <2>2, StrayedFollows
  <2> QED  BY <1>1, <1>7, <1>9, <2>3, OthersStay
<1>13. CASE g = gen[s]
  <2>1. PollOf(s)' = new /\ PollOf(s) = task
    BY <1>1, <1>8, <1>13 DEF PollOf
  <2>2. (Tracked(s)' => Tracked(s)) /\ (Unstrayed(s)' => Unstrayed(s))
    BY <1>1, <1>6 DEF Tracked
  <2>3. s \in inPool => state[s] = "replaying" /\ proc[s] # "loading"
    BY <1>1, <1>10, <2>1 DEF Followed, Phase
  <2>4. Phase(s)'
    BY <1>1, <1>4, <1>10, <2>1, <2>3 DEF Followed, Phase
  <2>5. Past(s)'
    <3>1. SetPoll(s, g, new) /\ new.pc \notin {"health", "mark", "collect"} /\ poll[s][g].pc # "none"
      BY <1>1, <1>2, <1>4
    <3> QED  BY <1>1, <1>10, <3>1, PastPoll DEF Followed
  <2>6. OneTask(s)'
    BY <1>1, <1>10, <2>2, OneTaskKept DEF Followed
  <2>7. s \in inPool /\ Unstrayed(s) => \A i \in Slots : ~Posting(s, i)'
    <3>1. \A i \in Slots : Posting(s, i)' <=> Posting(s, i)
      BY <1>1 DEF Posting, Mine
    <3> QED  BY <1>10, <2>3, <3>1 DEF Followed, OneTask, Posting
  <2>8. /\ Due(s)' = Due(s) /\ Back(s)' = Back(s)
        /\ Back(s) \in Int /\ Back(s) <= Len(log) /\ Len(log) \in Nat
    BY <1>1, DueBounds DEF Due, Back
  <2>9. ASSUME Tracked(s), task.pc = "last"
        PROVE  /\ Run(task.todo, Back(s)) /\ fan.to[s] = NoCopy /\ Back(s) \in Nat
               /\ Tail(task.todo) \in Seq(Events) /\ Len(Tail(task.todo)) = Len(task.todo) - 1
               /\ Run(Tail(task.todo), Back(s))
               /\ e = Back(s) - Len(task.todo) + 1 /\ e \in 1..Len(log)
               /\ Len(task.todo) \in Nat /\ Len(task.todo) >= 1
    <3>1. Run(task.todo, Back(s)) /\ fan.to[s] = NoCopy
      BY <1>10, <2>1, <2>9 DEF Followed, Order, Hand
    <3>2. Back(s) \in Nat /\ Len(task.todo) \in Nat
      BY <1>3, <2>8, <3>1 DEF Run
    <3>3. /\ Tail(task.todo) \in Seq(Events) /\ Len(Tail(task.todo)) = Len(task.todo) - 1
          /\ Run(Tail(task.todo), Back(s))
          /\ Head(task.todo) = Back(s) - Len(task.todo) + 1 /\ Head(task.todo) \in 1..Back(s)
          /\ Len(task.todo) \in 1..Back(s)
      BY <1>3, <3>1, <3>2, RunTail
    <3>4. e \in 1..Len(log)
      BY <2>8, <3>2, <3>3 DEF e
    <3> QED  BY <3>1, <3>2, <3>3, <3>4 DEF e
  <2>10. Order(s)'
    <3> SUFFICES ASSUME Tracked(s)' PROVE Order(s)'
      BY DEF Order
    <3>1. Queued(s)'
      BY <1>1, <1>10, <2>2, <2>8 DEF Followed, Order, Queued, Run
    <3>2. \A i \in Slots : ~Posting(s, i)'
      BY <2>2, <2>7 DEF Tracked
    <3>3. ASSUME new.pc = "last" PROVE Hand(s, PollOf(s).todo)'
      <4>1. task.pc = "last" /\ (new.todo = task.todo \/ new.todo = Tail(task.todo))
        BY <1>2, <3>3
      <4>2. Run(new.todo, Back(s)) /\ fan.to[s] = NoCopy
        BY <2>2, <2>9, <4>1
      <4> QED  BY <1>1, <2>1, <2>8, <4>2 DEF Hand, Run
    <3> QED  BY <2>1, <3>1, <3>2, <3>3 DEF Order
  <2>11. Replays(s)'
    <3>1. new.pc \in {"replay", "drain", "verify"} => task.pc = "replay" /\ new.seen = task.seen
      BY <1>1, <1>2
    <3> QED  BY <1>1, <1>10, <2>1, <2>2, <3>1, ReplaysKept DEF Followed
  <2>12. Showing(s)'
    <3> SUFFICES ASSUME Tracked(s), s \notin waived, Answers(s) PROVE Showing(s)'
      BY <1>1, <2>2 DEF Showing, Answers
    <3>1. state'[s] = "replaying" /\ \A i \in Slots : ~Posting(s, i)'
      BY <1>1, <2>3, <2>7 DEF Tracked
    <3>2. new.pc \in {"drain", "verify"} => new.seen # Nothing
      <4> SUFFICES ASSUME new.pc \in {"drain", "verify"} PROVE new.seen # Nothing
        OBVIOUS
      <4>1. task.pc = "replay" /\ new.seen = task.seen
        BY <1>1, <1>2
      <4> QED  BY <1>10, <2>1, <4>1 DEF Followed, Replays
    <3>3. ASSUME task.pc = "last", ~task.rejected
          PROVE  /\ Shows(shown[s], Back(s) - Len(task.todo))
                 /\ posted => Shows(shown'[s], Back(s) - Len(task.todo) + 1)
      <4>1. Shows(shown[s], Back(s) - Len(task.todo))
        BY <1>10, <2>1, <3>3 DEF Followed, Showing
      <4>2. e - 1 = Back(s) - Len(task.todo) /\ e = Back(s) - Len(task.todo) + 1
        BY <2>8, <2>9, <3>3
      <4>3. Shows(Put(shown[s], e), e)
        <5>1. Shows(shown[s], e - 1) /\ e \in 1..Len(log)
          BY <2>9, <3>3, <4>1, <4>2
        <5> QED  BY <1>3, <5>1, PutShows
      <4> QED  BY <1>5, <4>1, <4>2, <4>3
    <3>4. new.pc = "final" => Shows(shown'[s], Back(s))
      <4> SUFFICES ASSUME new.pc = "final" PROVE Shows(shown'[s], Back(s))
        OBVIOUS
      <4>1. task.pc = "last" /\ ~task.rejected /\ Tail(task.todo) = <<>> /\ posted
        BY <1>1, <1>2
      <4>2. Len(task.todo) = 1
        <5>1. Len(<<>>) = 0
          OBVIOUS
        <5>2. Len(Tail(task.todo)) = Len(task.todo) - 1 /\ Len(task.todo) \in Nat
          BY <2>9, <4>1
        <5>3. Len(Tail(task.todo)) = 0
          BY <4>1, <5>1
        <5> QED  BY <5>2, <5>3
      <4>3. Back(s) - Len(task.todo) + 1 = Back(s)
        BY <2>8, <4>2
      <4> QED  BY <3>3, <4>1, <4>3
    <3>5. new.pc = "last" /\ ~new.rejected => Shows(shown'[s], Back(s) - Len(new.todo))
      <4> SUFFICES ASSUME new.pc = "last", ~new.rejected
                   PROVE  Shows(shown'[s], Back(s) - Len(new.todo))
        OBVIOUS
      <4>1. CASE new = task
        <5>1. task.pc = "last" /\ ~task.rejected
          BY <4>1
        <5>2. CASE posted
          <6>1. /\ Back(s) - Len(task.todo) \in Int /\ Back(s) - Len(task.todo) + 1 \in Int
                /\ Back(s) - Len(task.todo) <= Back(s) - Len(task.todo) + 1
            <7>1. Back(s) \in Int /\ Len(task.todo) \in Nat
              BY <2>8, <2>9, <5>1
            <7> HIDE DEF task
            <7> QED  BY <7>1
          <6>2. Shows(shown'[s], Back(s) - Len(task.todo) + 1)
            BY <3>3, <5>1, <5>2
          <6>3. Shows(shown'[s], Back(s) - Len(task.todo))
            BY <6>1, <6>2, ShowsFewer
          <6> QED  BY <4>1, <6>3
        <5>3. CASE UNCHANGED <<shown, strayed>>
          BY <3>3, <4>1, <5>1, <5>3
        <5> QED  BY <1>1, <5>2, <5>3 DEF posted
      <4>2. CASE new # task
        <5>1. task.pc = "last" /\ ~task.rejected /\ posted /\ new.todo = Tail(task.todo)
          BY <1>1, <1>2, <4>2
        <5>2. Back(s) - Len(new.todo) = Back(s) - Len(task.todo) + 1
          BY <2>8, <2>9, <5>1
        <5> QED  BY <3>3, <5>1, <5>2
      <4> QED  BY <4>1, <4>2
    <3>7. /\ PollOf(s)'.pc = "final" => Shows(shown[s], Back(s))'
          /\ PollOf(s)'.pc = "last" /\ ~PollOf(s)'.rejected =>
               Shows(shown[s], Back(s) - Len(PollOf(s).todo))'
      BY <1>1, <2>1, <2>8, <3>4, <3>5 DEF Shows
    <3> QED  BY <1>4, <2>1, <3>1, <3>2, <3>7 DEF Showing
  <2>13. Followed(s)'
    BY <2>4, <2>5, <2>6, <2>10, <2>11, <2>12 DEF Followed
  <2> QED  BY <1>1, <1>7, <1>9, <2>13, OthersStay
<1> QED  BY <1>11, <1>12, <1>13

(* The catch-up check: an SSP that passes it shows every event that is accounted for. *)
LEMMA ExpectedShows ==
    ASSUME TypeInv, NEW s \in Ssps, NEW g \in Gens, NEW n \in Int, n <= Len(log),
           Shows(rows, snap), \A e \in 1..n : Accounted(poll[s][g], e)
    PROVE  Shows(Expected(poll[s][g]), n)
<1> DEFINE task == poll[s][g]
<1>1. snap \in Nat /\ snap <= Len(log) /\ Len(log) \in Nat /\ \A d \in 1..Len(log) : log[d] \in Rows
  BY DEF TypeInv, SchedType
<1>3. \A r \in Rows : Expected(task)[r] = IF task.seen[r] = 0 THEN rows[r] ELSE task.seen[r]
  BY DEF Expected
<1> HIDE DEF task
<1>4. ASSUME NEW e \in 1..n PROVE Expected(task)[log[e]] >= e
  <2>1. e \in 1..Len(log) /\ log[e] \in Rows
    BY <1>1
  <2>2. CASE task.seen[log[e]] >= e
    <3>1. task.seen[log[e]] # 0
      BY <1>1, <2>2
    <3> QED  BY <1>3, <2>1, <2>2, <3>1
  <2>3. CASE task.seen[log[e]] = 0 /\ e <= snap
    <3>1. e \in 1..snap
      BY <1>1, <2>3
    <3>2. rows[log[e]] >= e
      BY <3>1 DEF Shows
    <3> QED  BY <1>3, <2>1, <2>3, <3>2
  <2> QED  BY <2>2, <2>3 DEF Accounted, task
<1> QED  BY <1>4 DEF Shows, task

LEMMA PollVerifyFollows ==
    ASSUME TypeInv, TypeInv', EventsFollowed, Grounded, NEW s \in Ssps, NEW g \in Gens,
           PollVerify(s, g)
    PROVE  EventsFollowed'
<1>1. /\ poll[s][g].pc = "verify"
      /\ UNCHANGED <<log, snap, drained, inPool, state, overflowed, gen, buf, fan, redelivery,
                     proc, shown, strayed>>
      /\ waived \subseteq waived'
  BY PollVerifyCases
<1>2. Extends /\ \A q \in Ssps : Rests(q)
  BY <1>1 DEF Extends, TypeInv, SchedType, Rests, Unstrayed
<1>3. PICK new : /\ SetPoll(s, g, new) /\ new.seen = Nothing
                 /\ new.pc \in {"final", "failed", "flag", "clone"}
                 /\ new.pc = "final" => CaughtUp(s, poll[s][g]) \/ s \in waived'
  <2> DEFINE clone == [NoPoll EXCEPT !.pc = "clone", !.from = Len(log)]
             ended(p) == [NoPoll EXCEPT !.pc = p]
  <2>1. clone.pc = "clone" /\ clone.seen = Nothing /\ \A p : ended(p).pc = p /\ ended(p).seen = Nothing
    BY GotoEnded DEF NoPoll
  <2>2. \/ /\ SetPoll(s, g, ended("final"))
           /\ CaughtUp(s, poll[s][g]) \/ s \in waived'
        \/ SetPoll(s, g, ended("failed")) \/ SetPoll(s, g, ended("flag"))
        \/ SetPoll(s, g, clone)
    BY PollVerifyCases DEF Goto
  <2> HIDE DEF clone, ended
  <2> QED  BY <2>1, <2>2
<1>6. Followed(s)
  BY DEF EventsFollowed
<1>7. CASE g # gen[s]
  BY <1>1, <1>2, <1>3, <1>7, OverFollows
<1>8. CASE g = gen[s] /\ new.pc # "final"
  <2>1. s \in inPool => proc[s] # "loading"
    BY <1>1, <1>6, <1>8 DEF Followed, Phase, PollOf
  <2>2. new.pc \in Ended
    BY <1>3, <1>8 DEF Ended
  <2> QED  BY <1>1, <1>2, <1>3, <2>1, <2>2, OverFollows
<1>9. CASE g = gen[s] /\ new.pc = "final"
  <2>1. /\ \A h \in Gens : poll'[s][h] = IF h = g THEN new ELSE poll[s][h]
        /\ \A q \in Ssps : q # s => poll'[q] = poll[q]
    BY <1>3, SetPollAt
  <2>2. \A q \in Ssps : q # s => Stays(q)
    BY <1>2, <2>1 DEF Stays
  <2>3. PollOf(s)' = new /\ PollOf(s) = poll[s][g] /\ new.pc = "final"
    BY <1>1, <1>9, <2>1 DEF PollOf
  <2>4. (Tracked(s)' => Tracked(s)) /\ (Unstrayed(s)' => Unstrayed(s))
    BY <1>1 DEF Tracked, Unstrayed
  <2>5. s \in inPool => state[s] = "replaying" /\ proc[s] # "loading"
    BY <1>1, <1>6, <2>3 DEF Followed, Phase
  <2>6. Phase(s)'
    BY <1>1, <1>6, <2>3, <2>5 DEF Followed, Phase
  <2>7. Past(s)'
    BY <1>1, <1>3, <1>6, PastPoll DEF Followed
  <2>8. OneTask(s)'
    BY <1>1, <1>6, <2>4, OneTaskKept DEF Followed
  <2>9. Order(s)'
    BY <1>1, <1>6, <2>3, <2>4, OrderKept DEF Followed
  <2>10. Replays(s)'
    BY <2>3 DEF Replays
  <2>11. /\ Due(s)' = Due(s) /\ Back(s)' = Back(s) /\ Back(s) \in Int /\ Back(s) <= Len(log)
         /\ Due(s) \in Nat /\ Back(s) <= Due(s) /\ Due(s) <= fan.last /\ fan.last \in Nat
    BY <1>1, DueBounds DEF Due, Back
  <2>12. Showing(s)'
    <3> SUFFICES ASSUME Tracked(s), s \notin waived', Answers(s) PROVE Showing(s)'
      BY <1>1, <2>4 DEF Showing, Answers
    <3>1. state'[s] = "replaying"
      BY <1>1, <2>5 DEF Tracked
    <3>2. \A i \in Slots : ~Posting(s, i)'
      <4>1. \A i \in Slots : Posting(s, i)' <=> Posting(s, i)
        BY <1>1 DEF Posting, Mine
      <4> QED  BY <1>6, <2>5, <4>1 DEF Followed, OneTask, Tracked, Posting
    <3>3. Shows(shown[s], Back(s))
      <4>1. CASE Untouched(poll[s][g])
        BY <1>1, <1>6, <2>3, <4>1 DEF Followed, Showing, Untouched
      <4>2. CASE shown[s] = Expected(poll[s][g])
        <5>1. \A e \in 1..Back(s) : e \in 1..fan.last
          BY <2>11
        <5>2. \A e \in 1..Back(s) : Accounted(poll[s][g], e)
          BY <1>1, <1>6, <2>3, <2>11, <5>1 DEF Followed, Replays
        <5>3. Shows(rows, snap)
          <6>1. s \in inPool /\ state[s] \in Active /\ s \notin waived
            BY <1>1, <2>5 DEF Tracked, Active
          <6> QED  BY <6>1 DEF Grounded, Held, Based
        <5>4. Shows(Expected(poll[s][g]), Back(s))
          BY <2>11, <5>2, <5>3, ExpectedShows
        <5> QED  BY <4>2, <5>4
      <4> QED  BY <1>3, <1>9, <4>1, <4>2 DEF CaughtUp
    <3>4. Shows(shown[s], Back(s))'
      BY <1>1, <2>11, <3>3 DEF Shows
    <3> QED  BY <2>3, <3>1, <3>2, <3>4 DEF Showing
  <2>13. Followed(s)'
    BY <2>6, <2>7, <2>8, <2>9, <2>10, <2>12 DEF Followed
  <2> QED  BY <1>1, <1>2, <2>2, <2>13, OthersStay
<1> QED  BY <1>7, <1>8, <1>9

(* A re-clone, and the flags it ends with, say nothing of a registration that is not waived:
   the replica's seq does not go back under it. *)
LEMMA PollCloneFollows ==
    ASSUME TypeInv, TypeInv', EventsFollowed, NEW s \in Ssps, NEW g \in Gens,
           PollClone(s, g) \/ PollFlag(s, g)
    PROVE  EventsFollowed'
<1> USE DEF schedVars, sspVars, histVars, others
<1>1. /\ poll[s][g].pc \in {"clone", "flag", "flagall"}
      /\ UNCHANGED <<log, drained, inPool, state, overflowed, gen, buf, fan, redelivery, proc,
                     shown, strayed>>
      /\ waived \subseteq waived'
      /\ Goto(s, g, "flagall") \/ Goto(s, g, "flag") \/ Goto(s, g, "unfreeze")
  BY PollCloneCases DEF PollFlag
<1>2. snap <= snap' \/ Unverified \subseteq waived'
  <2>1. CASE PollClone(s, g)
    <3>1. PICK n \in Nat : n = poll[s][g].from
      BY PollOfType
    <3>2. UNCHANGED snap \/ Unverified \subseteq waived' \/ (snap' = n /\ snap <= n)
      BY <2>1, <3>1, PollCloneCases
    <3>3. snap \in Nat
      BY DEF TypeInv, SchedType
    <3> QED  BY <3>1, <3>2, <3>3
  <2>2. CASE PollFlag(s, g)
    BY <2>2 DEF PollFlag, TypeInv, SchedType
  <2> QED  BY <2>1, <2>2
<1>3. Extends /\ \A q \in Ssps : Rests(q)
  BY <1>1, <1>2 DEF Extends, TypeInv, SchedType, Rests, Unstrayed
<1>4. PICK p \in {"flagall", "flag", "unfreeze"} : SetPoll(s, g, [NoPoll EXCEPT !.pc = p])
  BY <1>1 DEF Goto
<1> DEFINE new == [NoPoll EXCEPT !.pc = p]
<1>5. new.pc = p /\ SetPoll(s, g, new)
  BY <1>4, GotoEnded
<1> HIDE DEF new
<1>6. g = gen[s] => ~(s \in inPool /\ proc[s] = "loading")
  BY <1>1 DEF EventsFollowed, Followed, Phase, PollOf
<1> QED  BY <1>1, <1>3, <1>5, <1>6, OverFollows DEF Ended

(* The final drain: nothing buffered, and s goes live showing everything due; or what was
   buffered is the task's last batch. *)
LEMMA PollFinalFollows ==
    ASSUME TypeInv, TypeInv', EventsFollowed, NEW s \in Ssps, NEW g \in Gens, PollFinal(s, g)
    PROVE  EventsFollowed'
<1> USE DEF schedVars, memberVars, sspVars, histVars, others
<1>1. /\ poll[s][g].pc = "final"
      /\ UNCHANGED <<log, snap, drained, fan, redelivery, proc, shown, waived, strayed>>
      /\ \/ /\ SetPoll(s, g, [NoPoll EXCEPT !.pc = "failed"])
            /\ UNCHANGED <<inPool, state, overflowed, gen, buf>>
         \/ /\ g = gen[s] /\ s \notin overflowed
            /\ Replay(s, g, buf[s], "last", "unfreeze") /\ buf' = [buf EXCEPT ![s] = <<>>]
            /\ IF buf[s] = <<>> THEN MarkReady(s) ELSE UNCHANGED memberVars
  BY DEF PollFinal, Goto, Superseded
<1>2. Extends
  BY <1>1 DEF Extends, TypeInv, SchedType
<1>3. Followed(s)
  BY DEF EventsFollowed
<1>4. CASE /\ SetPoll(s, g, [NoPoll EXCEPT !.pc = "failed"])
           /\ UNCHANGED <<inPool, state, overflowed, gen, buf>>
  <2>1. \A q \in Ssps : Rests(q)
    BY <1>1, <1>4 DEF Rests, Unstrayed
  <2> DEFINE failed == [NoPoll EXCEPT !.pc = "failed"]
  <2>2. failed.pc = "failed" /\ SetPoll(s, g, failed)
    BY <1>4, GotoEnded
  <2> HIDE DEF failed
  <2> QED  BY <1>1, <1>2, <2>1, <2>2, OverFollows DEF Ended
<1>5. CASE /\ g = gen[s] /\ s \notin overflowed
           /\ Replay(s, g, buf[s], "last", "unfreeze") /\ buf' = [buf EXCEPT ![s] = <<>>]
           /\ IF buf[s] = <<>> THEN MarkReady(s) ELSE UNCHANGED memberVars
  <2>1. PICK task \in PollRecord :
          /\ SetPoll(s, g, task) /\ task.todo = buf[s]
          /\ task.pc = IF buf[s] = <<>> THEN "unfreeze" ELSE "last"
    <3>1. "unfreeze" \in PollPhases /\ buf[s] \in Seq(Events)
      BY DEF PollPhases, TypeInv, BufType
    <3> QED  BY <1>5, <3>1, ReplayLast
  <2>2. buf'[s] = <<>> /\ \A q \in Ssps : q # s => buf'[q] = buf[q]
    BY <1>5 DEF TypeInv, BufType
  <2>3. /\ UNCHANGED <<inPool, gen>>
        /\ buf[s] = <<>> => state'[s] = "ready"
        /\ buf[s] # <<>> => state'[s] = state[s]
        /\ s \notin overflowed'
        /\ \A q \in Ssps : q # s => /\ state'[q] = state[q]
                                    /\ q \in overflowed' <=> q \in overflowed
    BY <1>5 DEF MarkReady, TypeInv, PoolType
  <2>4. /\ \A h \in Gens : poll'[s][h] = IF h = g THEN task ELSE poll[s][h]
        /\ \A q \in Ssps : q # s => poll'[q] = poll[q]
    BY <2>1, SetPollAt
  <2>5. \A q \in Ssps : q # s => Stays(q)
    BY <1>1, <2>2, <2>3, <2>4 DEF Stays, Rests, Unstrayed
  <2>6. PollOf(s)' = task /\ PollOf(s) = poll[s][g]
    BY <1>1, <1>5, <2>3, <2>4 DEF PollOf
  <2>7. (Tracked(s)' => Tracked(s)) /\ (Unstrayed(s)' => Unstrayed(s))
    BY <1>1, <1>5, <2>3 DEF Tracked, Unstrayed
  <2>8. s \in inPool => state[s] = "replaying" /\ proc[s] # "loading" /\ gen[s] >= 1
    BY <1>1, <1>3, <2>6 DEF Followed, Phase
  <2>9. Phase(s)'
    BY <1>1, <2>1, <2>3, <2>6, <2>8 DEF Phase
  <2>10. Past(s)'
    BY <1>1, <1>3, <2>1, <2>3, PastPoll DEF Followed
  <2>11. /\ \A i \in Slots : (Mine(s, i)' <=> Mine(s, i)) /\ (Posting(s, i)' <=> Posting(s, i))
         /\ s \in inPool /\ Unstrayed(s) => \A i \in Slots : ~Mine(s, i)
    BY <1>1, <1>3, <2>3, <2>8 DEF Followed, OneTask, Posting, Mine
  <2>12. OneTask(s)'
    BY <2>3, <2>7, <2>11 DEF OneTask
  <2>13. Tracked(s) => \A i \in Slots : ~Posting(s, i)'
    BY <2>11 DEF Tracked, Posting
  <2>14. /\ Due(s)' = Due(s) /\ Due(s) \in Nat /\ Back(s) \in Int /\ Back(s) = Due(s) - Len(buf[s])
         /\ buf[s] \in Seq(Events) /\ Len(buf[s]) \in Nat
    BY <1>1, DueBounds DEF Due, Back
  <2>15. Back(s)' = Due(s)
    <3>1. Len(<<>>) = 0
      OBVIOUS
    <3> QED  BY <2>2, <2>14, <3>1 DEF Back
  <2>16. Order(s)'
    <3> SUFFICES ASSUME Tracked(s)' PROVE Order(s)'
      BY DEF Order
    <3>1. Queued(s) /\ Tracked(s)
      BY <1>3, <2>7 DEF Followed, Order
    <3>2. Run(<<>>, Due(s))
      BY <2>14, RunEmpty
    <3>3. Queued(s)'
      <4>1. Run(buf[s], Due(s))'
        BY <2>2, <2>14, <3>2 DEF Run
      <4>2. state'[s] # "lagging"
        BY <2>3, <2>8, <3>1 DEF Tracked
      <4> QED  BY <2>2, <4>1, <4>2 DEF Queued
    <3>4. task.pc = "last" => Hand(s, PollOf(s).todo)'
      <4> SUFFICES ASSUME buf[s] # <<>> PROVE Hand(s, PollOf(s).todo)'
        BY <2>1
      <4>1. Run(buf[s], Due(s)) /\ fan.to[s] = NoCopy
        BY <3>1 DEF Queued
      <4> QED  BY <1>1, <2>1, <2>6, <2>15, <4>1 DEF Hand, Run
    <3>5. \A i \in Slots : ~Posting(s, i)'
      BY <2>13, <3>1
    <3> QED  BY <2>6, <3>3, <3>4, <3>5 DEF Order
  <2>17. Replays(s)'
    BY <2>1, <2>6 DEF Replays
  <2>18. Showing(s)'
    <3> SUFFICES ASSUME Tracked(s), s \notin waived, Answers(s) PROVE Showing(s)'
      BY <1>1, <2>7 DEF Showing, Answers
    <3>1. Shows(shown[s], Back(s))
      BY <1>1, <1>3, <2>6 DEF Followed, Showing
    <3>2. state'[s] # "lagging" /\ \A i \in Slots : ~Posting(s, i)'
      BY <2>3, <2>8, <2>13 DEF Tracked
    <3>3. state'[s] = "ready" => Shows(shown[s], Back(s))'
      <4> SUFFICES ASSUME buf[s] = <<>> PROVE Shows(shown[s], Back(s))'
        BY <2>3, <2>8 DEF Tracked
      <4>1. Back(s) = Due(s)
        <5>1. Len(<<>>) = 0
          OBVIOUS
        <5> QED  BY <2>14, <5>1
      <4> QED  BY <1>1, <2>15, <3>1, <4>1 DEF Shows
    <3>4. task.pc = "last" => Shows(shown[s], Back(s) - Len(PollOf(s).todo))'
      <4>1. Shows(shown[s], Due(s) - Len(buf[s]))
        BY <2>14, <3>1
      <4> QED  BY <1>1, <2>1, <2>6, <2>15, <4>1 DEF Shows
    <3> QED  BY <2>1, <2>6, <3>2, <3>3, <3>4 DEF Showing
  <2>19. Followed(s)'
    BY <2>9, <2>10, <2>12, <2>16, <2>17, <2>18 DEF Followed
  <2> QED  BY <1>1, <1>2, <2>5, <2>19, OthersStay
<1> QED  BY <1>1, <1>4, <1>5

LEMMA PollEndFollows ==
    ASSUME TypeInv, TypeInv', EventsFollowed, NEW s \in Ssps, NEW g \in Gens,
           PollUnfreeze(s, g) \/ PollCleanup(s, g)
    PROVE  EventsFollowed'
<1> USE DEF memberVars, sspVars, histVars, others
<1>1. /\ poll[s][g].pc \in {"unfreeze", "thaw", "failed"}
      /\ UNCHANGED <<log, snap, drained, fan, redelivery, proc, shown, waived, strayed>>
      /\ \/ SetPoll(s, g, NoPoll)
         \/ SetPoll(s, g, [NoPoll EXCEPT !.pc = "thaw"]) /\ poll[s][g].pc = "unfreeze"
      /\ \/ UNCHANGED <<inPool, state, overflowed, gen, buf>>
         \/ RemoveSsp(s) /\ SetPoll(s, g, NoPoll)
  BY DEF PollUnfreeze, PollCleanup
<1>2. Extends
  BY <1>1 DEF Extends, TypeInv, SchedType
<1>3. Followed(s)
  BY DEF EventsFollowed
<1>4. NoPoll.pc = "none"
  BY DEF NoPoll
<1>5. CASE UNCHANGED <<inPool, state, overflowed, gen, buf>>
  <2>1. \A q \in Ssps : Rests(q)
    BY <1>1, <1>5 DEF Rests, Unstrayed
  <2>2. CASE SetPoll(s, g, NoPoll)
    BY <1>1, <1>2, <1>4, <2>1, <2>2, OverFollows DEF Ended
  <2>3. CASE SetPoll(s, g, [NoPoll EXCEPT !.pc = "thaw"]) /\ poll[s][g].pc = "unfreeze"
    <3> DEFINE thaw == [NoPoll EXCEPT !.pc = "thaw"]
    <3>1. thaw.pc = "thaw" /\ SetPoll(s, g, thaw)
      BY <2>3, GotoEnded
    <3> HIDE DEF thaw
    <3>2. g = gen[s] => ~(s \in inPool /\ proc[s] = "loading")
      BY <1>3, <2>3 DEF Followed, Phase, PollOf
    <3> QED  BY <1>1, <1>2, <2>1, <3>1, <3>2, OverFollows DEF Ended
  <2> QED  BY <1>1, <2>2, <2>3
<1>6. CASE RemoveSsp(s) /\ SetPoll(s, g, NoPoll)
  <2>1. gen'[s] = gen[s]
    BY <1>6 DEF RemoveSsp
  <2>2. Past(s)'
    BY <1>1, <1>3, <1>4, <1>6, <2>1, PastPoll DEF Followed
  <2>3. Followed(s)'
    BY <1>6, <2>2, RemovedFollows
  <2>4. \A q \in Ssps : q # s => poll'[q] = poll[q]
    BY <1>6, SetPollAt
  <2>5. \A q \in Ssps : q # s => Stays(q)
    BY <1>1, <1>6, <2>2, <2>4, RemovedFollows DEF Stays, Rests, Unstrayed
  <2> QED  BY <1>1, <1>2, <2>3, <2>5, OthersStay
<1> QED  BY <1>1, <1>5, <1>6

-----------------------------------------------------------------------------
LEMMA FollowedInit == Init => EventsFollowed
<1> SUFFICES ASSUME Init, NEW s \in Ssps PROVE Followed(s)
  BY DEF EventsFollowed
<1>1. /\ s \notin inPool /\ gen[s] = 0 /\ state[s] = "none" /\ strayed = {}
      /\ \A i \in Slots : redelivery[s][i] = NoTask
      /\ \A g \in Gens : poll[s][g] = NoPoll
  BY DEF Init
<1>2. NoTask.gen = 0 /\ NoPoll.pc = "none"
  BY DEF NoTask, NoPoll
<1>3. Past(s)
  BY <1>1, <1>2 DEF Past
<1>4. Phase(s)
  BY <1>1 DEF Phase
<1> QED  BY <1>1, <1>3, <1>4 DEF Followed, OneTask, Order, Replays, Showing, Tracked

LEMMA FollowedStep == TypeInv /\ EventsFollowed /\ Grounded /\ [Next]_vars => EventsFollowed'
<1> SUFFICES ASSUME TypeInv, EventsFollowed, Grounded, [Next]_vars PROVE EventsFollowed'
  OBVIOUS
<1>1. TypeInv'
  BY TypeStep
<1>2. CASE UNCHANGED vars
  <2>1. /\ UNCHANGED <<log, snap, drained, inPool, state, overflowed, gen, buf, fan, redelivery,
                       poll, proc, shown, waived, strayed>>
    BY <1>2 DEF vars, schedVars, memberVars, sspVars, histVars
  <2>2. Extends /\ \A q \in Ssps : Stays(q)
    BY <2>1 DEF Extends, TypeInv, SchedType, Stays, Rests, Unstrayed
  <2>3. ASSUME NEW q \in Ssps PROVE Followed(q)'
    BY <1>1, <2>1, <2>2, StaysFollowed DEF EventsFollowed
  <2> QED  BY <2>3 DEF EventsFollowed
<1>3. CASE SnapshotTick \/ \E r \in Rows : Ingest(r)
  BY <1>1, <1>3, StreamFollows
<1>4. CASE FanOut
  BY <1>1, <1>4, FanTakeFollows, FanPostFollows, FanMarkFollows DEF FanOut
<1>5. ASSUME NEW s \in Ssps, Ssp(s) \/ CrashSsp(s) \/ Evict(s) PROVE EventsFollowed'
  BY <1>1, <1>5, RegisterFollows, LoadFollows, StopFollows, EvictFollows DEF Ssp
<1>6. ASSUME NEW s \in Ssps, Redeliver(s) PROVE EventsFollowed'
  BY <1>1, <1>6, RedeliverTakeFollows, RedeliverPostFollows DEF Redeliver
<1>7. ASSUME NEW s \in Ssps, NEW g \in Gens, Poll(s, g) PROVE EventsFollowed'
  BY <1>1, <1>7, PollHealthFollows, PollMarkFollows, PollCollectFollows, PollDrainFollows,
     PollPostFollows, PollVerifyFollows, PollCloneFollows, PollFinalFollows, PollEndFollows DEF Poll
<1> QED  BY <1>2, <1>3, <1>4, <1>5, <1>6, <1>7 DEF Next

LEMMA FollowedCurrent == TypeInv /\ EventsFollowed => ReadyIsCurrent
<1> SUFFICES ASSUME TypeInv, EventsFollowed, NEW s \in Ssps, Serving(s), s \notin waived,
                    Unstrayed(s)
             PROVE  Current(s)
  BY DEF ReadyIsCurrent, Unstrayed
<1>1. Followed(s) /\ s \in inPool /\ state[s] = "ready" /\ Answers(s)
  BY DEF EventsFollowed, Serving
<1>2. Tracked(s)
  BY <1>1 DEF Followed, Phase, Tracked
<1>3. /\ Due(s) \in Nat /\ Due(s) <= Len(log) /\ Len(log) \in Nat /\ Back(s) = Due(s) - Len(buf[s])
  BY DueBounds DEF Back
<1>4. Back(s) = Due(s)
  <2>1. buf[s] = <<>> /\ Len(<<>>) = 0
    BY <1>1, <1>2 DEF Followed, Order, Queued
  <2> QED  BY <1>3, <2>1
<1>5. Shows(shown[s], Due(s))
  BY <1>1, <1>2, <1>4 DEF Followed, Showing
<1>6. /\ At(Due(s)) \in [Rows -> 0..MaxSeq]
      /\ \A r \in Rows : \/ At(Due(s))[r] = 0
                         \/ At(Due(s))[r] \in 1..Due(s) /\ log[At(Due(s))[r]] = r
  BY <1>3, AtShows
<1>7. \A r \in Rows : shown[s][r] \in Nat
  BY SyncBoundAssumption DEF TypeInv, SspType
<1>8. ASSUME NEW r \in Rows PROVE shown[s][r] >= At(Due(s))[r]
  <2>1. CASE At(Due(s))[r] = 0  BY <1>7, <2>1
  <2>2. CASE At(Due(s))[r] \in 1..Due(s) /\ log[At(Due(s))[r]] = r
    BY <1>5, <2>2 DEF Shows
  <2> QED  BY <1>6, <2>1, <2>2
<1> QED  BY <1>8 DEF Current

-----------------------------------------------------------------------------
(* The replica the SSPs bootstrap from. *)

Early == {"health", "mark", "collect"}

LEMMA DrainHeld ==
    ASSUME TypeInv, Held, Drain, UNCHANGED <<log, spoiled>>
    PROVE  Held'
<1> SUFFICES ASSUME ~spoiled PROVE drained' <= snap' /\ Shows(rows, snap)'
  BY DEF Held
<1>1. /\ Len(log) \in Nat /\ Len(log) <= MaxSeq /\ snap \in Nat /\ snap <= Len(log)
      /\ drained \in Nat /\ drained <= snap /\ Shows(rows, snap)
      /\ rows \in [Rows -> 0..MaxSeq] /\ MaxSeq \in Nat
      /\ \A d \in 1..Len(log) : log[d] \in Rows
  BY SyncBoundAssumption DEF Held, TypeInv, SchedType
<1> DEFINE late == PutAll(Nothing, Span(drained + 1, Len(log)))
<1>2. /\ rows' \in [Rows -> 0..MaxSeq] /\ drained' = Len(log)
      /\ \A r \in Rows : rows'[r] >= rows[r] /\ rows'[r] >= late[r]
      /\ snap' = Len(log) \/ (snap' = snap /\ drained = Len(log))
  BY DrainType
<1>3. snap' = Len(log)
  BY <1>1, <1>2
<1>4. /\ late \in [Rows -> 0..MaxSeq]
      /\ \A e \in (drained + 1)..Len(log) : late[log[e]] >= e
  <2>1. /\ drained + 1 \in Nat /\ drained + 1 >= 1 /\ drained + 1 <= Len(log) + 1
        /\ Len(log) <= Len(log) /\ Nothing \in [Rows -> 0..MaxSeq]
    BY <1>1 DEF Nothing
  <2> QED  BY <1>1, <2>1, PutSpan
<1> HIDE DEF late
<1>5. ASSUME NEW e \in 1..Len(log) PROVE rows'[log[e]] >= e
  <2>1. log[e] \in Rows /\ e \in Nat
    BY <1>1
  <2>2. rows'[log[e]] \in Nat /\ rows[log[e]] \in Nat /\ late[log[e]] \in Nat
    BY <1>1, <1>2, <1>4, <2>1
  <2>3. CASE e <= drained
    <3>1. e \in 1..snap
      BY <1>1, <2>3
    <3> QED  BY <1>2, <1>1, <2>1, <2>2, <3>1 DEF Shows
  <2>4. CASE e > drained
    <3>1. e \in (drained + 1)..Len(log)
      BY <1>1, <2>4
    <3> QED  BY <1>2, <1>4, <2>1, <2>2, <3>1
  <2>5. e <= drained \/ e > drained
    BY <1>1, <2>1
  <2> QED  BY <2>3, <2>4, <2>5
<1>6. drained' <= snap' /\ log' = log
  BY <1>1, <1>2, <1>3
<1>7. \A e \in 1..snap' : rows'[log'[e]] >= e
  BY <1>3, <1>5, <1>6
<1> QED  BY <1>6, <1>7 DEF Shows

(* A clean re-clone brings of every row a version no older than the seq it is given. *)
LEMMA CloneHeld ==
    ASSUME TypeInv, NEW n \in Nat, n <= Len(log), UNCHANGED <<log, drained>>, drained <= n,
           snap' = n, rows' \in Fetched(n)
    PROVE  Held'
<1>1. Len(log) \in Nat /\ MaxSeq \in Nat /\ \A d \in 1..Len(log) : log[d] \in Rows
  BY SyncBoundAssumption DEF TypeInv, SchedType
<1>2. \A r \in Rows : \E k \in n..Len(log) : rows'[r] = At(k)[r]
  BY DEF Fetched
<1>3. ASSUME NEW e \in 1..n PROVE rows'[log[e]] >= e
  <2>1. e \in 1..Len(log) /\ log[e] \in Rows
    BY <1>1
  <2>2. PICK k \in n..Len(log) : rows'[log[e]] = At(k)[log[e]]
    BY <1>2, <2>1
  <2>3. k \in Nat /\ k <= Len(log) /\ e \in 1..k
    BY <1>1
  <2>4. Shows(At(k), k)
    BY <2>3, AtShows
  <2> QED  BY <2>2, <2>3, <2>4 DEF Shows
<1> QED  BY <1>3 DEF Held, Shows

LEMMA HeldKept ==
    ASSUME TypeInv, Held, UNCHANGED <<rows, snap, drained, spoiled>>,
           \A e \in 1..Len(log) : log'[e] = log[e]
    PROVE  Held'
<1> SUFFICES ASSUME ~spoiled PROVE drained' <= snap' /\ Shows(rows, snap)'
  BY DEF Held
<1>1. /\ drained <= snap /\ Shows(rows, snap) /\ snap \in Nat /\ snap <= Len(log)
      /\ Len(log) \in Nat
  BY DEF Held, TypeInv, SchedType
<1>2. \A e \in 1..snap : e \in 1..Len(log)
  BY <1>1
<1> QED  BY <1>1, <1>2 DEF Shows

LEMMA BasedKept ==
    ASSUME TypeInv, EventsFollowed, NEW s \in Ssps, Based(s), UNCHANGED spoiled,
           snap \in Nat, snap' \in Nat, snap <= snap', s \in waived => s \in waived',
           s \in inPool' => s \in inPool /\ (state'[s] \in Active => state[s] \in Active),
           s \in inPool' /\ PollOf(s)'.pc \in Early =>
             PollOf(s).pc \in Early /\ PollOf(s)'.from = PollOf(s).from
    PROVE  Based(s)'
<1> SUFFICES ASSUME s \in inPool', state'[s] \in Active, s \notin waived'
             PROVE  /\ ~spoiled
                    /\ PollOf(s)'.pc \in Early => PollOf(s)'.from <= snap'
  BY DEF Based, Early
<1>1. /\ ~spoiled /\ s \in inPool
      /\ PollOf(s).pc \in Early => PollOf(s).from <= snap
  BY DEF Based, Early
<1>2. gen[s] \in Gens
  BY <1>1, SyncBoundAssumption DEF EventsFollowed, Followed, Phase, TypeInv, PoolType, Gens
<1>3. PollOf(s).from \in Nat
  BY <1>2, PollOfType DEF PollOf
<1> QED  BY <1>1, <1>3

LEMMA GroundedKept ==
    ASSUME TypeInv, EventsFollowed, Grounded, UNCHANGED <<rows, snap, drained, spoiled>>,
           \A e \in 1..Len(log) : log'[e] = log[e], waived \subseteq waived',
           \A q \in Ssps : q \in inPool' =>
             /\ q \in inPool /\ (state'[q] \in Active => state[q] \in Active)
             /\ PollOf(q)'.pc \in Early =>
                  PollOf(q).pc \in Early /\ PollOf(q)'.from = PollOf(q).from
    PROVE  Grounded'
<1>1. snap \in Nat /\ snap' \in Nat /\ snap <= snap'
  BY DEF TypeInv, SchedType
<1>2. ASSUME NEW q \in Ssps PROVE Based(q)'
  BY <1>1, BasedKept DEF Grounded
<1>3. Held'
  BY HeldKept DEF Grounded
<1> QED  BY <1>2, <1>3 DEF Grounded

(* A step of a registration's task. *)
LEMMA PollSets ==
    ASSUME TypeInv, NEW s \in Ssps, NEW g \in Gens, Poll(s, g)
    PROVE  /\ \E task : /\ SetPoll(s, g, task)
                        /\ task.pc \in Early => poll[s][g].pc \in Early /\ task.from = poll[s][g].from
           /\ poll[s][g].pc # "none" /\ UNCHANGED <<log, drained, gen, proc>> /\ waived \subseteq waived'
           /\ ~PollClone(s, g) => UNCHANGED <<rows, snap, spoiled>>
           /\ poll[s][g].pc = "flagall" => PollFlag(s, g)
<1> USE DEF schedVars, memberVars, sspVars, histVars, others
<1> DEFINE Sets == \E task : /\ SetPoll(s, g, task)
                             /\ task.pc \in Early => /\ poll[s][g].pc \in Early
                                                     /\ task.from = poll[s][g].from
<1>0. \A p : Goto(s, g, p) /\ p \notin Early => Sets
  <2> SUFFICES ASSUME NEW p, Goto(s, g, p), p \notin Early PROVE Sets
    OBVIOUS
  <2> DEFINE task == [NoPoll EXCEPT !.pc = p]
  <2>1. task.pc \notin Early /\ SetPoll(s, g, task)
    BY GotoEnded DEF Goto
  <2> HIDE DEF task
  <2> QED  BY <2>1
<1>1. \A p : poll[s][g].pc \in Early /\ SetPoll(s, g, [poll[s][g] EXCEPT !.pc = p]) => Sets
  <2> SUFFICES ASSUME NEW p, poll[s][g].pc \in Early, SetPoll(s, g, [poll[s][g] EXCEPT !.pc = p])
               PROVE  Sets
    OBVIOUS
  <2> DEFINE task == [poll[s][g] EXCEPT !.pc = p]
  <2>1. task.from = poll[s][g].from /\ SetPoll(s, g, task)
    BY PollOfType DEF PollRecord
  <2> HIDE DEF task
  <2> QED  BY <2>1
<1>2. \A task : SetPoll(s, g, task) /\ task.pc \notin Early => Sets
  OBVIOUS
<1> HIDE DEF Sets
<1>3. CASE PollHealth(s, g)
  <2>1. Sets
    BY <1>0, <1>1, <1>3 DEF PollHealth, Early
  <2>2. poll[s][g].pc = "health" /\ UNCHANGED <<log, rows, snap, spoiled, drained, gen, proc, waived>>
    BY <1>3 DEF PollHealth
  <2> QED  BY <2>1, <2>2 DEF Sets
<1>4. CASE PollMark(s, g)
  <2>1. Sets
    BY <1>0, <1>1, <1>4 DEF PollMark, Early
  <2>2. poll[s][g].pc = "mark" /\ UNCHANGED <<log, rows, snap, spoiled, drained, gen, proc, waived>>
    BY <1>4 DEF PollMark
  <2> QED  BY <2>1, <2>2 DEF Sets
<1>5. CASE PollCollect(s, g)
  <2> DEFINE events == Span(After(s, g) + 1, Len(log))
  <2>1. events \in Seq(Events) /\ "drain" \in PollPhases
    BY CollectedEvents DEF PollPhases
  <2>2. /\ poll[s][g].pc = "collect" /\ UNCHANGED <<log, rows, snap, spoiled, drained, gen, proc, waived>>
        /\ Replay(s, g, events, "replay", "drain")
    BY <1>5 DEF PollCollect, After
  <2> HIDE DEF events
  <2>3. PICK task : SetPoll(s, g, task) /\ task.pc \in {"drain", "replay"}
    BY <2>1, <2>2, ReplayBatch
  <2>4. Sets
    BY <1>2, <2>3 DEF Early
  <2> QED  BY <2>2, <2>4 DEF Sets
<1>6. CASE PollDrain(s, g)
  <2>1. buf[s] \in Seq(Events) /\ "verify" \in PollPhases
    BY DEF PollPhases, TypeInv, BufType
  <2>2. /\ poll[s][g].pc = "drain" /\ UNCHANGED <<log, rows, snap, spoiled, drained, gen, proc, waived>>
        /\ Replay(s, g, buf[s], "replay", "verify")
    BY <1>6 DEF PollDrain
  <2>3. PICK task : SetPoll(s, g, task) /\ task.pc \in {"verify", "replay"}
    BY <2>1, <2>2, ReplayBatch
  <2>4. Sets
    BY <1>2, <2>3 DEF Early
  <2> QED  BY <2>2, <2>4 DEF Sets
<1>7. CASE PollPost(s, g)
  <2>1. PICK new : /\ SetPoll(s, g, new)
                   /\ new.pc \in {"replay", "last", "drain", "failed", "final"}
    BY <1>7, PollPostCases
  <2>2. Sets
    BY <1>2, <2>1 DEF Early
  <2>3. /\ poll[s][g].pc \in {"replay", "last"}
        /\ UNCHANGED <<log, rows, snap, spoiled, drained, gen, proc, waived>>
    BY <1>7 DEF PollPost
  <2> QED  BY <2>2, <2>3 DEF Sets
<1>8. CASE PollVerify(s, g)
  <2>1. /\ poll[s][g].pc = "verify" /\ waived \subseteq waived'
        /\ UNCHANGED <<log, rows, snap, spoiled, drained, gen, proc>>
    BY <1>8, PollVerifyCases
  <2> DEFINE clone == [NoPoll EXCEPT !.pc = "clone", !.from = Len(log)]
  <2>2. clone.pc = "clone"
    BY CloneTask
  <2>3. Goto(s, g, "final") \/ Goto(s, g, "failed") \/ Goto(s, g, "flag") \/ SetPoll(s, g, clone)
    BY <1>8, PollVerifyCases
  <2> HIDE DEF clone
  <2>4. Sets
    BY <1>0, <1>2, <2>2, <2>3 DEF Early
  <2> QED  BY <2>1, <2>4 DEF Sets
<1>9. CASE PollClone(s, g)
  <2>1. /\ poll[s][g].pc = "clone" /\ waived \subseteq waived'
        /\ UNCHANGED <<log, drained, gen, proc>> /\ (Goto(s, g, "flagall") \/ Goto(s, g, "flag"))
    BY <1>9, PollCloneCases
  <2>2. Sets
    BY <1>0, <2>1 DEF Early
  <2> QED  BY <1>9, <2>1, <2>2 DEF Sets
<1>10. CASE PollFlag(s, g)
  <2>1. /\ poll[s][g].pc \in {"flag", "flagall"} /\ Goto(s, g, "unfreeze")
        /\ UNCHANGED <<log, rows, snap, spoiled, drained, gen, proc, waived>>
    BY <1>10 DEF PollFlag
  <2>2. Sets
    BY <1>0, <2>1 DEF Early
  <2> QED  BY <1>10, <2>1, <2>2 DEF Sets
<1>11. CASE PollFinal(s, g)
  <2>1. buf[s] \in Seq(Events) /\ "unfreeze" \in PollPhases
    BY DEF PollPhases, TypeInv, BufType
  <2>2. /\ poll[s][g].pc = "final" /\ UNCHANGED <<log, rows, snap, spoiled, drained, gen, proc, waived>>
        /\ Goto(s, g, "failed") \/ Replay(s, g, buf[s], "last", "unfreeze")
    BY <1>11 DEF PollFinal, MarkReady
  <2>3. Replay(s, g, buf[s], "last", "unfreeze") =>
          \E task : SetPoll(s, g, task) /\ task.pc \in {"last", "unfreeze"}
    BY <2>1, ReplayLast
  <2>4. Sets
    BY <1>0, <1>2, <2>2, <2>3 DEF Early
  <2> QED  BY <2>2, <2>4 DEF Sets
<1>12. CASE PollUnfreeze(s, g) \/ PollCleanup(s, g)
  <2>1. /\ poll[s][g].pc \in {"unfreeze", "thaw", "failed"}
        /\ UNCHANGED <<log, rows, snap, spoiled, drained, gen, proc, waived>>
        /\ SetPoll(s, g, NoPoll) \/ Goto(s, g, "thaw")
    BY <1>12 DEF PollUnfreeze, PollCleanup, RemoveSsp, Goto
  <2>2. NoPoll.pc = "none"
    BY DEF NoPoll
  <2>3. Sets
    BY <1>0, <1>2, <2>1, <2>2 DEF Early
  <2> QED  BY <2>1, <2>3 DEF Sets
<1> QED
  BY <1>3, <1>4, <1>5, <1>6, <1>7, <1>8, <1>9, <1>10, <1>11, <1>12 DEF Poll

LEMMA EarlyKept ==
    ASSUME TypeInv, EventsFollowed, NEW s \in Ssps, NEW g \in Gens, UNCHANGED gen, Poll(s, g)
    PROVE  \A q \in Ssps : q \in inPool /\ PollOf(q)'.pc \in Early =>
             PollOf(q).pc \in Early /\ PollOf(q)'.from = PollOf(q).from
<1> SUFFICES ASSUME NEW q \in Ssps, q \in inPool, PollOf(q)'.pc \in Early
             PROVE  PollOf(q).pc \in Early /\ PollOf(q)'.from = PollOf(q).from
  OBVIOUS
<1>1. gen[q] \in Gens
  BY SyncBoundAssumption DEF EventsFollowed, Followed, Phase, TypeInv, PoolType, Gens
<1>2. PICK task : /\ SetPoll(s, g, task)
                  /\ task.pc \in Early => /\ poll[s][g].pc \in Early
                                          /\ task.from = poll[s][g].from
  BY PollSets
<1>3. /\ \A h \in Gens : poll'[s][h] = IF h = g THEN task ELSE poll[s][h]
      /\ q # s => poll'[q] = poll[q]
  BY <1>2, SetPollAt
<1> QED  BY <1>1, <1>2, <1>3 DEF PollOf

LEMMA GroundedStep == TypeInv /\ EventsFollowed /\ Grounded /\ [Next]_vars => Grounded'
<1> SUFFICES ASSUME TypeInv, EventsFollowed, Grounded, [Next]_vars PROVE Grounded'
  OBVIOUS
<1> USE DEF schedVars, memberVars, sspVars, histVars, others
<1>0. /\ TypeInv' /\ snap \in Nat /\ snap' \in Nat /\ Len(log) \in Nat
      /\ inPool \subseteq Ssps /\ state \in [Ssps -> Queues \cup {"none", "ready"}]
  BY TypeStep DEF TypeInv, SchedType, PoolType
<1>1. ASSUME UNCHANGED <<log, rows, snap, drained, spoiled, gen, poll>>, waived \subseteq waived',
             \A q \in Ssps : q \in inPool' =>
               q \in inPool /\ (state'[q] \in Active => state[q] \in Active)
      PROVE  Grounded'
  <2>1. \A q \in Ssps : PollOf(q)' = PollOf(q)
    BY <1>1 DEF PollOf
  <2> QED  BY <1>1, <2>1, GroundedKept
<1>2. CASE UNCHANGED vars
  BY <1>1, <1>2 DEF vars
<1>3. CASE \E r \in Rows : Ingest(r)
  <2>1. PICK r \in Rows : log' = Append(log, r)
    BY <1>3 DEF Ingest
  <2>2. /\ UNCHANGED <<rows, snap, drained, spoiled, inPool, state, gen, poll, waived>>
    BY <1>3 DEF Ingest
  <2>3. \A e \in 1..Len(log) : log'[e] = log[e]
    <3>1. log \in Seq(Rows)
      BY DEF TypeInv, SchedType
    <3> QED  BY <2>1, <3>1, AppendProperties
  <2>4. \A q \in Ssps : PollOf(q)' = PollOf(q)
    BY <2>2 DEF PollOf
  <2> QED  BY <2>2, <2>3, <2>4, GroundedKept
<1>4. CASE SnapshotTick
  <2>1. Drain /\ UNCHANGED <<log, spoiled, inPool, state, gen, poll, waived>>
    BY <1>4 DEF SnapshotTick
  <2>2. snap <= snap'
    BY <2>1, DrainType
  <2>3. ASSUME NEW q \in Ssps PROVE Based(q)'
    <3>1. PollOf(q)' = PollOf(q) /\ Based(q)
      BY <2>1 DEF PollOf, Grounded
    <3> QED  BY <1>0, <2>1, <2>2, <3>1, BasedKept
  <2> QED  BY <2>1, <2>3, DrainHeld DEF Grounded
<1>5. CASE FanOut
  <2>1. UNCHANGED <<log, rows, snap, drained, spoiled, gen, poll, waived, inPool>>
    BY <1>5 DEF FanOut, FanTake, FanPost, FanMark
  <2>2. \/ UNCHANGED state
        \/ \E s \in Ssps : state' = [state EXCEPT ![s] = IF state[s] = "ready" THEN "lagging" ELSE @]
    BY <1>5 DEF FanOut, FanTake, FanPost, FanMark
  <2>3. \A q \in Ssps : state'[q] \in Active => state[q] \in Active
    BY <1>0, <2>2 DEF Active
  <2> QED  BY <1>1, <2>1, <2>3
<1>6. ASSUME NEW s \in Ssps, Register(s) PROVE Grounded'
  <2>1. /\ gen[s] < MaxGen /\ inPool' = inPool \cup {s}
        /\ state' = [state EXCEPT ![s] = "bootstrapping"] /\ gen' = [gen EXCEPT ![s] = @ + 1]
        /\ SetPoll(s, gen[s] + 1, [NoPoll EXCEPT !.pc = "health", !.from = snap'])
        /\ waived' = (IF spoiled THEN waived \cup {s} ELSE waived \ {s})
        /\ UNCHANGED <<log, spoiled>> /\ (Drain \/ UNCHANGED <<rows, snap, drained>>)
    BY <1>6 DEF Register, SetPoll
  <2>2. Held' /\ snap <= snap'
    <3>1. CASE Drain
      BY <2>1, <3>1, DrainHeld, DrainType DEF Grounded
    <3>2. CASE UNCHANGED <<rows, snap, drained>>
      BY <1>0, <2>1, <3>2, HeldKept DEF Grounded
    <3> QED  BY <2>1, <3>1, <3>2
  <2> DEFINE task == [NoPoll EXCEPT !.pc = "health", !.from = snap']
  <2>3. task.from = snap'
    BY DEF NoPoll
  <2> HIDE DEF task
  <2>4. gen[s] + 1 \in Gens /\ gen'[s] = gen[s] + 1 /\ \A q \in Ssps : q # s => gen'[q] = gen[q]
    BY <2>1, SyncBoundAssumption DEF TypeInv, PoolType, Gens
  <2>5. /\ \A h \in Gens : poll'[s][h] = IF h = gen[s] + 1 THEN task ELSE poll[s][h]
        /\ \A q \in Ssps : q # s => poll'[q] = poll[q]
    BY <2>1, <2>4, SetPollAt DEF task
  <2>6. Based(s)'
    <3>1. PollOf(s)' = task
      BY <2>4, <2>5 DEF PollOf
    <3> QED  BY <1>0, <2>1, <2>3, <3>1 DEF Based
  <2>7. ASSUME NEW q \in Ssps, q # s PROVE Based(q)'
    <3>1. /\ PollOf(q)' = PollOf(q) /\ Based(q) /\ state'[q] = state[q]
          /\ (q \in inPool' => q \in inPool) /\ (q \in waived => q \in waived')
      BY <1>0, <2>1, <2>4, <2>5, <2>7 DEF PollOf, Grounded
    <3> QED  BY <1>0, <2>1, <2>2, <3>1, BasedKept
  <2> QED  BY <2>2, <2>6, <2>7 DEF Grounded
<1>7. ASSUME NEW s \in Ssps, Load(s) \/ CrashSsp(s) \/ Heartbeat(s) PROVE Grounded'
  <2>1. UNCHANGED <<log, rows, snap, drained, spoiled, gen, poll, waived, inPool, state>>
    BY <1>7 DEF Load, CrashSsp, Heartbeat
  <2> QED  BY <1>1, <2>1
<1>8. ASSUME NEW s \in Ssps, Evict(s) PROVE Grounded'
  <2>1. /\ UNCHANGED <<log, rows, snap, drained, spoiled, gen, poll, waived>>
        /\ inPool' = inPool \ {s} /\ state' = [state EXCEPT ![s] = "none"]
    BY <1>8 DEF Evict, RemoveSsp
  <2>2. \A q \in Ssps : q \in inPool' => q \in inPool /\ state'[q] = state[q]
    BY <1>0, <2>1
  <2> QED  BY <1>1, <2>1, <2>2
<1>9. ASSUME NEW s \in Ssps, Redeliver(s) PROVE Grounded'
  <2>1. UNCHANGED <<log, rows, snap, drained, spoiled, gen, poll, waived, inPool>>
    BY <1>9 DEF Redeliver, RedeliverTake, RedeliverPost, MarkReady
  <2>2. UNCHANGED state \/ state' = [state EXCEPT ![s] = "ready"]
    BY <1>9 DEF Redeliver, RedeliverTake, RedeliverPost, MarkReady
  <2>3. \A q \in Ssps : state'[q] \in Active => state[q] \in Active
    BY <1>0, <2>2 DEF Active
  <2> QED  BY <1>1, <2>1, <2>3
<1>10. ASSUME NEW s \in Ssps, NEW g \in Gens, Poll(s, g) PROVE Grounded'
  <2>1. /\ UNCHANGED <<log, drained, gen>> /\ waived \subseteq waived'
        /\ ~PollClone(s, g) => UNCHANGED <<rows, snap, spoiled>>
    BY <1>10, PollSets
  <2>2. \A q \in Ssps : q \in inPool /\ PollOf(q)'.pc \in Early =>
          PollOf(q).pc \in Early /\ PollOf(q)'.from = PollOf(q).from
    BY <1>10, <2>1, EarlyKept
  <2>3. \A q \in Ssps : q \in inPool' =>
          q \in inPool /\ (state'[q] \in Active => state[q] \in Active)
    <3>1. CASE PollMark(s, g)
      <4>1. /\ UNCHANGED inPool /\ poll[s][g].pc = "mark"
            /\ UNCHANGED state \/ (g = gen[s] /\ state' = [state EXCEPT ![s] = "replaying"])
        BY <3>1 DEF PollMark, Superseded
      <4>2. g = gen[s] /\ s \in inPool => state[s] = "bootstrapping"
        BY <4>1 DEF EventsFollowed, Followed, Phase, PollOf
      <4> QED  BY <1>0, <4>1, <4>2 DEF Active
    <3>2. CASE PollFinal(s, g)
      BY <1>0, <3>2 DEF PollFinal, MarkReady, Active
    <3>3. CASE PollCleanup(s, g)
      BY <1>0, <3>3 DEF PollCleanup, RemoveSsp, Active
    <3>4. CASE PollClone(s, g)
      BY <3>4, PollCloneCases
    <3>5. CASE PollVerify(s, g)
      BY <3>5, PollVerifyCases
    <3>6. CASE \/ PollHealth(s, g) \/ PollCollect(s, g) \/ PollDrain(s, g) \/ PollPost(s, g)
               \/ PollFlag(s, g) \/ PollUnfreeze(s, g)
      <4>1. UNCHANGED <<inPool, state>>
        BY <3>6 DEF PollHealth, PollCollect, PollDrain, PollPost, PollFlag, PollUnfreeze
      <4> QED  BY <4>1
    <3> QED  BY <1>10, <3>1, <3>2, <3>3, <3>4, <3>5, <3>6 DEF Poll
  <2>4. CASE ~PollClone(s, g)
    BY <2>1, <2>2, <2>3, <2>4, GroundedKept
  <2>5. CASE PollClone(s, g)
    <3>1. PICK n \in Nat : n = poll[s][g].from /\ n <= Len(log)
      BY PollOfType
    <3>2. UNCHANGED <<inPool, state>>
      BY <2>5, PollCloneCases
    <3>3. CASE UNCHANGED <<rows, snap, spoiled>>
      BY <2>1, <2>2, <2>3, <3>3, GroundedKept
    <3>4. CASE spoiled' = TRUE /\ Unverified \subseteq waived'
      <4>1. \A q \in Ssps : state'[q] \in Active => q \in waived'
        BY <3>2, <3>4 DEF Unverified
      <4> QED  BY <3>4, <4>1 DEF Grounded, Held, Based
    <3>5. CASE /\ spoiled' = FALSE /\ UNCHANGED waived /\ snap' = n /\ rows' \in Fetched(n)
               /\ drained <= n /\ snap <= n
      <4>1. Held'
        BY <2>1, <3>1, <3>5, CloneHeld
      <4>2. ASSUME NEW q \in Ssps PROVE Based(q)'
        <5> SUFFICES ASSUME q \in inPool, state[q] \in Active, q \notin waived,
                            PollOf(q)'.pc \in Early
                     PROVE  PollOf(q)'.from <= snap'
          BY <3>2, <3>5 DEF Based, Early
        <5>1. /\ PollOf(q).pc \in Early /\ PollOf(q)'.from = PollOf(q).from
              /\ PollOf(q).from <= snap
          BY <2>2 DEF Grounded, Based, Early
        <5>2. gen[q] \in Gens
          BY SyncBoundAssumption DEF EventsFollowed, Followed, Phase, TypeInv, PoolType, Gens
        <5>3. PollOf(q).from \in Nat
          BY <5>2, PollOfType DEF PollOf
        <5> QED  BY <1>0, <3>1, <3>5, <5>1, <5>3
      <4> QED  BY <4>1, <4>2 DEF Grounded
    <3> QED  BY <2>5, <3>1, <3>3, <3>4, <3>5, PollCloneCases
  <2> QED  BY <2>4, <2>5
<1> QED
  BY <1>2, <1>3, <1>4, <1>5, <1>6, <1>7, <1>8, <1>9, <1>10 DEF Next, Ssp

LEMMA GroundedInit == Init => Grounded
<1> SUFFICES ASSUME Init PROVE Grounded
  OBVIOUS
<1>1. drained = 0 /\ snap = 0 /\ inPool = {}
  BY DEF Init
<1> QED  BY <1>1 DEF Grounded, Held, Based, Shows

(* The three layers, which rest on each other. *)
SyncInv == TypeInv /\ EventsFollowed /\ Grounded

LEMMA SyncInvAlways == Spec => []SyncInv
<1>1. Init => SyncInv
  BY InitType, FollowedInit, GroundedInit DEF SyncInv
<1>2. SyncInv /\ [Next]_vars => SyncInv'
  BY TypeStep, FollowedStep, GroundedStep DEF SyncInv
<1> QED  BY <1>1, <1>2, PTL DEF Spec

(* An SSP on the live path shows every event fanned out so far, or a later one of its row
   (router.rs, ingest.rs, ssp_management.rs), unless it was admitted without a passed catch-up
   check, bootstrapped from a replica that a re-clone had left short of events, or was touched
   by a task of an earlier registration: for any number of SSPs, rows, registrations and
   events, any buffer and batch bound, and every fault, re-clones that fail half way too. *)
THEOREM ReadyIsCurrentAlways == Spec => []ReadyIsCurrent
<1>1. SyncInv => ReadyIsCurrent
  BY FollowedCurrent DEF SyncInv
<1> QED  BY <1>1, SyncInvAlways, PTL

-----------------------------------------------------------------------------
(* The snapshot under a bootstrapping SSP. *)

(* A re-clone is over, and the pool not flagged yet. *)
Reflagging == \E q \in Ssps, g \in Gens : poll[q][g].pc = "flagall"

LEMMA ReflaggingKept ==
    ASSUME TypeInv, NEW s \in Ssps, NEW g \in Gens, NEW task, SetPoll(s, g, task),
           poll[s][g].pc # "flagall", Reflagging
    PROVE  Reflagging'
<1>1. PICK q \in Ssps, h \in Gens : poll[q][h].pc = "flagall"
  BY DEF Reflagging
<1>2. poll'[q][h] = poll[q][h]
  BY <1>1, SetPollAt
<1> QED  BY <1>1, <1>2 DEF Reflagging

LEMMA SnapshotStep == SyncInv /\ SnapshotHeld /\ [Next]_vars => SnapshotHeld'
<1> SUFFICES ASSUME SyncInv, SnapshotHeld, [Next]_vars PROVE SnapshotHeld'
  OBVIOUS
<1> USE DEF schedVars, memberVars, sspVars, histVars, others
<1>0. /\ TypeInv /\ EventsFollowed
      /\ inPool \subseteq Ssps /\ state \in [Ssps -> Queues \cup {"none", "ready"}]
      /\ bootSeq \in [Ssps -> 0..MaxSeq] /\ proc \in [Ssps -> {"down", "loading", "up"}]
  BY DEF SyncInv, TypeInv, PoolType, SspType
<1> DEFINE Kept(q) ==
      /\ q \in inPool /\ proc[q] = "loading" /\ state[q] = "bootstrapping"
      /\ bootSeq'[q] = bootSeq[q] /\ (q \in resync => q \in resync') /\ (q \in waived => q \in waived')
<1>1. ASSUME UNCHANGED snap, Reflagging => Reflagging',
             \A q \in inPool' : proc'[q] = "loading" /\ state'[q] = "bootstrapping" => Kept(q)
      PROVE  SnapshotHeld'
  BY <1>1 DEF SnapshotHeld, Reflagging
<1>2. ASSUME UNCHANGED <<snap, inPool, proc, state, bootSeq, resync, waived, poll>>
      PROVE  SnapshotHeld'
  BY <1>1, <1>2 DEF Reflagging
<1>3. CASE UNCHANGED vars
  BY <1>2, <1>3 DEF vars
<1>4. CASE \E r \in Rows : Ingest(r)
  BY <1>2, <1>4 DEF Ingest
<1>5. CASE SnapshotTick
  BY <1>0, <1>5 DEF SnapshotTick, SnapshotHeld, HasActive, Active
<1>6. CASE FanOut
  <2>1. UNCHANGED <<snap, inPool, proc, bootSeq, resync, waived, poll>>
    BY <1>6 DEF FanOut, FanTake, FanPost, FanMark
  <2>2. \/ UNCHANGED state
        \/ \E s \in Ssps : state' = [state EXCEPT ![s] = IF state[s] = "ready" THEN "lagging" ELSE @]
    BY <1>6 DEF FanOut, FanTake, FanPost, FanMark
  <2>3. \A q \in Ssps : state'[q] = "bootstrapping" => state[q] = "bootstrapping"
    BY <1>0, <2>2
  <2> QED  BY <1>0, <1>1, <2>1, <2>3 DEF Reflagging
<1>7. ASSUME NEW s \in Ssps, Register(s) PROVE SnapshotHeld'
  <2>1. /\ inPool' = inPool \cup {s} /\ state' = [state EXCEPT ![s] = "bootstrapping"]
        /\ bootSeq' = [bootSeq EXCEPT ![s] = snap'] /\ proc' = [proc EXCEPT ![s] = "loading"]
        /\ UNCHANGED resync /\ (\A q \in waived : q # s => q \in waived')
        /\ ~SiblingActive(s) \/ UNCHANGED snap
        /\ gen[s] < MaxGen
        /\ SetPoll(s, gen[s] + 1, [NoPoll EXCEPT !.pc = "health", !.from = snap'])
    BY <1>7 DEF Register, SetPoll
  <2>2. bootSeq'[s] = snap'
    BY <1>0, <2>1
  <2>3. Reflagging => Reflagging'
    <3>1. gen[s] + 1 \in Gens /\ gen[s] + 1 > gen[s]
      BY <1>0, <2>1, SyncBoundAssumption DEF TypeInv, PoolType, Gens
    <3>2. poll[s][gen[s] + 1].pc = "none"
      BY <1>0, <3>1 DEF EventsFollowed, Followed, Past
    <3> QED  BY <1>0, <2>1, <3>1, <3>2, ReflaggingKept
  <2>4. ASSUME NEW q \in inPool, q # s, proc[q] = "loading", state[q] = "bootstrapping"
        PROVE  snap' = bootSeq[q] \/ q \in resync \/ q \in waived' \/ Reflagging'
    <3>1. q \in Ssps /\ [state EXCEPT ![s] = "none"][q] \in Active
      BY <1>0, <2>4 DEF Active
    <3>2. SiblingActive(s)
      BY <3>1 DEF SiblingActive, HasActive
    <3>3. snap = bootSeq[q] \/ q \in resync \/ q \in waived \/ Reflagging
      BY <2>4 DEF SnapshotHeld, Reflagging
    <3> QED  BY <2>1, <2>3, <2>4, <3>2, <3>3
  <2>5. ASSUME NEW q \in inPool', proc'[q] = "loading", state'[q] = "bootstrapping"
        PROVE  snap' = bootSeq'[q] \/ q \in resync' \/ q \in waived' \/ Reflagging'
    <3>1. CASE q = s  BY <2>2, <3>1
    <3>2. CASE q # s
      <4>1. q \in inPool /\ proc[q] = "loading" /\ state[q] = "bootstrapping" /\ bootSeq'[q] = bootSeq[q]
        BY <1>0, <2>1, <2>5, <3>2
      <4> QED  BY <2>1, <2>4, <3>2, <4>1
    <3> QED  BY <3>1, <3>2
  <2> QED  BY <2>5 DEF SnapshotHeld, Reflagging
<1>8. ASSUME NEW s \in Ssps, Load(s) \/ CrashSsp(s) PROVE SnapshotHeld'
  <2>1. /\ UNCHANGED <<snap, inPool, state, bootSeq, resync, waived, poll>>
        /\ \E p \in {"up", "down"} : proc' = [proc EXCEPT ![s] = p]
    BY <1>8 DEF Load, CrashSsp
  <2>2. \A q \in Ssps : proc'[q] = "loading" => proc[q] = "loading"
    BY <1>0, <2>1
  <2> QED  BY <1>0, <1>1, <2>1, <2>2 DEF Reflagging
<1>9. ASSUME NEW s \in Ssps, Heartbeat(s) PROVE SnapshotHeld'
  <2>1. /\ UNCHANGED <<snap, inPool, state, bootSeq, waived, poll>> /\ proc[s] = "up"
        /\ UNCHANGED proc \/ proc' = [proc EXCEPT ![s] = "down"]
        /\ resync' = IF s \in inPool THEN resync \ {s} ELSE resync
    BY <1>9 DEF Heartbeat, Answers
  <2>2. ASSUME NEW q \in inPool, proc'[q] = "loading" PROVE q # s /\ proc[q] = "loading"
    BY <1>0, <2>1, <2>2
  <2> QED  BY <1>1, <2>1, <2>2 DEF Reflagging
<1>10. ASSUME NEW s \in Ssps, RemoveSsp(s), UNCHANGED <<snap, proc, waived>>,
              Reflagging => Reflagging'
       PROVE  SnapshotHeld'
  <2>1. /\ inPool' = inPool \ {s} /\ state' = [state EXCEPT ![s] = "none"]
        /\ resync' = resync \ {s} /\ bootSeq' = [bootSeq EXCEPT ![s] = 0]
    BY <1>10 DEF RemoveSsp
  <2>2. \A q \in inPool' : /\ q \in inPool /\ q # s /\ state'[q] = state[q]
                           /\ bootSeq'[q] = bootSeq[q]
    BY <1>0, <2>1
  <2> QED  BY <1>1, <1>10, <2>1, <2>2
<1>11. ASSUME NEW s \in Ssps, MarkReady(s), UNCHANGED <<snap, proc, waived>>,
              Reflagging => Reflagging'
       PROVE  SnapshotHeld'
  <2>1. /\ state' = [state EXCEPT ![s] = "ready"] /\ UNCHANGED <<inPool, resync, bootSeq>>
    BY <1>11 DEF MarkReady
  <2>2. \A q \in Ssps : state'[q] = "bootstrapping" => state[q] = "bootstrapping"
    BY <1>0, <2>1
  <2> QED  BY <1>0, <1>1, <1>11, <2>1, <2>2
<1>12. ASSUME NEW s \in Ssps, Redeliver(s) PROVE SnapshotHeld'
  <2>1. UNCHANGED <<snap, proc, waived, poll>> /\ (MarkReady(s) \/ UNCHANGED memberVars)
    BY <1>12 DEF Redeliver, RedeliverTake, RedeliverPost
  <2> QED  BY <2>1, <1>2, <1>11 DEF Reflagging
<1>13. ASSUME NEW s \in Ssps, Evict(s) PROVE SnapshotHeld'
  BY <1>13, <1>10 DEF Evict, Reflagging
<1>14. ASSUME NEW s \in Ssps, NEW g \in Gens, Poll(s, g) PROVE SnapshotHeld'
  <2>1. /\ UNCHANGED proc /\ waived \subseteq waived'
        /\ ~PollClone(s, g) => UNCHANGED snap
        /\ ~PollFlag(s, g) => poll[s][g].pc # "flagall"
    BY <1>0, <1>14, PollSets
  <2>2. PICK task : SetPoll(s, g, task)
    BY <1>0, <1>14, PollSets
  <2>3. ~PollFlag(s, g) => (Reflagging => Reflagging')
    BY <1>0, <2>1, <2>2, ReflaggingKept
  <2>4. CASE \/ PollHealth(s, g) \/ PollCollect(s, g) \/ PollDrain(s, g) \/ PollVerify(s, g)
             \/ PollUnfreeze(s, g) \/ PollPost(s, g)
    <3>1. /\ UNCHANGED <<snap, inPool, state, bootSeq>> /\ resync \subseteq resync'
          /\ poll[s][g].pc \notin {"clone", "flag", "flagall"}
      BY <2>4 DEF PollHealth, PollCollect, PollDrain, PollVerify, PollUnfreeze, PollPost, AfterReplay
    <3>2. ~PollFlag(s, g)
      BY <3>1 DEF PollFlag
    <3> QED  BY <1>1, <2>1, <2>3, <3>1, <3>2
  <2>5. CASE PollMark(s, g)
    <3>1. /\ UNCHANGED <<snap, inPool, bootSeq, resync>> /\ poll[s][g].pc = "mark"
          /\ UNCHANGED state \/ state' = [state EXCEPT ![s] = "replaying"]
      BY <2>5 DEF PollMark
    <3>2. ~PollFlag(s, g) /\ \A q \in Ssps : state'[q] = "bootstrapping" => state[q] = "bootstrapping"
      BY <1>0, <3>1 DEF PollFlag
    <3> QED  BY <1>0, <1>1, <2>1, <2>3, <3>1, <3>2
  <2>6. CASE PollClone(s, g)
    <3>1. /\ UNCHANGED <<inPool, state, bootSeq, resync>> /\ poll[s][g].pc = "clone"
          /\ Goto(s, g, "flagall") \/ UNCHANGED snap \/ Unverified \subseteq waived'
      BY <1>0, <2>6, PollCloneCases
    <3>2. CASE Goto(s, g, "flagall")
      <4>1. poll'[s][g].pc = "flagall"
        <5> DEFINE new == [NoPoll EXCEPT !.pc = "flagall"]
        <5>1. new.pc = "flagall" /\ SetPoll(s, g, new)
          BY <3>2, GotoEnded DEF Goto
        <5> HIDE DEF new
        <5> QED  BY <1>0, <5>1, SetPollAt
      <4> QED  BY <4>1 DEF SnapshotHeld
    <3>3. CASE UNCHANGED snap
      <4>1. ~PollFlag(s, g)
        BY <3>1 DEF PollFlag
      <4> QED  BY <1>1, <2>1, <2>3, <3>1, <3>3, <4>1
    <3>4. CASE Unverified \subseteq waived'
      <4>1. \A q \in inPool' : state'[q] = "bootstrapping" => q \in waived'
        BY <1>0, <3>1, <3>4 DEF Unverified, Active
      <4> QED  BY <4>1 DEF SnapshotHeld
    <3> QED  BY <3>1, <3>2, <3>3, <3>4
  <2>7. CASE PollFlag(s, g)
    <3>1. /\ UNCHANGED <<snap, inPool, state, bootSeq, waived>>
          /\ poll[s][g].pc \in {"flag", "flagall"} /\ resync' = resync \cup Flagged(s, g)
      BY <2>7 DEF PollFlag
    <3>2. CASE poll[s][g].pc = "flagall"
      <4>1. inPool' \subseteq resync'
        BY <3>1, <3>2 DEF Flagged
      <4> QED  BY <4>1 DEF SnapshotHeld
    <3>3. CASE poll[s][g].pc # "flagall"
      BY <1>0, <1>1, <2>1, <2>2, <3>1, <3>3, ReflaggingKept
    <3> QED  BY <3>2, <3>3
  <2>8. CASE PollFinal(s, g) \/ PollCleanup(s, g)
    <3>1. /\ UNCHANGED <<snap, proc, waived>> /\ poll[s][g].pc \in {"final", "failed"}
          /\ MarkReady(s) \/ RemoveSsp(s) \/ UNCHANGED memberVars
      BY <2>8 DEF PollFinal, PollCleanup
    <3>2. Reflagging => Reflagging'
      BY <2>3, <3>1 DEF PollFlag
    <3> QED  BY <1>1, <1>10, <1>11, <3>1, <3>2
  <2> QED  BY <1>14, <2>4, <2>5, <2>6, <2>7, <2>8 DEF Poll
<1> QED
  BY <1>3, <1>4, <1>5, <1>6, <1>7, <1>8, <1>9, <1>12, <1>13, <1>14 DEF Next, Ssp

(* An SSP that pages the replica in finds the one its registration was answered with: neither
   the snapshot updater nor a sibling's registration drains the replica underneath it.  A
   re-clone does replace it; then the SSP is flagged, or the task that re-cloned is about to
   flag the whole pool, or the re-clone failed after its reset and the registration is waived.
   Every fault is allowed. *)
THEOREM SnapshotHeldAlways == Spec => []SnapshotHeld
<1>1. Init => SnapshotHeld
  BY DEF Init, SnapshotHeld
<1>2. SyncInv /\ SnapshotHeld /\ [Next]_vars => SnapshotHeld'
  BY SnapshotStep
<1> QED  BY <1>1, <1>2, SyncInvAlways, PTL DEF Spec
=============================================================================
