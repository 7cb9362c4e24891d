--------------------------- MODULE EventWalProofs ---------------------------
(***************************************************************************)
(* The segment files implement the durable log, for any number of seqs,    *)
(* any segment size and any sequence of appends, failed writes, refused    *)
(* unlinks, truncations, crashes and restarts, as long as a failed         *)
(* write_all leaves nothing of its frame behind.                           *)
(*                                                                         *)
(* AcknowledgedIsRecoverable is not inductive: that a truncation unlinks   *)
(* nothing newer than its bound needs what max_seq of a segment means      *)
(* (Bounded), that a recovery finds a frame needs its file to be tracked   *)
(* (Tracked) by exactly one segment (Distinct), and that an appended frame *)
(* is readable needs an active file without a torn frame (ActiveIntact).   *)
(***************************************************************************)
EXTENDS EventWal, FiniteSetTheorems, SequenceTheorems, WellFoundedInduction, TLAPS

-----------------------------------------------------------------------------
(* A nonempty set of bounded naturals has the maximum that MaxOf chooses. *)
LEMMA MaxOfBounded ==
    ASSUME NEW N \in Nat, NEW S, S \subseteq 0..N, S # {}
    PROVE  /\ MaxOf(S) \in S
           /\ \A n \in S : n <= MaxOf(S)
<1> DEFINE T == {k \in Nat : k <= N /\ N - k \in S}
<1>1. PICK s \in S : TRUE
  OBVIOUS
<1>2. T \subseteq Nat /\ N - s \in T
  BY <1>1
<1>3. \E x \in T : \A y \in T : ~ (<<y, x>> \in OpToRel(<, Nat))
  BY <1>2, WFMin, NatLessThanWellFounded
<1>4. PICK x \in T : \A y \in T : ~ (<<y, x>> \in OpToRel(<, Nat))
  BY <1>3
<1>5. \A y \in T : x <= y
  <2> SUFFICES ASSUME NEW y \in T, y < x PROVE FALSE
    OBVIOUS
  <2>1. <<y, x>> \in OpToRel(<, Nat)
    BY Zenon DEF OpToRel
  <2> QED
    BY <2>1, <1>4
<1>6. ASSUME NEW n \in S PROVE n <= N - x
  <2>1. N - n \in T
    OBVIOUS
  <2>2. x <= N - n
    BY <2>1, <1>5
  <2> QED
    BY <2>2
<1>7. \E m \in S : \A n \in S : n <= m
  BY <1>6
<1> QED
  BY <1>7 DEF MaxOf

(* scan_segment never reads a torn frame. *)
LEMMA ScanType ==
    ASSUME NEW f \in Seq(0..MaxSeq)
    PROVE  /\ Scan(f) \subseteq Seqs
           /\ IsFiniteSet(Scan(f)) /\ Cardinality(Scan(f)) \in 0..MaxSeq
<1>1. Scan(f) \subseteq Seqs
  <2> SUFFICES ASSUME NEW j \in DOMAIN f, \A h \in 1..j : f[h] # Torn
               PROVE  f[j] \in Seqs
    BY DEF Scan
  <2>1. j \in 1..Len(f) /\ Len(f) \in Nat
    BY MaxSeqAssumption
  <2>2. f[j] \in 0..MaxSeq
    BY <2>1, ElementOfSeq
  <2>3. j \in 1..j
    BY <2>1
  <2> QED
    BY <2>2, <2>3, MaxSeqAssumption DEF Seqs, Torn
<1>2. IsFiniteSet(Seqs) /\ Cardinality(Seqs) = MaxSeq
  BY FS_Interval, MaxSeqAssumption DEF Seqs
<1>3. IsFiniteSet(Scan(f)) /\ Cardinality(Scan(f)) <= Cardinality(Seqs)
  BY <1>1, <1>2, FS_Subset
<1>4. Cardinality(Scan(f)) \in Nat
  BY <1>3, FS_CardinalityType
<1> QED
  BY <1>1, <1>2, <1>3, <1>4, MaxSeqAssumption

(* A torn tail hides nothing that was readable, and reads as nothing. *)
LEMMA ScanTorn ==
    ASSUME NEW f \in Seq(0..MaxSeq)
    PROVE  Scan(Append(f, Torn)) = Scan(f)
<1> DEFINE g == Append(f, Torn)
<1>1. DOMAIN g = 1..Len(f) + 1 /\ DOMAIN f = 1..Len(f) /\ Len(f) \in Nat
  BY MaxSeqAssumption DEF Torn
<1>2. g[Len(f) + 1] = Torn /\ \A i \in 1..Len(f) : g[i] = f[i]
  BY MaxSeqAssumption DEF Torn
<1> HIDE DEF g
<1>3. {j \in DOMAIN g : \A h \in 1..j : g[h] # Torn}
        = {j \in DOMAIN f : \A h \in 1..j : f[h] # Torn}
  <2>1. ASSUME NEW j \in 1..Len(f) + 1, \A h \in 1..j : g[h] # Torn
        PROVE  j \in 1..Len(f) /\ \A h \in 1..j : f[h] # Torn
    <3>1. j # Len(f) + 1
      BY <1>1, <1>2, <2>1
    <3> QED
      BY <1>1, <1>2, <2>1, <3>1
  <2>2. ASSUME NEW j \in 1..Len(f), \A h \in 1..j : f[h] # Torn
        PROVE  j \in 1..Len(f) + 1 /\ \A h \in 1..j : g[h] # Torn
    BY <1>1, <1>2, <2>2
  <2> QED
    BY <1>1, <2>1, <2>2
<1> QED
  BY <1>1, <1>2, <1>3 DEF Scan, g

(* A whole frame behind intact ones is readable, and so are they still. *)
LEMMA ScanAppend ==
    ASSUME NEW f \in Seq(0..MaxSeq), NEW n \in Seqs,
           \A i \in DOMAIN f : f[i] # Torn
    PROVE  /\ Scan(Append(f, n)) = Scan(f) \cup {n}
           /\ \A i \in DOMAIN Append(f, n) : Append(f, n)[i] # Torn
<1> DEFINE g == Append(f, n)
<1>1. DOMAIN g = 1..Len(f) + 1 /\ DOMAIN f = 1..Len(f) /\ Len(f) \in Nat
  BY MaxSeqAssumption DEF Seqs
<1>2. g[Len(f) + 1] = n /\ \A i \in 1..Len(f) : g[i] = f[i]
  BY MaxSeqAssumption DEF Seqs
<1> HIDE DEF g
<1>3. n # Torn
  BY MaxSeqAssumption DEF Seqs, Torn
<1>4. \A i \in DOMAIN g : g[i] # Torn
  BY <1>1, <1>2, <1>3
<1>5. Scan(g) = {g[i] : i \in DOMAIN g}
  BY <1>1, <1>4 DEF Scan
<1>6. Scan(f) = {f[i] : i \in DOMAIN f}
  BY <1>1 DEF Scan
<1>7. {g[i] : i \in DOMAIN g} = {f[i] : i \in DOMAIN f} \cup {n}
  BY <1>1, <1>2
<1> QED
  BY <1>4, <1>5, <1>6, <1>7 DEF g

-----------------------------------------------------------------------------
(* Type correctness, whatever a failed write leaves behind.  The events of the *)
(* active segment are bounded by the appends this process was asked for.       *)

TypeInv == TypeOK /\ active.events <= Cardinality(tried)

LEMMA SegmentFields ==
    ASSUME NEW s \in Segment
    PROVE  s # NoSegment /\ s.path \in Seqs /\ s.maxSeq \in 0..MaxSeq /\ s.events \in 0..MaxSeq
BY MaxSeqAssumption DEF Segment, NoSegment, Seqs

LEMMA CloseType ==
    ASSUME TypeOK
    PROVE  /\ ClosedAfterClose \subseteq Segment
           /\ DOMAIN DiskAfterClose \subseteq DOMAIN disk
           /\ \A p \in DOMAIN DiskAfterClose : DiskAfterClose[p] = disk[p]
<1>1. active.events > 0 => active \in Segment
  BY DEF TypeOK, NoSegment
<1>2. ClosedAfterClose \subseteq Segment
  BY <1>1 DEF TypeOK, ClosedAfterClose
<1> QED
  BY <1>2 DEF DiskAfterClose, Remove

LEMMA TargetType ==
    ASSUME TypeOK, NEW n \in Seqs
    PROVE  /\ Target(n).segment \in Segment
           /\ Target(n).segment.events <= active.events
           /\ Target(n).closed \subseteq Segment
           /\ DOMAIN Target(n).files \subseteq Seqs
           /\ \A p \in DOMAIN Target(n).files : Target(n).files[p] \in Seq(0..MaxSeq)
<1>1. active.events \in 0..MaxSeq
  BY SegmentFields, MaxSeqAssumption DEF TypeOK, NoSegment
<1>2. CASE Rotates
  <2>1. [path |-> n, maxSeq |-> 0, events |-> 0] \in Segment
    BY MaxSeqAssumption DEF Segment
  <2>2. DOMAIN DiskAfterClose \cup {n} \subseteq Seqs
    BY CloseType DEF TypeOK
  <2>3. \A p \in DOMAIN DiskAfterClose : DiskAfterClose[p] \in Seq(0..MaxSeq)
    BY CloseType DEF TypeOK
  <2> QED
    <3>1. Target(n) = OpenSegment(n)
      BY <1>2 DEF Target
    <3>2. Target(n).segment = [path |-> n, maxSeq |-> 0, events |-> 0]
      BY <3>1 DEF OpenSegment
    <3>3. Target(n).closed = ClosedAfterClose
      BY <3>1 DEF OpenSegment
    <3>4. Target(n).files = [p \in DOMAIN DiskAfterClose \cup {n} |->
                               IF p = n THEN <<>> ELSE DiskAfterClose[p]]
      BY <3>1 DEF OpenSegment
    <3>5. 0 <= active.events /\ <<>> \in Seq(0..MaxSeq)
      BY <1>1, MaxSeqAssumption
    <3> QED
      <4>1. Target(n).segment \in Segment /\ Target(n).segment.events <= active.events
        BY <2>1, <3>2, <3>5
      <4>2. Target(n).closed \subseteq Segment
        BY <3>3, CloseType
      <4>3. DOMAIN Target(n).files \subseteq Seqs
        BY <2>2, <3>4
      <4>4. \A p \in DOMAIN Target(n).files : Target(n).files[p] \in Seq(0..MaxSeq)
        BY <2>3, <3>4, <3>5
      <4> QED
        BY <4>1, <4>2, <4>3, <4>4
<1>3. CASE ~Rotates
  BY <1>1, <1>3, MaxSeqAssumption DEF TypeOK, Target, Rotates
<1> QED
  BY <1>2, <1>3

LEMMA WithFrameType ==
    ASSUME NEW d, NEW p, NEW frame \in 0..MaxSeq,
           DOMAIN d \subseteq Seqs, \A q \in DOMAIN d : d[q] \in Seq(0..MaxSeq)
    PROVE  /\ DOMAIN WithFrame(d, p, frame) = DOMAIN d
           /\ \A q \in DOMAIN d : WithFrame(d, p, frame)[q] \in Seq(0..MaxSeq)
<1>1. DOMAIN WithFrame(d, p, frame) = DOMAIN d
  BY DEF WithFrame
<1>2. ASSUME NEW q \in DOMAIN d PROVE WithFrame(d, p, frame)[q] \in Seq(0..MaxSeq)
  <2>1. d[q] \in Seq(0..MaxSeq) /\ Append(d[q], frame) \in Seq(0..MaxSeq)
    BY AppendProperties
  <2>2. WithFrame(d, p, frame)[q] = IF q = p THEN Append(d[q], frame) ELSE d[q]
    BY DEF WithFrame
  <2> QED
    BY <2>1, <2>2
<1> QED
  BY <1>1, <1>2

LEMMA TypeStep ==
    TypeInv /\ [Next]_vars => TypeInv'
<1> SUFFICES ASSUME TypeInv, [Next]_vars PROVE TypeInv'
  OBVIOUS
<1>t. TypeOK
  BY DEF TypeInv
<1>s. IsFiniteSet(Seqs) /\ Cardinality(Seqs) = MaxSeq
  BY FS_Interval, MaxSeqAssumption DEF Seqs
<1>c. IsFiniteSet(tried) /\ Cardinality(tried) \in 0..MaxSeq
  BY <1>s, <1>t, FS_Subset, FS_CardinalityType, MaxSeqAssumption DEF TypeOK
<1>a. ASSUME NEW n \in Seqs, Attempt(n)
      PROVE  /\ (open \in BOOLEAN /\ retiredUpTo \in 0..MaxSeq /\ floor \in 0..MaxSeq
                  /\ covered \in 0..MaxSeq /\ tried \subseteq Seqs)'
             /\ Cardinality(tried') = Cardinality(tried) + 1
             /\ Cardinality(tried') \in 0..MaxSeq
  <2>1. tried' \subseteq Seqs
    BY <1>t, <1>a DEF Attempt, TypeOK
  <2>2. Cardinality(tried') = Cardinality(tried) + 1
    BY <1>c, <1>a, FS_AddElement DEF Attempt
  <2>3. Cardinality(tried') <= MaxSeq
    BY <2>1, <1>s, FS_Subset
  <2> QED
    BY <2>1, <2>2, <2>3, <1>c, <1>t, <1>a, MaxSeqAssumption DEF Attempt, TypeOK
<1>e. active.events \in 0..MaxSeq
  BY <1>t, SegmentFields, MaxSeqAssumption DEF TypeOK, NoSegment
<1>1. ASSUME NEW n \in Seqs, AppendOk(n) PROVE TypeInv'
  <2> DEFINE t == Target(n)
  <2>1. t.segment \in Segment /\ t.segment.events <= active.events
    BY <1>t, TargetType
  <2> HIDE DEF t
  <2>2. n \in 0..MaxSeq /\ Max2(t.segment.maxSeq, n) \in 0..MaxSeq
    BY <2>1, SegmentFields, MaxSeqAssumption DEF Max2, Seqs
  <2>3. t.segment.events + 1 <= Cardinality(tried') /\ t.segment.events + 1 \in 0..MaxSeq
    BY <2>1, SegmentFields, <1>1, <1>a, <1>c, <1>e, MaxSeqAssumption DEF TypeInv, AppendOk
  <2>4. active' = [t.segment EXCEPT !.events = @ + 1, !.maxSeq = Max2(@, n)]
    BY <1>1 DEF AppendOk, t
  <2>5. active' \in Segment /\ active'.events = t.segment.events + 1
    BY <2>1, <2>2, <2>3, <2>4 DEF Segment
  <2>6. DOMAIN disk' \subseteq Seqs /\ \A p \in DOMAIN disk' : disk'[p] \in Seq(0..MaxSeq)
    BY <1>1, <1>t, <2>2, TargetType, WithFrameType DEF AppendOk
  <2>7. closed' \subseteq Segment /\ owed' \subseteq Seqs
    BY <1>1, <1>t, TargetType DEF AppendOk, TypeOK
  <2> QED
    BY <2>3, <2>5, <2>6, <2>7, <1>1, <1>a DEF TypeInv, TypeOK, AppendOk
<1>2. ASSUME NEW n \in Seqs, AppendFails(n) PROVE TypeInv'
  <2>1. active' \in Segment /\ active'.events <= active.events
    BY <1>2, <1>t, TargetType DEF AppendFails
  <2>2. active'.events <= Cardinality(tried')
    BY <2>1, SegmentFields, <1>2, <1>a, <1>c, <1>e, MaxSeqAssumption DEF TypeInv, AppendFails
  <2>3. DOMAIN disk' \subseteq Seqs /\ \A p \in DOMAIN disk' : disk'[p] \in Seq(0..MaxSeq)
    BY <1>2, <1>t, TargetType, WithFrameType, MaxSeqAssumption DEF AppendFails, Torn
  <2>4. closed' \subseteq Segment /\ owed' \subseteq Seqs
    BY <1>2, <1>t, TargetType DEF AppendFails, TypeOK
  <2> QED
    BY <2>1, <2>2, <2>3, <2>4, <1>2, <1>a DEF TypeInv, TypeOK, AppendFails
<1>3. ASSUME NEW n \in Seqs, AppendCannotOpen(n) PROVE TypeInv'
  <2>1. closed' \subseteq Segment /\ DOMAIN disk' \subseteq Seqs
        /\ \A p \in DOMAIN disk' : disk'[p] \in Seq(0..MaxSeq)
    BY <1>3, <1>t, CloseType DEF AppendCannotOpen, TypeOK
  <2>2. active' = NoSegment /\ active'.events <= Cardinality(tried')
    BY <1>3, <1>a, MaxSeqAssumption DEF AppendCannotOpen, NoSegment
  <2> QED
    BY <2>1, <2>2, <1>t, <1>3, <1>a DEF TypeInv, TypeOK, AppendCannotOpen
<1>4. ASSUME NEW u \in Seqs, Truncate(u) PROVE TypeInv'
  <2>1. closed' \subseteq Segment /\ DOMAIN disk' \subseteq Seqs
        /\ \A p \in DOMAIN disk' : disk'[p] \in Seq(0..MaxSeq)
    BY <1>4, <1>t, CloseType DEF Truncate, TypeOK, Remove, Covered
  <2>2. active' = NoSegment /\ active'.events <= Cardinality(tried')
    BY <1>4, <1>c, MaxSeqAssumption DEF Truncate, NoSegment
  <2>3. retiredUpTo' \in 0..MaxSeq /\ covered' \in 0..MaxSeq /\ owed' \subseteq Seqs
    <3>1. retiredUpTo \in 0..MaxSeq /\ covered \in 0..MaxSeq /\ u \in 1..MaxSeq
      BY <1>t DEF TypeOK, Seqs
    <3>2. Max2(retiredUpTo, u) \in 0..MaxSeq /\ Max2(covered, u) \in 0..MaxSeq
      BY <3>1, MaxSeqAssumption DEF Max2
    <3> QED
      BY <3>2, <1>4, <1>t DEF Truncate, Mark, TypeOK
  <2> QED
    BY <2>1, <2>2, <2>3, <1>t, <1>4 DEF TypeInv, TypeOK, Truncate
<1>5. CASE Crash
  <2>1. DOMAIN disk' \subseteq Seqs /\ \A p \in DOMAIN disk' : disk'[p] \in Seq(0..MaxSeq)
    BY <1>5, <1>t, WithFrameType, MaxSeqAssumption DEF Crash, Torn, TypeOK
  <2>2. Cardinality(tried') = 0
    BY <1>5, FS_EmptySet DEF Crash
  <2> QED
    <3>1. active' = NoSegment /\ active'.events = 0
      BY <1>5 DEF Crash, NoSegment
    <3>2. TypeOK'
      <4>0. open' \in BOOLEAN /\ retiredUpTo' = 0
        BY <1>5, Zenon DEF Crash
      <4>1. closed' \subseteq Segment /\ retiredUpTo' \in 0..MaxSeq /\ tried' \subseteq Seqs
        BY <4>0, <1>5, MaxSeqAssumption DEF Crash
      <4>2. floor' \in 0..MaxSeq /\ covered' \in 0..MaxSeq /\ owed' \subseteq Seqs
        BY <1>5, <1>t DEF Crash, TypeOK
      <4> QED
        BY <2>1, <3>1, <4>0, <4>1, <4>2 DEF TypeOK
    <3> QED
      BY <2>2, <3>1, <3>2 DEF TypeInv
<1>6. CASE Reopen
  <2> DEFINE intact == {p \in DOMAIN disk : Scan(disk[p]) # {}}
  <2>1. ASSUME NEW p \in intact
        PROVE  [path |-> p, maxSeq |-> MaxOf(Scan(disk[p])),
                events |-> Cardinality(Scan(disk[p]))] \in Segment
    <3>1. disk[p] \in Seq(0..MaxSeq) /\ Scan(disk[p]) # {} /\ p \in Seqs
      BY <1>t DEF TypeOK
    <3>2. Scan(disk[p]) \subseteq 0..MaxSeq /\ Cardinality(Scan(disk[p])) \in 0..MaxSeq
      BY <3>1, ScanType, MaxSeqAssumption DEF Seqs
    <3>3. MaxOf(Scan(disk[p])) \in 0..MaxSeq
      BY <3>1, <3>2, MaxOfBounded, MaxSeqAssumption
    <3> QED
      BY <3>1, <3>2, <3>3 DEF Segment
  <2>2. OnDisk \cup {covered} \subseteq 0..MaxSeq
    BY <1>t, ScanType, MaxSeqAssumption DEF OnDisk, TypeOK, Seqs
  <2>3. floor' \in 0..MaxSeq
    BY <1>6, <2>2, MaxOfBounded, MaxSeqAssumption DEF Reopen
  <2>4. closed' \subseteq Segment
    BY <1>6, <2>1 DEF Reopen
  <2>5. DOMAIN disk' \subseteq Seqs /\ \A p \in DOMAIN disk' : disk'[p] \in Seq(0..MaxSeq)
    BY <1>6, <1>t DEF Reopen, Remove, TypeOK
  <2> QED
    BY <2>3, <2>4, <2>5, <1>t, <1>6 DEF TypeInv, TypeOK, Reopen
<1>7. CASE UNCHANGED vars
  BY <1>7 DEF TypeInv, TypeOK, vars
<1> QED
  BY <1>1, <1>2, <1>3, <1>4, <1>5, <1>6, <1>7 DEF Next

(* Every reachable state of the log is well typed: whatever is appended, fails, is truncated or
   is found torn at a restart, the files hold seqs or torn frames and the counters of every
   tracked segment stay in range (EventWal::append, truncate, scan_dir). *)
THEOREM TypeCorrect ==
    Spec => []TypeOK
<1>1. Init => TypeInv
  BY FS_EmptySet, MaxSeqAssumption DEF Init, TypeInv, TypeOK, NoSegment
<1>2. TypeInv => TypeOK
  BY DEF TypeInv
<1> QED
  BY <1>1, <1>2, TypeStep, PTL DEF Spec

-----------------------------------------------------------------------------
(* The inductive invariant, on files d, closed segments c and an active segment a. *)

FramesIn(d) == UNION {Scan(d[p]) : p \in DOMAIN d}

(* max_seq of a closed segment bounds what its file holds, and no two share a file. *)
Bounded(d, c) ==
    \A s \in c : s.path \in DOMAIN d /\ \A n \in Scan(d[s.path]) : n <= s.maxSeq
Distinct(c) == \A s, t \in c : s.path = t.path => s = t

(* A file a recovery could read something from belongs to a segment. *)
Tracked(d, segments) ==
    \A p \in DOMAIN d : Scan(d[p]) # {} => \E s \in segments : s.path = p

(* The active file is a segment's own, without a torn frame, and empty if no event counts. *)
ActiveIntact(d, c, a) ==
    /\ a.path \in DOMAIN d /\ \A s \in c : s.path # a.path
    /\ \A i \in DOMAIN d[a.path] : d[a.path][i] # Torn
    /\ \A n \in Scan(d[a.path]) : n <= a.maxSeq
    /\ a.events = 0 => d[a.path] = <<>>

Inv ==
    /\ TypeOK
    /\ Bounded(disk, closed) /\ Distinct(closed)
    /\ active # NoSegment => ActiveIntact(disk, closed, active)
    /\ open => Tracked(disk, closed \cup ({active} \ {NoSegment}))
    /\ ~open => closed = {} /\ active = NoSegment
    /\ owed \subseteq OnDisk

LEMMA ScanEmpty == Scan(<<>>) = {}
BY DEF Scan

LEMMA CloseFacts ==
    ASSUME Inv, open
    PROVE  /\ Bounded(DiskAfterClose, ClosedAfterClose) /\ Distinct(ClosedAfterClose)
           /\ Tracked(DiskAfterClose, ClosedAfterClose)
           /\ FramesIn(DiskAfterClose) = OnDisk
<1>1. CASE active = NoSegment
  <2>1. DiskAfterClose = disk /\ ClosedAfterClose = closed
    BY <1>1 DEF DiskAfterClose, ClosedAfterClose, NoSegment
  <2>2. closed \cup ({active} \ {NoSegment}) = closed
    BY <1>1
  <2> QED
    BY <2>1, <2>2 DEF Inv, FramesIn, OnDisk
<1>2. CASE active # NoSegment /\ active.events > 0
  <2>1. DiskAfterClose = disk /\ ClosedAfterClose = closed \cup {active}
    BY <1>2 DEF DiskAfterClose, ClosedAfterClose
  <2>2. closed \cup ({active} \ {NoSegment}) = closed \cup {active}
    BY <1>2
  <2>3. ActiveIntact(disk, closed, active)
    BY <1>2 DEF Inv
  <2>4. Bounded(disk, closed \cup {active}) /\ Distinct(closed \cup {active})
    BY <2>3 DEF Inv, ActiveIntact, Bounded, Distinct
  <2> QED
    BY <2>1, <2>2, <2>4 DEF Inv, FramesIn, OnDisk
<1>3. CASE active # NoSegment /\ active.events = 0
  <2>1. ClosedAfterClose = closed
    BY <1>3 DEF ClosedAfterClose
  <2>2. DiskAfterClose = Remove(disk, {active.path})
    BY <1>3 DEF DiskAfterClose
  <2>3. /\ DOMAIN DiskAfterClose = DOMAIN disk \ {active.path}
        /\ \A p \in DOMAIN disk \ {active.path} : DiskAfterClose[p] = disk[p]
    BY <2>2 DEF Remove
  <2>4. Scan(disk[active.path]) = {} /\ \A s \in closed : s.path # active.path
    BY <1>3, ScanEmpty DEF Inv, ActiveIntact
  <2>5. Bounded(DiskAfterClose, closed)
    BY <2>3, <2>4 DEF Inv, Bounded
  <2>6. Tracked(DiskAfterClose, closed)
    BY <2>3 DEF Inv, Tracked
  <2>7. FramesIn(DiskAfterClose) = OnDisk
    BY <2>3, <2>4 DEF FramesIn, OnDisk
  <2> QED
    BY <2>1, <2>5, <2>6, <2>7 DEF Inv
<1>4. active.events \in Nat
  BY SegmentFields, MaxSeqAssumption DEF Inv, TypeOK, NoSegment
<1> QED
  BY <1>1, <1>2, <1>3, <1>4

(* The segment append writes to, and what surrounds it, once a rotation has been made. *)
LEMMA TargetFacts ==
    ASSUME Inv, open, NEW n \in Seqs, CanOpen(n)
    PROVE  LET t == Target(n) IN
           /\ Bounded(t.files, t.closed) /\ Distinct(t.closed)
           /\ ActiveIntact(t.files, t.closed, t.segment)
           /\ Tracked(t.files, t.closed \cup {t.segment})
           /\ FramesIn(t.files) = OnDisk
<1>1. CASE ~Rotates
  <2>1. Target(n).files = disk /\ Target(n).closed = closed /\ Target(n).segment = active
    BY <1>1 DEF Target
  <2>2. active # NoSegment /\ closed \cup ({active} \ {NoSegment}) = closed \cup {active}
    BY <1>1 DEF Rotates
  <2> QED
    BY <2>1, <2>2 DEF Inv, FramesIn, OnDisk
<1>2. CASE Rotates
  <2> DEFINE d == Target(n).files
             a == Target(n).segment
             c == ClosedAfterClose
             e == DiskAfterClose
  <2>1. Target(n).closed = c /\ a = [path |-> n, maxSeq |-> 0, events |-> 0]
    BY <1>2 DEF Target, OpenSegment
  <2>2. d = [p \in DOMAIN e \cup {n} |-> IF p = n THEN <<>> ELSE e[p]]
    BY <1>2 DEF Target, OpenSegment
  <2>3. n \notin DOMAIN e
    BY <1>2 DEF CanOpen
  <2>4. /\ DOMAIN d = DOMAIN e \cup {n} /\ Scan(d[n]) = {} /\ d[n] = <<>>
        /\ \A p \in DOMAIN e : d[p] = e[p]
    BY <2>2, <2>3, ScanEmpty
  <2>5. Bounded(e, c) /\ Distinct(c) /\ Tracked(e, c) /\ FramesIn(e) = OnDisk
    BY CloseFacts
  <2>6. a.path = n /\ a.maxSeq = 0
    BY <2>1
  <2> HIDE DEF d, c, e, a
  <2>7. Bounded(d, c) /\ \A s \in c : s.path # n
    BY <2>3, <2>4, <2>5 DEF Bounded
  <2>8. Tracked(d, c \cup {a})
    BY <2>4, <2>5 DEF Tracked
  <2>9. FramesIn(d) = OnDisk
    <3>1. FramesIn(d) = FramesIn(e)
      BY <2>4 DEF FramesIn
    <3> QED
      BY <3>1, <2>5
  <2>10. ActiveIntact(d, c, a)
    BY <2>4, <2>6, <2>7 DEF ActiveIntact
  <2> QED
    BY <2>1, <2>5, <2>7, <2>8, <2>9, <2>10 DEF d, a
<1> QED
  BY <1>1, <1>2

-----------------------------------------------------------------------------
(* What each step does to the frames a recovery would read. *)

LEMMA AppendOkStep ==
    ASSUME Inv, TypeOK', NEW n \in Seqs, AppendOk(n)
    PROVE  Inv' /\ OnDisk' = OnDisk \cup {n}
<1> DEFINE d == Target(n).files
           a == Target(n).segment
           c == Target(n).closed
<1>1. open /\ open' /\ CanOpen(n) /\ owed' = owed \cup {n}
  BY DEF AppendOk, Attempt
<1>2. /\ disk' = WithFrame(d, a.path, n) /\ closed' = c
      /\ active' = [a EXCEPT !.events = @ + 1, !.maxSeq = Max2(@, n)]
  BY DEF AppendOk
<1>3. /\ Bounded(d, c) /\ Distinct(c) /\ ActiveIntact(d, c, a)
      /\ Tracked(d, c \cup {a}) /\ FramesIn(d) = OnDisk
  BY <1>1, TargetFacts
<1>4. a \in Segment /\ DOMAIN d \subseteq Seqs /\ \A p \in DOMAIN d : d[p] \in Seq(0..MaxSeq)
  BY TargetType DEF Inv
<1> HIDE DEF d, a, c
<1>5. /\ a.path \in DOMAIN d /\ DOMAIN disk' = DOMAIN d
      /\ disk'[a.path] = Append(d[a.path], n)
      /\ \A p \in DOMAIN d : p # a.path => disk'[p] = d[p]
  BY <1>2, <1>3 DEF WithFrame, ActiveIntact
<1>6. /\ Scan(disk'[a.path]) = Scan(d[a.path]) \cup {n}
      /\ \A i \in DOMAIN disk'[a.path] : disk'[a.path][i] # Torn
  BY <1>3, <1>4, <1>5, ScanAppend DEF ActiveIntact
<1>7. /\ active'.path = a.path /\ active'.events = a.events + 1
      /\ active'.maxSeq = Max2(a.maxSeq, n)
  BY <1>2, <1>4 DEF Segment
<1>8. /\ active'.events # 0 /\ n <= active'.maxSeq /\ a.maxSeq <= active'.maxSeq
      /\ active' # NoSegment
  BY <1>4, <1>7, SegmentFields, MaxSeqAssumption DEF Max2, Seqs, NoSegment
<1>9. \A m \in Scan(disk'[a.path]) : m <= active'.maxSeq
  <2>1. ASSUME NEW m \in Scan(d[a.path]) PROVE m <= active'.maxSeq
    <3>1. m <= a.maxSeq /\ m \in Seqs
      BY <1>3, <1>4, <1>5, ScanType DEF ActiveIntact
    <3>2. active'.maxSeq \in Nat /\ a.maxSeq \in Nat
      BY <1>4, <1>7, SegmentFields, MaxSeqAssumption DEF Max2, Seqs
    <3> QED
      BY <3>1, <3>2, <1>8 DEF Seqs
  <2> QED
    BY <1>6, <1>8, <2>1
<1>10. Bounded(disk', closed') /\ Distinct(closed')
  BY <1>2, <1>3, <1>5 DEF Bounded, ActiveIntact
<1>11. ActiveIntact(disk', closed', active')
  BY <1>2, <1>3, <1>5, <1>6, <1>7, <1>8, <1>9 DEF ActiveIntact
<1>12. Tracked(disk', closed' \cup ({active'} \ {NoSegment}))
  BY ZenonT(60), <1>2, <1>3, <1>5, <1>7, <1>8 DEF Tracked
<1>13. FramesIn(disk') = OnDisk \cup {n}
  <2>1. FramesIn(disk') = FramesIn(d) \cup {n}
    <3>1. ASSUME NEW x \in FramesIn(disk') PROVE x \in FramesIn(d) \cup {n}
      <4>1. PICK p \in DOMAIN d : x \in Scan(disk'[p])
        BY <1>5 DEF FramesIn
      <4>2. x \in Scan(d[p]) \/ x = n
        BY <4>1, <1>5, <1>6
      <4> QED
        BY <4>1, <4>2 DEF FramesIn
    <3>2. ASSUME NEW x \in FramesIn(d) PROVE x \in FramesIn(disk')
      BY ZenonT(60), <1>5, <1>6 DEF FramesIn
    <3>3. n \in FramesIn(disk')
      BY <1>5, <1>6 DEF FramesIn
    <3> QED
      BY <3>1, <3>2, <3>3
  <2> QED
    BY <2>1, <1>3
<1>14. OnDisk' = OnDisk \cup {n}
  BY <1>13 DEF OnDisk, FramesIn
<1>15. owed' \subseteq OnDisk'
  BY <1>1, <1>14 DEF Inv
<1> QED
  BY <1>1, <1>10, <1>11, <1>12, <1>14, <1>15 DEF Inv

LEMMA AppendFailsStep ==
    ASSUME FailedWriteLeavesBytes = FALSE, Inv, TypeOK', NEW n \in Seqs, AppendFails(n)
    PROVE  Inv' /\ OnDisk' = OnDisk
<1>1. open /\ open' /\ CanOpen(n) /\ owed' = owed
  BY DEF AppendFails, Attempt
<1>2. disk' = Target(n).files /\ closed' = Target(n).closed /\ active' = Target(n).segment
  BY DEF AppendFails
<1>3. /\ Bounded(disk', closed') /\ Distinct(closed') /\ ActiveIntact(disk', closed', active')
      /\ Tracked(disk', closed' \cup {active'}) /\ FramesIn(disk') = OnDisk
  BY <1>1, <1>2, TargetFacts
<1>4. active' # NoSegment
  BY <1>2, TargetType, SegmentFields DEF Inv
<1>5. OnDisk' = OnDisk
  BY <1>3 DEF OnDisk, FramesIn
<1>6. closed' \cup ({active'} \ {NoSegment}) = closed' \cup {active'}
  BY <1>4
<1> QED
  BY <1>1, <1>3, <1>5, <1>6 DEF Inv

LEMMA AppendCannotOpenStep ==
    ASSUME Inv, TypeOK', NEW n \in Seqs, AppendCannotOpen(n)
    PROVE  Inv' /\ OnDisk' = OnDisk
<1>1. open /\ open' /\ owed' = owed /\ active' = NoSegment
  BY DEF AppendCannotOpen, Attempt
<1>2. disk' = DiskAfterClose /\ closed' = ClosedAfterClose
  BY DEF AppendCannotOpen
<1>3. /\ Bounded(disk', closed') /\ Distinct(closed') /\ Tracked(disk', closed')
      /\ FramesIn(disk') = OnDisk
  BY <1>1, <1>2, CloseFacts
<1>4. OnDisk' = OnDisk
  BY <1>3 DEF OnDisk, FramesIn
<1>5. closed' \cup ({active'} \ {NoSegment}) = closed'
  BY <1>1
<1> QED
  BY <1>1, <1>3, <1>4, <1>5 DEF Inv

(* A truncation unlinks nothing newer than its bound. *)
LEMMA TruncateStep ==
    ASSUME Inv, TypeOK', NEW u \in Seqs, Truncate(u)
    PROVE  Inv' /\ OnDisk' \subseteq OnDisk /\ \A n \in OnDisk : n > u => n \in OnDisk'
<1>1. open /\ open' /\ owed' = {n \in owed : n > u} /\ active' = NoSegment
  BY DEF Truncate
<1> DEFINE d == DiskAfterClose
           c == ClosedAfterClose
<1>2. PICK stuck \in SUBSET Covered(u) :
          /\ disk' = Remove(d, {s.path : s \in Covered(u) \ stuck})
          /\ closed' = (c \ Covered(u)) \cup stuck
  BY DEF Truncate
<1>3. Bounded(d, c) /\ Distinct(c) /\ Tracked(d, c) /\ FramesIn(d) = OnDisk
  BY <1>1, CloseFacts
<1>4. c \subseteq Segment
  BY CloseType DEF Inv
<1>5. Covered(u) = {s \in c : s.maxSeq <= u}
  BY DEF Covered
<1> HIDE DEF d, c
<1> DEFINE gone == {s.path : s \in Covered(u) \ stuck}
<1>6. DOMAIN disk' = DOMAIN d \ gone /\ \A p \in DOMAIN disk' : disk'[p] = d[p]
  BY <1>2 DEF Remove
<1>7. closed' \subseteq c /\ \A s \in c : s.path \notin gone => s \in closed'
  BY <1>2, <1>5
<1>8. \A s \in closed' : s.path \notin gone
  <2> SUFFICES ASSUME NEW s \in closed', NEW t \in Covered(u) \ stuck, s.path = t.path
               PROVE  FALSE
    OBVIOUS
  <2>1. s = t
    BY <1>3, <1>5, <1>7 DEF Distinct
  <2> QED
    BY <2>1, <1>2
<1> HIDE DEF gone
<1>9. Bounded(disk', closed')
  BY <1>3, <1>6, <1>7, <1>8 DEF Bounded
<1>10. Distinct(closed')
  BY <1>3, <1>7 DEF Distinct
<1>11. Tracked(disk', closed' \cup ({active'} \ {NoSegment}))
  BY <1>3, <1>6, <1>7 DEF Tracked
<1>12. FramesIn(disk') \subseteq FramesIn(d)
  BY <1>6 DEF FramesIn
<1>13. ASSUME NEW n \in FramesIn(d), n > u PROVE n \in FramesIn(disk')
  <2>1. PICK p \in DOMAIN d : n \in Scan(d[p])
    BY DEF FramesIn
  <2>2. ASSUME p \in gone PROVE FALSE
    <3>1. PICK s \in Covered(u) : s.path = p
      BY <2>2 DEF gone
    <3>2. n <= s.maxSeq /\ s.maxSeq <= u /\ s \in Segment
      BY <3>1, <2>1, <1>3, <1>4, <1>5 DEF Bounded
    <3>3. d[p] \in Seq(0..MaxSeq)
      BY <2>1, CloseType DEF Inv, TypeOK, d
    <3>4. n \in 1..MaxSeq /\ s.maxSeq \in 0..MaxSeq
      BY <3>2, <3>3, <2>1, ScanType, SegmentFields DEF Seqs
    <3> QED
      BY <3>2, <3>4, <1>13, MaxSeqAssumption DEF Seqs
  <2> QED
    BY <2>1, <2>2, <1>6 DEF FramesIn
<1>14. OnDisk' = FramesIn(disk')
  BY DEF OnDisk, FramesIn
<1>15. OnDisk' \subseteq OnDisk /\ \A n \in OnDisk : n > u => n \in OnDisk'
  BY <1>3, <1>12, <1>13, <1>14
<1>16. owed' \subseteq OnDisk'
  BY <1>1, <1>15 DEF Inv
<1> QED
  BY <1>1, <1>9, <1>10, <1>11, <1>15, <1>16 DEF Inv

(* A crash leaves at most a torn tail on the active file. *)
LEMMA CrashStep ==
    ASSUME Inv, TypeOK', Crash
    PROVE  Inv' /\ OnDisk' = OnDisk
<1>1. ~open' /\ closed' = {} /\ active' = NoSegment /\ owed' = owed
  BY Zenon DEF Crash
<1>2. DOMAIN disk' = DOMAIN disk /\ \A p \in DOMAIN disk : Scan(disk'[p]) = Scan(disk[p])
  <2>1. CASE disk' = disk
    BY <2>1
  <2>2. CASE active # NoSegment /\ disk' = WithFrame(disk, active.path, Torn)
    <3>1. DOMAIN disk' = DOMAIN disk
      BY <2>2 DEF WithFrame
    <3>2. \A p \in DOMAIN disk : disk'[p] = disk[p] \/ disk'[p] = Append(disk[p], Torn)
      BY <2>2 DEF WithFrame
    <3> QED
      BY <3>1, <3>2, ScanTorn DEF Inv, TypeOK
  <2> QED
    BY <2>1, <2>2 DEF Crash
<1>3. OnDisk' = OnDisk
  BY <1>2 DEF OnDisk
<1>4. Bounded(disk', closed') /\ Distinct(closed')
  BY <1>1 DEF Bounded, Distinct
<1>5. owed' \subseteq OnDisk'
  BY <1>1, <1>3 DEF Inv
<1> QED
  BY <1>1, <1>3, <1>4, <1>5 DEF Inv

(* scan_dir unlinks only files nothing can be read from. *)
LEMMA ReopenStep ==
    ASSUME Inv, TypeOK', Reopen
    PROVE  Inv' /\ OnDisk' = OnDisk
<1> DEFINE intact == {p \in DOMAIN disk : Scan(disk[p]) # {}}
           Found(p) == [path |-> p, maxSeq |-> MaxOf(Scan(disk[p])),
                        events |-> Cardinality(Scan(disk[p]))]
<1>1. open' /\ ~open /\ active' = NoSegment /\ owed' = owed
  BY DEF Reopen, Inv
<1>2. disk' = Remove(disk, DOMAIN disk \ intact) /\ closed' = {Found(p) : p \in intact}
  BY DEF Reopen
<1>3. DOMAIN disk' = intact /\ \A p \in intact : disk'[p] = disk[p]
  BY <1>2 DEF Remove
<1>4. ASSUME NEW p \in intact
      PROVE  \A n \in Scan(disk[p]) : n <= MaxOf(Scan(disk[p]))
  <2>1. disk[p] \in Seq(0..MaxSeq)
    BY DEF Inv, TypeOK
  <2>2. Scan(disk[p]) \subseteq 0..MaxSeq /\ Scan(disk[p]) # {}
    BY <2>1, ScanType, MaxSeqAssumption DEF Seqs
  <2> QED
    BY <2>2, MaxOfBounded, MaxSeqAssumption
<1>5. \A p \in intact : Found(p).path = p /\ Found(p).maxSeq = MaxOf(Scan(disk[p]))
  OBVIOUS
<1> HIDE DEF Found, intact
<1>6. Bounded(disk', closed')
  BY <1>2, <1>3, <1>4, <1>5 DEF Bounded
<1>7. Distinct(closed')
  BY <1>2, <1>5 DEF Distinct
<1>8. Tracked(disk', closed' \cup ({active'} \ {NoSegment}))
  BY <1>2, <1>3, <1>5 DEF Tracked
<1>9. OnDisk' = OnDisk
  BY <1>3 DEF OnDisk, intact
<1>10. owed' \subseteq OnDisk'
  BY <1>1, <1>9 DEF Inv
<1> QED
  BY <1>1, <1>6, <1>7, <1>8, <1>9, <1>10 DEF Inv

-----------------------------------------------------------------------------
LEMMA InvInit == Init => Inv
<1> SUFFICES ASSUME Init PROVE Inv
  OBVIOUS
<1>1. TypeOK
  BY MaxSeqAssumption DEF Init, TypeOK
<1> QED
  BY <1>1 DEF Init, Inv, Bounded, Distinct, Tracked

LEMMA InvStep ==
    ASSUME FailedWriteLeavesBytes = FALSE
    PROVE  Inv /\ TypeOK' /\ [Next]_vars => Inv'
<1> SUFFICES ASSUME Inv, TypeOK', [Next]_vars PROVE Inv'
  OBVIOUS
<1>1. CASE UNCHANGED vars
  BY <1>1 DEF Inv, vars, Bounded, Distinct, Tracked, ActiveIntact, OnDisk, TypeOK
<1> QED
  BY <1>1, AppendOkStep, AppendFailsStep, AppendCannotOpenStep, TruncateStep, CrashStep,
     ReopenStep DEF Next

(* Under the write failures modelled, the inductive invariant holds throughout. *)
LEMMA InvHolds ==
    ASSUME FailedWriteLeavesBytes = FALSE
    PROVE  Spec => []Inv
<1>1. Spec => []TypeOK
  BY TypeCorrect
<1> QED
  BY <1>1, InvInit, InvStep, PTL DEF Spec

(* An append that returned Ok is found by every later recovery until a truncation covers its
   seq: no rotation, failed append, refused unlink, crash or scan_dir loses it, whatever the
   number of seqs and the segment size, if a failed write_all leaves no part of its frame
   (EventWal::append, truncate, recover). *)
THEOREM AcknowledgedIsDurable ==
    ASSUME FailedWriteLeavesBytes = FALSE
    PROVE  Spec => []AcknowledgedIsRecoverable
<1>1. Inv => AcknowledgedIsRecoverable
  <2> SUFFICES ASSUME Inv PROVE AcknowledgedIsRecoverable
    OBVIOUS
  <2>1. ASSUME open, NEW n \in owed, n > retiredUpTo PROVE n \in Recover
    <3>1. PICK p \in DOMAIN disk : n \in Scan(disk[p])
      BY DEF Inv, OnDisk
    <3>2. PICK s \in closed \cup ({active} \ {NoSegment}) : s.path = p
      BY <2>1, <3>1 DEF Inv, Tracked
    <3> QED
      BY <2>1, <3>1, <3>2 DEF Recover
  <2> QED
    BY <2>1 DEF Inv, AcknowledgedIsRecoverable
<1> QED
  BY <1>1, InvHolds, PTL

(* The segment files implement DurableLog, the log IngestLog is written against: an append
   that returned Ok adds its seq, a truncation forgets nothing newer than its bound, a crash
   forgets the truncation mark, and no other step changes what a recovery finds. *)
THEOREM SegmentsImplementDurableLog ==
    ASSUME FailedWriteLeavesBytes = FALSE
    PROVE  Spec => ImplementsDurableLog
<1>1. Init => Log!AbsInit
  BY DEF Init, Log!AbsInit, OnDisk
<1>2. Inv /\ TypeOK' /\ [Next]_vars => [Log!AbsNext]_(Log!absVars)
  <2> SUFFICES ASSUME Inv, TypeOK', [Next]_vars
               PROVE  Log!AbsNext \/ UNCHANGED <<OnDisk, retiredUpTo, owed>>
    BY DEF Log!absVars
  <2>1. ASSUME NEW n \in Seqs, AppendOk(n) PROVE Log!AbsNext
    <3>1. Log!AbsAppend(n)
      BY <2>1, AppendOkStep DEF Log!AbsAppend, AppendOk, Attempt
    <3> QED
      BY <3>1 DEF Log!AbsNext, Log!Seqs, Seqs
  <2>2. ASSUME NEW n \in Seqs, AppendFails(n) \/ AppendCannotOpen(n)
        PROVE  UNCHANGED <<OnDisk, retiredUpTo, owed>>
    BY <2>2, AppendFailsStep, AppendCannotOpenStep DEF AppendFails, AppendCannotOpen, Attempt
  <2>3. ASSUME NEW u \in Seqs, Truncate(u) PROVE Log!AbsNext
    <3>1. OnDisk' \subseteq OnDisk /\ \A n \in OnDisk : n > u => n \in OnDisk'
      BY <2>3, TruncateStep
    <3>2. u \in Nat /\ OnDisk \subseteq Nat
      BY ScanType, MaxSeqAssumption DEF OnDisk, Inv, TypeOK, Seqs
    <3>3. \E kept \in SUBSET {n \in OnDisk : n <= u} :
             OnDisk' = kept \cup {n \in OnDisk : n > u}
      <4> DEFINE kept == {n \in OnDisk' : n <= u}
      <4>1. kept \in SUBSET {n \in OnDisk : n <= u}
        BY <3>1
      <4>2. OnDisk' = kept \cup {n \in OnDisk : n > u}
        <5>1. ASSUME NEW n \in OnDisk' PROVE n \in kept \/ (n \in OnDisk /\ n > u)
          BY <3>1, <3>2
        <5> QED
          BY <5>1, <3>1
      <4> QED
        BY <4>1, <4>2
    <3>4. owed' = {n \in owed : n > u}
      BY <2>3 DEF Truncate
    <3>5. retiredUpTo' = IF u > retiredUpTo THEN u ELSE retiredUpTo
      <4>1. retiredUpTo \in Nat /\ retiredUpTo' = Max2(retiredUpTo, u)
        BY <2>3, MaxSeqAssumption DEF Truncate, Mark, Inv, TypeOK
      <4> QED
        BY <4>1, <3>2 DEF Max2
    <3>6. Log!AbsTruncate(u)
      BY <3>3, <3>4, <3>5 DEF Log!AbsTruncate
    <3> QED
      BY <3>6 DEF Log!AbsNext, Log!Seqs, Seqs
  <2>4. CASE Crash
    <3>1. Log!AbsRestart
      BY <2>4, CrashStep DEF Log!AbsRestart, Crash
    <3> QED
      BY <3>1 DEF Log!AbsNext
  <2>5. CASE Reopen
    BY <2>5, ReopenStep DEF Reopen
  <2>6. CASE UNCHANGED vars
    BY <2>6 DEF vars, OnDisk
  <2> QED
    BY <2>1, <2>2, <2>3, <2>4, <2>5, <2>6 DEF Next
<1> QED
  BY <1>1, <1>2, TypeCorrect, InvHolds, PTL DEF Spec, ImplementsDurableLog, Log!AbsSpec
=============================================================================
