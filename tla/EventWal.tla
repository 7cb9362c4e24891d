------------------------------ MODULE EventWal ------------------------------
(***************************************************************************)
(* The scheduler's write-ahead log, apps/scheduler/src/wal.rs: a directory *)
(* of append-only segment files.                                           *)
(*                                                                         *)
(* A segment is named after the seq of the append that opened it and holds *)
(* one frame per append.  A frame is the seq it carries, or Torn: bytes    *)
(* that fail the length or CRC check of scan_segment.  `closed` is a set:  *)
(* the code keeps it sorted by path, which only decides what a log line    *)
(* says, since recover sorts its answer by seq.                            *)
(***************************************************************************)
EXTENDS Naturals, Sequences, FiniteSets

CONSTANTS
    MaxSeq,                  \* bound: seqs are 1..MaxSeq
    SegmentFrames,           \* segment_bytes, counted in frames
    FailedWriteLeavesBytes   \* may a write_all that fails leave part of its frame?

ASSUME MaxSeqAssumption == MaxSeq \in Nat \ {0}
ASSUME SegmentAssumption == SegmentFrames \in Nat \ {0}
ASSUME FailedWriteAssumption == FailedWriteLeavesBytes \in BOOLEAN

Seqs == 1..MaxSeq
Torn == 0
NoSegment == [path |-> 0, maxSeq |-> 0, events |-> 0]

Max2(a, b) == IF a > b THEN a ELSE b
MaxOf(S) == CHOOSE m \in S : \A n \in S : n <= m

VARIABLES
    disk,        \* path -> frames: the *.seg files in the directory
    open,        \* is a process holding the log open?
    closed,      \* its closed segments
    active,      \* its active segment, or NoSegment
    retiredUpTo, \* its truncation mark
    floor,       \* the seq its counter started from (recover_wal_backlog)
    tried,       \* seqs it was asked to append
    covered,     \* history: the highest bound any truncation was given
    owed         \* history: seqs acknowledged and not covered since

vars == <<disk, open, closed, active, retiredUpTo, floor, tried, covered, owed>>

Segment == [path : Seqs, maxSeq : 0..MaxSeq, events : 0..MaxSeq]

TypeOK ==
    /\ DOMAIN disk \subseteq Seqs
    /\ \A p \in DOMAIN disk : disk[p] \in Seq(0..MaxSeq)
    /\ open \in BOOLEAN
    /\ closed \subseteq Segment
    /\ active \in Segment \cup {NoSegment}
    /\ retiredUpTo \in 0..MaxSeq
    /\ floor \in 0..MaxSeq /\ covered \in 0..MaxSeq
    /\ tried \subseteq Seqs /\ owed \subseteq Seqs

Init ==
    /\ disk = [p \in {} |-> <<>>]
    /\ open = TRUE
    /\ closed = {} /\ active = NoSegment
    /\ retiredUpTo = 0 /\ floor = 0 /\ tried = {}
    /\ covered = 0 /\ owed = {}

-----------------------------------------------------------------------------
(* scan_segment: the frames before the first bad one. *)
Scan(frames) ==
    {frames[i] : i \in {j \in DOMAIN frames : \A h \in 1..j : frames[h] # Torn}}

Remove(d, paths) == [p \in DOMAIN d \ paths |-> d[p]]
WithFrame(d, p, frame) == [d EXCEPT ![p] = Append(@, frame)]

(* close_active: an active segment that holds an event joins the closed ones,
   an empty one is unlinked. *)
ClosedAfterClose == IF active.events > 0 THEN closed \cup {active} ELSE closed
DiskAfterClose ==
    IF active # NoSegment /\ active.events = 0 THEN Remove(disk, {active.path}) ELSE disk

(* open_segment(first_seq): a new, empty file. *)
OpenSegment(n) ==
    [segment |-> [path |-> n, maxSeq |-> 0, events |-> 0],
     files   |-> [p \in DOMAIN DiskAfterClose \cup {n} |->
                    IF p = n THEN <<>> ELSE DiskAfterClose[p]],
     closed  |-> ClosedAfterClose]

(* Where append writes: a fresh segment when there is no active one or it is
   full, the active one otherwise. *)
Rotates == active = NoSegment \/ active.events >= SegmentFrames
Target(n) ==
    IF Rotates THEN OpenSegment(n)
    ELSE [segment |-> active, files |-> disk, closed |-> closed]

(* One append per seq the counter hands out, in any order: ingest takes the
   seq before it waits for the log's lock. *)
Attempt(n) ==
    /\ open
    /\ n > floor /\ n \notin tried
    /\ tried' = tried \cup {n}
    /\ UNCHANGED <<open, retiredUpTo, floor, covered>>

(* create_new refuses to open a segment over an existing file. *)
CanOpen(n) == ~Rotates \/ n \notin DOMAIN DiskAfterClose

(* append returns Ok: one whole frame on the target segment. *)
AppendOk(n) ==
    LET t == Target(n) IN
    /\ Attempt(n) /\ CanOpen(n)
    /\ disk' = WithFrame(t.files, t.segment.path, n)
    /\ active' = [t.segment EXCEPT !.events = @ + 1, !.maxSeq = Max2(@, n)]
    /\ closed' = t.closed
    /\ owed' = owed \cup {n}

(* append returns Err from write_all (a full disk): the counters stay, and part
   of the frame may have reached the file. *)
AppendFails(n) ==
    LET t == Target(n) IN
    /\ Attempt(n) /\ CanOpen(n)
    /\ \/ disk' = t.files
       \/ FailedWriteLeavesBytes /\ disk' = WithFrame(t.files, t.segment.path, Torn)
    /\ active' = t.segment
    /\ closed' = t.closed
    /\ UNCHANGED owed

(* append returns Err from open_segment: the old segment is closed already. *)
AppendCannotOpen(n) ==
    /\ Rotates
    /\ Attempt(n)
    /\ disk' = DiskAfterClose
    /\ active' = NoSegment
    /\ closed' = ClosedAfterClose
    /\ UNCHANGED owed

(* truncate(up_to_seq): close the active segment and unlink the closed ones the
   bound covers; `stuck` are those the filesystem refused to remove, which stay
   tracked for the next truncation.  A drain's bound is a seq handed out. *)
CoveredByName(u) == {s \in ClosedAfterClose : s.path <= u}   \* mutant: first seq, not max
Covered(u) == {s \in ClosedAfterClose : s.maxSeq <= u}

MarkMoves(u) == u                   \* mutant: the mark may move back
MarkAdds(u) == retiredUpTo + u      \* mutant: the mark leaves its range
Mark(u) == Max2(retiredUpTo, u)

Truncate(u) ==
    /\ open
    /\ u \in tried \/ u <= floor
    /\ \E stuck \in SUBSET Covered(u) :
          /\ disk' = Remove(DiskAfterClose, {s.path : s \in Covered(u) \ stuck})
          /\ closed' = (ClosedAfterClose \ Covered(u)) \cup stuck
    /\ active' = NoSegment
    /\ retiredUpTo' = Mark(u)
    /\ covered' = Max2(covered, u)
    /\ owed' = {n \in owed : n > u}
    /\ UNCHANGED <<open, floor, tried>>

(* The process dies, possibly inside an append: a torn tail. *)
Crash ==
    /\ open
    /\ open' = FALSE
    /\ \/ UNCHANGED disk
       \/ active # NoSegment /\ disk' = WithFrame(disk, active.path, Torn)
    /\ closed' = {} /\ active' = NoSegment
    /\ retiredUpTo' = 0 /\ tried' = {}
    /\ UNCHANGED <<floor, covered, owed>>

(* EventWal::open, scan_dir: every segment that holds an intact frame is closed
   and tracked, the others are unlinked.  The counter resumes after everything
   recovered and after the persisted snapshot (`covered`). *)
OnDisk == UNION {Scan(disk[p]) : p \in DOMAIN disk}

Reopen ==
    LET intact == {p \in DOMAIN disk : Scan(disk[p]) # {}} IN
    /\ ~open
    /\ open' = TRUE
    /\ disk' = Remove(disk, DOMAIN disk \ intact)
    /\ closed' = {[path |-> p, maxSeq |-> MaxOf(Scan(disk[p])),
                   events |-> Cardinality(Scan(disk[p]))] : p \in intact}
    /\ floor' = MaxOf(OnDisk \cup {covered})
    /\ UNCHANGED <<active, retiredUpTo, tried, covered, owed>>

Next ==
    \/ \E n \in Seqs : AppendOk(n) \/ AppendFails(n) \/ AppendCannotOpen(n)
    \/ \E u \in Seqs : Truncate(u)
    \/ Crash
    \/ Reopen

Spec == Init /\ [][Next]_vars

-----------------------------------------------------------------------------
(* recover: the intact frames of the tracked segments past the truncation mark. *)
Recover ==
    {n \in UNION {Scan(disk[s.path]) : s \in closed \cup ({active} \ {NoSegment})} :
        n > retiredUpTo}

(* What ingest answers 200 on: an append that returned Ok is found by every
   later recovery until a drain's truncation covers it, through failed appends,
   rotations, refused unlinks and restarts. *)
AcknowledgedIsRecoverable ==
    /\ owed \subseteq OnDisk
    /\ open => \A n \in owed : n > retiredUpTo => n \in Recover

(* The segment files implement the log IngestLog relies on. *)
Log == INSTANCE DurableLog WITH stored <- OnDisk, retired <- retiredUpTo
ImplementsDurableLog == Log!AbsSpec
=============================================================================
