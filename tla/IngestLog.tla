------------------------------ MODULE IngestLog ------------------------------
(***************************************************************************)
(* How the scheduler takes a change from the database and folds it into    *)
(* its replica: ingest_event_from (apps/scheduler/src/ingest.rs), the      *)
(* periodic drain_and_apply and the boot-time recover_wal_backlog          *)
(* (lib.rs), Replica::apply and commit_snapshot_state (replica.rs).        *)
(*                                                                         *)
(* A change is <<row, n>>: the n-th change made to that row upstream, a    *)
(* write or a delete.  The database serialises the changes of one row and  *)
(* sends a change again until it is answered with a seq.  The write-ahead  *)
(* log is the abstract one of DurableLog, which EventWal implements.       *)
(* Requests that ingest answers without taking a seq (push messages,       *)
(* @nosync tables, foreign record ids, bad operations, a scheduler that is *)
(* still cloning) touch nothing here and are not steps.                    *)
(***************************************************************************)
EXTENDS Naturals, Sequences, FiniteSets

CONSTANTS
    Rows,          \* record ids
    Tables,        \* synced tables
    TableOf,       \* the table of each row
    Handlers,      \* concurrent callers of ingest; one for the changefeed tail
    Faults,        \* which storage errors may happen, see FaultKinds
    MaxSeq,        \* bound: highest seq handed out
    MaxChanges,    \* bound: changes per row
    MaxCrashes     \* bound: scheduler crashes

FaultKinds == {"marker",   \* begin_apply cannot persist the applying marker
               "read",     \* apply cannot read the stored _00_rv, and writes
               "apply",    \* Replica::apply returns an error
               "fold",     \* apply cannot read an image for the table hash
               "hash",     \* a from-content hash fails
               "commit"}   \* commit_snapshot_state cannot persist

ASSUME TableAssumption == TableOf \in [Rows -> Tables]
ASSUME FaultAssumption == Faults \subseteq FaultKinds
ASSUME BoundAssumption == MaxSeq \in Nat /\ MaxChanges \in Nat /\ MaxCrashes \in Nat

VARIABLES
    upstream,      \* the changes made to each row so far: "put" or "del"
    accepted,      \* how many changes of each row ingest answered with a seq
    seqCounter,    \* the last seq handed out
    handler,       \* each ingest call in flight
    wal,           \* entries a recovery would find
    buffer,        \* event_buffer: entries in arrival order
    batch,         \* what the running drain has still to apply
    drain,         \* the running drain's next step, and its cut
    rows,          \* the replica's rows, durable as soon as written
    snapshotSeq,   \* Replica.snapshot_seq
    hashes,        \* Replica.snapshot_hashes: table -> what the hash covers
    dirty,         \* Replica.dirty_hashes, memory only
    disk,          \* _00_metadata:snapshot as last persisted
    up, crashes,
    handled,       \* history: changes apply returned Ok for
    refused,       \* history: changes apply returned an error for
    overtaken      \* history: calls still in flight when a drain took a later seq

dbVars == <<upstream, accepted>>
replicaVars == <<rows, snapshotSeq, hashes, dirty, disk>>
drainVars == <<batch, drain>>
histVars == <<handled, refused, overtaken>>
vars == <<dbVars, seqCounter, handler, wal, buffer, drainVars, replicaVars,
          up, crashes, histVars>>

-----------------------------------------------------------------------------
Seqs == 1..MaxSeq
Changes == Rows \X (1..MaxChanges)
Entry == [seq : Seqs, change : Changes]
NoCall == [pc |-> "idle"]
Call == [pc : {"append", "buffer"}, entry : Entry]
DrainIdle == [pc |-> "idle", cut |-> 0]
HashMap == UNION {[held -> SUBSET (Rows \X (0..MaxChanges))] : held \in SUBSET Tables}

MaxOf(S) == CHOOSE m \in S : \A n \in S : n <= m
Last(s) == s[Len(s)]

(* _00_version: CREATE stamps 1, every UPDATE one more; a delete drops it. *)
Rv(change) ==
    LET ops == upstream[change[1]]
        deletes == {i \in 1..change[2] : ops[i] = "del"}
    IN change[2] - MaxOf(deletes \cup {0})

(* A row of the replica: the change it shows, and its _00_rv (0: absent). *)
Row(change) == [n |-> change[2], rv |-> Rv(change)]

(* The table hash is the XOR of one digest per row.  A set of digests under
   symmetric difference is that, without collisions. *)
Digest(r, row) == IF row.rv = 0 THEN {} ELSE {<<r, row.n>>}
Xor(S, T) == (S \ T) \cup (T \ S)
Content(t) == UNION {Digest(r, rows[r]) : r \in {q \in Rows : TableOf[q] = t}}
(* diff_table_hashes reads a missing hash as the hash of an empty table. *)
HashOf(t) == IF t \in DOMAIN hashes THEN hashes[t] ELSE {}

NoTables(entries) == {}   \* mutant: the backlog's tables are not flagged
TouchedTables(entries) == {TableOf[entries[i].change[1]] : i \in DOMAIN entries}

TypeOK ==
    /\ upstream \in [Rows -> Seq({"put", "del"})]
    /\ accepted \in [Rows -> 0..MaxChanges]
    /\ seqCounter \in 0..MaxSeq
    /\ handler \in [Handlers -> {NoCall} \cup Call]
    /\ wal \subseteq Entry
    /\ buffer \in Seq(Entry) /\ batch \in Seq(Entry)
    /\ drain \in [pc : {"idle", "apply", "commit", "truncate"}, cut : 0..MaxSeq]
    /\ rows \in [Rows -> [n : 0..MaxChanges, rv : 0..MaxChanges]]
    /\ snapshotSeq \in 0..MaxSeq
    /\ hashes \in HashMap /\ dirty \subseteq Tables
    /\ disk \in [seq : 0..MaxSeq, hashes : HashMap, applying : BOOLEAN]
    /\ up \in BOOLEAN /\ crashes \in 0..MaxCrashes
    /\ handled \subseteq Changes /\ refused \subseteq Changes /\ overtaken \subseteq Entry

(* A scheduler that has just cloned an empty database. *)
Init ==
    /\ upstream = [r \in Rows |-> <<>>] /\ accepted = [r \in Rows |-> 0]
    /\ seqCounter = 0
    /\ handler = [h \in Handlers |-> NoCall]
    /\ wal = {} /\ buffer = <<>> /\ batch = <<>> /\ drain = DrainIdle
    /\ rows = [r \in Rows |-> [n |-> 0, rv |-> 0]]
    /\ snapshotSeq = 0
    /\ hashes = [t \in {} |-> {}] /\ dirty = {}
    /\ disk = [seq |-> 0, hashes |-> [t \in {} |-> {}], applying |-> FALSE]
    /\ up = TRUE /\ crashes = 0
    /\ handled = {} /\ refused = {} /\ overtaken = {}

-----------------------------------------------------------------------------
(* ingest_event_from, one step per lock it takes. *)

Busy(r) == \E h \in Handlers : handler[h] # NoCall /\ handler[h].entry.change[1] = r

(* A change reaches ingest: one that was not answered yet, or a new one.  The
   seq is taken before the log's lock. *)
TakeSeq(h, r) ==
    LET n == accepted[r] + 1 IN
    /\ up /\ handler[h] = NoCall /\ ~Busy(r)
    /\ n <= MaxChanges /\ seqCounter < MaxSeq
    /\ \/ Len(upstream[r]) = n /\ UNCHANGED upstream
       \/ /\ Len(upstream[r]) < n
          /\ \E op \in {"put", "del"} :
                /\ op = "del" => n > 1 /\ upstream[r][n - 1] = "put"
                /\ upstream' = [upstream EXCEPT ![r] = Append(@, op)]
    /\ seqCounter' = seqCounter + 1
    /\ handler' = [handler EXCEPT ![h] =
          [pc |-> "append", entry |-> [seq |-> seqCounter + 1, change |-> <<r, n>>]]]
    /\ overtaken' = {e \in overtaken : e.change # <<r, n>>}
    /\ UNCHANGED <<accepted, wal, buffer, drainVars, replicaVars, up, crashes, handled,
                   refused>>

(* wal.append under the log's lock. *)
AppendToWal(h) ==
    /\ handler[h] # NoCall /\ handler[h].pc = "append"
    /\ wal' = wal \cup {handler[h].entry}
    /\ handler' = [handler EXCEPT ![h].pc = "buffer"]
    /\ UNCHANGED <<dbVars, seqCounter, buffer, drainVars, replicaVars, up, crashes, histVars>>

(* The append failed: 500, and the seq is burned. *)
AppendFails(h) ==
    /\ handler[h] # NoCall /\ handler[h].pc = "append"
    /\ handler' = [handler EXCEPT ![h] = NoCall]
    /\ UNCHANGED <<dbVars, seqCounter, wal, buffer, drainVars, replicaVars, up, crashes,
                   histVars>>

(* The event joins the buffer and the fan-out queue, and the call answers. *)
BufferAndAnswer(h) ==
    LET e == handler[h].entry IN
    /\ handler[h] # NoCall /\ handler[h].pc = "buffer"
    /\ buffer' = Append(buffer, e)
    /\ accepted' = [accepted EXCEPT ![e.change[1]] = e.change[2]]
    /\ handler' = [handler EXCEPT ![h] = NoCall]
    /\ UNCHANGED <<upstream, seqCounter, wal, drainVars, replicaVars, up, crashes, histVars>>

(* The call is dropped after its append (its connection closed, or the tail was
   stopped for a handover): the blocking append has run, nothing else will. *)
Dropped(h) ==
    /\ handler[h] # NoCall /\ handler[h].pc = "buffer"
    /\ handler' = [handler EXCEPT ![h] = NoCall]
    /\ UNCHANGED <<dbVars, seqCounter, wal, buffer, drainVars, replicaVars, up, crashes,
                   histVars>>

-----------------------------------------------------------------------------
(* drain_and_apply, under drain_lock. *)

(* Where the snapshot will stand: the seq of the last event taken. *)
CutPastLast(entries) == Last(entries).seq + 1   \* mutant: off by one
Cut(entries) == Last(entries).seq

InFlight == {handler[h].entry : h \in {g \in Handlers : handler[g] # NoCall}}

(* Take the whole buffer and persist the applying marker.  If the marker cannot
   be persisted the batch's tables are flagged instead. *)
DrainTake ==
    /\ up /\ drain.pc = "idle" /\ buffer # <<>>
    /\ batch' = buffer /\ buffer' = <<>>
    /\ drain' = [pc |-> "apply", cut |-> Cut(buffer)]
    /\ \/ disk' = [disk EXCEPT !.applying = TRUE] /\ UNCHANGED dirty
       \/ "marker" \in Faults /\ dirty' = dirty \cup TouchedTables(buffer) /\ UNCHANGED disk
    /\ overtaken' = overtaken \cup {e \in InFlight : e.seq < Cut(buffer)}
    /\ UNCHANGED <<dbVars, seqCounter, handler, wal, rows, snapshotSeq, hashes, up, crashes,
                   handled, refused>>

(* Nothing buffered, but a table waits for its from-content hash. *)
DrainDirtyOnly ==
    /\ up /\ drain.pc = "idle" /\ buffer = <<>> /\ dirty # {}
    /\ drain' = [pc |-> "commit", cut |-> snapshotSeq]
    /\ UNCHANGED <<dbVars, seqCounter, handler, wal, buffer, batch, replicaVars, up, crashes,
                   histVars>>

(* Replica::apply: a write whose _00_rv the stored row already has is skipped;
   a delete never is. *)
SkipsNext(change) ==   \* mutant: off by one
    Rv(change) > 0 /\ rows[change[1]].rv + 1 >= Rv(change)
Skips(change) == Rv(change) > 0 /\ rows[change[1]].rv >= Rv(change)
Writes(change) == ~Skips(change) \/ "read" \in Faults

(* The table hash follows a write when it has one and is not flagged. *)
Tracking(t) == t \in DOMAIN hashes /\ t \notin dirty
Flagged(t) == IF t \in DOMAIN hashes THEN dirty ELSE dirty \cup {t}
Fold(t, before, after) ==
    IF Tracking(t) THEN [hashes EXCEPT ![t] = Xor(@, Xor(before, after))] ELSE hashes

(* Replica::apply of the next event of the batch. *)
ApplyOne ==
    LET c == Head(batch).change
        r == c[1]
        t == TableOf[r]
    IN
    /\ drain.pc = "apply" /\ batch # <<>>
    /\ batch' = Tail(batch)
    /\ \/ /\ Skips(c)
          /\ dirty' = Flagged(t)
          /\ UNCHANGED <<rows, hashes>>
          /\ handled' = handled \cup {c} /\ UNCHANGED refused
       \/ /\ Writes(c)
          /\ rows' = [rows EXCEPT ![r] = Row(c)]
          /\ \/ /\ hashes' = Fold(t, Digest(r, rows[r]), Digest(r, Row(c)))
                /\ dirty' = Flagged(t)
             \/ /\ "fold" \in Faults /\ Tracking(t)
                /\ dirty' = dirty \cup {t}
                /\ UNCHANGED hashes
          /\ handled' = handled \cup {c} /\ UNCHANGED refused
       \/ /\ "apply" \in Faults /\ Writes(c)
          /\ dirty' = Flagged(t)
          /\ UNCHANGED <<rows, hashes>>
          /\ refused' = refused \cup {c} /\ UNCHANGED handled
    /\ UNCHANGED <<dbVars, seqCounter, handler, wal, buffer, drain, snapshotSeq, disk, up,
                   crashes, overtaken>>

(* commit_snapshot_state(seq) after compute_hashes_for(extra): the flagged
   tables and `extra` are hashed from content, the ones that cannot be stay
   flagged.  Memory moves first; persisting may fail. *)
CommitSnapshot(seq, extra) ==
    /\ \E failed \in SUBSET (extra \cup dirty) :
          LET hashed == (extra \cup dirty) \ failed IN
          /\ failed # {} => "hash" \in Faults
          /\ hashes' = [t \in DOMAIN hashes \cup hashed |->
                           IF t \in hashed THEN Content(t) ELSE hashes[t]]
          /\ dirty' = failed
    /\ snapshotSeq' = seq
    /\ \/ disk' = [seq |-> seq, hashes |-> hashes', applying |-> FALSE]
       \/ "commit" \in Faults /\ UNCHANGED disk

DrainCommit ==
    /\ \/ drain.pc = "apply" /\ batch = <<>>
       \/ drain.pc = "commit"
    /\ CommitSnapshot(drain.cut, {})
    /\ drain' = [drain EXCEPT !.pc = "truncate"]
    /\ UNCHANGED <<dbVars, seqCounter, handler, wal, buffer, batch, rows, up, crashes,
                   histVars>>

(* wal.truncate(cut), which runs whether or not the commit was persisted: see
   DurableLog!AbsTruncate for what may stay. *)
DrainTruncate ==
    /\ drain.pc = "truncate"
    /\ \E kept \in SUBSET {e \in wal : e.seq <= drain.cut} :
          wal' = kept \cup {e \in wal : e.seq > drain.cut}
    /\ drain' = DrainIdle
    /\ UNCHANGED <<dbVars, seqCounter, handler, buffer, batch, replicaVars, up, crashes,
                   histVars>>

(* rehash_tables_from_content, for a disputed bootstrap or an admin, under
   drain_lock. *)
Rehash(tables) ==
    /\ up /\ drain.pc = "idle"
    /\ CommitSnapshot(snapshotSeq, tables)
    /\ UNCHANGED <<dbVars, seqCounter, handler, wal, buffer, drainVars, rows, up, crashes,
                   histVars>>

-----------------------------------------------------------------------------
(* The process dies: everything but the log, the rows and the persisted
   snapshot state is gone. *)
Crash ==
    /\ up /\ crashes < MaxCrashes
    /\ up' = FALSE /\ crashes' = crashes + 1
    /\ handler' = [h \in Handlers |-> NoCall]
    /\ buffer' = <<>> /\ batch' = <<>> /\ drain' = DrainIdle
    /\ dirty' = {}
    /\ UNCHANGED <<dbVars, seqCounter, wal, rows, snapshotSeq, hashes, disk, histVars>>

(* EventWal::recover answers in seq order. *)
BySeq(entries) ==
    {s \in [1..Cardinality(entries) -> entries] :
        /\ \A e \in entries : \E i \in DOMAIN s : s[i] = e
        /\ \A i, j \in DOMAIN s : i < j => s[i].seq < s[j].seq}

Backlog == {e \in wal : e.seq > disk.seq}

(* The seq the counter resumes from: past the log and past the snapshot. *)
ResumeFromWalOnly == MaxOf({e.seq : e \in wal} \cup {0})   \* mutant: forgets the snapshot
ResumeOnePast == MaxOf({e.seq : e \in wal} \cup {disk.seq}) + 1   \* mutant: off by one
ResumeSeq == MaxOf({e.seq : e \in wal} \cup {disk.seq})

(* Replica::new and recover_wal_backlog: the persisted snapshot state, the
   backlog as the first buffer, the counter past both.  After a drain cut short
   the backlog's tables are flagged for a from-content hash. *)
Recover ==
    /\ ~up /\ up' = TRUE
    /\ snapshotSeq' = disk.seq /\ hashes' = disk.hashes
    /\ buffer' \in BySeq(Backlog)
    /\ seqCounter' = ResumeSeq
    /\ dirty' = IF disk.applying THEN TouchedTables(buffer') ELSE {}
    /\ UNCHANGED <<dbVars, handler, wal, drainVars, rows, disk, crashes, histVars>>

-----------------------------------------------------------------------------
Ingest(h) ==
    \/ \E r \in Rows : TakeSeq(h, r)
    \/ AppendToWal(h)
    \/ AppendFails(h)
    \/ BufferAndAnswer(h)
    \/ Dropped(h)

Drain == DrainTake \/ DrainDirtyOnly \/ ApplyOne \/ DrainCommit \/ DrainTruncate

Next ==
    \/ \E h \in Handlers : Ingest(h)
    \/ Drain
    \/ \E tables \in (SUBSET Tables) \ {{}} : Rehash(tables)
    \/ Crash
    \/ Recover

(* The snapshot updater ticks for as long as the process runs, and whoever
   supervises the process restarts it.  Nothing is assumed of the callers. *)
Spec == Init /\ [][Next]_vars /\ WF_vars(Drain) /\ WF_vars(Recover)

-----------------------------------------------------------------------------
IsAccepted(c) == c[2] <= accepted[c[1]]
Settled(c) == c \in handled \cup refused

(* The call that had c answered was in flight, with a lower seq, when a drain
   took a call with a higher one.  Of one caller no call is ever overtaken. *)
Overtaken(c) == \E e \in overtaken : e.change = c

(* An accepted change has been through Replica::apply, or the log still holds
   it past the persisted snapshot, where a crash at this very moment finds it,
   whoever calls ingest at the same time and whatever fails; only a call that a
   drain overtook between taking its seq and joining the buffer may be lost. *)
NoAcceptedChangeLost ==
    \A c \in Changes :
        IsAccepted(c) => \/ Settled(c)
                         \/ \E e \in Backlog : e.change = c
                         \/ Overtaken(c)

(* "Answering the DB event at that point loses nothing" (Fanout's doc): the
   same for every accepted change. *)
AnsweringLosesNothing ==
    \A c \in Changes :
        IsAccepted(c) => Settled(c) \/ \E e \in Backlog : e.change = c

(* With nothing left to drain the replica shows every accepted change, however
   often a crash made it apply one again: a row is never left at an older
   change, nor a deleted row present.  Rows whose apply failed are excused. *)
Converged ==
    up /\ drain.pc = "idle" /\ buffer = <<>> =>
        \A r \in Rows :
            \/ \E c \in refused : c[1] = r
            \/ /\ rows[r].n >= accepted[r]
               /\ rows[r].n > 0 => rows[r] = Row(<<r, rows[r].n>>)

(* The hash a registration hands out describes the rows, unless the table is
   flagged: a stale hash fails every later bootstrap of the table. *)
HashesDescribeRows ==
    up => \A t \in Tables : t \in dirty \/ HashOf(t) = Content(t)

(* The persisted cut moves forward: an SSP that loaded rows at cut N is not sent
   back to an older one.  It recedes only when the last call of a batch is one
   that an earlier drain overtook, and then to that call's seq. *)
CutNeverRecedes == [][disk'.seq >= disk.seq \/ \E e \in overtaken : e.seq = disk'.seq]_vars

(* An accepted change is applied, or refused, in the end, unless its call was
   overtaken. *)
AcceptedIsApplied == \A c \in Changes : IsAccepted(c) ~> Settled(c) \/ Overtaken(c)
=============================================================================
