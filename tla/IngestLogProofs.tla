--------------------------- MODULE IngestLogProofs ---------------------------
(***************************************************************************)
(* What a crash may cost an accepted change, how the persisted cut moves,  *)
(* and how rows and hashes follow, for any rows, tables, faults, bounds    *)
(* and number of crashes.                                                  *)
(*                                                                         *)
(* First one caller (the changefeed tail).  AnsweringLosesNothing is not   *)
(* inductive: a commit moves the persisted cut over log entries, and only  *)
(* the order of the seqs shows that everything it covers was applied.  The *)
(* inductive invariant says where an accepted change waits (Waiting), that *)
(* everything waiting is in the log (Logged), and that the seqs increase   *)
(* from the snapshot through the batch and the buffer to the call in       *)
(* flight (Ordered), which carries its row's next change (InTurn).         *)
(*                                                                         *)
(* Then any number of callers, where that order is lost: AnyInv.           *)
(***************************************************************************)
EXTENDS IngestLog, FiniteSetTheorems, WellFoundedInduction, TLAPS

OneCaller == \A g, h \in Handlers : g = h

-----------------------------------------------------------------------------
Calling(h) == handler[h] # NoCall

Waiting ==
    \A c \in Changes : IsAccepted(c) =>
        \/ Settled(c)
        \/ \E i \in DOMAIN batch : batch[i].change = c
        \/ \E i \in DOMAIN buffer : buffer[i].change = c

Logged ==
    /\ \A i \in DOMAIN batch : batch[i] \in wal
    /\ \A i \in DOMAIN buffer : buffer[i] \in wal
    /\ \A h \in Handlers : Calling(h) /\ handler[h].pc = "buffer" => handler[h].entry \in wal

Ordered ==
    /\ disk.seq <= snapshotSeq /\ snapshotSeq <= seqCounter
    /\ \A i \in DOMAIN batch : snapshotSeq < batch[i].seq /\ batch[i].seq <= drain.cut
    /\ \A i \in DOMAIN buffer : snapshotSeq < buffer[i].seq /\ buffer[i].seq <= seqCounter
    /\ \A i, j \in DOMAIN buffer : i < j => buffer[i].seq < buffer[j].seq
    /\ \A h \in Handlers : Calling(h) =>
          /\ snapshotSeq < handler[h].entry.seq /\ handler[h].entry.seq <= seqCounter
          /\ \A i \in DOMAIN buffer : buffer[i].seq < handler[h].entry.seq

InTurn ==
    \A h \in Handlers : Calling(h) =>
        handler[h].entry.change[2] = accepted[handler[h].entry.change[1]] + 1

Draining ==
    /\ drain.pc # "apply" => batch = <<>>
    /\ drain.pc # "idle" =>
          /\ snapshotSeq <= drain.cut /\ drain.cut <= seqCounter
          /\ \A i \in DOMAIN buffer : drain.cut < buffer[i].seq
          /\ \A h \in Handlers : Calling(h) => drain.cut < handler[h].entry.seq

Down ==
    /\ AnsweringLosesNothing
    /\ \A h \in Handlers : handler[h] = NoCall
    /\ drain = DrainIdle /\ batch = <<>> /\ buffer = <<>>

Inv ==
    /\ TypeOK
    /\ IsFiniteSet(wal)
    /\ up => Waiting /\ Logged /\ Ordered /\ InTurn /\ Draining
    /\ ~up => Down

-----------------------------------------------------------------------------
(* A nonempty set of bounded naturals has the maximum that MaxOf chooses. *)
LEMMA MaxOfBounded ==
    ASSUME NEW N \in Nat, NEW S, S \subseteq 0..N, S # {}
    PROVE  /\ MaxOf(S) \in S
           /\ \A n \in S : n <= MaxOf(S)
<1> DEFINE T == {k \in Nat : k <= N /\ N - k \in S}
<1>1. PICK s \in S : TRUE
  OBVIOUS
<1>2. N - s \in T
  BY <1>1
<1>3. T \subseteq Nat /\ T # {}
  BY <1>2
<1>4. \E x \in T : \A y \in T : ~ (<<y, x>> \in OpToRel(<, Nat))
  BY <1>3, WFMin, NatLessThanWellFounded
<1>5. PICK x \in T : \A y \in T : ~ (<<y, x>> \in OpToRel(<, Nat))
  BY <1>4
<1>6. \A y \in T : x <= y
  <2> SUFFICES ASSUME NEW y \in T, y < x PROVE FALSE
    OBVIOUS
  <2>1. <<y, x>> \in OpToRel(<, Nat)
    BY Zenon DEF OpToRel
  <2> QED
    BY <2>1, <1>5
<1>7. \A n \in S : n <= N - x
  <2> TAKE n \in S
  <2>1. N - n \in T
    OBVIOUS
  <2>2. x <= N - n
    BY <2>1, <1>6
  <2> QED
    BY <2>2
<1>8. N - x \in S
  OBVIOUS
<1>9. \E m \in S : \A n \in S : n <= m
  BY <1>7, <1>8
<1> QED
  BY <1>9 DEF MaxOf

(* A row version is a natural number no larger than the change's position. *)
LEMMA RvType ==
    ASSUME NEW c \in Changes
    PROVE  Rv(c) \in 0..MaxChanges
<1> DEFINE deletes == {i \in 1..c[2] : upstream[c[1]][i] = "del"}
<1>1. c[2] \in 1..MaxChanges
  BY DEF Changes
<1>2. deletes \cup {0} \subseteq 0..c[2] /\ deletes \cup {0} # {}
  BY <1>1, BoundAssumption
<1>3. MaxOf(deletes \cup {0}) \in 0..c[2]
  BY <1>1, <1>2, MaxOfBounded, BoundAssumption
<1> HIDE DEF deletes
<1>4. c[2] - MaxOf(deletes \cup {0}) \in 0..MaxChanges
  BY <1>1, <1>3, BoundAssumption
<1> QED
  BY <1>4 DEF Rv, deletes

-----------------------------------------------------------------------------
(* Type correctness, without any assumption on the callers. *)

TypeInv == TypeOK /\ IsFiniteSet(wal)

Digests == SUBSET (Rows \X (0..MaxChanges))

LEMMA HashMapForm ==
    /\ \A f : f \in HashMap <=> DOMAIN f \subseteq Tables /\ f \in [DOMAIN f -> Digests]
    /\ \A held \in SUBSET Tables : [held -> Digests] \subseteq HashMap
BY DEF HashMap, Digests

LEMMA RowType ==
    ASSUME TypeOK, NEW c \in Changes
    PROVE  /\ c[1] \in Rows /\ c[2] \in 1..MaxChanges
           /\ Row(c) \in [n : 0..MaxChanges, rv : 0..MaxChanges]
BY RvType DEF Row, Changes

LEMMA DigestType ==
    ASSUME NEW r \in Rows, NEW row \in [n : 0..MaxChanges, rv : 0..MaxChanges]
    PROVE  Digest(r, row) \in Digests
BY DEF Digest, Digests

LEMMA ContentType ==
    ASSUME TypeOK, NEW t \in Tables
    PROVE  Content(t) \in Digests
<1>1. \A r \in Rows : Digest(r, rows[r]) \in Digests
  BY DigestType DEF TypeOK
<1> QED
  BY <1>1 DEF Content, Digests

LEMMA FoldType ==
    ASSUME TypeOK, NEW t \in Tables, NEW a \in Digests, NEW b \in Digests
    PROVE  Fold(t, a, b) \in HashMap
<1>1. hashes \in HashMap
  BY DEF TypeOK
<1>2. CASE Tracking(t)
  <2>1. Fold(t, a, b) = [hashes EXCEPT ![t] = Xor(hashes[t], Xor(a, b))]
    BY <1>2 DEF Fold
  <2>2. DOMAIN hashes \in SUBSET Tables /\ hashes \in [DOMAIN hashes -> Digests]
    BY <1>1, HashMapForm
  <2>3. Xor(hashes[t], Xor(a, b)) \in Digests
    BY <1>2, <2>2 DEF Xor, Digests, Tracking
  <2>4. Fold(t, a, b) \in [DOMAIN hashes -> Digests]
    BY <2>1, <2>2, <2>3
  <2> QED
    BY <2>2, <2>4, HashMapForm
<1> QED
  BY <1>1, <1>2 DEF Fold

LEMMA TouchedType ==
    ASSUME NEW s \in Seq(Entry)
    PROVE  TouchedTables(s) \subseteq Tables
<1>1. \A i \in DOMAIN s : s[i] \in Entry
  OBVIOUS
<1>2. \A i \in DOMAIN s : s[i].change[1] \in Rows
  BY <1>1 DEF Entry, Changes
<1> QED
  BY <1>2, TableAssumption DEF TouchedTables

LEMMA CommitType ==
    ASSUME TypeOK, NEW seq \in 0..MaxSeq, NEW extra \in SUBSET Tables,
           CommitSnapshot(seq, extra)
    PROVE  /\ hashes' \in HashMap /\ dirty' \subseteq Tables
           /\ snapshotSeq' = seq
           /\ disk' \in [seq : 0..MaxSeq, hashes : HashMap, applying : BOOLEAN]
           /\ disk'.seq \in {seq, disk.seq}
<1>1. PICK failed \in SUBSET (extra \cup dirty) :
        /\ hashes' = [t \in DOMAIN hashes \cup ((extra \cup dirty) \ failed) |->
                        IF t \in (extra \cup dirty) \ failed THEN Content(t) ELSE hashes[t]]
        /\ dirty' = failed
  BY DEF CommitSnapshot
<1> DEFINE hashed == (extra \cup dirty) \ failed
<1>2. hashed \subseteq Tables /\ dirty' \subseteq Tables
  BY <1>1 DEF TypeOK
<1>3. DOMAIN hashes \subseteq Tables /\ hashes \in [DOMAIN hashes -> Digests]
  BY HashMapForm DEF TypeOK
<1>4. hashes' \in [DOMAIN hashes \cup hashed -> Digests]
  BY <1>1, <1>2, <1>3, ContentType
<1>5. hashes' \in HashMap
  BY <1>2, <1>3, <1>4, HashMapForm
<1>6. disk' = [seq |-> seq, hashes |-> hashes', applying |-> FALSE] \/ disk' = disk
  BY DEF CommitSnapshot
<1>7. disk' \in [seq : 0..MaxSeq, hashes : HashMap, applying : BOOLEAN]
  <2>1. CASE disk' = disk
    BY <2>1 DEF TypeOK
  <2>2. CASE disk' = [seq |-> seq, hashes |-> hashes', applying |-> FALSE]
    BY <2>2, <1>5
  <2> QED
    BY <1>6, <2>1, <2>2
<1>8. disk'.seq \in {seq, disk.seq}
  BY <1>6
<1>9. snapshotSeq' = seq
  BY DEF CommitSnapshot
<1> QED
  BY <1>2, <1>5, <1>7, <1>8, <1>9

(* Where each action puts values, the action at a time. *)
LEMMA TypeStep ==
    ASSUME TypeInv, [Next]_vars
    PROVE  TypeInv'
<1> USE DEF TypeInv
<1>1. ASSUME NEW h \in Handlers, NEW r \in Rows, TakeSeq(h, r)
      PROVE  TypeInv'
  <2>1. accepted[r] + 1 \in 1..MaxChanges /\ seqCounter + 1 \in Seqs
    <3>1. accepted[r] \in 0..MaxChanges /\ seqCounter \in 0..MaxSeq
      BY DEF TypeOK
    <3>2. accepted[r] + 1 <= MaxChanges /\ seqCounter < MaxSeq
      BY <1>1 DEF TakeSeq
    <3> QED
      BY <3>1, <3>2, BoundAssumption DEF Seqs
  <2>2. [pc |-> "append", entry |-> [seq |-> seqCounter + 1, change |-> <<r, accepted[r] + 1>>]]
          \in Call
    BY <2>1 DEF Call, Entry, Changes
  <2>3. handler' \in [Handlers -> {NoCall} \cup Call]
    BY <1>1, <2>2 DEF TakeSeq, TypeOK
  <2>4. upstream' \in [Rows -> Seq({"put", "del"})]
    <3>1. upstream \in [Rows -> Seq({"put", "del"})]
      BY DEF TypeOK
    <3>2. \/ upstream' = upstream
          \/ \E op \in {"put", "del"} :
                upstream' = [upstream EXCEPT ![r] = Append(upstream[r], op)]
      BY <1>1 DEF TakeSeq
    <3>3. \A op \in {"put", "del"} : Append(upstream[r], op) \in Seq({"put", "del"})
      BY <3>1
    <3> QED
      BY <3>1, <3>2, <3>3
  <2>5. seqCounter' \in 0..MaxSeq
    BY <1>1, <2>1 DEF TakeSeq, Seqs
  <2> QED
    BY <1>1, <2>3, <2>4, <2>5
    DEF TakeSeq, TypeOK, drainVars, replicaVars, histVars
<1>2. ASSUME NEW h \in Handlers, AppendToWal(h)
      PROVE  TypeInv'
  <2>1. handler[h] \in Call /\ handler[h].entry \in Entry
    BY <1>2 DEF AppendToWal, TypeOK, Call
  <2>2. wal' \subseteq Entry
    BY <1>2, <2>1 DEF AppendToWal, TypeOK
  <2>3. IsFiniteSet(wal')
    BY <1>2, FS_AddElement DEF AppendToWal
  <2>4. handler' \in [Handlers -> {NoCall} \cup Call]
    BY <1>2, <2>1 DEF AppendToWal, TypeOK, Call
  <2> QED
    BY <1>2, <2>2, <2>3, <2>4
    DEF AppendToWal, TypeOK, dbVars, drainVars, replicaVars, histVars
<1>3. ASSUME NEW h \in Handlers, AppendFails(h) \/ Dropped(h)
      PROVE  TypeInv'
  BY <1>3 DEF AppendFails, Dropped, TypeOK, dbVars, drainVars, replicaVars, histVars
<1>4. ASSUME NEW h \in Handlers, BufferAndAnswer(h)
      PROVE  TypeInv'
  <2>1. handler[h].entry \in Entry
    BY <1>4 DEF BufferAndAnswer, TypeOK, Call
  <2>2. handler[h].entry.change[1] \in Rows /\ handler[h].entry.change[2] \in 0..MaxChanges
    BY <2>1, BoundAssumption DEF Entry, Changes
  <2>3. buffer' \in Seq(Entry)
    BY <1>4, <2>1 DEF BufferAndAnswer, TypeOK
  <2>4. accepted' \in [Rows -> 0..MaxChanges]
    BY <1>4, <2>2 DEF BufferAndAnswer, TypeOK
  <2>5. handler' \in [Handlers -> {NoCall} \cup Call]
    BY <1>4 DEF BufferAndAnswer, TypeOK
  <2> QED
    BY <1>4, <2>3, <2>4, <2>5
    DEF BufferAndAnswer, TypeOK, drainVars, replicaVars, histVars
<1>5. ASSUME DrainTake
      PROVE  TypeInv'
  <2>1. buffer[Len(buffer)] \in Entry
    BY <1>5 DEF DrainTake, TypeOK
  <2>2. Cut(buffer) \in 0..MaxSeq
    BY <2>1 DEF Cut, Last, Entry, Seqs
  <2>3. drain' \in [pc : {"idle", "apply", "commit", "truncate"}, cut : 0..MaxSeq]
    BY <1>5, <2>2 DEF DrainTake
  <2>4. dirty' \subseteq Tables
    BY <1>5, TouchedType DEF DrainTake, TypeOK
  <2>5. disk' \in [seq : 0..MaxSeq, hashes : HashMap, applying : BOOLEAN]
    BY <1>5 DEF DrainTake, TypeOK
  <2>6. overtaken' \subseteq Entry
    <3>1. InFlight \subseteq Entry
      BY DEF InFlight, TypeOK, Call
    <3> QED
      BY <1>5, <3>1 DEF DrainTake, TypeOK
  <2> QED
    BY <1>5, <2>3, <2>4, <2>5, <2>6 DEF DrainTake, TypeOK, dbVars
<1>6. ASSUME DrainDirtyOnly
      PROVE  TypeInv'
  BY <1>6 DEF DrainDirtyOnly, TypeOK, dbVars, replicaVars, histVars
<1>7. ASSUME ApplyOne
      PROVE  TypeInv'
  <2> DEFINE c == Head(batch).change
             t == TableOf[c[1]]
  <2>1. batch # <<>> /\ Head(batch) \in Entry /\ Tail(batch) \in Seq(Entry)
    BY <1>7 DEF ApplyOne, TypeOK
  <2>2. c \in Changes
    BY <2>1 DEF Entry
  <2>3. c[1] \in Rows /\ t \in Tables
    BY <2>2, TableAssumption DEF Changes
  <2>4. Row(c) \in [n : 0..MaxChanges, rv : 0..MaxChanges]
    BY <2>2, RowType
  <2>5. rows' \in [Rows -> [n : 0..MaxChanges, rv : 0..MaxChanges]]
    BY <1>7, <2>3, <2>4 DEF ApplyOne, TypeOK
  <2>6. Fold(t, Digest(c[1], rows[c[1]]), Digest(c[1], Row(c))) \in HashMap
    BY <2>3, <2>4, FoldType, DigestType DEF TypeOK
  <2>7. hashes' \in HashMap
    BY <1>7, <2>6 DEF ApplyOne, TypeOK
  <2>8. dirty' \subseteq Tables
    BY <1>7, <2>3 DEF ApplyOne, TypeOK, Flagged
  <2>9. handled' \subseteq Changes /\ refused' \subseteq Changes
    BY <1>7, <2>2 DEF ApplyOne, TypeOK
  <2>10. batch' \in Seq(Entry)
    BY <1>7, <2>1 DEF ApplyOne
  <2> QED
    BY <1>7, <2>5, <2>7, <2>8, <2>9, <2>10 DEF ApplyOne, TypeOK, dbVars
<1>8. ASSUME DrainCommit
      PROVE  TypeInv'
  <2>1. drain.cut \in 0..MaxSeq
    BY DEF TypeOK
  <2>2. /\ hashes' \in HashMap /\ dirty' \subseteq Tables
        /\ snapshotSeq' = drain.cut
        /\ disk' \in [seq : 0..MaxSeq, hashes : HashMap, applying : BOOLEAN]
    BY <1>8, <2>1, CommitType DEF DrainCommit
  <2>3. drain' \in [pc : {"idle", "apply", "commit", "truncate"}, cut : 0..MaxSeq]
    BY <1>8 DEF DrainCommit, TypeOK
  <2> QED
    BY <1>8, <2>1, <2>2, <2>3 DEF DrainCommit, TypeOK, dbVars, histVars
<1>9. ASSUME DrainTruncate
      PROVE  TypeInv'
  <2>1. wal' \subseteq wal
    BY <1>9 DEF DrainTruncate
  <2>2. IsFiniteSet(wal')
    BY <2>1, FS_Subset
  <2> QED
    BY <1>9, <2>1, <2>2, BoundAssumption
    DEF DrainTruncate, TypeOK, DrainIdle, dbVars, replicaVars, histVars
<1>10. ASSUME NEW tables \in SUBSET Tables, Rehash(tables)
       PROVE  TypeInv'
  <2>1. /\ hashes' \in HashMap /\ dirty' \subseteq Tables
        /\ snapshotSeq' = snapshotSeq
        /\ disk' \in [seq : 0..MaxSeq, hashes : HashMap, applying : BOOLEAN]
    BY <1>10, CommitType DEF Rehash, TypeOK
  <2> QED
    BY <1>10, <2>1 DEF Rehash, TypeOK, dbVars, drainVars, histVars
<1>11. ASSUME Crash
       PROVE  TypeInv'
  <2>1. buffer' \in Seq(Entry) /\ batch' \in Seq(Entry)
    BY <1>11 DEF Crash
  <2>2. handler' \in [Handlers -> {NoCall} \cup Call]
    BY <1>11 DEF Crash
  <2>3. drain' \in [pc : {"idle", "apply", "commit", "truncate"}, cut : 0..MaxSeq]
    BY <1>11, BoundAssumption DEF Crash, DrainIdle
  <2>4. crashes' \in 0..MaxCrashes
    <3>1. crashes \in 0..MaxCrashes /\ crashes < MaxCrashes /\ crashes' = crashes + 1
      BY <1>11 DEF Crash, TypeOK
    <3> QED
      BY <3>1, BoundAssumption
  <2>5. dirty' \subseteq Tables
    BY <1>11 DEF Crash
  <2> QED
    BY <1>11, <2>1, <2>2, <2>3, <2>4, <2>5 DEF Crash, TypeOK, dbVars, histVars
<1>12. ASSUME Recover
       PROVE  TypeInv'
  <2>1. Backlog \subseteq wal /\ Backlog \subseteq Entry
    BY DEF Backlog, TypeOK
  <2>2. Cardinality(Backlog) \in Nat
    BY <2>1, FS_Subset, FS_CardinalityType
  <2>3. buffer' \in Seq(Entry)
    <3>1. buffer' \in [1..Cardinality(Backlog) -> Backlog]
      BY <1>12 DEF Recover, BySeq
    <3> QED
      BY <2>1, <2>2, <3>1
  <2>4. {e.seq : e \in wal} \cup {disk.seq} \subseteq 0..MaxSeq
    BY DEF TypeOK, Entry, Seqs
  <2>5. ResumeSeq \in 0..MaxSeq
    BY <2>4, MaxOfBounded, BoundAssumption DEF ResumeSeq
  <2>6. dirty' \subseteq Tables
    BY <1>12, <2>3, TouchedType DEF Recover
  <2> QED
    BY <1>12, <2>3, <2>5, <2>6
    DEF Recover, TypeOK, dbVars, drainVars, histVars
<1>13. CASE UNCHANGED vars
  BY <1>13 DEF TypeOK, vars, dbVars, drainVars, replicaVars, histVars
<1> QED
  BY <1>1, <1>2, <1>3, <1>4, <1>5, <1>6, <1>7, <1>8, <1>9, <1>10, <1>11, <1>12, <1>13
  DEF Next, Ingest, Drain

LEMMA TypeInit == Init => TypeInv
<1> SUFFICES ASSUME Init PROVE TypeInv
  OBVIOUS
<1>1. [t \in {} |-> {}] \in HashMap
  BY HashMapForm
<1>2. disk \in [seq : 0..MaxSeq, hashes : HashMap, applying : BOOLEAN]
  BY <1>1, BoundAssumption DEF Init
<1>3. IsFiniteSet(wal)
  BY FS_EmptySet DEF Init
<1> QED
  BY <1>1, <1>2, <1>3, BoundAssumption DEF Init, TypeInv, TypeOK, DrainIdle

(* Every reachable state of the ingest path, the drain and the recovery is well
   typed: in particular no seq, row version or cut leaves its bound. *)
THEOREM TypeCorrect == Spec => []TypeOK
<1>1. Spec => []TypeInv
  BY TypeInit, TypeStep, PTL DEF Spec
<1>2. TypeInv => TypeOK
  BY DEF TypeInv
<1> QED
  BY <1>1, <1>2, PTL

-----------------------------------------------------------------------------
LEMMA SeqTypes ==
    ASSUME TypeInv
    PROVE  /\ disk.seq \in Nat /\ snapshotSeq \in Nat /\ seqCounter \in Nat /\ drain.cut \in Nat
           /\ \A i \in DOMAIN batch : batch[i].seq \in Nat
           /\ \A i \in DOMAIN buffer : buffer[i].seq \in Nat
           /\ \A e \in wal : e.seq \in Nat
           /\ \A h \in Handlers : Calling(h) =>
                 handler[h].entry \in Entry /\ handler[h].entry.seq \in Nat
<1>1. disk.seq \in Nat /\ snapshotSeq \in Nat /\ seqCounter \in Nat /\ drain.cut \in Nat
  BY DEF TypeInv, TypeOK
<1>2. \A e \in Entry : e.seq \in Nat
  BY DEF Entry, Seqs
<1>3. \A h \in Handlers : Calling(h) => handler[h].entry \in Entry
  BY DEF TypeInv, TypeOK, Call, Calling
<1>4. /\ \A i \in DOMAIN batch : batch[i] \in Entry
      /\ \A i \in DOMAIN buffer : buffer[i] \in Entry
      /\ wal \subseteq Entry
  BY DEF TypeInv, TypeOK
<1> QED
  BY <1>1, <1>2, <1>3, <1>4

(* In a running process the invariant places every accepted change in the log. *)
LEMMA WaitingIsLogged ==
    ASSUME TypeInv, Waiting, Logged, Ordered
    PROVE  AnsweringLosesNothing
<1> SUFFICES ASSUME NEW c \in Changes, IsAccepted(c), ~Settled(c)
             PROVE  \E e \in Backlog : e.change = c
  BY DEF AnsweringLosesNothing
<1>1. disk.seq \in Nat /\ snapshotSeq \in Nat
  BY DEF TypeInv, TypeOK
<1>2. CASE \E i \in DOMAIN batch : batch[i].change = c
  <2>1. PICK i \in DOMAIN batch : batch[i].change = c
    BY <1>2
  <2>2. batch[i] \in wal /\ batch[i].seq > disk.seq
    BY <1>1 DEF Logged, Ordered, TypeInv, TypeOK, Entry, Seqs
  <2> QED
    BY <2>1, <2>2 DEF Backlog
<1>3. CASE \E i \in DOMAIN buffer : buffer[i].change = c
  <2>1. PICK i \in DOMAIN buffer : buffer[i].change = c
    BY <1>3
  <2>2. buffer[i] \in wal /\ buffer[i].seq > disk.seq
    BY <1>1 DEF Logged, Ordered, TypeInv, TypeOK, Entry, Seqs
  <2> QED
    BY <2>1, <2>2 DEF Backlog
<1> QED
  BY <1>2, <1>3 DEF Waiting

LEMMA InvImpliesNoLoss == Inv => AnsweringLosesNothing
BY WaitingIsLogged DEF Inv, TypeInv, Down

(* The steps of an ingest call. *)
LEMMA IngestStep ==
    ASSUME OneCaller, Inv, TypeInv', NEW h \in Handlers, Ingest(h)
    PROVE  Inv'
<1>1. \A g \in Handlers : g = h
  BY DEF OneCaller
<1>2. up /\ up' = up
  BY DEF Inv, Down, Ingest, TakeSeq, AppendToWal, AppendFails, BufferAndAnswer, Dropped
<1>3. Waiting /\ Logged /\ Ordered /\ InTurn /\ Draining /\ TypeInv
  BY <1>2 DEF Inv, TypeInv
<1>4. SUFFICES Waiting' /\ Logged' /\ Ordered' /\ InTurn' /\ Draining'
  BY <1>2 DEF Inv, TypeInv
<1>5. ASSUME NEW r \in Rows, TakeSeq(h, r)
      PROVE  Waiting' /\ Logged' /\ Ordered' /\ InTurn' /\ Draining'
  <2>1. handler'[h] = [pc |-> "append", entry |-> [seq |-> seqCounter + 1,
                                                  change |-> <<r, accepted[r] + 1>>]]
    BY <1>5, <1>3 DEF TakeSeq, TypeInv, TypeOK
  <2>2. seqCounter \in Nat /\ seqCounter' = seqCounter + 1
    BY <1>5, <1>3 DEF TakeSeq, TypeInv, TypeOK
  <2>3. UNCHANGED <<accepted, wal, buffer, batch, drain, snapshotSeq, disk, handled, refused>>
    BY <1>5 DEF TakeSeq, drainVars, replicaVars, histVars
  <2>4. Waiting'
    BY <1>3, <2>3 DEF Waiting, IsAccepted, Settled
  <2>5. Logged'
    BY <1>1, <1>3, <2>1, <2>3 DEF Logged, Calling
  <2>6. handler'[h].entry.seq = seqCounter + 1
    BY <2>1
  <2>7. Ordered'
    BY <1>1, <1>3, <2>2, <2>3, <2>6, SeqTypes DEF Ordered
  <2>8. InTurn'
    BY <1>1, <2>1, <2>3 DEF InTurn
  <2>9. Draining'
    BY <1>1, <1>3, <2>2, <2>3, <2>6, SeqTypes DEF Draining
  <2> QED
    BY <2>4, <2>5, <2>7, <2>8, <2>9
<1>6. ASSUME AppendToWal(h)
      PROVE  Waiting' /\ Logged' /\ Ordered' /\ InTurn' /\ Draining'
  <2>1. Calling(h) /\ handler[h] \in Call
    BY <1>6, <1>3 DEF AppendToWal, Calling, TypeInv, TypeOK
  <2>2. handler'[h].entry = handler[h].entry
    BY <1>6, <1>3, <2>1 DEF AppendToWal, TypeInv, TypeOK, Call
  <2>3. UNCHANGED <<accepted, seqCounter, buffer, batch, drain, snapshotSeq, disk, handled,
                    refused>>
    BY <1>6 DEF AppendToWal, dbVars, drainVars, replicaVars, histVars
  <2>4. wal \subseteq wal' /\ handler[h].entry \in wal'
    BY <1>6 DEF AppendToWal
  <2>5. Waiting'
    BY <1>3, <2>3 DEF Waiting, IsAccepted, Settled
  <2>6. Logged'
    BY <1>1, <1>3, <2>2, <2>3, <2>4 DEF Logged, Calling
  <2>7. Ordered'
    BY <1>1, <1>3, <2>1, <2>2, <2>3 DEF Ordered, Calling
  <2>8. InTurn'
    BY <1>1, <1>3, <2>1, <2>2, <2>3 DEF InTurn
  <2>9. Draining'
    BY <1>1, <1>3, <2>1, <2>2, <2>3 DEF Draining, Calling
  <2> QED
    BY <2>5, <2>6, <2>7, <2>8, <2>9
<1>7. ASSUME AppendFails(h) \/ Dropped(h)
      PROVE  Waiting' /\ Logged' /\ Ordered' /\ InTurn' /\ Draining'
  <2>1. handler'[h] = NoCall
    BY <1>7, <1>3 DEF AppendFails, Dropped, TypeInv, TypeOK
  <2>2. UNCHANGED <<accepted, seqCounter, wal, buffer, batch, drain, snapshotSeq, disk, handled,
                    refused>>
    BY <1>7 DEF AppendFails, Dropped, dbVars, drainVars, replicaVars, histVars
  <2> QED
    BY <1>1, <1>3, <2>1, <2>2 DEF Waiting, IsAccepted, Settled, Logged, Ordered, InTurn, Draining, Calling
<1>8. ASSUME BufferAndAnswer(h)
      PROVE  Waiting' /\ Logged' /\ Ordered' /\ InTurn' /\ Draining'
  <2> DEFINE e == handler[h].entry
  <2>1. Calling(h) /\ e \in Entry /\ e \in wal
    BY <1>8, <1>3 DEF BufferAndAnswer, Calling, TypeInv, TypeOK, Call, Logged
  <2>2. handler'[h] = NoCall /\ buffer' = Append(buffer, e)
    BY <1>8, <1>3 DEF BufferAndAnswer, TypeInv, TypeOK
  <2>3. UNCHANGED <<seqCounter, wal, batch, drain, snapshotSeq, disk, handled, refused>>
    BY <1>8 DEF BufferAndAnswer, drainVars, replicaVars, histVars
  <2>4. buffer \in Seq(Entry)
    BY <1>3 DEF TypeInv, TypeOK
  <2>5. /\ DOMAIN buffer' = DOMAIN buffer \cup {Len(buffer) + 1}
        /\ Len(buffer) \in Nat /\ DOMAIN buffer = 1..Len(buffer)
        /\ buffer'[Len(buffer) + 1] = e
        /\ \A i \in DOMAIN buffer : buffer'[i] = buffer[i]
    BY <2>1, <2>2, <2>4
  <2>6. Waiting'
    <3> SUFFICES ASSUME NEW c \in Changes, IsAccepted(c)', ~Settled(c)'
                 PROVE  \/ \E i \in DOMAIN batch' : batch'[i].change = c
                        \/ \E i \in DOMAIN buffer' : buffer'[i].change = c
      BY DEF Waiting
    <3>1. e.change \in Changes /\ c = <<c[1], c[2]>> /\ e.change = <<e.change[1], e.change[2]>>
      BY <2>1 DEF Entry, Changes
    <3>2. CASE c = e.change
      BY <3>2, <2>5
    <3>3. CASE c # e.change
      <4>1. IsAccepted(c)
        <5>1. CASE c[1] # e.change[1]
          BY <5>1, <1>8, <1>3, <3>1 DEF BufferAndAnswer, IsAccepted, TypeInv, TypeOK, Changes
        <5>2. CASE c[1] = e.change[1]
          <6>1. e.change[2] = accepted[c[1]] + 1
            BY <5>2, <1>3, <2>1 DEF InTurn
          <6>2. accepted'[c[1]] = e.change[2]
            BY <5>2, <1>8, <1>3, <3>1 DEF BufferAndAnswer, TypeInv, TypeOK, Changes
          <6>3. c[2] # e.change[2] /\ c[2] <= e.change[2]
            BY <5>2, <6>2, <3>1, <3>3 DEF IsAccepted
          <6>4. c[2] \in Nat /\ accepted[c[1]] \in Nat
            <7>1. c[1] \in Rows /\ c[2] \in Nat
              BY DEF Changes
            <7>2. accepted \in [Rows -> 0..MaxChanges]
              BY <1>3 DEF TypeInv, TypeOK
            <7> QED
              BY <7>1, <7>2, BoundAssumption
          <6> QED
            BY <6>1, <6>3, <6>4 DEF IsAccepted
        <5> QED
          BY <5>1, <5>2
      <4>2. ~Settled(c)
        BY <2>3 DEF Settled
      <4> QED
        BY <4>1, <4>2, <1>3, <2>3, <2>5 DEF Waiting
    <3> QED
      BY <3>2, <3>3
  <2>7. Logged'
    BY <1>1, <1>3, <2>1, <2>2, <2>3, <2>5 DEF Logged, Calling
  <2>8. Ordered'
    <3>1. \A i \in DOMAIN buffer : buffer[i].seq < e.seq
      BY <1>3, <2>1 DEF Ordered
    <3>2. snapshotSeq < e.seq /\ e.seq <= seqCounter
      BY <1>3, <2>1 DEF Ordered
    <3>3. \A i, j \in DOMAIN buffer' : i < j => buffer'[i].seq < buffer'[j].seq
      BY <1>3, <2>5, <3>1 DEF Ordered
    <3>4. \A i \in DOMAIN buffer' : snapshotSeq < buffer'[i].seq /\ buffer'[i].seq <= seqCounter
      BY <1>3, <2>5, <3>2 DEF Ordered
    <3> QED
      BY <1>1, <1>3, <2>2, <2>3, <3>3, <3>4 DEF Ordered, Calling
  <2>9. Draining'
    BY <1>1, <1>3, <2>1, <2>2, <2>3, <2>5 DEF Draining, Calling
  <2>10. InTurn'
    BY <1>1, <2>2 DEF InTurn, Calling
  <2> QED
    BY <2>6, <2>7, <2>8, <2>9, <2>10
<1> QED
  BY <1>5, <1>6, <1>7, <1>8 DEF Ingest

(* The steps of a drain. *)
LEMMA DrainStep ==
    ASSUME Inv, TypeInv', Drain
    PROVE  Inv'
<1>1. up /\ up' = up
  BY DEF Inv, Down, DrainIdle, Drain, DrainTake, DrainDirtyOnly, ApplyOne, DrainCommit,
         DrainTruncate
<1>2. Waiting /\ Logged /\ Ordered /\ InTurn /\ Draining /\ TypeInv
  BY <1>1 DEF Inv, TypeInv
<1>3. SUFFICES Waiting' /\ Logged' /\ Ordered' /\ InTurn' /\ Draining'
  BY <1>1 DEF Inv, TypeInv
<1>4. UNCHANGED <<accepted, seqCounter, handler>>
  BY DEF Drain, DrainTake, DrainDirtyOnly, ApplyOne, DrainCommit, DrainTruncate, dbVars
<1>5. InTurn'
  BY <1>2, <1>4 DEF InTurn, Calling
<1>6. ASSUME DrainTake
      PROVE  Waiting' /\ Logged' /\ Ordered' /\ InTurn' /\ Draining'
  <2>1. batch = <<>> /\ batch' = buffer /\ buffer' = <<>>
    BY <1>6, <1>2 DEF DrainTake, Draining
  <2>2. UNCHANGED <<wal, snapshotSeq, handled, refused>> /\ disk'.seq = disk.seq
    BY <1>6, <1>2 DEF DrainTake, histVars, TypeInv, TypeOK
  <2>3. buffer \in Seq(Entry) /\ buffer # <<>>
    BY <1>6, <1>2 DEF DrainTake, TypeInv, TypeOK
  <2>4. Len(buffer) \in DOMAIN buffer /\ \A i \in DOMAIN buffer : i <= Len(buffer)
    BY <2>3
  <2>5. drain' = [pc |-> "apply", cut |-> buffer[Len(buffer)].seq]
    BY <1>6 DEF DrainTake, Cut, Last
  <2>6. \A i \in DOMAIN buffer : buffer[i].seq <= drain'.cut
    <3> TAKE i \in DOMAIN buffer
    <3>1. i = Len(buffer) \/ i < Len(buffer)
      BY <2>3, <2>4
    <3>2. buffer[i].seq \in Nat /\ buffer[Len(buffer)].seq \in Nat
      BY <1>2, <2>4, SeqTypes
    <3>3. i < Len(buffer) => buffer[i].seq < buffer[Len(buffer)].seq
      BY <1>2, <2>4 DEF Ordered
    <3> QED
      BY <2>5, <3>1, <3>2, <3>3
  <2>7. Waiting'
    BY <1>2, <1>4, <2>1, <2>2 DEF Waiting, IsAccepted, Settled
  <2>8. Logged'
    BY <1>2, <1>4, <2>1, <2>2 DEF Logged, Calling
  <2>9. Ordered'
    BY <1>2, <1>4, <2>1, <2>2, <2>6 DEF Ordered, Calling
  <2>10. snapshotSeq' <= drain'.cut /\ drain'.cut <= seqCounter'
    BY <1>2, <1>4, <2>2, <2>4, <2>5, SeqTypes DEF Ordered
  <2>11. \A h \in Handlers : Calling(h)' => drain'.cut < handler'[h].entry.seq
    BY <1>2, <1>4, <2>4, <2>5 DEF Ordered, Calling
  <2>12. Draining'
    BY <2>1, <2>5, <2>10, <2>11 DEF Draining
  <2> QED
    BY <1>5, <2>7, <2>8, <2>9, <2>12
<1>7. ASSUME DrainDirtyOnly
      PROVE  Waiting' /\ Logged' /\ Ordered' /\ InTurn' /\ Draining'
  <2>1. UNCHANGED <<wal, buffer, batch, snapshotSeq, disk, handled, refused>>
    BY <1>7 DEF DrainDirtyOnly, replicaVars, histVars
  <2>2. batch = <<>> /\ buffer = <<>> /\ drain' = [pc |-> "commit", cut |-> snapshotSeq]
    BY <1>7, <1>2 DEF DrainDirtyOnly, Draining
  <2>3. Waiting' /\ Logged'
    BY <1>2, <1>4, <2>1 DEF Waiting, IsAccepted, Settled, Logged, Calling
  <2>4. Ordered'
    BY <1>2, <1>4, <2>1, <2>2 DEF Ordered, Calling
  <2>5. Draining'
    BY <1>2, <1>4, <2>1, <2>2, SeqTypes DEF Draining, Ordered, Calling
  <2> QED
    BY <1>5, <2>3, <2>4, <2>5
<1>8. ASSUME ApplyOne
      PROVE  Waiting' /\ Logged' /\ Ordered' /\ InTurn' /\ Draining'
  <2>1. UNCHANGED <<wal, buffer, drain, snapshotSeq, disk>>
    BY <1>8 DEF ApplyOne
  <2>2. batch \in Seq(Entry) /\ batch # <<>> /\ batch' = Tail(batch) /\ drain.pc = "apply"
    BY <1>8, <1>2 DEF ApplyOne, TypeInv, TypeOK
  <2>3. /\ \A i \in DOMAIN batch' : i + 1 \in DOMAIN batch /\ batch'[i] = batch[i + 1]
        /\ \A i \in DOMAIN batch : i = 1 \/ (i - 1 \in DOMAIN batch' /\ batch'[i - 1] = batch[i])
        /\ Head(batch) = batch[1]
    BY <2>2
  <2>4. handled \cup refused \cup {Head(batch).change} = handled' \cup refused'
    BY <1>8 DEF ApplyOne
  <2>5. Waiting'
    <3> SUFFICES ASSUME NEW c \in Changes, IsAccepted(c)', ~Settled(c)'
                 PROVE  \/ \E i \in DOMAIN batch' : batch'[i].change = c
                        \/ \E i \in DOMAIN buffer' : buffer'[i].change = c
      BY DEF Waiting
    <3>1. IsAccepted(c) /\ ~Settled(c) /\ c # batch[1].change
      BY <1>4, <2>3, <2>4 DEF IsAccepted, Settled
    <3>2. \/ \E i \in DOMAIN batch : batch[i].change = c
          \/ \E i \in DOMAIN buffer : buffer[i].change = c
      BY <1>2, <3>1 DEF Waiting
    <3>3. CASE \E i \in DOMAIN batch : batch[i].change = c
      <4>1. PICK i \in DOMAIN batch : batch[i].change = c
        BY <3>3
      <4>2. i # 1
        BY <4>1, <3>1
      <4> QED
        BY <4>1, <4>2, <2>3
    <3> QED
      BY <3>2, <3>3, <2>1
  <2>6. Logged'
    BY <1>2, <1>4, <2>1, <2>3 DEF Logged, Calling
  <2>7. Ordered'
    BY <1>2, <1>4, <2>1, <2>3 DEF Ordered, Calling
  <2>8. Draining'
    BY <1>2, <1>4, <2>1, <2>2 DEF Draining, Calling
  <2> QED
    BY <1>5, <2>5, <2>6, <2>7, <2>8
<1>9. ASSUME DrainCommit
      PROVE  Waiting' /\ Logged' /\ Ordered' /\ InTurn' /\ Draining'
  <2>1. UNCHANGED <<wal, buffer, batch, handled, refused>> /\ batch = <<>>
    BY <1>9, <1>2 DEF DrainCommit, histVars, Draining
  <2>2. drain.pc # "idle" /\ drain'.pc = "truncate" /\ drain'.cut = drain.cut
    BY <1>9, <1>2 DEF DrainCommit, TypeInv, TypeOK
  <2>3. snapshotSeq' = drain.cut /\ disk'.seq \in {drain.cut, disk.seq}
    <3>1. drain.cut \in 0..MaxSeq /\ {} \in SUBSET Tables /\ TypeOK
      BY <1>2 DEF TypeInv, TypeOK
    <3>2. CommitSnapshot(drain.cut, {})
      BY <1>9 DEF DrainCommit
    <3> QED
      BY <3>1, <3>2, CommitType
  <2>4. Waiting' /\ Logged'
    BY <1>2, <1>4, <2>1 DEF Waiting, IsAccepted, Settled, Logged, Calling
  <2>5. disk'.seq <= snapshotSeq' /\ snapshotSeq' <= seqCounter'
    BY <1>2, <1>4, <2>2, <2>3, SeqTypes DEF Ordered, Draining
  <2>6. Ordered'
    BY <1>2, <1>4, <2>1, <2>2, <2>3, <2>5 DEF Ordered, Draining, Calling
  <2>7. Draining'
    BY <1>2, <1>4, <2>1, <2>2, <2>3, SeqTypes DEF Draining, Calling
  <2> QED
    BY <1>5, <2>4, <2>6, <2>7
<1>10. ASSUME DrainTruncate
       PROVE  Waiting' /\ Logged' /\ Ordered' /\ InTurn' /\ Draining'
  <2>1. UNCHANGED <<buffer, batch, snapshotSeq, disk, handled, refused>> /\ batch = <<>>
    BY <1>10, <1>2 DEF DrainTruncate, replicaVars, histVars, Draining
  <2>2. drain.pc # "idle" /\ drain' = DrainIdle
    BY <1>10 DEF DrainTruncate
  <2>3. \A e \in wal : e.seq > drain.cut => e \in wal'
    BY <1>10 DEF DrainTruncate
  <2>4. Waiting'
    BY <1>2, <1>4, <2>1 DEF Waiting, IsAccepted, Settled
  <2>5. Logged'
    <3>1. \A i \in DOMAIN buffer : buffer[i].seq > drain.cut
      BY <1>2, <2>2, SeqTypes DEF Draining
    <3>2. \A h \in Handlers : Calling(h) => handler[h].entry.seq > drain.cut
      BY <1>2, <2>2, SeqTypes DEF Draining
    <3> QED
      BY <1>2, <1>4, <2>1, <2>3, <3>1, <3>2 DEF Logged, Calling
  <2>6. Ordered'
    BY <1>2, <1>4, <2>1 DEF Ordered, Calling
  <2>7. Draining'
    BY <2>1, <2>2 DEF Draining, DrainIdle
  <2> QED
    BY <1>5, <2>4, <2>5, <2>6, <2>7
<1> QED
  BY <1>6, <1>7, <1>8, <1>9, <1>10 DEF Drain

(* A from-content rehash, a crash and a recovery. *)
LEMMA RehashStep ==
    ASSUME Inv, TypeInv', NEW tables \in SUBSET Tables, Rehash(tables)
    PROVE  Inv'
<1>1. up /\ up' = up
  BY DEF Rehash
<1>2. Waiting /\ Logged /\ Ordered /\ InTurn /\ Draining /\ TypeInv
  BY <1>1 DEF Inv, TypeInv
<1>3. UNCHANGED <<accepted, seqCounter, handler, wal, buffer, batch, drain, handled, refused>>
  BY DEF Rehash, dbVars, drainVars, histVars
<1>4. snapshotSeq' = snapshotSeq /\ disk'.seq \in {snapshotSeq, disk.seq}
  BY <1>2, CommitType DEF Rehash, TypeInv, TypeOK
<1>5. Waiting' /\ Logged' /\ InTurn' /\ Draining'
  BY <1>2, <1>3, <1>4 DEF Waiting, IsAccepted, Settled, Logged, InTurn, Draining, Calling
<1>6. Ordered'
  BY <1>2, <1>3, <1>4, SeqTypes DEF Ordered, Calling
<1> QED
  BY <1>1, <1>5, <1>6 DEF Inv, TypeInv

LEMMA CrashStep ==
    ASSUME Inv, TypeInv', Crash
    PROVE  Inv'
<1>1. AnsweringLosesNothing
  BY InvImpliesNoLoss
<1>2. UNCHANGED <<accepted, wal, disk, handled, refused>>
  BY DEF Crash, dbVars, histVars
<1>3. AnsweringLosesNothing'
  BY <1>1, <1>2 DEF AnsweringLosesNothing, IsAccepted, Settled, Backlog
<1>4. Down'
  BY <1>3 DEF Crash, Down
<1>5. ~up'
  BY DEF Crash
<1> QED
  BY <1>4, <1>5 DEF Inv, TypeInv

LEMMA RecoverStep ==
    ASSUME Inv, TypeInv', Recover
    PROVE  Inv'
<1>1. ~up /\ up'
  BY DEF Recover
<1>2. Down /\ TypeInv
  BY <1>1 DEF Inv, TypeInv
<1>3. UNCHANGED <<accepted, handler, wal, batch, drain, disk, handled, refused>>
  BY DEF Recover, dbVars, drainVars, histVars
<1>4. snapshotSeq' = disk.seq /\ seqCounter' = ResumeSeq
  BY DEF Recover
<1>5. /\ \A i \in DOMAIN buffer' : buffer'[i] \in Backlog
      /\ \A e \in Backlog : \E i \in DOMAIN buffer' : buffer'[i] = e
      /\ \A i, j \in DOMAIN buffer' : i < j => buffer'[i].seq < buffer'[j].seq
  BY DEF Recover, BySeq
<1>6. \A e \in Backlog : e \in wal /\ disk.seq < e.seq
  BY <1>2, SeqTypes DEF Backlog
<1>7. disk.seq <= ResumeSeq /\ \A e \in wal : e.seq <= ResumeSeq
  <2> DEFINE S == {e.seq : e \in wal} \cup {disk.seq}
  <2>1. S \subseteq 0..MaxSeq /\ S # {}
    BY <1>2 DEF TypeInv, TypeOK, Entry, Seqs
  <2>2. \A n \in S : n <= MaxOf(S)
    BY <2>1, MaxOfBounded, BoundAssumption
  <2> QED
    BY <2>2 DEF ResumeSeq
<1>8. Waiting'
  <2> SUFFICES ASSUME NEW c \in Changes, IsAccepted(c)', ~Settled(c)'
               PROVE  \E i \in DOMAIN buffer' : buffer'[i].change = c
    BY DEF Waiting
  <2>1. IsAccepted(c) /\ ~Settled(c)
    BY <1>3 DEF IsAccepted, Settled
  <2>2. PICK e \in Backlog : e.change = c
    BY <1>2, <2>1 DEF Down, AnsweringLosesNothing
  <2> QED
    BY <1>5, <2>2
<1>9. Logged'
  BY <1>2, <1>3, <1>5, <1>6 DEF Logged, Down, Calling
<1>10. Ordered'
  BY <1>2, <1>3, <1>4, <1>5, <1>6, <1>7, SeqTypes DEF Ordered, Down, Calling
<1>11. InTurn'
  BY <1>2, <1>3 DEF InTurn, Down, Calling
<1>12. Draining'
  BY <1>2, <1>3 DEF Draining, Down, DrainIdle, Calling
<1> QED
  BY <1>1, <1>8, <1>9, <1>10, <1>11, <1>12 DEF Inv, TypeInv

LEMMA InvInit == Init => Inv
<1> SUFFICES ASSUME Init PROVE Inv
  OBVIOUS
<1>1. TypeInv
  BY TypeInit
<1>2. up /\ batch = <<>> /\ buffer = <<>> /\ \A h \in Handlers : handler[h] = NoCall
  BY DEF Init
<1>3. Waiting
  BY DEF Init, Waiting, IsAccepted, Changes
<1>4. Logged /\ InTurn
  BY <1>2 DEF Logged, InTurn, Calling
<1>5. Ordered
  BY <1>2 DEF Init, Ordered, Calling
<1>6. Draining
  BY <1>2 DEF Init, Draining, DrainIdle
<1> QED
  BY <1>1, <1>2, <1>3, <1>4, <1>5, <1>6 DEF Inv, TypeInv

LEMMA InvStep ==
    ASSUME OneCaller, Inv, [Next]_vars
    PROVE  Inv'
<1>1. TypeInv'
  BY TypeStep DEF Inv, TypeInv
<1>2. CASE UNCHANGED vars
  <2>1. UNCHANGED <<accepted, seqCounter, handler, wal, buffer, batch, drain, snapshotSeq, disk,
                    up, handled, refused>>
    BY <1>2 DEF vars, dbVars, drainVars, replicaVars, histVars
  <2> QED
    BY <1>1, <2>1 DEF Inv, TypeInv, Waiting, IsAccepted, Settled, Logged, Ordered, InTurn,
         Draining, Down, AnsweringLosesNothing, Backlog, Calling
<1> QED
  BY <1>1, <1>2, IngestStep, DrainStep, RehashStep, CrashStep, RecoverStep DEF Next

(* With one caller of ingest_event_from, a crash at any moment loses no change
   that was answered with a seq: it was applied, or the log holds it past the
   persisted snapshot_seq, whatever appends, applies and commits fail. *)
THEOREM OneCallerLosesNothing ==
    ASSUME OneCaller
    PROVE  Spec => []AnsweringLosesNothing
<1>1. Inv /\ [Next]_vars => Inv'
  BY InvStep
<1>2. Spec => []Inv
  BY <1>1, InvInit, PTL DEF Spec
<1> QED
  BY <1>2, InvImpliesNoLoss, PTL

-----------------------------------------------------------------------------
(***************************************************************************)
(* Any number of callers.  Seqs are handed out before the log's lock, so   *)
(* the buffer is no longer in seq order and a drain may take a seq past    *)
(* the one of a call that is still in flight.  What is left of the order   *)
(* is that everything waiting that was not overtaken lies past the         *)
(* snapshot, past the persisted cut and past the cut of the running drain  *)
(* (Beyond), and that the cut falls behind the persisted one only to the   *)
(* seq of a call that was overtaken and answered (Reached).                *)
(***************************************************************************)
Caught(e) == e \in overtaken /\ IsAccepted(e.change)

Reached(n) == disk.seq <= n \/ \E e \in overtaken : IsAccepted(e.change) /\ e.seq = n

Beyond(e) ==
    /\ disk.seq < e.seq /\ snapshotSeq < e.seq
    /\ drain.pc # "idle" => drain.cut < e.seq

Waits ==
    \A c \in Changes : IsAccepted(c) =>
        \/ Settled(c) \/ Overtaken(c)
        \/ \E i \in DOMAIN batch : batch[i].change = c
        \/ \E i \in DOMAIN buffer : buffer[i].change = c

Placed ==
    /\ \A i \in DOMAIN batch : Caught(batch[i]) \/ (batch[i] \in wal /\ disk.seq < batch[i].seq)
    /\ \A i \in DOMAIN buffer : Caught(buffer[i]) \/ (buffer[i] \in wal /\ Beyond(buffer[i]))
    /\ \A h \in Handlers : Calling(h) =>
          \/ handler[h].entry \in overtaken
          \/ Beyond(handler[h].entry) /\ (handler[h].pc = "buffer" => handler[h].entry \in wal)

Counted ==
    /\ disk.seq <= seqCounter /\ snapshotSeq <= seqCounter
    /\ \A i \in DOMAIN buffer : buffer[i].seq <= seqCounter
    /\ \A h \in Handlers : Calling(h) => handler[h].entry.seq <= seqCounter

Cuts ==
    /\ Reached(snapshotSeq)
    /\ drain.pc # "apply" => batch = <<>>
    /\ drain.pc # "idle" => drain.cut <= seqCounter /\ Reached(drain.cut)

(* The database serialises the changes of one row. *)
Turns ==
    /\ InTurn
    /\ \A g, h \in Handlers : Calling(g) /\ Calling(h) /\ g # h =>
          handler[g].entry.change[1] # handler[h].entry.change[1]

Stopped ==
    /\ NoAcceptedChangeLost
    /\ \A h \in Handlers : handler[h] = NoCall
    /\ drain = DrainIdle /\ batch = <<>> /\ buffer = <<>>

(* No two calls, in flight or buffered, have the same seq. *)
Apart ==
    \A h \in Handlers : Calling(h) =>
        /\ \A i \in DOMAIN buffer : buffer[i].seq # handler[h].entry.seq
        /\ \A g \in Handlers : Calling(g) /\ g # h => handler[g].entry.seq # handler[h].entry.seq

Running == Waits /\ Placed /\ Counted /\ Apart /\ Cuts /\ Turns

AnyInv == TypeInv /\ (up => Running) /\ (~up => Stopped)

LEMMA WaitsIsLogged ==
    ASSUME TypeInv, Waits, Placed
    PROVE  NoAcceptedChangeLost
<1> SUFFICES ASSUME NEW c \in Changes, IsAccepted(c), ~Settled(c), ~Overtaken(c)
             PROVE  \E e \in Backlog : e.change = c
  BY DEF NoAcceptedChangeLost
<1>1. \A e : e.change = c => ~Caught(e)
  BY DEF Caught, Overtaken
<1>2. \A e \in wal : disk.seq < e.seq => e \in Backlog
  BY SeqTypes DEF Backlog
<1>3. CASE \E i \in DOMAIN batch : batch[i].change = c
  BY <1>1, <1>2, <1>3 DEF Placed
<1>4. CASE \E i \in DOMAIN buffer : buffer[i].change = c
  BY <1>1, <1>2, <1>4 DEF Placed, Beyond
<1> QED
  BY <1>3, <1>4 DEF Waits

LEMMA AnyInvNoLoss == AnyInv => NoAcceptedChangeLost
BY WaitsIsLogged DEF AnyInv, Running, Stopped

(* Steps that keep the log or extend it, the cuts and the history. *)
LEMMA RunningFrame ==
    ASSUME Running, wal \subseteq wal',
           UNCHANGED <<accepted, seqCounter, handler, buffer, batch, drain, snapshotSeq, disk,
                       handled, refused, overtaken>>
    PROVE  Running'
<1>1. Waits'
  BY DEF Running, Waits, IsAccepted, Settled, Overtaken
<1>2. Placed'
  BY DEF Running, Placed, Caught, IsAccepted, Beyond, Calling
<1>3. Counted' /\ Turns' /\ Apart'
  BY DEF Running, Counted, Turns, InTurn, Apart, Calling
<1>4. Cuts'
  BY DEF Running, Cuts, Reached, IsAccepted
<1> QED
  BY <1>1, <1>2, <1>3, <1>4 DEF Running

LEMMA AnyTakeSeq ==
    ASSUME TypeInv, Running, NEW h \in Handlers, NEW r \in Rows, TakeSeq(h, r)
    PROVE  Running'
<1>0. PICK e : e = [seq |-> seqCounter + 1, change |-> <<r, accepted[r] + 1>>]
  OBVIOUS
<1>1. handler' = [handler EXCEPT ![h] = [pc |-> "append", entry |-> e]] /\ ~Busy(r)
  BY <1>0 DEF TakeSeq
<1>2. UNCHANGED <<accepted, wal, buffer, batch, drain, snapshotSeq, disk, handled, refused>>
  BY DEF TakeSeq, drainVars, replicaVars
<1>3. /\ handler'[h] = [pc |-> "append", entry |-> e] /\ handler'[h].entry = e
      /\ handler'[h].pc = "append"
      /\ \A g \in Handlers : g # h => handler'[g] = handler[g]
  BY <1>1 DEF TypeInv, TypeOK
<1>4. seqCounter' = seqCounter + 1 /\ e.seq = seqCounter + 1 /\ e.change[1] = r
      /\ e.change[2] = accepted[r] + 1
  BY <1>0 DEF TakeSeq
<1>5. overtaken' = {f \in overtaken : f.change # e.change}
  BY <1>0 DEF TakeSeq
<1>6. ~IsAccepted(e.change)
  <2>1. accepted[r] \in Nat
    BY BoundAssumption DEF TypeInv, TypeOK
  <2> QED
    BY <1>4, <2>1 DEF IsAccepted
<1>7. \A f : Caught(f) => Caught(f)'
  BY <1>2, <1>5, <1>6 DEF Caught, IsAccepted
<1>8. \A c \in Changes : IsAccepted(c) /\ Overtaken(c) => Overtaken(c)'
  BY <1>5, <1>6 DEF Overtaken
<1>9. \A g \in Handlers : Calling(g) => handler[g].entry.change[1] # r
  BY <1>1 DEF Busy, Calling
<1>10. \A f : Beyond(f) => Beyond(f)'
  BY <1>2 DEF Beyond
<1>11. Waits'
  BY <1>2, <1>8 DEF Running, Waits, IsAccepted, Settled
<1>12. Beyond(e)'
  BY <1>2, <1>4, SeqTypes DEF Running, Counted, Cuts, Beyond
<1>13. Placed'
  <2>1. \A i \in DOMAIN batch' : Caught(batch[i])' \/ (batch'[i] \in wal' /\ disk'.seq < batch'[i].seq)
    BY <1>2, <1>7 DEF Running, Placed
  <2>2. \A i \in DOMAIN buffer' : Caught(buffer[i])' \/ (buffer'[i] \in wal' /\ Beyond(buffer[i])')
    BY <1>2, <1>7, <1>10 DEF Running, Placed
  <2>3. ASSUME NEW g \in Handlers, Calling(g)'
        PROVE  \/ handler'[g].entry \in overtaken'
               \/ Beyond(handler[g].entry)' /\ (handler'[g].pc = "buffer" => handler'[g].entry \in wal')
    <3>1. CASE g = h
      BY <3>1, <1>3, <1>12
    <3>2. CASE g # h
      <4>1. handler'[g] = handler[g] /\ Calling(g)
        BY <2>3, <3>2, <1>3 DEF Calling
      <4>2. handler[g].entry \in overtaken => handler[g].entry \in overtaken'
        BY <4>1, <1>4, <1>5, <1>9
      <4>3. \/ handler[g].entry \in overtaken
            \/ Beyond(handler[g].entry) /\ (handler[g].pc = "buffer" => handler[g].entry \in wal)
        BY <4>1 DEF Running, Placed
      <4> QED
        BY <4>1, <4>2, <4>3, <1>2, <1>10
    <3> QED
      BY <3>1, <3>2
  <2> QED
    BY <2>1, <2>2, <2>3 DEF Placed
<1>14. Counted'
  <2>1. \A g \in Handlers : Calling(g)' => handler'[g].entry.seq <= seqCounter'
    <3> SUFFICES ASSUME NEW g \in Handlers, Calling(g)' PROVE handler'[g].entry.seq <= seqCounter'
      OBVIOUS
    <3>1. CASE g = h
      BY <3>1, <1>3, <1>4, SeqTypes
    <3>2. CASE g # h
      BY <3>2, <1>3, <1>4, SeqTypes DEF Running, Counted, Calling
    <3> QED
      BY <3>1, <3>2
  <2> QED
    BY <1>2, <1>4, <2>1, SeqTypes DEF Running, Counted
<1>15. Cuts'
  <2>1. \A n : Reached(n) => Reached(n)'
    BY <1>2, <1>5, <1>6 DEF Reached, IsAccepted
  <2> QED
    BY <1>2, <1>4, <2>1, SeqTypes DEF Running, Cuts
<1>16. Turns'
  <2>1. InTurn'
    BY <1>2, <1>3, <1>4 DEF Running, Turns, InTurn, Calling
  <2>2. \A g, k \in Handlers : Calling(g)' /\ Calling(k)' /\ g # k =>
          handler'[g].entry.change[1] # handler'[k].entry.change[1]
    BY <1>3, <1>4, <1>9 DEF Running, Turns, Calling
  <2> QED
    BY <2>1, <2>2 DEF Turns
<1>17. Apart'
  <2>1. /\ \A i \in DOMAIN buffer : buffer[i].seq # e.seq
        /\ \A g \in Handlers : Calling(g) => handler[g].entry.seq # e.seq
    BY <1>4, SeqTypes DEF Running, Counted
  <2> QED
    BY <1>2, <1>3, <2>1 DEF Running, Apart, Calling
<1> QED
  BY <1>11, <1>13, <1>14, <1>15, <1>16, <1>17 DEF Running

LEMMA AnyAppend ==
    ASSUME TypeInv, Running, NEW h \in Handlers, AppendToWal(h)
    PROVE  Running'
<1>1. Calling(h) /\ handler[h] \in Call /\ handler' = [handler EXCEPT ![h].pc = "buffer"]
  BY DEF AppendToWal, Calling, TypeInv, TypeOK
<1>2. /\ \A g \in Handlers : g # h => handler'[g] = handler[g]
      /\ handler'[h].entry = handler[h].entry
  BY <1>1 DEF TypeInv, TypeOK, Call
<1>3. UNCHANGED <<accepted, seqCounter, buffer, batch, drain, snapshotSeq, disk, handled,
                  refused, overtaken>>
  BY DEF AppendToWal, dbVars, drainVars, replicaVars, histVars
<1>4. wal \subseteq wal' /\ handler[h].entry \in wal'
  BY DEF AppendToWal
<1>5. \A g \in Handlers : Calling(g)' => Calling(g) /\ handler'[g].entry = handler[g].entry
  BY <1>1, <1>2 DEF Calling
<1>6. Waits'
  BY <1>3 DEF Running, Waits, IsAccepted, Settled, Overtaken
<1>7. Placed'
  <2>1. \A g \in Handlers : Calling(g)' => g = h \/ handler'[g] = handler[g]
    BY <1>2
  <2> QED
    BY <1>3, <1>4, <1>5, <2>1 DEF Running, Placed, Caught, IsAccepted, Beyond
<1>8. Counted' /\ Cuts'
  BY <1>3, <1>5 DEF Running, Counted, Cuts, Reached, IsAccepted
<1>9. Turns' /\ Apart'
  BY <1>3, <1>5 DEF Running, Turns, InTurn, Apart
<1> QED
  BY <1>6, <1>7, <1>8, <1>9 DEF Running

LEMMA AnyGone ==
    ASSUME TypeInv, Running, NEW h \in Handlers, AppendFails(h) \/ Dropped(h)
    PROVE  Running'
<1>1. handler' = [handler EXCEPT ![h] = NoCall]
  BY DEF AppendFails, Dropped
<1>2. UNCHANGED <<accepted, seqCounter, wal, buffer, batch, drain, snapshotSeq, disk, handled,
                  refused, overtaken>>
  BY DEF AppendFails, Dropped, dbVars, drainVars, replicaVars, histVars
<1>3. \A g \in Handlers : Calling(g)' => Calling(g) /\ handler'[g] = handler[g]
  BY <1>1 DEF Calling, TypeInv, TypeOK
<1>4. Waits'
  BY <1>2 DEF Running, Waits, IsAccepted, Settled, Overtaken
<1>5. Placed'
  BY <1>2, <1>3 DEF Running, Placed, Caught, IsAccepted, Beyond
<1>6. Counted' /\ Cuts'
  BY <1>2, <1>3 DEF Running, Counted, Cuts, Reached, IsAccepted
<1>7. Turns' /\ Apart'
  BY <1>2, <1>3 DEF Running, Turns, InTurn, Apart
<1> QED
  BY <1>4, <1>5, <1>6, <1>7 DEF Running

(* The call answers: its change is the row's next, so nothing else becomes
   accepted with it. *)
LEMMA AnyAnswer ==
    ASSUME TypeInv, Running, NEW h \in Handlers, BufferAndAnswer(h)
    PROVE  Running'
<1>0. PICK e : e = handler[h].entry
  OBVIOUS
<1>1. Calling(h) /\ e \in Entry /\ handler[h].pc = "buffer"
  BY <1>0 DEF BufferAndAnswer, Calling, TypeInv, TypeOK, Call
<1>2. handler' = [handler EXCEPT ![h] = NoCall] /\ buffer' = Append(buffer, e)
      /\ accepted' = [accepted EXCEPT ![e.change[1]] = e.change[2]]
  BY <1>0 DEF BufferAndAnswer
<1>3. UNCHANGED <<seqCounter, wal, batch, drain, snapshotSeq, disk, handled, refused, overtaken>>
  BY DEF BufferAndAnswer, drainVars, replicaVars, histVars
<1>4. buffer \in Seq(Entry)
  BY DEF TypeInv, TypeOK
<1>5. /\ DOMAIN buffer' = DOMAIN buffer \cup {Len(buffer) + 1}
      /\ buffer'[Len(buffer) + 1] = e
      /\ \A i \in DOMAIN buffer : buffer'[i] = buffer[i]
  BY <1>1, <1>2, <1>4
<1>6. \A g \in Handlers : Calling(g)' => Calling(g) /\ handler'[g] = handler[g] /\ g # h
  BY <1>2 DEF Calling, TypeInv, TypeOK
<1>7. e.change \in Changes /\ e.change[1] \in Rows /\ e.change[2] \in Nat
  BY <1>1 DEF Entry, Changes
<1>8. e.change[2] = accepted[e.change[1]] + 1 /\ accepted[e.change[1]] \in Nat
  BY <1>0, <1>1, <1>7, BoundAssumption DEF Running, Turns, InTurn, TypeInv, TypeOK
<1>9. accepted'[e.change[1]] = e.change[2] /\ \A r \in Rows : r # e.change[1] => accepted'[r] = accepted[r]
  BY <1>2, <1>7 DEF TypeInv, TypeOK
<1>10. \A c \in Changes : c[1] \in Rows /\ c[2] \in Nat /\ c = <<c[1], c[2]>>
  BY DEF Changes
<1>11. ASSUME NEW c \in Changes PROVE IsAccepted(c)' <=> IsAccepted(c) \/ c = e.change
  <2>1. CASE c[1] # e.change[1]
    BY <2>1, <1>9, <1>10 DEF IsAccepted
  <2>2. CASE c[1] = e.change[1]
    <3>1. c = e.change <=> c[2] = e.change[2]
      BY <2>2, <1>7, <1>10
    <3> QED
      BY <2>2, <3>1, <1>8, <1>9, <1>10 DEF IsAccepted
  <2> QED
    BY <2>1, <2>2
<1>12. overtaken \subseteq Entry /\ \A f \in Entry : f.change \in Changes
  BY DEF TypeInv, TypeOK, Entry
<1>13. \A f : Caught(f) => Caught(f)'
  BY <1>3, <1>11, <1>12 DEF Caught
<1>14. \A f : Beyond(f) => Beyond(f)'
  BY <1>3 DEF Beyond
<1>15. Waits'
  <2> SUFFICES ASSUME NEW c \in Changes, IsAccepted(c)', ~Settled(c)', ~Overtaken(c)'
               PROVE  \/ \E i \in DOMAIN batch' : batch'[i].change = c
                      \/ \E i \in DOMAIN buffer' : buffer'[i].change = c
    BY DEF Waits
  <2>1. CASE c = e.change
    BY <2>1, <1>5
  <2>2. CASE c # e.change
    <3>1. IsAccepted(c) /\ ~Settled(c) /\ ~Overtaken(c)
      BY <2>2, <1>3, <1>11 DEF Settled, Overtaken
    <3> QED
      BY <3>1, <1>3, <1>5 DEF Running, Waits
  <2> QED
    BY <2>1, <2>2
<1>16. Placed'
  <2>1. \A i \in DOMAIN batch' : Caught(batch[i])' \/ (batch'[i] \in wal' /\ disk'.seq < batch'[i].seq)
    BY <1>3, <1>13 DEF Running, Placed
  <2>2. Caught(e)' \/ (e \in wal' /\ Beyond(e)')
    <3>1. e \in overtaken \/ (e \in wal /\ Beyond(e))
      BY <1>0, <1>1 DEF Running, Placed
    <3>2. e \in overtaken => Caught(e)'
      BY <1>3, <1>7, <1>11 DEF Caught
    <3> QED
      BY <3>1, <3>2, <1>3, <1>14
  <2>3. ASSUME NEW i \in DOMAIN buffer'
        PROVE  Caught(buffer[i])' \/ (buffer'[i] \in wal' /\ Beyond(buffer[i])')
    <3>1. CASE i = Len(buffer) + 1
      BY <3>1, <2>2, <1>5
    <3>2. CASE i \in DOMAIN buffer
      BY <3>2, <1>3, <1>5, <1>13, <1>14 DEF Running, Placed
    <3> QED
      BY <3>1, <3>2, <1>5
  <2>4. \A g \in Handlers : Calling(g)' =>
          \/ handler'[g].entry \in overtaken'
          \/ Beyond(handler[g].entry)' /\ (handler'[g].pc = "buffer" => handler'[g].entry \in wal')
    BY <1>3, <1>6, <1>14 DEF Running, Placed
  <2> QED
    BY <2>1, <2>3, <2>4 DEF Placed
<1>17. Counted'
  BY <1>0, <1>1, <1>3, <1>5, <1>6 DEF Running, Counted
<1>18. Cuts'
  <2>1. \A n : Reached(n) => Reached(n)'
    BY <1>3, <1>11, <1>12 DEF Reached
  <2> QED
    BY <1>3, <2>1 DEF Running, Cuts
<1>19. Turns'
  <2>1. \A g \in Handlers : Calling(g)' =>
          /\ handler[g].entry.change[1] \in Rows
          /\ handler[g].entry.change[1] # e.change[1]
    <3>1. \A g \in Handlers : Calling(g) => handler[g].entry.change[1] \in Rows
      BY SeqTypes DEF Entry, Changes
    <3> QED
      BY <1>0, <1>1, <1>6, <3>1 DEF Running, Turns
  <2>2. InTurn'
    BY <1>6, <1>9, <2>1 DEF Running, Turns, InTurn
  <2> QED
    BY <1>6, <2>2 DEF Running, Turns
<1>20. Apart'
  <2>1. \A g \in Handlers : Calling(g)' => e.seq # handler[g].entry.seq
    BY <1>0, <1>1, <1>6 DEF Running, Apart
  <2> QED
    BY <1>5, <1>6, <2>1 DEF Running, Apart
<1> QED
  BY <1>15, <1>16, <1>17, <1>18, <1>19, <1>20 DEF Running

(* The drain takes the buffer: the calls in flight behind its cut are overtaken,
   the others lie beyond it. *)
LEMMA AnyTake ==
    ASSUME TypeInv, Running, DrainTake
    PROVE  Running'
<1>0. PICK k : k = buffer[Len(buffer)]
  OBVIOUS
<1>1. batch = <<>> /\ batch' = buffer /\ buffer' = <<>> /\ drain.pc = "idle"
  BY DEF DrainTake, Running, Cuts
<1>2. UNCHANGED <<accepted, seqCounter, handler, wal, snapshotSeq, handled, refused>>
      /\ disk'.seq = disk.seq
  BY DEF DrainTake, dbVars, TypeInv, TypeOK
<1>3. buffer \in Seq(Entry) /\ buffer # <<>>
  BY DEF DrainTake, TypeInv, TypeOK
<1>4. Len(buffer) \in DOMAIN buffer /\ k.seq \in Nat
  BY <1>0, <1>3, SeqTypes
<1>5. drain' = [pc |-> "apply", cut |-> k.seq] /\ drain'.cut = k.seq /\ drain'.pc = "apply"
  BY <1>0 DEF DrainTake, Cut, Last
<1>6. overtaken' = overtaken \cup {e \in InFlight : e.seq < k.seq}
  BY <1>0 DEF DrainTake, Cut, Last
<1>7. \A f : Caught(f) => Caught(f)'
  BY <1>2, <1>6 DEF Caught, IsAccepted
<1>8. \A n : Reached(n) => Reached(n)'
  BY <1>2, <1>6 DEF Reached, IsAccepted
<1>9. Waits'
  BY <1>1, <1>2, <1>6 DEF Running, Waits, IsAccepted, Settled, Overtaken
<1>10. Placed'
  <2>1. \A i \in DOMAIN batch' : Caught(batch[i])' \/ (batch'[i] \in wal' /\ disk'.seq < batch'[i].seq)
    BY <1>1, <1>2, <1>7 DEF Running, Placed, Beyond
  <2>2. ASSUME NEW h \in Handlers, Calling(h)'
        PROVE  \/ handler'[h].entry \in overtaken'
               \/ Beyond(handler[h].entry)' /\ (handler'[h].pc = "buffer" => handler'[h].entry \in wal')
    <3>0. PICK e : e = handler[h].entry
      OBVIOUS
    <3>1. Calling(h) /\ handler'[h] = handler[h]
      BY <2>2, <1>2 DEF Calling
    <3>2. e \in InFlight /\ e.seq \in Nat
      BY <3>0, <3>1, SeqTypes DEF InFlight, Calling
    <3>3. CASE e.seq < k.seq
      BY <3>0, <3>1, <3>2, <3>3, <1>6
    <3>4. CASE e \in overtaken
      BY <3>0, <3>1, <3>4, <1>6
    <3>5. CASE e \notin overtaken /\ ~(e.seq < k.seq)
      <4>1. Beyond(e) /\ (handler[h].pc = "buffer" => e \in wal)
        BY <3>0, <3>1, <3>5 DEF Running, Placed
      <4>2. e.seq # k.seq
        BY <3>0, <3>1, <3>5, <1>0, <1>4 DEF Running, Apart
      <4>3. Beyond(e)'
        BY <4>1, <4>2, <3>2, <3>5, <1>2, <1>4, <1>5 DEF Beyond
      <4> QED
        BY <4>1, <4>3, <3>0, <3>1, <1>2
    <3> QED
      BY <3>3, <3>4, <3>5
  <2> QED
    BY <1>1, <2>1, <2>2 DEF Placed
<1>11. Counted'
  BY <1>1, <1>2 DEF Running, Counted, Calling
<1>12. Cuts'
  <2>1. k.seq <= seqCounter
    BY <1>0, <1>4 DEF Running, Counted
  <2>2. Reached(k.seq)
    <3>1. Caught(k) \/ Beyond(k)
      BY <1>0, <1>4 DEF Running, Placed
    <3>2. CASE Caught(k)
      BY <3>2 DEF Caught, Reached
    <3>3. CASE Beyond(k)
      BY <3>3, <1>4, SeqTypes DEF Beyond, Reached
    <3> QED
      BY <3>1, <3>2, <3>3
  <2>3. PICK n : n = snapshotSeq
    OBVIOUS
  <2>4. Reached(n)' /\ Reached(k.seq)'
    BY <1>8, <2>2, <2>3 DEF Running, Cuts
  <2> QED
    BY <1>2, <1>5, <2>1, <2>3, <2>4 DEF Cuts, Reached
<1>13. Turns' /\ Apart'
  BY <1>1, <1>2 DEF Running, Turns, InTurn, Apart, Calling
<1> QED
  BY <1>9, <1>10, <1>11, <1>12, <1>13 DEF Running

LEMMA AnyDirtyOnly ==
    ASSUME TypeInv, Running, DrainDirtyOnly
    PROVE  Running'
<1>1. UNCHANGED <<accepted, seqCounter, handler, wal, buffer, batch, snapshotSeq, disk, handled,
                  refused, overtaken>>
  BY DEF DrainDirtyOnly, dbVars, replicaVars, histVars
<1>2. buffer = <<>> /\ drain.pc = "idle" /\ drain' = [pc |-> "commit", cut |-> snapshotSeq]
      /\ drain'.cut = snapshotSeq
  BY DEF DrainDirtyOnly
<1>3. \A f : Beyond(f) => Beyond(f)'
  BY <1>1, <1>2 DEF Beyond
<1>4. Waits'
  BY <1>1 DEF Running, Waits, IsAccepted, Settled, Overtaken
<1>5. Placed'
  BY <1>1, <1>3 DEF Running, Placed, Caught, IsAccepted, Calling
<1>6. Counted' /\ Apart' /\ Turns'
  BY <1>1 DEF Running, Counted, Apart, Turns, InTurn, Calling
<1>7. Cuts'
  <2>1. \A n : Reached(n)' <=> Reached(n)
    BY <1>1 DEF Reached, IsAccepted
  <2> QED
    BY <1>1, <1>2, <2>1 DEF Running, Cuts, Counted
<1> QED
  BY <1>4, <1>5, <1>6, <1>7 DEF Running

LEMMA AnyApply ==
    ASSUME TypeInv, Running, ApplyOne
    PROVE  Running'
<1>1. UNCHANGED <<accepted, seqCounter, handler, wal, buffer, drain, snapshotSeq, disk, overtaken>>
  BY DEF ApplyOne, dbVars
<1>2. batch \in Seq(Entry) /\ batch # <<>> /\ batch' = Tail(batch) /\ drain.pc = "apply"
  BY DEF ApplyOne, TypeInv, TypeOK
<1>3. /\ \A i \in DOMAIN batch' : i + 1 \in DOMAIN batch /\ batch'[i] = batch[i + 1]
      /\ \A i \in DOMAIN batch : i = 1 \/ (i - 1 \in DOMAIN batch' /\ batch'[i - 1] = batch[i])
      /\ Head(batch) = batch[1]
  BY <1>2
<1>4. handled \cup refused \cup {Head(batch).change} = handled' \cup refused'
  BY DEF ApplyOne
<1>5. Waits'
  <2> SUFFICES ASSUME NEW c \in Changes, IsAccepted(c)', ~Settled(c)', ~Overtaken(c)'
               PROVE  \/ \E i \in DOMAIN batch' : batch'[i].change = c
                      \/ \E i \in DOMAIN buffer' : buffer'[i].change = c
    BY DEF Waits
  <2>1. IsAccepted(c) /\ ~Settled(c) /\ ~Overtaken(c) /\ c # batch[1].change
    BY <1>1, <1>3, <1>4 DEF IsAccepted, Settled, Overtaken
  <2>2. \/ \E i \in DOMAIN batch : batch[i].change = c
        \/ \E i \in DOMAIN buffer : buffer[i].change = c
    BY <2>1 DEF Running, Waits
  <2>3. CASE \E i \in DOMAIN batch : batch[i].change = c
    <3>1. PICK i \in DOMAIN batch : batch[i].change = c
      BY <2>3
    <3>2. i # 1
      BY <3>1, <2>1
    <3> QED
      BY <3>1, <3>2, <1>3
  <2> QED
    BY <2>2, <2>3, <1>1
<1>6. Placed'
  <2>1. \A i \in DOMAIN batch' : Caught(batch[i])' \/ (batch'[i] \in wal' /\ disk'.seq < batch'[i].seq)
    BY <1>1, <1>3 DEF Running, Placed, Caught, IsAccepted
  <2> QED
    BY <1>1, <2>1 DEF Running, Placed, Caught, IsAccepted, Beyond, Calling
<1>7. Counted' /\ Apart' /\ Turns'
  BY <1>1 DEF Running, Counted, Apart, Turns, InTurn, Calling
<1>8. Cuts'
  BY <1>1, <1>2 DEF Running, Cuts, Reached, IsAccepted
<1> QED
  BY <1>5, <1>6, <1>7, <1>8 DEF Running

(* A commit, of a drain or of a rehash, at a cut that everything waiting lies
   beyond. *)
LEMMA AnyCommit ==
    ASSUME TypeInv, Running, NEW n \in Nat, batch = <<>>, Reached(n), n <= seqCounter,
           UNCHANGED <<accepted, seqCounter, handler, wal, buffer, batch, handled, refused,
                       overtaken>>,
           drain'.cut = drain.cut, drain'.pc = "idle" <=> drain.pc = "idle",
           drain.pc # "idle" => drain.cut = n,
           snapshotSeq' = n, disk'.seq \in {n, disk.seq},
           \A f : Beyond(f) => n < f.seq
    PROVE  Running'
<1>1. \A f : Beyond(f) => Beyond(f)'
  BY DEF Beyond
<1>2. Waits'
  BY DEF Running, Waits, IsAccepted, Settled, Overtaken
<1>3. Placed'
  BY <1>1 DEF Running, Placed, Caught, IsAccepted, Calling
<1>4. Counted' /\ Apart' /\ Turns'
  BY DEF Running, Counted, Apart, Turns, InTurn, Calling
<1>5. Reached(n)'
  BY SeqTypes DEF Reached, IsAccepted
<1>6. Cuts'
  BY <1>5, SeqTypes DEF Running, Cuts
<1> QED
  BY <1>2, <1>3, <1>4, <1>6 DEF Running

LEMMA AnyDrainCommit ==
    ASSUME TypeInv, Running, DrainCommit
    PROVE  Running'
<1>1. UNCHANGED <<accepted, seqCounter, handler, wal, buffer, batch, handled, refused, overtaken>>
      /\ batch = <<>>
  BY DEF DrainCommit, dbVars, histVars, Running, Cuts
<1>2. drain.pc # "idle" /\ drain'.pc = "truncate" /\ drain'.cut = drain.cut
  BY DEF DrainCommit, TypeInv, TypeOK
<1>3. drain.cut \in 0..MaxSeq /\ {} \in SUBSET Tables /\ TypeOK /\ CommitSnapshot(drain.cut, {})
  BY DEF DrainCommit, TypeInv, TypeOK
<1>4. snapshotSeq' = drain.cut /\ disk'.seq \in {drain.cut, disk.seq}
  BY <1>3, CommitType
<1>5. drain.cut \in Nat /\ Reached(drain.cut) /\ drain.cut <= seqCounter
  BY <1>2, SeqTypes DEF Running, Cuts
<1>6. \A f : Beyond(f) => drain.cut < f.seq
  BY <1>2 DEF Beyond
<1> QED
  BY <1>1, <1>2, <1>4, <1>5, <1>6, AnyCommit

LEMMA AnyRehash ==
    ASSUME TypeInv, Running, NEW tables \in SUBSET Tables, Rehash(tables)
    PROVE  Running'
<1>1. UNCHANGED <<accepted, seqCounter, handler, wal, buffer, batch, drain, handled, refused,
                  overtaken>> /\ drain.pc = "idle" /\ batch = <<>>
  BY DEF Rehash, dbVars, drainVars, histVars, Running, Cuts
<1>2. snapshotSeq' = snapshotSeq /\ disk'.seq \in {snapshotSeq, disk.seq}
  BY CommitType DEF Rehash, TypeInv, TypeOK
<1>3. snapshotSeq \in Nat /\ Reached(snapshotSeq) /\ snapshotSeq <= seqCounter
  BY SeqTypes DEF Running, Cuts, Counted
<1>4. \A f : Beyond(f) => snapshotSeq < f.seq
  BY DEF Beyond
<1> QED
  BY <1>1, <1>2, <1>3, <1>4, AnyCommit

LEMMA AnyTruncate ==
    ASSUME TypeInv, Running, DrainTruncate
    PROVE  Running'
<1>1. UNCHANGED <<accepted, seqCounter, handler, buffer, batch, snapshotSeq, disk, handled,
                  refused, overtaken>> /\ batch = <<>>
  BY DEF DrainTruncate, dbVars, replicaVars, histVars, Running, Cuts
<1>2. drain.pc # "idle" /\ drain' = DrainIdle /\ drain'.pc = "idle"
  BY DEF DrainTruncate, DrainIdle
<1>3. \A e \in wal : e.seq > drain.cut => e \in wal'
  BY DEF DrainTruncate
<1>4. \A e \in wal : Beyond(e) => e \in wal'
  BY <1>2, <1>3, SeqTypes DEF Beyond
<1>5. \A e : Beyond(e) => Beyond(e)'
  BY <1>1, <1>2 DEF Beyond
<1>6. Waits'
  BY <1>1 DEF Running, Waits, IsAccepted, Settled, Overtaken
<1>7. Placed'
  BY <1>1, <1>4, <1>5 DEF Running, Placed, Caught, IsAccepted, Calling
<1>8. Counted' /\ Apart' /\ Turns'
  BY <1>1 DEF Running, Counted, Apart, Turns, InTurn, Calling
<1>9. Cuts'
  BY <1>1, <1>2 DEF Running, Cuts, Reached, IsAccepted
<1> QED
  BY <1>6, <1>7, <1>8, <1>9 DEF Running

LEMMA AnyRecover ==
    ASSUME TypeInv, TypeInv', Stopped, Recover
    PROVE  Running'
<1>1. UNCHANGED <<accepted, handler, wal, batch, drain, disk, handled, refused, overtaken>>
  BY DEF Recover, dbVars, drainVars, histVars
<1>2. snapshotSeq' = disk.seq /\ seqCounter' = ResumeSeq
  BY DEF Recover
<1>3. /\ \A i \in DOMAIN buffer' : buffer'[i] \in Backlog
      /\ \A e \in Backlog : \E i \in DOMAIN buffer' : buffer'[i] = e
  BY DEF Recover, BySeq
<1>4. \A e \in Backlog : e \in wal /\ disk.seq < e.seq
  BY SeqTypes DEF Backlog
<1>5. disk.seq <= ResumeSeq /\ \A e \in wal : e.seq <= ResumeSeq
  <2> DEFINE S == {e.seq : e \in wal} \cup {disk.seq}
  <2>1. S \subseteq 0..MaxSeq /\ S # {}
    BY DEF TypeInv, TypeOK, Entry, Seqs
  <2>2. \A n \in S : n <= MaxOf(S)
    BY <2>1, MaxOfBounded, BoundAssumption
  <2> QED
    BY <2>2 DEF ResumeSeq
<1>6. drain = DrainIdle /\ drain.pc = "idle" /\ batch = <<>> /\ \A h \in Handlers : ~Calling(h)'
  BY <1>1 DEF Stopped, DrainIdle, Calling
<1>7. Waits'
  <2> SUFFICES ASSUME NEW c \in Changes, IsAccepted(c)', ~Settled(c)', ~Overtaken(c)'
               PROVE  \E i \in DOMAIN buffer' : buffer'[i].change = c
    BY DEF Waits
  <2>1. IsAccepted(c) /\ ~Settled(c) /\ ~Overtaken(c)
    BY <1>1 DEF IsAccepted, Settled, Overtaken
  <2>2. PICK e \in Backlog : e.change = c
    BY <2>1 DEF Stopped, NoAcceptedChangeLost
  <2> QED
    BY <1>3, <2>2
<1>8. Placed'
  <2>1. \A i \in DOMAIN buffer' : buffer'[i] \in wal' /\ Beyond(buffer[i])'
    BY <1>1, <1>2, <1>3, <1>4, <1>6 DEF Beyond
  <2> QED
    BY <1>1, <1>6, <2>1 DEF Placed
<1>9. Counted' /\ Apart'
  BY <1>1, <1>2, <1>3, <1>4, <1>5, <1>6 DEF Counted, Apart
<1>10. Cuts'
  BY <1>1, <1>2, <1>6, SeqTypes DEF Cuts, Reached
<1>11. Turns'
  BY <1>6 DEF Turns, InTurn
<1> QED
  BY <1>7, <1>8, <1>9, <1>10, <1>11 DEF Running

LEMMA AnyInvInit == Init => AnyInv
<1> SUFFICES ASSUME Init PROVE AnyInv
  OBVIOUS
<1>1. TypeInv
  BY TypeInit
<1>2. up /\ batch = <<>> /\ buffer = <<>> /\ \A h \in Handlers : ~Calling(h)
  BY DEF Init, Calling
<1>3. Waits
  BY DEF Init, Waits, IsAccepted, Changes
<1>4. Placed /\ Turns /\ Apart
  BY <1>2 DEF Placed, Turns, InTurn, Apart
<1>5. Counted /\ Cuts
  BY <1>2 DEF Init, Counted, Cuts, Reached, DrainIdle
<1> QED
  BY <1>1, <1>2, <1>3, <1>4, <1>5 DEF AnyInv, Running

LEMMA AnyInvStep ==
    ASSUME AnyInv, [Next]_vars
    PROVE  AnyInv'
<1>1. TypeInv /\ TypeInv'
  BY TypeStep DEF AnyInv
<1>2. ASSUME up, up' = up, Running' PROVE AnyInv'
  BY <1>1, <1>2 DEF AnyInv
<1>3. ASSUME NEW h \in Handlers, Ingest(h) PROVE AnyInv'
  <2>1. up /\ up' = up
    BY <1>3 DEF AnyInv, Stopped, Ingest, TakeSeq, AppendToWal, AppendFails, BufferAndAnswer, Dropped
  <2>2. Running
    BY <2>1 DEF AnyInv
  <2>3. Running'
    BY <1>1, <1>3, <2>2, AnyTakeSeq, AnyAppend, AnyGone, AnyAnswer DEF Ingest
  <2> QED
    BY <1>2, <2>1, <2>3
<1>4. ASSUME Drain PROVE AnyInv'
  <2>1. up /\ up' = up
    BY <1>4 DEF AnyInv, Stopped, DrainIdle, Drain, DrainTake, DrainDirtyOnly, ApplyOne, DrainCommit,
             DrainTruncate
  <2>2. Running
    BY <2>1 DEF AnyInv
  <2>3. Running'
    BY <1>1, <1>4, <2>2, AnyTake, AnyDirtyOnly, AnyApply, AnyDrainCommit, AnyTruncate DEF Drain
  <2> QED
    BY <1>2, <2>1, <2>3
<1>5. ASSUME NEW tables \in SUBSET Tables, Rehash(tables) PROVE AnyInv'
  <2>1. up /\ up' = up
    BY <1>5 DEF Rehash
  <2>2. Running
    BY <2>1 DEF AnyInv
  <2>3. Running'
    BY <1>1, <1>5, <2>2, AnyRehash
  <2> QED
    BY <1>2, <2>1, <2>3
<1>6. ASSUME Crash PROVE AnyInv'
  <2>1. UNCHANGED <<accepted, wal, disk, handled, refused, overtaken>> /\ ~up'
    BY <1>6 DEF Crash, dbVars, histVars
  <2>2. NoAcceptedChangeLost'
    BY <2>1, AnyInvNoLoss DEF NoAcceptedChangeLost, IsAccepted, Settled, Backlog, Overtaken
  <2>3. Stopped'
    BY <1>6, <2>2 DEF Crash, Stopped
  <2> QED
    BY <1>1, <2>1, <2>3 DEF AnyInv
<1>7. ASSUME Recover PROVE AnyInv'
  <2>1. ~up /\ up'
    BY <1>7 DEF Recover
  <2>2. Stopped
    BY <2>1 DEF AnyInv
  <2>3. Running'
    BY <1>1, <1>7, <2>2, AnyRecover
  <2> QED
    BY <1>1, <2>1, <2>3 DEF AnyInv
<1>8. CASE UNCHANGED vars
  <2>1. UNCHANGED <<accepted, seqCounter, handler, wal, buffer, batch, drain, snapshotSeq, disk,
                    up, handled, refused, overtaken>>
    BY <1>8 DEF vars, dbVars, drainVars, replicaVars, histVars
  <2>2. up => Running'
    BY <2>1, RunningFrame DEF AnyInv
  <2>3. ~up => Stopped'
    BY <2>1 DEF AnyInv, Stopped, NoAcceptedChangeLost, IsAccepted, Settled, Backlog, Overtaken
  <2> QED
    BY <1>1, <2>1, <2>2, <2>3 DEF AnyInv
<1> QED
  BY <1>3, <1>4, <1>5, <1>6, <1>7, <1>8 DEF Next

(* However many calls of ingest_event_from run at the same time and whatever
   appends, applies and commits fail, a crash at any moment loses no change that
   was answered with a seq, unless a drain overtook its call: the change was
   applied, or the log holds it past the persisted snapshot_seq. *)
THEOREM NothingAcceptedIsLost == Spec => []NoAcceptedChangeLost
<1>1. AnyInv /\ [Next]_vars => AnyInv'
  BY AnyInvStep
<1>2. Spec => []AnyInv
  BY <1>1, AnyInvInit, PTL DEF Spec
<1> QED
  BY <1>2, AnyInvNoLoss, PTL

(* The snapshot_seq that commit_snapshot_state persists, which the code assigns
   without comparing, moves back only to the seq of a call that an earlier drain
   overtook, for any number of concurrent calls. *)
THEOREM PersistedCutNeverRecedes == Spec => CutNeverRecedes
<1>1. AnyInv /\ [Next]_vars
        => [disk'.seq >= disk.seq \/ \E e \in overtaken : e.seq = disk'.seq]_vars
  <2> SUFFICES ASSUME AnyInv, Next
               PROVE  disk'.seq >= disk.seq \/ \E e \in overtaken : e.seq = disk'.seq
    OBVIOUS
  <2>1. TypeInv /\ disk.seq \in Nat
    BY SeqTypes DEF AnyInv
  <2>2. ASSUME NEW n \in Nat, Reached(n), disk'.seq \in {n, disk.seq}
        PROVE  disk'.seq >= disk.seq \/ \E e \in overtaken : e.seq = disk'.seq
    BY <2>1, <2>2 DEF Reached
  <2>3. CASE disk'.seq = disk.seq
    BY <2>1, <2>3
  <2>4. ASSUME DrainTake PROVE disk'.seq = disk.seq
    BY <2>4, <2>1 DEF DrainTake, TypeInv, TypeOK
  <2>5. ASSUME DrainCommit PROVE disk'.seq >= disk.seq \/ \E e \in overtaken : e.seq = disk'.seq
    <3>1. drain.pc # "idle" /\ up
      BY <2>5 DEF DrainCommit, AnyInv, Stopped, DrainIdle
    <3>2. Reached(drain.cut)
      BY <3>1 DEF AnyInv, Running, Cuts
    <3>3. disk'.seq \in {drain.cut, disk.seq}
      BY <2>5, <2>1, CommitType DEF DrainCommit, TypeInv, TypeOK
    <3> QED
      BY <2>1, <2>2, <3>2, <3>3, SeqTypes
  <2>6. ASSUME NEW tables \in SUBSET Tables, Rehash(tables)
        PROVE  disk'.seq >= disk.seq \/ \E e \in overtaken : e.seq = disk'.seq
    <3>1. Reached(snapshotSeq)
      BY <2>6 DEF Rehash, AnyInv, Running, Cuts
    <3>2. disk'.seq \in {snapshotSeq, disk.seq}
      BY <2>6, <2>1, CommitType DEF Rehash, TypeInv, TypeOK
    <3> QED
      BY <2>1, <2>2, <3>1, <3>2, SeqTypes
  <2>7. ASSUME NEW h \in Handlers, Ingest(h) PROVE disk'.seq = disk.seq
    BY <2>7 DEF Ingest, TakeSeq, AppendToWal, AppendFails, BufferAndAnswer, Dropped, replicaVars
  <2>8. ASSUME DrainDirtyOnly \/ ApplyOne \/ DrainTruncate \/ Crash \/ Recover
        PROVE  disk'.seq = disk.seq
    BY <2>8 DEF DrainDirtyOnly, ApplyOne, DrainTruncate, Crash, Recover, replicaVars
  <2> QED
    BY <2>3, <2>4, <2>5, <2>6, <2>7, <2>8 DEF Next, Drain
<1>2. AnyInv /\ [Next]_vars => AnyInv'
  BY AnyInvStep
<1>3. Spec => []AnyInv
  BY <1>2, AnyInvInit, PTL DEF Spec
<1> QED
  BY <1>1, <1>3, PTL DEF Spec, CutNeverRecedes

-----------------------------------------------------------------------------
(***************************************************************************)
(* The rows and the table hashes of the replica, for any rows, tables,     *)
(* bounds and number of crashes, with one caller of ingest.  The faults    *)
(* left out are the ones that TLC shows to break them: a commit that is    *)
(* not persisted, and for the hashes a marker or a from-content hash that  *)
(* fails.                                                                  *)
(*                                                                         *)
(* The hash of a table describes its rows in memory only if it did on disk *)
(* when the process came up, so the invariant follows the persisted hash   *)
(* through the drain: where it has fallen behind the rows, the applying    *)
(* marker is set and the log still holds an entry of the table (OnDisk).   *)
(*                                                                         *)
(* Converged speaks of an empty buffer; what keeps it true is that a       *)
(* replay after a crash starts no later than the change after the one the  *)
(* row shows, leaves out none and goes on to the last accepted one (Flow), *)
(* for the entries a drain holds as for those a crash would bring back,    *)
(* since a replayed delete takes the row back to an older change.          *)
(***************************************************************************)

(* Without failing commits memory and disk stand at the same cut. *)

AtCut ==
    /\ drain.pc = "truncate" => disk.seq = drain.cut
    /\ up => disk.seq = snapshotSeq

-----------------------------------------------------------------------------
(* Hashes. *)

NoHashFaults == "marker" \notin Faults /\ "hash" \notin Faults /\ "commit" \notin Faults

DiskHashOf(t) == IF t \in DOMAIN disk.hashes THEN disk.hashes[t] ELSE {}

OnDisk ==
    \A t \in Tables :
        \/ DiskHashOf(t) = Content(t)
        \/ disk.applying = TRUE /\ \E e \in Backlog : TableOf[e.change[1]] = t

Marked == drain.pc = "apply" => disk.applying = TRUE

HashInv == HashesDescribeRows /\ OnDisk /\ Marked

-----------------------------------------------------------------------------
(* Rows. *)

(* m is the change a row shows, a the last accepted one, X the changes to come. *)
Flow(X, m, a) ==
    /\ \A i, j \in X : \A k \in Nat : i < k /\ k < j => k \in X
    /\ X # {} => (\E i \in X : i <= m + 1) /\ (\E j \in X : j >= a)
    /\ X = {} => m >= a

Numbers(S, r) == {e.change[2] : e \in {f \in S : f.change[1] = r}}
Held(s) == {s[i] : i \in DOMAIN s}
Pending == Held(batch) \cup Held(buffer)
Excused(r) == \E c \in refused : c[1] = r

Flows ==
    \A r \in Rows : ~Excused(r) =>
        /\ Flow(Numbers(Backlog, r), rows[r].n, accepted[r])
        /\ up => Flow(Numbers(Pending, r), rows[r].n, accepted[r])

(* The log in seq order: a row's changes in their order, none past the next one. *)
LogOrder ==
    /\ \A e, f \in wal : e.seq = f.seq => e = f
    /\ \A e, f \in wal : e.change[1] = f.change[1] /\ e.seq < f.seq => e.change[2] <= f.change[2]
    /\ \A e \in wal : e.change[2] <= accepted[e.change[1]] + 1
    /\ up => \A e \in wal : e.seq <= seqCounter
    /\ up => \A h \in Handlers : Calling(h) /\ handler[h].pc = "append" =>
                \A e \in wal : e.seq < handler[h].entry.seq
    /\ \A i, j \in DOMAIN batch : i < j => batch[i].seq < batch[j].seq

(* Only changes that were made are logged or shown, and a row is as its change left it. *)
Shown ==
    /\ \A e \in wal : e.change[2] <= Len(upstream[e.change[1]])
    /\ \A h \in Handlers : Calling(h) =>
          handler[h].entry.change[2] <= Len(upstream[handler[h].entry.change[1]])
    /\ \A r \in Rows :
          /\ accepted[r] <= Len(upstream[r])
          /\ rows[r].n <= Len(upstream[r])
          /\ rows[r].n > 0 => rows[r] = Row(<<r, rows[r].n>>)
          /\ rows[r].n = 0 => rows[r].rv = 0

RowInv == LogOrder /\ Shown /\ Flows

-----------------------------------------------------------------------------
(* The cut. *)

LEMMA Going ==
    ASSUME Inv
    PROVE  /\ TypeOK /\ TypeInv
           /\ drain.pc # "idle" => up
           /\ up => Logged /\ Ordered /\ InTurn /\ Draining
           /\ ~up => Down
BY DEF Inv, TypeInv, Down, DrainIdle

(* What a commit persists. *)
LEMMA Committed ==
    ASSUME TypeOK, "commit" \notin Faults, NEW seq, NEW extra, CommitSnapshot(seq, extra)
    PROVE  /\ snapshotSeq' = seq /\ disk'.seq = seq
           /\ disk'.hashes = hashes' /\ disk'.applying = FALSE
<1>1. snapshotSeq' = seq /\ disk' = [seq |-> seq, hashes |-> hashes', applying |-> FALSE]
  BY DEF CommitSnapshot
<1> QED
  BY <1>1

LEMMA AtCutStep ==
    ASSUME Inv, AtCut, "commit" \notin Faults, [Next]_vars
    PROVE  AtCut'
<1>0. TypeOK /\ (drain.pc # "idle" => up)
  BY Going
<1>1. CASE UNCHANGED <<disk, drain, snapshotSeq, up>>
  BY <1>1 DEF AtCut
<1>2. ASSUME NEW h \in Handlers, Ingest(h) PROVE AtCut'
  BY <1>1, <1>2 DEF Ingest, TakeSeq, AppendToWal, AppendFails, BufferAndAnswer, Dropped, drainVars,
                    replicaVars
<1>3. CASE DrainTake
  <2>1. disk'.seq = disk.seq /\ drain'.pc = "apply" /\ UNCHANGED <<snapshotSeq, up>>
    BY <1>0, <1>3 DEF DrainTake, TypeOK
  <2> QED
    BY <2>1 DEF AtCut
<1>4. CASE DrainDirtyOnly
  <2>1. drain'.pc = "commit" /\ UNCHANGED <<disk, snapshotSeq, up>>
    BY <1>4 DEF DrainDirtyOnly, replicaVars
  <2> QED
    BY <2>1 DEF AtCut
<1>5. CASE ApplyOne
  BY <1>1, <1>5 DEF ApplyOne
<1>6. CASE DrainCommit
  <2>1. CommitSnapshot(drain.cut, {}) /\ drain' = [drain EXCEPT !.pc = "truncate"] /\ up' = up
    BY <1>6 DEF DrainCommit
  <2>2. snapshotSeq' = drain.cut /\ disk'.seq = drain.cut
    BY <1>0, <2>1, Committed
  <2>3. drain'.cut = drain.cut
    BY <1>0, <2>1 DEF TypeOK
  <2> QED
    BY <2>2, <2>3 DEF AtCut
<1>7. CASE DrainTruncate
  <2>1. drain'.pc = "idle" /\ UNCHANGED <<disk, snapshotSeq, up>>
    BY <1>7 DEF DrainTruncate, replicaVars, DrainIdle
  <2> QED
    BY <2>1 DEF AtCut
<1>8. ASSUME NEW tables \in (SUBSET Tables) \ {{}}, Rehash(tables) PROVE AtCut'
  <2>1. CommitSnapshot(snapshotSeq, tables) /\ drain.pc = "idle" /\ drain' = drain
    BY <1>8 DEF Rehash, drainVars
  <2>2. snapshotSeq' = snapshotSeq /\ disk'.seq = snapshotSeq
    BY <1>0, <2>1, Committed
  <2> QED
    BY <2>1, <2>2 DEF AtCut
<1>9. CASE Crash
  <2>1. ~up' /\ drain'.pc = "idle"
    BY <1>9 DEF Crash, DrainIdle
  <2> QED
    BY <2>1 DEF AtCut
<1>10. CASE Recover
  <2>1. ~up /\ snapshotSeq' = disk.seq /\ UNCHANGED <<disk, drain>>
    BY <1>10 DEF Recover, drainVars
  <2>2. drain'.pc = "idle"
    BY <1>0, <2>1 DEF Inv, Down, DrainIdle
  <2> QED
    BY <2>1, <2>2 DEF AtCut
<1>11. CASE UNCHANGED vars
  BY <1>1, <1>11 DEF vars, drainVars, replicaVars
<1> QED
  BY <1>2, <1>3, <1>4, <1>5, <1>6, <1>7, <1>8, <1>9, <1>10, <1>11 DEF Next, Drain


-----------------------------------------------------------------------------
(* The hashes follow the rows. *)

(* A write changes the content of its own table only, by its own digest. *)
LEMMA ContentMoves ==
    ASSUME TypeOK, NEW r \in Rows, NEW row, rows' = [rows EXCEPT ![r] = row]
    PROVE  /\ \A t \in Tables : t # TableOf[r] => Content(t)' = Content(t)
           /\ Content(TableOf[r])'
                = Xor(Content(TableOf[r]), Xor(Digest(r, rows[r]), Digest(r, row)))
<1>1. rows'[r] = row /\ \A q \in Rows : q # r => rows'[q] = rows[q]
  BY DEF TypeOK
<1>2. ASSUME NEW t \in Tables, t # TableOf[r] PROVE Content(t)' = Content(t)
  <2>1. \A q \in {p \in Rows : TableOf[p] = t} : Digest(q, rows'[q]) = Digest(q, rows[q])
    BY <1>1, <1>2 DEF Digest
  <2> QED
    BY <2>1 DEF Content
<1> DEFINE t == TableOf[r]
           Mine == {q \in Rows : TableOf[q] = t}
<1>3. \A x : x \in Content(t) <=> \E q \in Mine : x \in Digest(q, rows[q])
  BY DEF Content
<1>4. \A x : x \in Content(t)' <=> \E q \in Mine : x \in Digest(q, rows'[q])
  BY DEF Content
<1>5. \A q, any, x : x \in Digest(q, any) => x[1] = q
  BY DEF Digest
<1>6. \A q \in Mine : q # r => Digest(q, rows'[q]) = Digest(q, rows[q])
  BY <1>1 DEF Digest
<1>7. r \in Mine /\ Digest(r, rows'[r]) = Digest(r, row)
  BY <1>1
<1> DEFINE D == Digest(r, rows[r])
           E == Digest(r, row)
<1>8. \A x : x[1] = r => (x \in Content(t) <=> x \in D) /\ (x \in Content(t)' <=> x \in E)
  BY <1>3, <1>4, <1>5, <1>7
<1>9. \A x : x[1] # r => (x \in Content(t)' <=> x \in Content(t)) /\ x \notin D /\ x \notin E
  BY <1>3, <1>4, <1>5, <1>6
<1>10. \A x : x \in Content(t)' <=> x \in Xor(Content(t), Xor(D, E))
  <2> HIDE DEF D, E, t, Mine
  <2> QED
    BY <1>8, <1>9 DEF Xor
<1>11. Content(t)' = Xor(Content(t), Xor(D, E))
  <2> HIDE DEF D, E, t, Mine
  <2> QED
    BY <1>10
<1> QED
  BY <1>2, <1>11

(* What a commit leaves: nothing flagged, every hash true, on disk as well. *)
LEMMA CommitDescribes ==
    ASSUME Inv, HashInv, NoHashFaults, up, NEW seq, NEW extra \in SUBSET Tables,
           CommitSnapshot(seq, extra), rows' = rows
    PROVE  \A t \in Tables : HashOf(t)' = Content(t)' /\ DiskHashOf(t)' = Content(t)'
<1>1. PICK failed \in SUBSET (extra \cup dirty) :
        /\ failed # {} => "hash" \in Faults
        /\ hashes' = [t \in DOMAIN hashes \cup ((extra \cup dirty) \ failed) |->
                        IF t \in (extra \cup dirty) \ failed THEN Content(t) ELSE hashes[t]]
  BY DEF CommitSnapshot
<1>2. failed = {}
  BY <1>1 DEF NoHashFaults
<1>3. hashes' = [t \in DOMAIN hashes \cup (extra \cup dirty) |->
                        IF t \in extra \cup dirty THEN Content(t) ELSE hashes[t]]
  BY <1>1, <1>2
<1>4. \A t \in Tables : t \in dirty \/ HashOf(t) = Content(t)
  BY DEF HashInv, HashesDescribeRows
<1>5. \A t \in Tables : Content(t)' = Content(t)
  BY DEF Content
<1>6. \A t \in Tables : HashOf(t)' = Content(t)
  BY <1>3, <1>4 DEF HashOf
<1>7. TypeOK /\ "commit" \notin Faults
  BY DEF Inv, NoHashFaults
<1>8. disk'.hashes = hashes'
  BY <1>7, Committed
<1>9. \A t \in Tables : DiskHashOf(t)' = HashOf(t)'
  BY <1>8 DEF DiskHashOf, HashOf
<1> QED
  BY <1>5, <1>6, <1>9


(* While a batch is applied its tables are known to be behind on disk. *)
LEMMA HeadIsLogged ==
    ASSUME Inv, AtCut, drain.pc = "apply", batch # <<>>
    PROVE  /\ Head(batch) \in Backlog /\ Head(batch) \in Entry
           /\ Head(batch) = batch[1] /\ 1 \in DOMAIN batch
           /\ Head(batch).change \in Changes /\ Head(batch).change[1] \in Rows
           /\ up
<1>1. up /\ TypeOK /\ TypeInv /\ Logged /\ Ordered
  BY Going
<1>2. batch \in Seq(Entry)
  BY <1>1 DEF TypeOK
<1>3. Head(batch) = batch[1] /\ 1 \in DOMAIN batch /\ Head(batch) \in Entry
  BY <1>2
<1>4. batch[1] \in wal /\ snapshotSeq < batch[1].seq
  BY <1>1, <1>3 DEF Logged, Ordered
<1>5. disk.seq = snapshotSeq
  BY <1>1 DEF AtCut
<1>6. batch[1].seq \in Nat /\ snapshotSeq \in Nat
  BY <1>1, <1>3 DEF TypeOK, Entry, Seqs
<1>7. batch[1] \in Backlog
  BY <1>4, <1>5, <1>6 DEF Backlog
<1>8. Head(batch).change \in Changes /\ Head(batch).change[1] \in Rows
  BY <1>3 DEF Entry, Changes
<1> QED
  BY <1>1, <1>3, <1>7, <1>8

LEMMA HashApply ==
    ASSUME Inv, AtCut, HashInv, ApplyOne
    PROVE  HashInv'
<1>1. drain.pc = "apply" /\ batch # <<>> /\ UNCHANGED <<wal, drain, disk, up>>
  BY DEF ApplyOne
<1>b. PICK c \in Changes : c = Head(batch).change
  BY <1>1, HeadIsLogged
<1>w. PICK row : row = Row(c)
  OBVIOUS
<1>c. c = Head(batch).change /\ row = Row(c)
  BY <1>b, <1>w
<1> DEFINE r == c[1]
           t == TableOf[r]
<1>2. up /\ Head(batch) \in Backlog /\ r \in Rows /\ c \in Changes
  BY <1>1, <1>c, HeadIsLogged
<1>a. \/ rows' = rows /\ hashes' = hashes /\ dirty' = Flagged(t)
      \/ /\ rows' = [rows EXCEPT ![r] = row]
         /\ \/ /\ hashes' = Fold(t, Digest(r, rows[r]), Digest(r, row))
               /\ dirty' = Flagged(t)
            \/ dirty' = dirty \cup {t} /\ hashes' = hashes
  BY <1>c DEF ApplyOne
<1>3. TypeOK /\ t \in Tables
  BY <1>2, Going, TableAssumption
<1>4. disk.applying = TRUE
  BY <1>1 DEF HashInv, Marked
<1>5. Marked'
  BY <1>1, <1>4 DEF Marked
<1>6. Backlog' = Backlog
  BY <1>1 DEF Backlog
<1>7. \/ rows' = rows /\ hashes' = hashes
      \/ rows' = [rows EXCEPT ![r] = row]
  BY <1>a
<1>8. \A u \in Tables : u # t => Content(u)' = Content(u)
  <2>1. CASE rows' = rows
    BY <2>1 DEF Content
  <2>2. CASE rows' = [rows EXCEPT ![r] = row]
    BY <2>2, <1>2, <1>3, ContentMoves
  <2> QED
    BY <1>7, <2>1, <2>2
<1>9. OnDisk'
  <2> SUFFICES ASSUME NEW u \in Tables
               PROVE  \/ DiskHashOf(u)' = Content(u)'
                      \/ disk'.applying = TRUE /\ \E e \in Backlog' : TableOf[e.change[1]] = u
    BY DEF OnDisk
  <2>1. CASE u = t
    BY <2>1, <1>1, <1>2, <1>4, <1>6, <1>c
  <2>2. CASE u # t
    <3>1. DiskHashOf(u)' = DiskHashOf(u) /\ Content(u)' = Content(u)
      BY <1>1, <1>8, <2>2 DEF DiskHashOf
    <3>2. \/ DiskHashOf(u) = Content(u)
          \/ disk.applying = TRUE /\ \E e \in Backlog : TableOf[e.change[1]] = u
      BY DEF HashInv, OnDisk
    <3> QED
      BY <3>1, <3>2, <1>1, <1>6
  <2> QED
    BY <2>1, <2>2
<1>10. \A u \in Tables : u \in dirty \/ HashOf(u) = Content(u)
  BY <1>2 DEF HashInv, HashesDescribeRows
<1>11. dirty \subseteq dirty'
  BY <1>a DEF Flagged
<1>12. \A u \in Tables : u # t => HashOf(u)' = HashOf(u)
  <2>1. hashes' = hashes \/ hashes' = Fold(t, Digest(r, rows[r]), Digest(r, row))
    BY <1>a
  <2>2. DOMAIN hashes' = DOMAIN hashes /\ \A u \in DOMAIN hashes : u # t => hashes'[u] = hashes[u]
    <3>1. hashes \in [DOMAIN hashes -> Digests]
      BY <1>3, HashMapForm DEF TypeOK
    <3> QED
      BY <2>1, <3>1 DEF Fold
  <2> QED
    BY <2>2 DEF HashOf
<1>13. t \in dirty' \/ HashOf(t)' = Content(t)'
  <2>1. CASE rows' = rows /\ hashes' = hashes
    <3>1. HashOf(t)' = HashOf(t) /\ Content(t)' = Content(t)
      BY <2>1 DEF HashOf, Content
    <3> QED
      BY <3>1, <1>3, <1>10, <1>11
  <2>2. CASE /\ rows' = [rows EXCEPT ![r] = row]
             /\ hashes' = Fold(t, Digest(r, rows[r]), Digest(r, row))
             /\ dirty' = Flagged(t)
    <3>1. CASE ~Tracking(t)
      BY <3>1, <2>2 DEF Tracking, Flagged
    <3>2. CASE Tracking(t)
      <4>1. t \in DOMAIN hashes /\ t \notin dirty /\ HashOf(t) = hashes[t] /\ HashOf(t) = Content(t)
        BY <3>2, <1>3, <1>10 DEF Tracking, HashOf
      <4>2. hashes' = [hashes EXCEPT ![t] =
                          Xor(hashes[t], Xor(Digest(r, rows[r]), Digest(r, row)))]
        BY <2>2, <3>2 DEF Fold
      <4>3. HashOf(t)' = Xor(hashes[t], Xor(Digest(r, rows[r]), Digest(r, row)))
        <5>1. hashes \in [DOMAIN hashes -> Digests]
          BY <1>3, HashMapForm DEF TypeOK
        <5> QED
          BY <4>1, <4>2, <5>1 DEF HashOf
      <4>4. Content(t)' = Xor(Content(t), Xor(Digest(r, rows[r]), Digest(r, row)))
        BY <2>2, <1>2, <1>3, ContentMoves
      <4> QED
        BY <4>1, <4>3, <4>4
    <3> QED
      BY <3>1, <3>2
  <2>3. CASE dirty' = dirty \cup {t}
    BY <2>3
  <2> QED
    BY <1>a, <2>1, <2>2, <2>3
<1>14. HashesDescribeRows'
  <2> SUFFICES ASSUME NEW u \in Tables PROVE u \in dirty' \/ HashOf(u)' = Content(u)'
    BY DEF HashesDescribeRows
  <2> QED
    BY <1>8, <1>10, <1>11, <1>12, <1>13
<1> QED
  BY <1>5, <1>9, <1>14 DEF HashInv


LEMMA HashStep ==
    ASSUME Inv, AtCut, HashInv, NoHashFaults, [Next]_vars
    PROVE  HashInv'
<1>0. TypeOK /\ (drain.pc # "idle" => up)
  BY Going
<1>h. /\ up => \A t \in Tables : t \in dirty \/ HashOf(t) = Content(t)
      /\ \A t \in Tables :
            \/ DiskHashOf(t) = Content(t)
            \/ disk.applying = TRUE /\ \E e \in Backlog : TableOf[e.change[1]] = t
      /\ drain.pc = "apply" => disk.applying = TRUE
  BY DEF HashInv, HashesDescribeRows, OnDisk, Marked
<1>c. rows' = rows => \A t \in Tables : Content(t)' = Content(t)
  BY DEF Content
<1>1. ASSUME UNCHANGED <<rows, hashes, dirty, up>>, disk'.hashes = disk.hashes,
             disk.applying = TRUE => disk'.applying = TRUE, Backlog \subseteq Backlog',
             drain'.pc = "apply" => disk'.applying = TRUE
      PROVE  HashInv'
  <2>1. \A t \in Tables : HashOf(t)' = HashOf(t) /\ DiskHashOf(t)' = DiskHashOf(t)
    BY <1>1 DEF HashOf, DiskHashOf
  <2>2. HashesDescribeRows'
    BY <1>1, <1>h, <1>c, <2>1 DEF HashesDescribeRows
  <2>3. OnDisk'
    BY <1>1, <1>h, <1>c, <2>1 DEF OnDisk
  <2> QED
    BY <1>1, <2>2, <2>3 DEF HashInv, Marked
<1>2. ASSUME NEW h \in Handlers, Ingest(h) PROVE HashInv'
  <2>1. UNCHANGED <<rows, hashes, dirty, disk, drain, up>> /\ wal \subseteq wal'
    BY <1>2 DEF Ingest, TakeSeq, AppendToWal, AppendFails, BufferAndAnswer, Dropped, drainVars,
                replicaVars
  <2>2. Backlog \subseteq Backlog'
    BY <2>1 DEF Backlog
  <2> QED
    BY <1>1, <1>h, <2>1, <2>2
<1>3. ASSUME DrainTake PROVE HashInv'
  <2>1. UNCHANGED <<rows, hashes, dirty, up, wal>> /\ disk' = [disk EXCEPT !.applying = TRUE]
    BY <1>3 DEF DrainTake, NoHashFaults
  <2>2. disk'.hashes = disk.hashes /\ disk'.applying = TRUE /\ disk'.seq = disk.seq
    BY <1>0, <2>1 DEF TypeOK
  <2>3. Backlog' = Backlog
    BY <2>1, <2>2 DEF Backlog
  <2> QED
    BY <1>1, <2>1, <2>2, <2>3
<1>4. ASSUME DrainDirtyOnly PROVE HashInv'
  <2>1. UNCHANGED <<rows, hashes, dirty, up, wal, disk>> /\ drain'.pc = "commit"
    BY <1>4 DEF DrainDirtyOnly, replicaVars
  <2>2. Backlog' = Backlog
    BY <2>1 DEF Backlog
  <2> QED
    BY <1>1, <2>1, <2>2
<1>5. ASSUME ApplyOne PROVE HashInv'
  BY <1>5, HashApply
<1>6. ASSUME DrainCommit PROVE HashInv'
  <2>1. CommitSnapshot(drain.cut, {}) /\ drain' = [drain EXCEPT !.pc = "truncate"]
        /\ rows' = rows /\ drain.pc # "idle"
    BY <1>6 DEF DrainCommit
  <2>2. \A t \in Tables : HashOf(t)' = Content(t)' /\ DiskHashOf(t)' = Content(t)'
    <3>1. {} \in SUBSET Tables /\ up
      BY <1>0, <2>1
    <3> QED
      BY <2>1, <3>1, CommitDescribes
  <2>3. drain'.pc = "truncate"
    BY <1>0, <2>1 DEF TypeOK
  <2> QED
    BY <2>2, <2>3 DEF HashInv, HashesDescribeRows, OnDisk, Marked
<1>7. ASSUME DrainTruncate PROVE HashInv'
  <2>1. UNCHANGED <<rows, hashes, dirty, up, disk>> /\ drain'.pc = "idle" /\ drain.pc = "truncate"
    BY <1>7 DEF DrainTruncate, replicaVars, DrainIdle
  <2>2. drain.cut = disk.seq
    BY <2>1 DEF AtCut
  <2>3. \A e \in wal : e.seq > drain.cut => e \in wal'
    BY <1>7 DEF DrainTruncate
  <2>4. Backlog \subseteq Backlog'
    BY <2>1, <2>2, <2>3 DEF Backlog
  <2> QED
    BY <1>1, <2>1, <2>4
<1>8. ASSUME NEW tables \in (SUBSET Tables) \ {{}}, Rehash(tables) PROVE HashInv'
  <2>1. CommitSnapshot(snapshotSeq, tables) /\ drain' = drain /\ drain.pc = "idle" /\ up /\ rows' = rows
    BY <1>8 DEF Rehash, drainVars
  <2>2. tables \in SUBSET Tables
    OBVIOUS
  <2>3. \A t \in Tables : HashOf(t)' = Content(t)' /\ DiskHashOf(t)' = Content(t)'
    BY <2>1, <2>2, CommitDescribes
  <2> QED
    BY <2>1, <2>3 DEF HashInv, HashesDescribeRows, OnDisk, Marked
<1>9. ASSUME Crash PROVE HashInv'
  <2>1. ~up' /\ drain'.pc = "idle" /\ UNCHANGED <<rows, disk, wal>>
    BY <1>9 DEF Crash, DrainIdle
  <2>2. Backlog' = Backlog /\ \A t \in Tables : DiskHashOf(t)' = DiskHashOf(t)
    BY <2>1 DEF Backlog, DiskHashOf
  <2>3. OnDisk'
    BY <1>h, <1>c, <2>1, <2>2 DEF OnDisk
  <2> QED
    BY <2>1, <2>3 DEF HashInv, HashesDescribeRows, Marked
<1>10. ASSUME Recover PROVE HashInv'
  <2>1. UNCHANGED <<rows, disk, wal, drain>> /\ hashes' = disk.hashes /\ ~up
    BY <1>10 DEF Recover, drainVars
  <2>2. drain'.pc = "idle"
    BY <1>0, <2>1 DEF TypeOK
  <2>3. Backlog' = Backlog
    BY <2>1 DEF Backlog
  <2>4. \A t \in Tables : DiskHashOf(t)' = DiskHashOf(t) /\ HashOf(t)' = DiskHashOf(t)
    BY <2>1 DEF DiskHashOf, HashOf
  <2>5. OnDisk'
    BY <1>h, <1>c, <2>1, <2>3, <2>4 DEF OnDisk
  <2>6. \A e \in Backlog : \E i \in DOMAIN buffer' : buffer'[i] = e
    BY <1>10 DEF Recover, BySeq
  <2>7. disk.applying = TRUE => \A e \in Backlog : TableOf[e.change[1]] \in dirty'
    <3> SUFFICES ASSUME disk.applying = TRUE, NEW e \in Backlog PROVE TableOf[e.change[1]] \in dirty'
      OBVIOUS
    <3>1. dirty' = TouchedTables(buffer')
      BY <1>10 DEF Recover
    <3>2. PICK i \in DOMAIN buffer' : buffer'[i] = e
      BY <2>6
    <3> QED
      BY <3>1, <3>2 DEF TouchedTables
  <2>8. HashesDescribeRows'
    BY <1>h, <1>c, <2>1, <2>4, <2>7 DEF HashesDescribeRows
  <2> QED
    BY <2>2, <2>5, <2>8 DEF HashInv, Marked
<1>11. ASSUME UNCHANGED vars PROVE HashInv'
  <2>1. UNCHANGED <<rows, hashes, dirty, up, wal, disk, drain>>
    BY <1>11 DEF vars, drainVars, replicaVars
  <2>2. Backlog' = Backlog
    BY <2>1 DEF Backlog
  <2> QED
    BY <1>1, <1>h, <2>1, <2>2
<1> QED
  BY <1>2, <1>3, <1>4, <1>5, <1>6, <1>7, <1>8, <1>9, <1>10, <1>11 DEF Next, Drain

LEMMA HashInit == Init => AtCut /\ HashInv
<1> SUFFICES ASSUME Init PROVE AtCut /\ HashInv
  OBVIOUS
<1>1. AtCut /\ Marked
  BY DEF Init, AtCut, Marked, DrainIdle
<1>2. \A t \in Tables : Content(t) = {} /\ HashOf(t) = {} /\ DiskHashOf(t) = {}
  BY DEF Init, Content, Digest, HashOf, DiskHashOf
<1> QED
  BY <1>1, <1>2 DEF HashInv, HashesDescribeRows, OnDisk

(* With one caller of ingest_event_from, and marker, from-content hashes and
   commits that do not fail, the hash of a table that is not flagged describes
   the rows the replica holds, through any crashes of a drain halfway and any
   number of recoveries, although hashes are folded incrementally and persisted
   only with a commit. *)
THEOREM HashesStayTrue ==
    ASSUME OneCaller, NoHashFaults
    PROVE  Spec => []HashesDescribeRows
<1>1. Inv /\ AtCut /\ HashInv /\ [Next]_vars => (Inv /\ AtCut /\ HashInv)'
  BY InvStep, AtCutStep, HashStep DEF NoHashFaults
<1>2. Init => Inv /\ AtCut /\ HashInv
  BY InvInit, HashInit
<1>3. Inv /\ AtCut /\ HashInv => HashesDescribeRows
  BY DEF HashInv
<1> QED
  BY <1>1, <1>2, <1>3, PTL DEF Spec


-----------------------------------------------------------------------------
(* How a flow changes. *)

(* The next change joins the ones to come; then it is answered. *)
LEMMA FlowAppend ==
    ASSUME NEW X \in SUBSET Nat, NEW m \in Nat, NEW a \in Nat, Flow(X, m, a),
           \A i \in X : i <= a + 1
    PROVE  Flow(X \cup {a + 1}, m, a) /\ Flow(X \cup {a + 1}, m, a + 1)
<1> DEFINE Z == X \cup {a + 1}
<1>1. \A i, j \in Z : \A k \in Nat : i < k /\ k < j => k \in Z
  <2> SUFFICES ASSUME NEW i \in Z, NEW j \in Z, NEW k \in Nat, i < k, k < j PROVE k \in X
    OBVIOUS
  <2>1. i \in X /\ k <= a
    OBVIOUS
  <2>2. PICK l \in X : l >= a
    BY <2>1 DEF Flow
  <2>3. l \in Nat /\ i \in Nat /\ (l = k \/ k < l)
    BY <2>1, <2>2
  <2> QED
    BY <2>1, <2>3 DEF Flow
<1>2. \E i \in Z : i <= m + 1
  <2>1. CASE X = {}
    BY <2>1 DEF Flow
  <2>2. CASE X # {}
    BY <2>2 DEF Flow
  <2> QED
    BY <2>1, <2>2
<1>3. Z # {} /\ (\E j \in Z : j >= a) /\ (\E j \in Z : j >= a + 1)
  OBVIOUS
<1> QED
  BY <1>1, <1>2, <1>3 DEF Flow

(* The next change is answered. *)
LEMMA FlowAnswer ==
    ASSUME NEW X \in SUBSET Nat, NEW m \in Nat, NEW a \in Nat, Flow(X, m, a), a + 1 \in X
    PROVE  Flow(X, m, a + 1)
BY DEF Flow

(* The row moves to a change the flow holds. *)
LEMMA FlowMove ==
    ASSUME NEW X \in SUBSET Nat, NEW m \in Nat, NEW a \in Nat, Flow(X, m, a), NEW n \in X
    PROVE  Flow(X, n, a)
BY DEF Flow

(* The least change of the flow is applied, or found to be in the row already. *)
LEMMA FlowConsume ==
    ASSUME NEW X \in SUBSET Nat, NEW Y \in SUBSET X, NEW m \in Nat, NEW a \in Nat,
           NEW n \in X, NEW p \in Nat,
           Flow(X, m, a), \A i \in X : n <= i, \A i \in X : i = n \/ i \in Y, n <= p
    PROVE  Flow(Y, p, a)
<1>1. \A i, j \in Y : \A k \in Nat : i < k /\ k < j => k \in Y
  <2> SUFFICES ASSUME NEW i \in Y, NEW j \in Y, NEW k \in Nat, i < k, k < j PROVE k \in Y
    OBVIOUS
  <2>1. k \in X
    BY DEF Flow
  <2>2. k # n
    OBVIOUS
  <2> QED
    BY <2>1, <2>2
<1>2. PICK l \in X : l >= a
  BY DEF Flow
<1>3. CASE Y = {}
  BY <1>2, <1>3 DEF Flow
<1>4. CASE Y # {}
  <2>1. PICK j \in Y : TRUE
    BY <1>4
  <2>2. \E i \in Y : i <= p + 1
    <3>1. CASE j <= n + 1
      BY <3>1
    <3>2. CASE n + 1 < j
      <4>1. n + 1 \in X
        BY <3>2 DEF Flow
      <4> QED
        BY <4>1
    <3> QED
      BY <3>1, <3>2
  <2>3. \E i \in Y : i >= a
    BY <1>2, <2>1
  <2> QED
    BY <1>1, <1>4, <2>2, <2>3 DEF Flow
<1> QED
  BY <1>3, <1>4

(* The cut passes changes the row has seen, with what is still to be applied behind it. *)
LEMMA FlowCut ==
    ASSUME NEW X \in SUBSET Nat, NEW Z \in SUBSET X, NEW Y \in SUBSET Z,
           NEW m \in Nat, NEW a \in Nat,
           Flow(X, m, a), Flow(Y, m, a), \A i \in X : i <= a + 1,
           \A i \in X \ Z : \A j \in Z : i <= j
    PROVE  Flow(Z, m, a)
<1>1. \A i, j \in Z : \A k \in Nat : i < k /\ k < j => k \in Z
  <2> SUFFICES ASSUME NEW i \in Z, NEW j \in Z, NEW k \in Nat, i < k, k < j, k \notin Z PROVE FALSE
    OBVIOUS
  <2>1. k \in X \ Z
    BY DEF Flow
  <2> QED
    BY <2>1
<1>2. CASE Z = {}
  BY <1>2 DEF Flow
<1>3. CASE Z # {}
  <2>1. PICK z \in Z : TRUE
    BY <1>3
  <2>2. \E i \in Z : i <= m + 1
    <3>1. CASE Y = {}
      BY <2>1, <3>1 DEF Flow
    <3>2. CASE Y # {}
      BY <3>2 DEF Flow
    <3> QED
      BY <3>1, <3>2
  <2>3. PICK l \in X : l >= a
    BY <2>1 DEF Flow
  <2>4. \E i \in Z : i >= a
    BY <2>1, <2>3
  <2> QED
    BY <1>1, <1>3, <2>2, <2>4 DEF Flow
<1> QED
  BY <1>2, <1>3


-----------------------------------------------------------------------------
(* Row versions. *)

Deletes(ops, n) == {i \in 1..n : ops[i] = "del"} \cup {0}

LEMMA RvForm ==
    ASSUME NEW r, NEW n \in Nat
    PROVE  /\ Rv(<<r, n>>) = n - MaxOf(Deletes(upstream[r], n))
           /\ MaxOf(Deletes(upstream[r], n)) \in Deletes(upstream[r], n)
           /\ \A i \in Deletes(upstream[r], n) : i <= MaxOf(Deletes(upstream[r], n))
<1>1. Rv(<<r, n>>) = n - MaxOf(Deletes(upstream[r], n))
  BY DEF Rv, Deletes
<1>2. Deletes(upstream[r], n) \subseteq 0..n /\ Deletes(upstream[r], n) # {}
  BY DEF Deletes
<1> QED
  BY <1>1, <1>2, MaxOfBounded

LEMMA MaxOfOnly == MaxOf({0}) = 0
<1>1. {0} \subseteq 0..0 /\ {0} # {}
  OBVIOUS
<1>2. MaxOf({0}) \in {0}
  BY <1>1, MaxOfBounded
<1> QED
  BY <1>2

(* A write's version is one more than its predecessor's, so apply never skips the
   change after the one the row shows. *)
LEMMA RvNext ==
    ASSUME NEW r, NEW n \in Nat, NEW p \in Nat, p = n + 1, Rv(<<r, p>>) > 0
    PROVE  Rv(<<r, p>>) = Rv(<<r, n>>) + 1
<1> DEFINE A == Deletes(upstream[r], n)
           B == Deletes(upstream[r], p)
<1>1. /\ Rv(<<r, p>>) = p - MaxOf(B)
      /\ MaxOf(B) \in B /\ \A i \in B : i <= MaxOf(B)
  BY RvForm
<1>2. B \subseteq 0..p
  BY DEF Deletes
<1>3. MaxOf(B) \in 0..p
  BY <1>1, <1>2
<1>4. MaxOf(B) # p
  <2>1. p - MaxOf(B) > 0
    BY <1>1
  <2> HIDE DEF A, B
  <2> QED
    BY <1>3, <2>1
<1>5. p \notin B
  <2>1. ASSUME p \in B PROVE FALSE
    <3>1. p <= MaxOf(B)
      BY <1>1, <2>1
    <3> HIDE DEF A, B
    <3> QED
      BY <1>3, <1>4, <3>1
  <2> QED
    BY <2>1
<1>6. B = A
  BY <1>5 DEF Deletes
<1>7. Rv(<<r, n>>) = n - MaxOf(A)
  BY RvForm
<1> HIDE DEF A, B
<1> QED
  BY <1>1, <1>3, <1>6, <1>7

LEMMA RvNone ==
    ASSUME NEW r
    PROVE  Rv(<<r, 0>>) = 0
<1>1. Deletes(upstream[r], 0) = {0}
  BY DEF Deletes
<1>2. Rv(<<r, 0>>) = 0 - MaxOf(Deletes(upstream[r], 0))
  BY RvForm
<1> QED
  BY <1>1, <1>2, MaxOfOnly

(* Later changes leave the version of an earlier one alone. *)
LEMMA RvKept ==
    ASSUME NEW r, NEW n \in Nat, \A i \in 1..n : upstream'[r][i] = upstream[r][i]
    PROVE  Rv(<<r, n>>)' = Rv(<<r, n>>)
<1>1. {i \in 1..n : upstream'[r][i] = "del"} = {i \in 1..n : upstream[r][i] = "del"}
  OBVIOUS
<1> QED
  BY <1>1 DEF Rv


-----------------------------------------------------------------------------
(* The order of the log. *)

(* The entries of the log, the batch and the buffer are typed. *)
LEMMA EntryTypes ==
    ASSUME TypeOK
    PROVE  /\ \A e \in Entry : /\ e.seq \in Nat /\ e.change \in Changes /\ e.change[2] \in Nat
                               /\ e.change[1] \in Rows /\ e.change[2] > 0
                               /\ e.change = <<e.change[1], e.change[2]>>
           /\ \A e \in wal : e \in Entry
           /\ \A h \in Handlers : Calling(h) =>
                 handler[h].entry \in Entry /\ handler[h].pc \in {"append", "buffer"}
           /\ \A r \in Rows : accepted[r] \in Nat /\ rows[r].n \in Nat /\ rows[r].rv \in Nat
                              /\ upstream[r] \in Seq({"put", "del"})
           /\ seqCounter \in Nat
<1>1. \A e \in Entry : /\ e.seq \in Nat /\ e.change \in Changes /\ e.change[2] \in Nat
                       /\ e.change[1] \in Rows /\ e.change[2] > 0
                       /\ e.change = <<e.change[1], e.change[2]>>
  BY DEF Entry, Seqs, Changes
<1>2. \A h \in Handlers : Calling(h) =>
        handler[h].entry \in Entry /\ handler[h].pc \in {"append", "buffer"}
  BY DEF TypeOK, Calling, Call
<1>3. \A r \in Rows : accepted[r] \in Nat /\ rows[r].n \in Nat /\ rows[r].rv \in Nat
                      /\ upstream[r] \in Seq({"put", "del"})
  BY BoundAssumption DEF TypeOK
<1> QED
  BY <1>1, <1>2, <1>3 DEF TypeOK

LEMMA OrderFrame ==
    ASSUME LogOrder, UNCHANGED <<accepted, handler, seqCounter, up>>, wal' \subseteq wal,
           \A i, j \in DOMAIN batch' : i < j => batch'[i].seq < batch'[j].seq
    PROVE  LogOrder'
<1>1. /\ \A e, f \in wal' : e.seq = f.seq => e = f
      /\ \A e, f \in wal' : e.change[1] = f.change[1] /\ e.seq < f.seq => e.change[2] <= f.change[2]
      /\ \A e \in wal' : e.change[2] <= accepted'[e.change[1]] + 1
  BY DEF LogOrder
<1>2. up' => \A e \in wal' : e.seq <= seqCounter'
  BY DEF LogOrder
<1>3. up' => \A h \in Handlers : Calling(h)' /\ handler'[h].pc = "append" =>
                \A e \in wal' : e.seq < handler'[h].entry.seq
  BY DEF LogOrder, Calling
<1> QED
  BY <1>1, <1>2, <1>3 DEF LogOrder

LEMMA OrderIngest ==
    ASSUME OneCaller, Inv, LogOrder, NEW h \in Handlers, Ingest(h)
    PROVE  LogOrder'
<1>0. TypeOK
  BY DEF Inv
<1>1. UNCHANGED <<batch, up>>
  BY DEF Ingest, TakeSeq, AppendToWal, AppendFails, BufferAndAnswer, Dropped, drainVars
<1>2. \A i, j \in DOMAIN batch' : i < j => batch'[i].seq < batch'[j].seq
  BY <1>1 DEF LogOrder
<1>u. up
  <2>1. (\E r \in Rows : TakeSeq(h, r)) \/ handler[h] # NoCall
    BY DEF Ingest, AppendToWal, AppendFails, BufferAndAnswer, Dropped
  <2> QED
    BY <2>1 DEF TakeSeq, Inv, Down
<1>o. Logged /\ Ordered /\ InTurn
  BY <1>u, Going
<1>l. /\ \A e, f \in wal : e.seq = f.seq => e = f
      /\ \A e, f \in wal : e.change[1] = f.change[1] /\ e.seq < f.seq => e.change[2] <= f.change[2]
      /\ \A e \in wal : e.change[2] <= accepted[e.change[1]] + 1
      /\ \A e \in wal : e.seq <= seqCounter
  BY <1>u DEF LogOrder
<1>3. ASSUME NEW r \in Rows, TakeSeq(h, r) PROVE LogOrder'
  <2>1. /\ UNCHANGED <<wal, accepted>> /\ seqCounter' = seqCounter + 1
        /\ handler' = [handler EXCEPT ![h] =
              [pc |-> "append", entry |-> [seq |-> seqCounter + 1, change |-> <<r, accepted[r] + 1>>]]]
    BY <1>3 DEF TakeSeq
  <2>2. handler'[h].entry.seq = seqCounter + 1
    BY <1>0, <2>1 DEF TypeOK
  <2>3. \A g \in Handlers : g = h
    BY DEF OneCaller
  <2>4. \A e \in wal : e.seq < seqCounter + 1
    BY <1>0, <1>l, EntryTypes
  <2>5. \A e \in wal' : e.seq <= seqCounter'
    BY <1>0, <1>l, <2>1, EntryTypes
  <2>6. \A g \in Handlers : \A e \in wal' : e.seq < handler'[g].entry.seq
    BY <2>1, <2>2, <2>3, <2>4
  <2> QED
    BY <1>2, <1>l, <2>1, <2>5, <2>6 DEF LogOrder
<1>4. ASSUME AppendToWal(h) PROVE LogOrder'
  <2> DEFINE e == handler[h].entry
  <2>1. Calling(h) /\ handler[h].pc = "append" /\ wal' = wal \cup {e}
        /\ UNCHANGED <<accepted, seqCounter>> /\ handler' = [handler EXCEPT ![h].pc = "buffer"]
    BY <1>4 DEF AppendToWal, Calling, dbVars
  <2>2. e \in Entry
    BY <1>0, <2>1, EntryTypes
  <2>3. \A f \in wal : f.seq < e.seq
    BY <1>u, <2>1 DEF LogOrder
  <2>4. e.change[2] = accepted[e.change[1]] + 1 /\ e.seq <= seqCounter
    BY <1>o, <2>1 DEF InTurn, Ordered
  <2>5. \A f \in wal : f.change[1] = e.change[1] => f.change[2] <= e.change[2]
    BY <1>l, <2>4
  <2>6. e.seq \in Nat /\ e.change[2] \in Nat /\ \A f \in wal : f.seq \in Nat
    BY <1>0, <2>2, EntryTypes
  <2> HIDE DEF e
  <2>7. \A f, g \in wal' : f.seq = g.seq => f = g
    BY <1>l, <2>1, <2>3, <2>6
  <2>8. \A f, g \in wal' : f.change[1] = g.change[1] /\ f.seq < g.seq => f.change[2] <= g.change[2]
    BY <1>l, <2>1, <2>3, <2>5, <2>6
  <2>9. \A f \in wal' : f.change[2] <= accepted'[f.change[1]] + 1 /\ f.seq <= seqCounter'
    <3>1. e.change[2] <= accepted[e.change[1]] + 1
      BY <2>4, <2>6
    <3> QED
      BY <1>l, <2>1, <2>4, <3>1
  <2>10. \A g \in Handlers : handler'[g].pc # "append"
    <3>1. \A g \in Handlers : g = h
      BY DEF OneCaller
    <3>2. handler'[h].pc = "buffer"
      <4>1. handler[h] \in Call /\ handler'[h] = [handler[h] EXCEPT !.pc = "buffer"]
        BY <1>0, <2>1 DEF TypeOK, Calling
      <4> QED
        BY <4>1 DEF Call
    <3> QED
      BY <3>1, <3>2
  <2> QED
    BY <1>2, <2>7, <2>8, <2>9, <2>10 DEF LogOrder
<1>5. ASSUME AppendFails(h) \/ Dropped(h) PROVE LogOrder'
  <2>1. UNCHANGED <<wal, accepted, seqCounter>> /\ handler' = [handler EXCEPT ![h] = NoCall]
    BY <1>5 DEF AppendFails, Dropped, dbVars
  <2>2. \A g \in Handlers : ~Calling(g)'
    BY <1>0, <2>1 DEF OneCaller, Calling, TypeOK
  <2> QED
    BY <1>2, <1>l, <2>1, <2>2 DEF LogOrder
<1>6. ASSUME BufferAndAnswer(h) PROVE LogOrder'
  <2> DEFINE e == handler[h].entry
  <2>1. /\ UNCHANGED <<wal, seqCounter>> /\ handler' = [handler EXCEPT ![h] = NoCall]
        /\ Calling(h) /\ accepted' = [accepted EXCEPT ![e.change[1]] = e.change[2]]
    BY <1>6 DEF BufferAndAnswer, Calling
  <2>2. \A g \in Handlers : ~Calling(g)'
    BY <1>0, <2>1 DEF OneCaller, Calling, TypeOK
  <2>3. e \in Entry /\ e.change[1] \in Rows
    BY <1>0, <2>1, EntryTypes
  <2>4. e.change[2] = accepted[e.change[1]] + 1
    BY <1>o, <2>1 DEF InTurn
  <2>5. \A r \in Rows : accepted'[r] >= accepted[r] /\ accepted'[r] \in Nat
    <3>1. \A r \in Rows : accepted'[r] = IF r = e.change[1] THEN e.change[2] ELSE accepted[r]
      BY <1>0, <2>1, <2>3 DEF TypeOK
    <3>2. \A r \in Rows : accepted[r] \in Nat
      BY <1>0, EntryTypes
    <3> HIDE DEF e
    <3> QED
      BY <2>3, <2>4, <3>1, <3>2
  <2>6. \A f \in wal : f.change[1] \in Rows /\ f.change[2] \in Nat
    BY <1>0, EntryTypes
  <2>7. \A f \in wal' : f.change[2] <= accepted'[f.change[1]] + 1
    <3> SUFFICES ASSUME NEW f \in wal PROVE f.change[2] <= accepted'[f.change[1]] + 1
      BY <2>1
    <3>1. f.change[2] <= accepted[f.change[1]] + 1 /\ f.change[1] \in Rows /\ f.change[2] \in Nat
      BY <1>l, <2>6
    <3>2. accepted[f.change[1]] \in Nat
      BY <1>0, <3>1, EntryTypes
    <3> QED
      BY <2>5, <3>1, <3>2
  <2> QED
    BY <1>2, <1>l, <2>1, <2>2, <2>7 DEF LogOrder
<1> QED
  BY <1>3, <1>4, <1>5, <1>6 DEF Ingest

LEMMA OrderStep ==
    ASSUME OneCaller, Inv, LogOrder, [Next]_vars
    PROVE  LogOrder'
<1>0. TypeOK /\ TypeInv
  BY Going
<1>1. \A i, j \in DOMAIN batch : i < j => batch[i].seq < batch[j].seq
  BY DEF LogOrder
<1>2. ASSUME DrainDirtyOnly \/ DrainCommit \/ DrainTruncate \/ UNCHANGED vars PROVE LogOrder'
  <2>1. UNCHANGED <<accepted, handler, seqCounter, up, batch>> /\ wal' \subseteq wal
    BY <1>2 DEF DrainDirtyOnly, DrainCommit, DrainTruncate, vars, dbVars, drainVars
  <2> QED
    BY <1>1, <2>1, OrderFrame
<1>3. ASSUME DrainTake PROVE LogOrder'
  <2>1. UNCHANGED <<accepted, handler, seqCounter, up, wal>> /\ batch' = buffer /\ up
    BY <1>3 DEF DrainTake, dbVars
  <2>2. Ordered
    BY <2>1, Going
  <2>3. \A i, j \in DOMAIN batch' : i < j => batch'[i].seq < batch'[j].seq
    BY <2>1, <2>2 DEF Ordered
  <2> QED
    BY <2>1, <2>3, OrderFrame
<1>4. ASSUME ApplyOne PROVE LogOrder'
  <2>1. UNCHANGED <<accepted, handler, seqCounter, up, wal>> /\ batch' = Tail(batch) /\ batch # <<>>
    BY <1>4 DEF ApplyOne, dbVars
  <2>2. batch \in Seq(Entry)
    BY <1>0 DEF TypeOK
  <2>3. \A i \in DOMAIN batch' : i \in Nat /\ i + 1 \in DOMAIN batch /\ batch'[i] = batch[i + 1]
    BY <2>1, <2>2
  <2>4. \A i, j \in DOMAIN batch' : i < j => batch'[i].seq < batch'[j].seq
    BY <1>1, <2>3
  <2> QED
    BY <2>1, <2>4, OrderFrame
<1>5. ASSUME NEW tables \in (SUBSET Tables) \ {{}}, Rehash(tables) PROVE LogOrder'
  <2>1. UNCHANGED <<accepted, handler, seqCounter, up, batch, wal>>
    BY <1>5 DEF Rehash, dbVars, drainVars
  <2> QED
    BY <1>1, <2>1, OrderFrame
<1>l. /\ \A e, f \in wal : e.seq = f.seq => e = f
      /\ \A e, f \in wal : e.change[1] = f.change[1] /\ e.seq < f.seq => e.change[2] <= f.change[2]
      /\ \A e \in wal : e.change[2] <= accepted[e.change[1]] + 1
  BY DEF LogOrder
<1>6. ASSUME Crash PROVE LogOrder'
  <2>1. UNCHANGED <<wal, accepted>> /\ ~up' /\ batch' = <<>>
    BY <1>6 DEF Crash, dbVars
  <2> QED
    BY <1>l, <2>1 DEF LogOrder
<1>7. ASSUME Recover PROVE LogOrder'
  <2>1. UNCHANGED <<wal, accepted, handler, batch>> /\ seqCounter' = ResumeSeq /\ ~up
    BY <1>7 DEF Recover, dbVars, drainVars
  <2>2. \A h \in Handlers : ~Calling(h)'
    BY <2>1 DEF Inv, Down, Calling
  <2>3. \A e \in wal : e.seq <= ResumeSeq
    <3> DEFINE S == {e.seq : e \in wal} \cup {disk.seq}
    <3>1. S \subseteq 0..MaxSeq /\ S # {}
      BY <1>0 DEF TypeOK, Entry, Seqs
    <3>2. \A n \in S : n <= MaxOf(S)
      BY <3>1, MaxOfBounded, BoundAssumption
    <3> QED
      BY <3>2 DEF ResumeSeq
  <2> QED
    BY <1>1, <1>l, <2>1, <2>2, <2>3 DEF LogOrder
<1> QED
  BY <1>2, <1>3, <1>4, <1>5, <1>6, <1>7, OrderIngest DEF Next, Drain


-----------------------------------------------------------------------------
(* What is logged and shown was made. *)

LEMMA ShownParts ==
    ASSUME Shown
    PROVE  /\ \A e \in wal : e.change[2] <= Len(upstream[e.change[1]])
           /\ \A h \in Handlers : Calling(h) =>
                 handler[h].entry.change[2] <= Len(upstream[handler[h].entry.change[1]])
           /\ \A r \in Rows :
                 /\ accepted[r] <= Len(upstream[r])
                 /\ rows[r].n <= Len(upstream[r])
                 /\ rows[r].n > 0 => rows[r] = Row(<<r, rows[r].n>>)
                 /\ rows[r].n = 0 => rows[r].rv = 0
BY DEF Shown

LEMMA ShownFrame ==
    ASSUME Shown, UNCHANGED <<upstream, rows, accepted>>, wal' \subseteq wal,
           \A h \in Handlers : Calling(h)' => Calling(h) /\ handler'[h].entry = handler[h].entry
    PROVE  Shown'
<1>1. \A e \in wal' : e.change[2] <= Len(upstream'[e.change[1]])
  BY ShownParts
<1>2. \A h \in Handlers : Calling(h)' =>
        handler'[h].entry.change[2] <= Len(upstream'[handler'[h].entry.change[1]])
  BY ShownParts
<1>3. \A r \in Rows : Row(<<r, rows[r].n>>)' = Row(<<r, rows[r].n>>)
  BY DEF Row, Rv
<1>4. \A r \in Rows :
        /\ accepted'[r] <= Len(upstream'[r])
        /\ rows'[r].n <= Len(upstream'[r])
        /\ rows'[r].n > 0 => rows'[r] = Row(<<r, rows[r].n>>)'
        /\ rows'[r].n = 0 => rows'[r].rv = 0
  BY <1>3, ShownParts
<1> QED
  BY <1>1, <1>2, <1>4 DEF Shown

LEMMA ShownTakeSeq ==
    ASSUME Inv, Shown, NEW h \in Handlers, NEW r \in Rows, TakeSeq(h, r)
    PROVE  Shown'
<1>0. TypeOK
  BY DEF Inv
<1>1. /\ UNCHANGED <<wal, accepted, rows>>
      /\ handler' = [handler EXCEPT ![h] =
              [pc |-> "append", entry |-> [seq |-> seqCounter + 1, change |-> <<r, accepted[r] + 1>>]]]
  BY DEF TakeSeq, replicaVars
<1>2. accepted[r] \in Nat /\ upstream[r] \in Seq({"put", "del"}) /\ accepted[r] <= Len(upstream[r])
  BY <1>0, EntryTypes, ShownParts
<1>3. /\ Len(upstream'[r]) >= accepted[r] + 1
      /\ \A q \in Rows : /\ Len(upstream'[q]) >= Len(upstream[q])
                         /\ \A i \in 1..Len(upstream[q]) : upstream'[q][i] = upstream[q][i]
      /\ upstream' \in [Rows -> Seq({"put", "del"})]
  <2>0. upstream \in [Rows -> Seq({"put", "del"})]
    BY <1>0 DEF TypeOK
  <2>1. CASE Len(upstream[r]) = accepted[r] + 1 /\ UNCHANGED upstream
    BY <1>2, <2>0, <2>1
  <2>2. ASSUME NEW op \in {"put", "del"}, Len(upstream[r]) < accepted[r] + 1,
               upstream' = [upstream EXCEPT ![r] = Append(upstream[r], op)]
        PROVE  /\ Len(upstream'[r]) >= accepted[r] + 1
               /\ \A q \in Rows : /\ Len(upstream'[q]) >= Len(upstream[q])
                                  /\ \A i \in 1..Len(upstream[q]) : upstream'[q][i] = upstream[q][i]
               /\ upstream' \in [Rows -> Seq({"put", "del"})]
    <3>1. /\ Append(upstream[r], op) \in Seq({"put", "del"})
          /\ Len(Append(upstream[r], op)) = Len(upstream[r]) + 1
          /\ \A i \in 1..Len(upstream[r]) : Append(upstream[r], op)[i] = upstream[r][i]
      BY <1>2
    <3>2. upstream'[r] = Append(upstream[r], op) /\ \A q \in Rows : q # r => upstream'[q] = upstream[q]
      BY <2>0, <2>2
    <3>3. \A q \in Rows : Len(upstream[q]) \in Nat
      BY <2>0
    <3>4. upstream' \in [Rows -> Seq({"put", "del"})]
      BY <2>0, <2>2, <3>1
    <3>5. Len(upstream'[r]) >= accepted[r] + 1
      BY <1>2, <2>2, <3>1, <3>2, <3>3
    <3>6. ASSUME NEW q \in Rows
          PROVE  /\ Len(upstream'[q]) >= Len(upstream[q])
                 /\ \A i \in 1..Len(upstream[q]) : upstream'[q][i] = upstream[q][i]
      <4>1. CASE q = r
        BY <4>1, <3>1, <3>2, <3>3
      <4>2. CASE q # r
        BY <4>2, <3>2, <3>3
      <4> QED
        BY <4>1, <4>2
    <3> QED
      BY <3>4, <3>5, <3>6
  <2>3. \/ Len(upstream[r]) = accepted[r] + 1 /\ UNCHANGED upstream
        \/ /\ Len(upstream[r]) < accepted[r] + 1
           /\ \E op \in {"put", "del"} : upstream' = [upstream EXCEPT ![r] = Append(upstream[r], op)]
    BY DEF TakeSeq
  <2> QED
    BY <2>1, <2>2, <2>3
<1>4. \A q \in Rows : Len(upstream[q]) \in Nat /\ Len(upstream'[q]) \in Nat
  BY SMTT(60), <1>0, <1>3 DEF TypeOK
<1>5. \A e \in wal' : e.change[2] <= Len(upstream'[e.change[1]])
  <2> SUFFICES ASSUME NEW e \in wal PROVE e.change[2] <= Len(upstream'[e.change[1]])
    BY <1>1
  <2>1. e.change[1] \in Rows /\ e.change[2] \in Nat /\ e.change[2] <= Len(upstream[e.change[1]])
    BY <1>0, EntryTypes, ShownParts
  <2> QED
    BY <2>1, <1>3, <1>4
<1>6. ASSUME NEW g \in Handlers, Calling(g)'
      PROVE  handler'[g].entry.change[2] <= Len(upstream'[handler'[g].entry.change[1]])
  <2>1. CASE g = h
    <3>1. handler'[g].entry.change = <<r, accepted[r] + 1>>
      BY <2>1, <1>0, <1>1 DEF TypeOK
    <3>2. handler'[g].entry.change[1] = r /\ handler'[g].entry.change[2] = accepted[r] + 1
      BY <3>1
    <3> QED
      BY <3>2, <1>2, <1>3, <1>4
  <2>2. CASE g # h
    <3>1. handler'[g] = handler[g]
      BY <2>2, <1>0, <1>1 DEF TypeOK
    <3>2. Calling(g)
      BY <3>1, <1>6 DEF Calling
    <3>3. /\ handler[g].entry.change[1] \in Rows /\ handler[g].entry.change[2] \in Nat
          /\ handler[g].entry.change[2] <= Len(upstream[handler[g].entry.change[1]])
      BY <3>2, <1>0, EntryTypes, ShownParts
    <3> QED
      BY <3>1, <3>3, <1>3, <1>4
  <2> QED
    BY <2>1, <2>2
<1>7. ASSUME NEW q \in Rows
      PROVE  /\ accepted'[q] <= Len(upstream'[q])
             /\ rows'[q].n <= Len(upstream'[q])
             /\ rows'[q].n > 0 => rows'[q] = Row(<<q, rows[q].n>>)'
             /\ rows'[q].n = 0 => rows'[q].rv = 0
  <2>1. /\ accepted[q] <= Len(upstream[q])
        /\ rows[q].n <= Len(upstream[q])
        /\ rows[q].n > 0 => rows[q] = Row(<<q, rows[q].n>>)
        /\ rows[q].n = 0 => rows[q].rv = 0
        /\ accepted[q] \in Nat /\ rows[q].n \in Nat
    BY <1>0, EntryTypes, ShownParts
  <2>2. PICK n \in Nat : n = rows[q].n
    BY <2>1
  <2>3. \A i \in 1..n : upstream'[q][i] = upstream[q][i]
    <3>1. n <= Len(upstream[q]) /\ Len(upstream[q]) \in Nat
      BY <1>4, <2>1, <2>2
    <3>2. \A i \in 1..Len(upstream[q]) : upstream'[q][i] = upstream[q][i]
      BY <1>3
    <3>3. \A i \in 1..n : i \in 1..Len(upstream[q])
      BY <3>1
    <3> QED
      BY <3>2, <3>3
  <2>4. Rv(<<q, n>>)' = Rv(<<q, n>>)
    BY <2>3, RvKept
  <2>5. Row(<<q, n>>)' = Row(<<q, n>>)
    BY <2>4 DEF Row
  <2>6. rows'[q] = rows[q] /\ accepted'[q] = accepted[q] /\ rows'[q].n = n
    BY <1>1, <2>2
  <2>7. accepted[q] <= Len(upstream'[q]) /\ n <= Len(upstream'[q])
    BY <1>3, <1>4, <2>1, <2>2
  <2>8. rows'[q].n > 0 => rows'[q] = Row(<<q, n>>)'
    BY <2>1, <2>2, <2>5, <2>6
  <2>9. Row(<<q, rows[q].n>>)' = Row(<<q, n>>)'
    BY <2>6 DEF Row, Rv
  <2> QED
    BY <2>1, <2>6, <2>7, <2>8, <2>9
<1> QED
  BY <1>5, <1>6, <1>7 DEF Shown


LEMMA ShownStep ==
    ASSUME OneCaller, Inv, AtCut, Shown, [Next]_vars
    PROVE  Shown'
<1>0. TypeOK
  BY DEF Inv
<1>1. ASSUME DrainTake \/ DrainDirtyOnly \/ DrainCommit \/ DrainTruncate \/ UNCHANGED vars
             \/ \E tables \in (SUBSET Tables) \ {{}} : Rehash(tables)
      PROVE  Shown'
  <2>1. UNCHANGED <<upstream, rows, accepted, handler>> /\ wal' \subseteq wal
    BY <1>1 DEF DrainTake, DrainDirtyOnly, DrainCommit, DrainTruncate, Rehash, vars, dbVars, replicaVars
  <2>2. \A h \in Handlers : Calling(h)' => Calling(h) /\ handler'[h].entry = handler[h].entry
    BY <2>1 DEF Calling
  <2> QED
    BY <2>1, <2>2, ShownFrame
<1>2. ASSUME Crash \/ Recover PROVE Shown'
  <2>1. UNCHANGED <<upstream, rows, accepted>> /\ wal' = wal
    BY <1>2 DEF Crash, Recover, dbVars
  <2>2. \A h \in Handlers : Calling(h)' => Calling(h) /\ handler'[h].entry = handler[h].entry
    BY <1>2 DEF Calling, Crash, Recover
  <2> QED
    BY <2>1, <2>2, ShownFrame
<1>3. ASSUME NEW h \in Handlers, AppendFails(h) \/ Dropped(h) PROVE Shown'
  <2>1. UNCHANGED <<upstream, rows, accepted, wal>> /\ handler' = [handler EXCEPT ![h] = NoCall]
    BY <1>3 DEF AppendFails, Dropped, dbVars, replicaVars
  <2>2. \A g \in Handlers : Calling(g)' => Calling(g) /\ handler'[g].entry = handler[g].entry
    BY <1>0, <2>1 DEF Calling, TypeOK
  <2> QED
    BY <2>1, <2>2, ShownFrame
<1>4. ASSUME NEW h \in Handlers, AppendToWal(h) PROVE Shown'
  <2>1. /\ UNCHANGED <<upstream, rows, accepted>> /\ wal' = wal \cup {handler[h].entry}
        /\ handler' = [handler EXCEPT ![h].pc = "buffer"] /\ Calling(h)
    BY <1>4 DEF AppendToWal, dbVars, replicaVars, Calling
  <2>2. \A e \in wal' : e.change[2] <= Len(upstream'[e.change[1]])
    BY <2>1, ShownParts
  <2>3. \A g \in Handlers : Calling(g)' => Calling(g) /\ handler'[g].entry = handler[g].entry
    <3> SUFFICES ASSUME NEW g \in Handlers, Calling(g)'
                 PROVE  Calling(g) /\ handler'[g].entry = handler[g].entry
      OBVIOUS
    <3>1. CASE g = h
      <4>1. handler[h] \in Call /\ handler'[h] = [handler[h] EXCEPT !.pc = "buffer"]
        BY <1>0, <2>1 DEF TypeOK, Calling
      <4> QED
        BY <3>1, <2>1, <4>1 DEF Call
    <3>2. CASE g # h
      BY <3>2, <1>0, <2>1 DEF TypeOK, Calling
    <3> QED
      BY <3>1, <3>2
  <2>4. \A g \in Handlers : Calling(g)' =>
          handler'[g].entry.change[2] <= Len(upstream'[handler'[g].entry.change[1]])
    BY <2>1, <2>3, ShownParts
  <2>5. \A r \in Rows :
          /\ accepted'[r] <= Len(upstream'[r])
          /\ rows'[r].n <= Len(upstream'[r])
          /\ rows'[r].n > 0 => rows'[r] = Row(<<r, rows[r].n>>)'
          /\ rows'[r].n = 0 => rows'[r].rv = 0
    BY <2>1, ShownParts DEF Row, Rv
  <2> QED
    BY <2>2, <2>4, <2>5 DEF Shown
<1>5. ASSUME NEW h \in Handlers, BufferAndAnswer(h) PROVE Shown'
  <2> DEFINE e == handler[h].entry
  <2>1. /\ UNCHANGED <<upstream, rows, wal>> /\ handler' = [handler EXCEPT ![h] = NoCall]
        /\ Calling(h) /\ accepted' = [accepted EXCEPT ![e.change[1]] = e.change[2]]
    BY <1>5 DEF BufferAndAnswer, replicaVars, Calling
  <2>2. \A g \in Handlers : ~Calling(g)'
    BY <1>0, <2>1 DEF OneCaller, Calling, TypeOK
  <2>3. e.change[2] <= Len(upstream[e.change[1]])
    BY <2>1, ShownParts
  <2>4. \A r \in Rows : accepted'[r] <= Len(upstream'[r])
    <3> SUFFICES ASSUME NEW r \in Rows PROVE accepted'[r] <= Len(upstream[r])
      BY <2>1
    <3>1. accepted'[r] = IF r = e.change[1] THEN e.change[2] ELSE accepted[r]
      BY <1>0, <2>1 DEF TypeOK
    <3> QED
      BY <2>3, <3>1, ShownParts
  <2>5. \A f \in wal' : f.change[2] <= Len(upstream'[f.change[1]])
    BY <2>1, ShownParts
  <2>6. \A r \in Rows :
          /\ rows'[r].n <= Len(upstream'[r])
          /\ rows'[r].n > 0 => rows'[r] = Row(<<r, rows[r].n>>)'
          /\ rows'[r].n = 0 => rows'[r].rv = 0
    BY <2>1, ShownParts DEF Row, Rv
  <2> QED
    BY <2>2, <2>4, <2>5, <2>6 DEF Shown
<1>6. ASSUME ApplyOne PROVE Shown'
  <2>1. UNCHANGED <<upstream, accepted, wal, handler>> /\ drain.pc = "apply" /\ batch # <<>>
    BY <1>6 DEF ApplyOne, dbVars
  <2>b. PICK c \in Changes : c = Head(batch).change
    BY <2>1, HeadIsLogged
  <2>w. PICK row : row = Row(c)
    OBVIOUS
  <2>2. c = Head(batch).change /\ row = Row(c)
    BY <2>b, <2>w
  <2>3. rows' = rows \/ rows' = [rows EXCEPT ![c[1]] = row]
    BY <1>6, <2>2 DEF ApplyOne
  <2>4. CASE rows' = rows
    <3>1. \A h \in Handlers : Calling(h)' => Calling(h) /\ handler'[h].entry = handler[h].entry
      BY <2>1 DEF Calling
    <3>2. wal' \subseteq wal
      BY <2>1
    <3> QED
      BY <2>1, <2>4, <3>1, <3>2, ShownFrame
  <2>5. CASE rows' = [rows EXCEPT ![c[1]] = row]
    <3>1. Head(batch) \in wal
      BY <2>1, HeadIsLogged DEF Backlog
    <3>2. c[1] \in Rows /\ c[2] \in Nat /\ c[2] > 0 /\ c = <<c[1], c[2]>>
      BY DEF Changes
    <3>3. c[2] <= Len(upstream[c[1]])
      BY <2>2, <3>1, ShownParts
    <3>4. rows'[c[1]] = row /\ \A q \in Rows : q # c[1] => rows'[q] = rows[q]
      BY <1>0, <2>5, <3>2 DEF TypeOK
    <3>5. row.n = c[2]
      BY <2>2 DEF Row
    <3>6. Row(c)' = row
      BY <2>1, <2>2 DEF Row, Rv
    <3>7. ASSUME NEW q \in Rows
          PROVE  /\ rows'[q].n <= Len(upstream'[q])
                 /\ rows'[q].n > 0 => rows'[q] = Row(<<q, rows[q].n>>)'
                 /\ rows'[q].n = 0 => rows'[q].rv = 0
      <4>1. CASE q = c[1]
        <5>1. rows'[q] = row /\ rows'[q].n = c[2]
          BY <4>1, <3>4, <3>5
        <5>2. <<q, rows'[q].n>> = c
          BY <5>1, <4>1, <3>2
        <5>3. Row(<<q, rows[q].n>>)' = Row(c)'
          BY <5>2 DEF Row, Rv
        <5> QED
          BY <4>1, <2>1, <3>2, <3>3, <3>6, <5>1, <5>3
      <4>2. CASE q # c[1]
        <5>1. rows'[q] = rows[q]
          BY <4>2, <3>4
        <5>2. Row(<<q, rows[q].n>>)' = Row(<<q, rows[q].n>>)
          BY <2>1, <5>1 DEF Row, Rv
        <5> QED
          BY <2>1, <5>1, <5>2, ShownParts
      <4> QED
        BY <4>1, <4>2
    <3>8. \A f \in wal' : f.change[2] <= Len(upstream'[f.change[1]])
      BY <2>1, ShownParts
    <3>9. \A h \in Handlers : Calling(h)' =>
            handler'[h].entry.change[2] <= Len(upstream'[handler'[h].entry.change[1]])
      BY <2>1, ShownParts DEF Calling
    <3>10. \A q \in Rows : accepted'[q] <= Len(upstream'[q])
      BY <2>1, ShownParts
    <3> QED
      BY <3>7, <3>8, <3>9, <3>10 DEF Shown
  <2> QED
    BY <2>3, <2>4, <2>5
<1> QED
  BY <1>1, <1>2, <1>3, <1>4, <1>5, <1>6, ShownTakeSeq DEF Next, Drain, Ingest


-----------------------------------------------------------------------------
(* The changes of a row that are to come. *)

LEMMA FlowTypes ==
    ASSUME Inv, AtCut, LogOrder
    PROVE  /\ \A r \in Rows : accepted[r] \in Nat /\ rows[r].n \in Nat
           /\ \A r \in Rows : Numbers(Backlog, r) \in SUBSET Nat
           /\ \A r \in Rows : \A i \in Numbers(Backlog, r) : i <= accepted[r] + 1
           /\ up => Pending \subseteq Backlog
<1>0. TypeOK /\ TypeInv
  BY Going
<1>1. \A e \in Backlog : e \in wal /\ e.change[2] \in Nat /\ e.change[1] \in Rows
  BY <1>0, EntryTypes DEF Backlog
<1>2. \A r \in Rows : Numbers(Backlog, r) \in SUBSET Nat
  BY <1>1 DEF Numbers
<1>3. \A r \in Rows : \A i \in Numbers(Backlog, r) : i <= accepted[r] + 1
  <2>1. \A e \in wal : e.change[2] <= accepted[e.change[1]] + 1
    BY DEF LogOrder
  <2> QED
    BY <1>1, <2>1 DEF Numbers
<1>4. up => Pending \subseteq Backlog
  <2> SUFFICES ASSUME up PROVE Pending \subseteq Backlog
    OBVIOUS
  <2>1. Logged /\ Ordered /\ disk.seq = snapshotSeq
    BY Going DEF AtCut
  <2>2. \A i \in DOMAIN batch : batch[i] \in Backlog
    BY <1>0, <2>1, SeqTypes DEF Logged, Ordered, Backlog
  <2>3. \A i \in DOMAIN buffer : buffer[i] \in Backlog
    BY <1>0, <2>1, SeqTypes DEF Logged, Ordered, Backlog
  <2> QED
    BY <2>2, <2>3 DEF Pending, Held
<1>5. \A r \in Rows : accepted[r] \in Nat /\ rows[r].n \in Nat
  BY <1>0, EntryTypes
<1> QED
  BY <1>2, <1>3, <1>4, <1>5

LEMMA HeldAppend ==
    ASSUME NEW S, NEW s \in Seq(S), NEW e \in S
    PROVE  Held(Append(s, e)) = Held(s) \cup {e}
<1> DEFINE z == Append(s, e)
           k == Len(s) + 1
<1>1. DOMAIN s = 1..Len(s) /\ Len(s) \in Nat /\ DOMAIN z = 1..k
  OBVIOUS
<1>2. (\A i \in DOMAIN s : i \in DOMAIN z /\ z[i] = s[i]) /\ k \in DOMAIN z /\ z[k] = e
  BY <1>1
<1>3. \A i \in DOMAIN z : i = k \/ i \in DOMAIN s
  BY <1>1
<1> HIDE DEF z, k
<1>4. Held(z) \subseteq Held(s) \cup {e}
  BY <1>2, <1>3 DEF Held
<1>5. Held(s) \cup {e} \subseteq Held(z)
  BY <1>2 DEF Held
<1>6. Held(z) = Held(s) \cup {e}
  BY <1>4, <1>5
<1> QED
  BY <1>6 DEF z

LEMMA HeldTail ==
    ASSUME NEW S, NEW s \in Seq(S), s # <<>>
    PROVE  Held(s) = Held(Tail(s)) \cup {s[1]}
<1> DEFINE z == Tail(s)
<1>1. \A i \in DOMAIN z : i + 1 \in DOMAIN s /\ z[i] = s[i + 1]
  OBVIOUS
<1>2. 1 \in DOMAIN s /\ \A i \in DOMAIN s : i = 1 \/ (i - 1 \in DOMAIN z /\ z[i - 1] = s[i])
  OBVIOUS
<1> HIDE DEF z
<1>3. Held(z) \cup {s[1]} \subseteq Held(s)
  BY <1>1, <1>2 DEF Held
<1>4. Held(s) \subseteq Held(z) \cup {s[1]}
  BY <1>2 DEF Held
<1>5. Held(s) = Held(z) \cup {s[1]}
  BY <1>3, <1>4
<1> QED
  BY <1>5 DEF z

LEMMA NumbersSub ==
    ASSUME NEW S, NEW T, S \subseteq T, NEW r
    PROVE  Numbers(S, r) \subseteq Numbers(T, r)
BY DEF Numbers

LEMMA FlowsParts ==
    ASSUME Flows, NEW r \in Rows, ~Excused(r)
    PROVE  /\ Flow(Numbers(Backlog, r), rows[r].n, accepted[r])
           /\ up => Flow(Numbers(Pending, r), rows[r].n, accepted[r])
BY DEF Flows

LEMMA FlowsFrame ==
    ASSUME Flows, UNCHANGED <<rows, accepted>>, refused \subseteq refused',
           Backlog' = Backlog, up' => up /\ Pending' = Pending
    PROVE  Flows'
<1> SUFFICES ASSUME NEW r \in Rows, ~Excused(r)'
             PROVE  /\ Flow(Numbers(Backlog', r), rows'[r].n, accepted'[r])
                    /\ up' => Flow(Numbers(Pending', r), rows'[r].n, accepted'[r])
  BY DEF Flows, Flow, Numbers
<1>1. ~Excused(r)
  BY DEF Excused
<1> QED
  BY <1>1, FlowsParts

LEMMA FlowsAppend ==
    ASSUME OneCaller, Inv, AtCut, LogOrder, Flows, NEW h \in Handlers, AppendToWal(h)
    PROVE  Flows'
<1>0. TypeOK /\ TypeInv
  BY Going
<1>1. PICK e \in Entry : e = handler[h].entry
  BY <1>0, EntryTypes DEF AppendToWal, Calling
<1>2. /\ Calling(h) /\ wal' = wal \cup {e}
      /\ UNCHANGED <<rows, accepted, refused, batch, buffer, disk, up>>
  BY <1>1 DEF AppendToWal, Calling, dbVars, drainVars, replicaVars, histVars
<1>3. up
  BY <1>2 DEF Inv, Down, Calling
<1>4. Ordered /\ InTurn /\ disk.seq = snapshotSeq
  BY <1>3, Going DEF AtCut
<1>5. e.seq > disk.seq /\ e.change[2] = accepted[e.change[1]] + 1
  <2>1. snapshotSeq < e.seq /\ e.seq \in Nat /\ snapshotSeq \in Nat
    BY <1>0, <1>1, <1>2, <1>4, SeqTypes DEF Ordered
  <2> QED
    BY <1>1, <1>2, <1>4, <2>1 DEF InTurn
<1>6. Backlog' = Backlog \cup {e}
  BY <1>2, <1>5 DEF Backlog
<1>7. Pending' = Pending
  BY <1>2 DEF Pending, Held
<1> SUFFICES ASSUME NEW r \in Rows, ~Excused(r)'
             PROVE  /\ Flow(Numbers(Backlog', r), rows'[r].n, accepted'[r])
                    /\ up' => Flow(Numbers(Pending', r), rows'[r].n, accepted'[r])
  BY DEF Flows, Flow, Numbers
<1>8. ~Excused(r)
  BY <1>2 DEF Excused
<1>9. Flow(Numbers(Backlog, r), rows[r].n, accepted[r])
  BY <1>8, FlowsParts
<1>10. Flow(Numbers(Backlog', r), rows[r].n, accepted[r])
  <2>1. CASE e.change[1] = r
    <3>1. Numbers(Backlog', r) = Numbers(Backlog, r) \cup {accepted[r] + 1}
      BY <2>1, <1>5, <1>6 DEF Numbers
    <3> QED
      BY <3>1, <1>9, FlowTypes, FlowAppend
  <2>2. CASE e.change[1] # r
    <3>1. Numbers(Backlog', r) = Numbers(Backlog, r)
      BY <2>2, <1>6 DEF Numbers
    <3> QED
      BY <3>1, <1>9
  <2> QED
    BY <2>1, <2>2
<1> QED
  BY <1>2, <1>3, <1>7, <1>8, <1>10, FlowsParts

LEMMA FlowsAnswer ==
    ASSUME OneCaller, Inv, AtCut, LogOrder, Flows, NEW h \in Handlers, BufferAndAnswer(h)
    PROVE  Flows'
<1>0. TypeOK /\ TypeInv
  BY Going
<1>1. PICK e \in Entry : e = handler[h].entry
  BY <1>0, EntryTypes DEF BufferAndAnswer, Calling
<1>2. /\ Calling(h) /\ handler[h].pc = "buffer" /\ buffer' = Append(buffer, e)
      /\ accepted' = [accepted EXCEPT ![e.change[1]] = e.change[2]]
      /\ UNCHANGED <<rows, refused, batch, wal, disk, up>>
  BY <1>1 DEF BufferAndAnswer, Calling, drainVars, replicaVars, histVars
<1>3. up
  BY <1>2 DEF Inv, Down, Calling
<1>4. Ordered /\ InTurn /\ Logged /\ disk.seq = snapshotSeq
  BY <1>3, Going DEF AtCut
<1>5. e \in Backlog /\ e.change[2] = accepted[e.change[1]] + 1
  <2>1. snapshotSeq < e.seq /\ e.seq \in Nat /\ snapshotSeq \in Nat
    BY <1>0, <1>1, <1>2, <1>4, SeqTypes DEF Ordered
  <2>2. e \in wal
    BY <1>1, <1>2, <1>4 DEF Logged
  <2>3. e.change[2] = accepted[e.change[1]] + 1
    BY <1>1, <1>2, <1>4 DEF InTurn
  <2> QED
    BY <1>4, <2>1, <2>2, <2>3 DEF Backlog
<1>6. Backlog' = Backlog
  BY <1>2 DEF Backlog
<1>7. Pending' = Pending \cup {e}
  <2>1. buffer \in Seq(Entry)
    BY <1>0 DEF TypeOK
  <2>2. Held(Append(buffer, e)) = Held(buffer) \cup {e}
    BY <2>1, HeldAppend
  <2>3. Held(buffer)' = Held(buffer) \cup {e} /\ Held(batch)' = Held(batch)
    BY <1>2, <2>2 DEF Held
  <2> QED
    BY <2>3 DEF Pending
<1> SUFFICES ASSUME NEW r \in Rows, ~Excused(r)'
             PROVE  /\ Flow(Numbers(Backlog', r), rows'[r].n, accepted'[r])
                    /\ Flow(Numbers(Pending', r), rows'[r].n, accepted'[r])
  BY DEF Flows, Flow, Numbers
<1>8. ~Excused(r)
  BY <1>2 DEF Excused
<1>9. Flow(Numbers(Backlog, r), rows[r].n, accepted[r])
      /\ Flow(Numbers(Pending, r), rows[r].n, accepted[r])
  BY <1>3, <1>8, FlowsParts
<1>10. accepted'[r] = IF r = e.change[1] THEN e.change[2] ELSE accepted[r]
  BY <1>0, <1>2 DEF TypeOK
<1>11. CASE e.change[1] = r
  <2>1. Numbers(Pending', r) = Numbers(Pending, r) \cup {accepted[r] + 1}
    BY <1>11, <1>5, <1>7 DEF Numbers
  <2>2. accepted[r] + 1 \in Numbers(Backlog, r)
    BY <1>11, <1>5 DEF Numbers
  <2>3. accepted'[r] = accepted[r] + 1
    BY <1>5, <1>10, <1>11
  <2>4. Numbers(Pending, r) \subseteq Numbers(Backlog, r)
    BY <1>3, FlowTypes, NumbersSub
  <2>5. Numbers(Pending, r) \in SUBSET Nat /\ \A i \in Numbers(Pending, r) : i <= accepted[r] + 1
    BY <2>4, FlowTypes
  <2>6. Flow(Numbers(Backlog, r), rows[r].n, accepted[r] + 1)
    BY <1>9, <2>2, FlowTypes, FlowAnswer
  <2>7. Flow(Numbers(Pending, r) \cup {accepted[r] + 1}, rows[r].n, accepted[r] + 1)
    BY <1>9, <2>5, FlowTypes, FlowAppend
  <2> QED
    BY <1>2, <1>6, <2>1, <2>3, <2>6, <2>7
<1>12. CASE e.change[1] # r
  <2>1. Numbers(Pending', r) = Numbers(Pending, r)
    BY <1>12, <1>7 DEF Numbers
  <2> QED
    BY <1>2, <1>6, <1>9, <1>10, <1>12, <2>1
<1> QED
  BY <1>11, <1>12


(* A write is skipped only if the row has moved past it. *)
LEMMA SkippedIsSeen ==
    ASSUME TypeOK, Shown, NEW r \in Rows, NEW n \in Nat, Skips(<<r, n>>), n <= rows[r].n + 1
    PROVE  n <= rows[r].n
<1>1. PICK m \in Nat : m = rows[r].n
  BY EntryTypes
<1>2. rows[r].rv \in Nat
  BY EntryTypes
<1>3. Rv(<<r, n>>) > 0 /\ rows[r].rv >= Rv(<<r, n>>)
  BY DEF Skips
<1>4. rows[r].rv = Rv(<<r, m>>)
  <2>1. CASE m = 0
    BY <1>1, <2>1, ShownParts, RvNone
  <2>2. CASE m > 0
    <3>1. rows[r] = Row(<<r, m>>)
      BY <1>1, <2>2, ShownParts
    <3> QED
      BY <3>1 DEF Row
  <2> QED
    BY <1>1, <2>1, <2>2
<1>5. n # m + 1
  <2>1. ASSUME n = m + 1 PROVE FALSE
    <3>1. Rv(<<r, n>>) = Rv(<<r, m>>) + 1
      BY <1>1, <1>3, <2>1, RvNext
    <3> QED
      BY <1>2, <1>3, <1>4, <3>1
  <2> QED
    BY <2>1
<1> QED
  BY <1>1, <1>5

LEMMA FlowsApply ==
    ASSUME Inv, AtCut, LogOrder, Shown, Flows, ApplyOne
    PROVE  Flows'
<1>0. TypeOK /\ TypeInv
  BY Going
<1>1. /\ UNCHANGED <<accepted, wal, buffer, drain, disk, up>> /\ drain.pc = "apply"
      /\ batch # <<>> /\ batch' = Tail(batch)
  BY DEF ApplyOne, dbVars
<1>2. PICK e \in Entry : e = Head(batch)
  BY <1>1, HeadIsLogged
<1>3. /\ e = batch[1] /\ 1 \in DOMAIN batch /\ e \in Backlog /\ e.change \in Changes
      /\ e.change[1] \in Rows /\ up
  BY <1>1, <1>2, HeadIsLogged
<1>4. PICK r \in Rows, n \in Nat : e.change = <<r, n>> /\ r = e.change[1] /\ n = e.change[2]
  BY <1>0, <1>3, EntryTypes
<1>5. \/ Skips(<<r, n>>) /\ rows' = rows /\ refused' = refused
      \/ rows' = [rows EXCEPT ![r] = Row(<<r, n>>)] /\ refused' = refused
      \/ rows' = rows /\ refused' = refused \cup {<<r, n>>}
  BY <1>2, <1>4 DEF ApplyOne
<1>6. Backlog' = Backlog
  BY <1>1 DEF Backlog
<1>7. Pending = Pending' \cup {e}
  <2>1. batch \in Seq(Entry)
    BY <1>0 DEF TypeOK
  <2>2. Held(batch) = Held(Tail(batch)) \cup {e}
    BY <1>1, <1>3, <2>1, HeldTail
  <2>3. Held(batch)' = Held(Tail(batch)) /\ Held(buffer)' = Held(buffer)
    BY <1>1 DEF Held
  <2> QED
    BY <2>2, <2>3 DEF Pending
<1> SUFFICES ASSUME NEW q \in Rows, ~Excused(q)'
             PROVE  /\ Flow(Numbers(Backlog', q), rows'[q].n, accepted'[q])
                    /\ Flow(Numbers(Pending', q), rows'[q].n, accepted'[q])
  BY DEF Flows, Flow, Numbers
<1>8. ~Excused(q)
  BY <1>5 DEF Excused
<1>9. /\ Flow(Numbers(Backlog, q), rows[q].n, accepted[q])
      /\ Flow(Numbers(Pending, q), rows[q].n, accepted[q])
  BY <1>3, <1>8, FlowsParts
<1>10. CASE q # r
  <2>1. Numbers(Pending', q) = Numbers(Pending, q)
    BY <1>4, <1>7, <1>10 DEF Numbers
  <2>2. rows'[q] = rows[q]
    BY <1>0, <1>5, <1>10 DEF TypeOK
  <2> QED
    BY <1>1, <1>6, <1>9, <2>1, <2>2
<1>11. CASE q = r
  <2> DEFINE X == Numbers(Pending, q)
             Y == Numbers(Pending', q)
             Z == Numbers(Backlog, q)
             m == rows[q].n
             a == accepted[q]
  <2>1. n \in X /\ n \in Z
    BY <1>3, <1>4, <1>7, <1>11 DEF Numbers
  <2>2. Y \subseteq X /\ \A i \in X : i = n \/ i \in Y
    BY <1>4, <1>7, <1>11 DEF Numbers
  <2>3. X \subseteq Z
    BY <1>3, FlowTypes, NumbersSub
  <2>4. Z \in SUBSET Nat /\ X \in SUBSET Nat /\ m \in Nat /\ a \in Nat
    BY <2>3, FlowTypes
  <2>5. \A i \in X : n <= i
    <3>1. \A f \in Pending : f = e \/ e.seq < f.seq
      <4>1. \A i \in DOMAIN batch : i = 1 \/ batch[1].seq < batch[i].seq
        <5>1. batch \in Seq(Entry)
          BY <1>0 DEF TypeOK
        <5>2. \A i \in DOMAIN batch : i = 1 \/ 1 < i
          BY <5>1
        <5> QED
          BY <1>3, <5>2 DEF LogOrder
      <4>2. \A i \in DOMAIN buffer : batch[1].seq < buffer[i].seq
        <5>1. Ordered /\ Draining
          BY <1>3, Going
        <5>2. batch[1].seq <= drain.cut /\ \A i \in DOMAIN buffer : drain.cut < buffer[i].seq
          BY <1>1, <1>3, <5>1 DEF Ordered, Draining
        <5> QED
          BY <1>0, <1>3, <5>2, SeqTypes
      <4> QED
        BY <1>3, <4>1, <4>2 DEF Pending, Held
    <3>2. \A f \in Pending : f \in wal
      BY <1>3, FlowTypes DEF Backlog
    <3>3. e \in wal
      BY <1>3 DEF Backlog
    <3>4. \A f \in wal : f.change[1] = r /\ e.seq < f.seq => n <= f.change[2]
      BY <1>4, <3>3 DEF LogOrder
    <3> SUFFICES ASSUME NEW f \in Pending, f.change[1] = q PROVE n <= f.change[2]
      BY DEF Numbers
    <3>5. CASE f = e
      BY <3>5, <1>4
    <3>6. CASE f # e
      BY <3>1, <3>2, <3>4, <3>6, <1>11
    <3> QED
      BY <3>5, <3>6
  <2>f. Flow(Z, m, a) /\ Flow(X, m, a)
    BY <1>9
  <2> HIDE DEF X, Y, Z, m, a
  <2>6. Y \in SUBSET X
    BY <2>2
  <2>7. ASSUME NEW p \in Nat, n <= p PROVE Flow(Y, p, a)
    BY <2>1, <2>2, <2>4, <2>5, <2>6, <2>7, <2>f, FlowConsume
  <2>8. CASE Skips(<<r, n>>) /\ rows' = rows
    <3>1. n <= m + 1
      <4>1. PICK i \in X : i <= m + 1
        BY <2>1, <2>f DEF Flow
      <4>2. i \in Nat /\ n <= i
        BY <2>4, <2>5, <4>1
      <4> QED
        BY <2>4, <4>1, <4>2
    <3>2. n <= m
      BY <1>0, <1>11, <2>8, <3>1, SkippedIsSeen DEF m
    <3>3. Flow(Y, m, a)
      BY <2>4, <2>7, <3>2
    <3> QED
      BY <1>1, <1>6, <2>8, <2>f, <3>3 DEF Y, Z, m, a
  <2>9. CASE rows' = [rows EXCEPT ![r] = Row(<<r, n>>)]
    <3>1. rows'[q].n = n
      <4>1. rows'[q] = Row(<<r, n>>)
        BY <1>0, <1>11, <2>9 DEF TypeOK
      <4> QED
        BY <4>1 DEF Row
    <3>2. Flow(Y, n, a)
      BY <2>7
    <3>3. Flow(Z, n, a)
      BY <2>1, <2>4, <2>f, FlowMove
    <3> QED
      BY <1>1, <1>6, <3>1, <3>2, <3>3 DEF Y, Z, a
  <2>10. CASE refused' = refused \cup {<<r, n>>}
    <3>1. <<r, n>> \in refused' /\ <<r, n>>[1] = q
      BY <2>10, <1>11
    <3>2. Excused(q)'
      BY <3>1 DEF Excused
    <3> QED
      BY <3>2
  <2> QED
    BY <1>5, <2>8, <2>9, <2>10
<1> QED
  BY <1>10, <1>11


(* The commit moves the cut over what was applied, and only over that. *)
LEMMA FlowsCommit ==
    ASSUME Inv, AtCut, "commit" \notin Faults, LogOrder, Flows, DrainCommit
    PROVE  Flows'
<1>0. TypeOK /\ TypeInv
  BY Going
<1>1. /\ UNCHANGED <<accepted, wal, buffer, batch, rows, refused, up>> /\ drain.pc # "idle"
      /\ CommitSnapshot(drain.cut, {}) /\ (drain.pc = "apply" => batch = <<>>)
  BY DEF DrainCommit, dbVars, histVars
<1>2. up /\ Draining /\ Ordered /\ Logged
  BY <1>1, Going
<1>3. batch = <<>> /\ disk.seq = snapshotSeq
  BY <1>1, <1>2 DEF Draining, AtCut
<1>4. disk'.seq = drain.cut
  BY <1>0, <1>1, Committed
<1>5. disk.seq <= drain.cut /\ disk.seq \in Nat /\ drain.cut \in Nat
  BY <1>0, <1>1, <1>2, <1>3, SeqTypes DEF Draining
<1>6. Backlog' \subseteq Backlog /\ \A e \in Backlog : e.seq \in Nat /\ (e \notin Backlog' => e.seq <= drain.cut)
  BY <1>0, <1>1, <1>4, <1>5, SeqTypes DEF Backlog
<1>7. \A e \in Backlog' : e.seq > drain.cut /\ e.seq \in Nat
  BY <1>0, <1>1, <1>4, SeqTypes DEF Backlog
<1>8. Pending' = Pending
  BY <1>1 DEF Pending, Held
<1>9. Pending \subseteq Backlog'
  <2>1. \A i \in DOMAIN buffer : buffer[i] \in wal /\ drain.cut < buffer[i].seq /\ buffer[i].seq \in Nat
    BY <1>0, <1>1, <1>2, SeqTypes DEF Draining, Logged
  <2>2. \A i \in DOMAIN buffer : buffer[i] \in Backlog'
    BY <1>1, <1>4, <1>5, <2>1 DEF Backlog
  <2> QED
    BY <1>3, <2>2 DEF Pending, Held
<1> SUFFICES ASSUME NEW r \in Rows, ~Excused(r)'
             PROVE  /\ Flow(Numbers(Backlog', r), rows'[r].n, accepted'[r])
                    /\ Flow(Numbers(Pending', r), rows'[r].n, accepted'[r])
  BY DEF Flows, Flow, Numbers
<1>10. ~Excused(r)
  BY <1>1 DEF Excused
<1> DEFINE X == Numbers(Backlog, r)
           Y == Numbers(Pending, r)
           Z == Numbers(Backlog', r)
           m == rows[r].n
           a == accepted[r]
<1>11. Flow(X, m, a) /\ Flow(Y, m, a)
  BY <1>2, <1>10, FlowsParts
<1>12. Y \subseteq Z /\ Z \subseteq X
  BY <1>6, <1>9, NumbersSub
<1>13. X \in SUBSET Nat /\ m \in Nat /\ a \in Nat /\ \A i \in X : i <= a + 1
  BY FlowTypes
<1>14. \A i \in X \ Z : \A j \in Z : i <= j
  <2> SUFFICES ASSUME NEW i \in X \ Z, NEW j \in Z PROVE i <= j
    OBVIOUS
  <2>1. PICK e \in Backlog : e.change[1] = r /\ e.change[2] = i
    BY DEF Numbers
  <2>2. e \notin Backlog'
    BY <2>1 DEF Numbers
  <2>3. PICK f \in Backlog' : f.change[1] = r /\ f.change[2] = j
    BY DEF Numbers
  <2>4. e.seq < f.seq
    BY <1>5, <1>6, <1>7, <2>2
  <2>5. e \in wal /\ f \in wal
    BY <1>6 DEF Backlog
  <2> QED
    BY <2>1, <2>3, <2>4, <2>5 DEF LogOrder
<1> HIDE DEF X, Y, Z, m, a
<1>15. Z \in SUBSET X /\ Y \in SUBSET Z
  BY <1>12
<1>16. Flow(Z, m, a)
  BY <1>11, <1>13, <1>14, <1>15, FlowCut
<1> QED
  BY <1>1, <1>8, <1>11, <1>16 DEF Y, Z, m, a

LEMMA FlowsStep ==
    ASSUME OneCaller, "commit" \notin Faults, Inv, AtCut, LogOrder, Shown, Flows, [Next]_vars
    PROVE  Flows'
<1>0. TypeOK /\ TypeInv
  BY Going
<1>1. ASSUME UNCHANGED <<rows, accepted, refused, batch, buffer, wal, up>>, disk'.seq = disk.seq
      PROVE  Flows'
  <2>1. Backlog' = Backlog /\ Pending' = Pending
    BY <1>1 DEF Backlog, Pending, Held
  <2> QED
    BY <1>1, <2>1, FlowsFrame
<1>2. ASSUME NEW h \in Handlers, Ingest(h) PROVE Flows'
  <2>1. CASE (\E r \in Rows : TakeSeq(h, r)) \/ AppendFails(h) \/ Dropped(h)
    <3>1. UNCHANGED <<rows, accepted, refused, batch, buffer, wal, up, disk>>
      BY <2>1 DEF TakeSeq, AppendFails, Dropped, dbVars, drainVars, replicaVars, histVars
    <3> QED
      BY <1>1, <3>1
  <2> QED
    BY <1>2, <2>1, FlowsAppend, FlowsAnswer DEF Ingest
<1>3. ASSUME DrainTake PROVE Flows'
  <2>1. UNCHANGED <<rows, accepted, refused, wal, up>> /\ batch' = buffer /\ buffer' = <<>>
        /\ up /\ drain.pc = "idle"
    BY <1>3 DEF DrainTake, dbVars, histVars
  <2>2. disk'.seq = disk.seq
    BY <1>0, <1>3 DEF DrainTake, TypeOK
  <2>3. batch = <<>>
    BY <2>1, Going DEF Draining
  <2>4. Backlog' = Backlog
    BY <2>1, <2>2 DEF Backlog
  <2>5. Pending' = Pending
    BY <2>1, <2>3 DEF Pending, Held
  <2> QED
    BY <2>1, <2>4, <2>5, FlowsFrame
<1>4. ASSUME DrainDirtyOnly \/ UNCHANGED vars PROVE Flows'
  <2>1. UNCHANGED <<rows, accepted, refused, batch, buffer, wal, up, disk>>
    BY <1>4 DEF DrainDirtyOnly, vars, dbVars, drainVars, replicaVars, histVars
  <2> QED
    BY <1>1, <2>1
<1>5. ASSUME DrainTruncate PROVE Flows'
  <2>1. UNCHANGED <<rows, accepted, refused, batch, buffer, up, disk>> /\ drain.pc = "truncate"
    BY <1>5 DEF DrainTruncate, dbVars, replicaVars, histVars
  <2>2. disk.seq = drain.cut
    BY <2>1 DEF AtCut
  <2>3. wal' \subseteq wal /\ \A e \in wal : e.seq > drain.cut => e \in wal'
    BY <1>5 DEF DrainTruncate
  <2>4. Backlog' = Backlog
    BY <2>1, <2>2, <2>3 DEF Backlog
  <2>5. Pending' = Pending
    BY <2>1 DEF Pending, Held
  <2> QED
    BY <2>1, <2>4, <2>5, FlowsFrame
<1>6. ASSUME NEW tables \in (SUBSET Tables) \ {{}}, Rehash(tables) PROVE Flows'
  <2>1. UNCHANGED <<rows, accepted, refused, batch, buffer, wal, up>> /\ up
        /\ CommitSnapshot(snapshotSeq, tables)
    BY <1>6 DEF Rehash, dbVars, drainVars, histVars
  <2>2. disk'.seq = snapshotSeq
    BY <1>0, <2>1, Committed
  <2>3. disk'.seq = disk.seq
    BY <2>1, <2>2 DEF AtCut
  <2> QED
    BY <1>1, <2>1, <2>3
<1>7. ASSUME Crash PROVE Flows'
  <2>1. UNCHANGED <<rows, accepted, refused, wal, disk>> /\ ~up'
    BY <1>7 DEF Crash, dbVars, histVars
  <2>2. Backlog' = Backlog
    BY <2>1 DEF Backlog
  <2> QED
    BY <2>1, <2>2, FlowsFrame
<1>8. ASSUME Recover PROVE Flows'
  <2>1. UNCHANGED <<rows, accepted, refused, wal, disk, batch>> /\ ~up
    BY <1>8 DEF Recover, dbVars, drainVars, histVars
  <2>2. batch = <<>>
    BY <2>1 DEF Inv, Down
  <2>3. Backlog' = Backlog
    BY <2>1 DEF Backlog
  <2>4. /\ \A i \in DOMAIN buffer' : buffer'[i] \in Backlog
        /\ \A e \in Backlog : \E i \in DOMAIN buffer' : buffer'[i] = e
    BY <1>8 DEF Recover, BySeq
  <2>5. Pending' = Backlog
    <3>1. Held(buffer)' = Backlog
      BY <2>4 DEF Held
    <3>2. Held(batch)' = {}
      BY <2>1, <2>2 DEF Held
    <3> QED
      BY <3>1, <3>2 DEF Pending
  <2> SUFFICES ASSUME NEW r \in Rows, ~Excused(r)'
               PROVE  Flow(Numbers(Backlog, r), rows[r].n, accepted[r])
    BY <2>1, <2>3, <2>5 DEF Flows, Flow, Numbers
  <2>6. ~Excused(r)
    BY <2>1 DEF Excused
  <2> QED
    BY <2>6, FlowsParts
<1> QED
  BY <1>2, <1>3, <1>4, <1>5, <1>6, <1>7, <1>8, FlowsApply, FlowsCommit DEF Next, Drain

LEMMA RowInit == Init => RowInv
<1> SUFFICES ASSUME Init PROVE RowInv
  OBVIOUS
<1>1. LogOrder
  BY DEF Init, LogOrder, Calling
<1>2. Shown
  BY DEF Init, Shown, Calling
<1>3. Backlog = {} /\ Pending = {}
  BY DEF Init, Backlog, Pending, Held
<1>4. \A r \in Rows : Numbers({}, r) = {} /\ rows[r].n = 0 /\ accepted[r] = 0
  BY DEF Init, Numbers
<1>5. Flow({}, 0, 0)
  BY DEF Flow
<1>6. Flows
  BY <1>3, <1>4, <1>5 DEF Flows
<1> QED
  BY <1>1, <1>2, <1>6 DEF RowInv

LEMMA RowStep ==
    ASSUME OneCaller, "commit" \notin Faults, Inv, AtCut, RowInv, [Next]_vars
    PROVE  RowInv'
BY OrderStep, ShownStep, FlowsStep DEF RowInv

LEMMA RowInvConverged ==
    ASSUME Inv, RowInv
    PROVE  Converged
<1> SUFFICES ASSUME up, drain.pc = "idle", buffer = <<>>, NEW r \in Rows, ~Excused(r)
             PROVE  /\ rows[r].n >= accepted[r]
                    /\ rows[r].n > 0 => rows[r] = Row(<<r, rows[r].n>>)
  BY DEF Converged, Excused
<1>1. batch = <<>>
  BY Going DEF Draining
<1>2. Pending = {}
  BY <1>1 DEF Pending, Held
<1>3. Flow(Numbers({}, r), rows[r].n, accepted[r])
  BY <1>2, FlowsParts DEF RowInv
<1>4. Numbers({}, r) = {}
  BY DEF Numbers
<1>5. rows[r].n >= accepted[r]
  BY <1>3, <1>4 DEF Flow
<1> QED
  BY <1>5, ShownParts DEF RowInv

(* With one caller of ingest_event_from and commits that are persisted, a
   scheduler that has drained its buffer shows every accepted change of every
   row whose apply never failed, as that change left it, however many crashes
   made it replay the log over newer rows: a replayed delete may take a row
   back, but the replay goes on to the newest accepted change. *)
THEOREM ReplicaConverges ==
    ASSUME OneCaller, "commit" \notin Faults
    PROVE  Spec => []Converged
<1>1. Inv /\ AtCut /\ RowInv /\ [Next]_vars => (Inv /\ AtCut /\ RowInv)'
  BY InvStep, AtCutStep, RowStep
<1>2. Init => Inv /\ AtCut /\ RowInv
  BY InvInit, HashInit, RowInit
<1>3. Inv /\ AtCut /\ RowInv => Converged
  BY RowInvConverged
<1> QED
  BY <1>1, <1>2, <1>3, PTL DEF Spec
=============================================================================
