----------------------------- MODULE DurableLog -----------------------------
(***************************************************************************)
(* What the scheduler needs from its write-ahead log                       *)
(* (apps/scheduler/src/wal.rs): an append that returned Ok is read back by *)
(* every recovery until a truncation covers its seq, whatever appends fail *)
(* or processes die in between.  The segment files of EventWal implement   *)
(* this; IngestLog is written against it.                                  *)
(***************************************************************************)
EXTENDS Naturals

CONSTANT MaxSeq          \* bound: seqs are 1..MaxSeq

Seqs == 1..MaxSeq

VARIABLES
    stored,              \* seqs a recovery would find
    retired,             \* highest bound this process truncated to
    owed                 \* acknowledged seqs no truncation covered since

absVars == <<stored, retired, owed>>

AbsInit == stored = {} /\ retired = 0 /\ owed = {}

(* EventWal::append returned Ok. *)
AbsAppend(n) ==
    /\ stored' = stored \cup {n}
    /\ owed' = owed \cup {n}
    /\ UNCHANGED retired

(* EventWal::truncate(up_to_seq) forgets nothing newer than its bound; what the
   bound covers may stay on disk, beside newer events. *)
AbsTruncate(u) ==
    /\ \E kept \in SUBSET {n \in stored : n <= u} :
          stored' = kept \cup {n \in stored : n > u}
    /\ owed' = {n \in owed : n > u}
    /\ retired' = IF u > retired THEN u ELSE retired

(* A restart forgets the in-memory truncation mark and nothing else. *)
AbsRestart == retired' = 0 /\ UNCHANGED <<stored, owed>>

AbsNext ==
    \/ \E n \in Seqs : AbsAppend(n)
    \/ \E u \in Seqs : AbsTruncate(u)
    \/ AbsRestart

AbsSpec == AbsInit /\ [][AbsNext]_absVars
=============================================================================
