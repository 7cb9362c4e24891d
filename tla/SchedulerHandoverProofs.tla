---------------------- MODULE SchedulerHandoverProofs ----------------------
(***************************************************************************)
(* The hand-over of the scheduler never leaves two of them running the     *)
(* background loops, never hands one sequence number to two records, and   *)
(* gives whoever runs them every event a predecessor acknowledged, and the *)
(* SSP all of them, for any number of events, drains and faults.           *)
(*                                                                         *)
(* None of it is inductive.  That blue and green never run at once needs   *)
(* who has the replica open (Locked) and what blue may be doing while      *)
(* green waits, opens or commits (Yielded).  That no sequence number is    *)
(* used twice needs the counter of the process that numbers events to be   *)
(* past everything acknowledged (Counted), which green's is only because   *)
(* it knows every segment file blue still writes to (Known).  That the     *)
(* backlog is kept needs in addition that events are logged in the order   *)
(* of their numbers (Ordered), so that what is newer than green's view of  *)
(* the log is what it reads when it catches up (Behind).  That the SSP     *)
(* misses nothing needs to say where an event waits for it at each stage   *)
(* of the hand-over: in blue's queues (BlueFeeds), in the pool blue        *)
(* exported (AnswerFeeds), in green's queues or what blue still sends      *)
(* (GreenFeeds).                                                           *)
(***************************************************************************)
EXTENDS SchedulerHandover, SequenceTheorems, WellFoundedInduction, TLAPS

-----------------------------------------------------------------------------
(* The types the steps rely on, beyond those TypeOK states. *)

BluePhases == {"down", "stopped", "booting", "active", "releasing", "released", "holding",
               "quiesced", "retired"}
GreenPhases == {"down", "asking", "opening", "direct", "waiting", "booting", "preparing",
                "committing", "active"}
Phases == BluePhases \cup GreenPhases
Request == [st : {"new", "gate", "handler", "taking", "acked", "failed"},
            at : Procs, hops : 0 .. 2, seq : 0 .. MaxSeq]
SspState == [st : {"absent", "ready", "lagging"}, buffer : Seq(Events), task : BOOLEAN,
             batch : Seq(Events)]
LogRecord == [seq : Seqs, event : Events]
LogState == [closed : SUBSET Seqs, active : 0 .. MaxSeq]

(* Only blue retires, so a request that was relayed twice is at green. *)
RelayedTwice ==
    \A e \in Events : /\ req[e].st = "new" => req[e].hops = 0
                      /\ req[e].at = "blue" => req[e].hops <= 1

ProcType ==
    /\ phase \in [Procs -> Phases]
    /\ phase["blue"] \in BluePhases /\ phase["green"] \in GreenPhases
    /\ mode \in [Procs -> {"hold", "serve", "forward"}]
    /\ lock \in Procs \cup {"none"} /\ call \in {"idle", "sent", "ok"}
    /\ answer \in SspState /\ answer.batch = <<>>

ReqType ==
    /\ req \in [Events -> Request]
    /\ \A e \in Events : req[e].st \in {"taking", "acked"} => req[e].seq # 0
    /\ RelayedTwice

LogType ==
    /\ disk \in [Seqs -> SUBSET LogRecord]
    /\ log \in [Procs -> LogState]
    /\ seqc \in [Procs -> 0 .. MaxSeq] /\ snap \in 0 .. MaxSeq
    /\ buf \in [Procs -> SUBSET LogRecord]

SspType ==
    /\ pool \in [Procs -> SspState]
    /\ \A p \in Procs : pool[p].batch # <<>> => pool[p].task
    /\ fan \in [Procs -> Seq(Events)]
    /\ got \subseteq Events /\ cut \subseteq Events /\ applied \subseteq Events

TypeInv == ProcType /\ ReqType /\ LogType /\ SspType

-----------------------------------------------------------------------------
(* Who may do what *)

(* A process that may number and log events. *)
Writer(p) == phase[p] \in {"booting", "active", "releasing", "released", "holding"}
Preparing == phase["green"] \in {"preparing", "committing"}

Locked ==
    /\ lock = "blue" <=> phase["blue"] \in {"booting", "active", "releasing"}
    /\ lock = "green" <=> phase["green"] \in {"booting", "preparing", "committing", "active"}

(* What blue cannot be doing while green waits for the lock, boots or serves, or has the
   answer to its release or its commit. *)
Yielded ==
    /\ call = "ok" => phase["green"] \in {"asking", "committing"}
    /\ phase["green"] \in {"direct", "waiting", "booting", "active"} =>
          phase["blue"] \notin {"releasing", "released", "holding", "quiesced"}
    /\ phase["green"] = "opening" \/ (phase["green"] = "asking" /\ call = "ok") =>
          phase["blue"] \notin {"holding", "quiesced", "retired"}
    /\ phase["green"] = "committing" /\ call = "ok" =>
          phase["blue"] \in {"retired", "down", "stopped"}

(* Requests past the gate are at a process that let them in. *)
InHand ==
    /\ \A p \in Procs : mode[p] = "serve" =>
          phase[p] \in {"booting", "active", "releasing", "released"}
    /\ \A e \in Events : req[e].st = "handler" =>
          Writer(req[e].at) \/ phase[req[e].at] \in {"quiesced", "retired"}
    /\ \A e \in Events : req[e].st = "taking" => Writer(req[e].at)

PhaseInv == TypeInv /\ Locked /\ Yielded /\ InHand

-----------------------------------------------------------------------------
(* Sequence numbers *)

Acked(e) == req[e].st = "acked"
Taking(e) == req[e].st = "taking"
RecordOf(e) == Record(req[e].seq, e)

Counted ==
    /\ \A e \in Events : Taking(e) => req[e].seq <= seqc[req[e].at]
    /\ \A p \in Procs : Writer(p) \/ (p = "green" /\ Preparing) => snap <= seqc[p]
    /\ \A p \in Procs : Writer(p) => \A e \in Events : Acked(e) => req[e].seq <= seqc[p]

Unshared ==
    \A e, o \in Events : (Taking(e) \/ Acked(e)) /\ (Taking(o) \/ Acked(o))
        /\ req[e].seq = req[o].seq => e = o

(* The log and the buffers hold acknowledged events under their numbers; what the log has
   lost the snapshot covers. *)
Recorded ==
    /\ \A f \in Seqs : \A r \in disk[f] : Acked(r.event) /\ r = RecordOf(r.event)
    /\ \A p \in Procs : \A r \in buf[p] : Acked(r.event) /\ r = RecordOf(r.event)
    /\ \A e \in Events : Acked(e) => RecordOf(e) \in Records \/ req[e].seq <= snap
    /\ \A p \in Procs : Writer(p) /\ log[p].active # 0 => disk[log[p].active] # {}

(* Green knows every segment file, and blue opens no other. *)
Known ==
    Preparing =>
        /\ log["green"].active = 0
        /\ \A f \in Seqs : disk[f] # {} => f \in log["green"].closed
        /\ log["blue"].active = 0 => At("blue", "handler") \cup At("blue", "taking") = {}
        /\ Writer("blue") => seqc["green"] <= seqc["blue"]

SeqInv == PhaseInv /\ Counted /\ Unshared /\ Recorded /\ Known

-----------------------------------------------------------------------------
(* The backlog *)

Ordered ==
    \A e \in Events : Taking(e) =>
        snap < req[e].seq /\ \A o \in Events : Acked(o) => req[o].seq < req[e].seq

Durable ==
    \A e \in Events : Acked(e) =>
        e \in applied \/ (RecordOf(e) \in Records /\ snap < req[e].seq)

Buffered ==
    \A p \in Procs : phase[p] \in {"booting", "active"} =>
        \A e \in Events : Acked(e) => e \in applied \cup EventsOf(buf[p])

Behind ==
    Preparing => \A e \in Events :
        /\ Acked(e) => e \in applied \/ RecordOf(e) \in buf["green"] \/ seqc["green"] < req[e].seq
        /\ Taking(e) => seqc["green"] < req[e].seq

BacklogInv == SeqInv /\ Ordered /\ Durable /\ Buffered /\ Behind

-----------------------------------------------------------------------------
(* What the SSP gets *)

(* Blue's wait for its fan-out ran out when it exported its pool; a delivery failed.  Together
   the two would leave an event in the buffer of a pool that was exported already. *)
Unfanned == phase["blue"] = "retired" /\ fan["blue"] # <<>>
Lagging == answer.st = "lagging" \/ \E p \in Procs : pool[p].st = "lagging"
Exported ==
    /\ spent \in [faults : Nat, drains : Nat]
    /\ Unfanned => "slow" \in Faults /\ spent.faults > 0
    /\ Lagging => "post" \in Faults /\ spent.faults > 0
    /\ ~(Unfanned /\ Lagging)

(* An SSP that is in no pool has nothing queued there; green has it only once it serves, and
   blue only from when it booted to when it is gone. *)
InPool ==
    /\ answer.st = "absent" => answer = NoSsp
    /\ \A p \in Procs : pool[p].st = "absent" => pool[p] = NoSsp
    /\ phase["green"] # "active" => pool["green"].st = "absent"
    /\ phase["blue"] \in {"down", "stopped", "booting"} => pool["blue"].st = "absent"

(* What blue, if it has the SSP, is still to deliver itself. *)
FromBlue ==
    IF pool["blue"].st = "absent" THEN {} ELSE ToSet(fan["blue"]) \cup ToSet(pool["blue"].batch)

(* Every acknowledged event is delivered, cut off, or in one of the places the process that has
   the SSP hands out from: blue's own queues, the pool it exported, or green's queues. *)
Fed(queued) == \A e \in Events : req[e].st = "acked" => e \in got \cup cut \cup queued
BlueFeeds ==
    /\ phase["blue"] \in {"active", "releasing", "released", "holding", "quiesced"}
    /\ pool["blue"].st # "absent"
    => Fed(Queued("blue"))
AnswerFeeds ==
    phase["green"] = "committing" /\ call = "ok" /\ answer.st # "absent" =>
        Fed(ToSet(answer.buffer) \cup FromBlue)
GreenFeeds ==
    phase["green"] = "active" /\ pool["green"].st # "absent" => Fed(Queued("green") \cup FromBlue)

FeedInv == BacklogInv /\ Exported /\ InPool /\ BlueFeeds /\ AnswerFeeds /\ GreenFeeds

-----------------------------------------------------------------------------
(* The highest number among some records, and the floor: Top is what it says. *)
LEMMA TopIsMax ==
    ASSUME NEW R, \A r \in R : r.seq \in 0 .. MaxSeq, NEW floor \in 0 .. MaxSeq
    PROVE  /\ Top(R, floor) \in {r.seq : r \in R} \cup {floor}
           /\ Top(R, floor) \in 0 .. MaxSeq
           /\ floor <= Top(R, floor) /\ \A r \in R : r.seq <= Top(R, floor)
<1> DEFINE S == {r.seq : r \in R} \cup {floor}
           T == {k \in Nat : k <= MaxSeq /\ MaxSeq - k \in S}
<1>0. MaxSeq \in Nat
  BY HandoverAssumption
<1>1. S \subseteq 0 .. MaxSeq
  OBVIOUS
<1> HIDE DEF S
<1>2. floor \in S /\ \A r \in R : r.seq \in S
  BY DEF S
<1>3. MaxSeq - floor \in T /\ T \subseteq Nat
  BY <1>0, <1>2
<1>4. PICK x \in T : \A y \in T : ~ (<<y, x>> \in OpToRel(<, Nat))
  BY <1>3, WFMin, NatLessThanWellFounded
<1>5. \A y \in T : x <= y
  <2> SUFFICES ASSUME NEW y \in T, y < x PROVE FALSE
    OBVIOUS
  <2>1. <<y, x>> \in OpToRel(<, Nat)
    BY Zenon DEF OpToRel
  <2> QED
    BY <2>1, <1>4
<1>6. ASSUME NEW n \in S PROVE n <= MaxSeq - x
  <2>1. MaxSeq - n \in T
    BY <1>0, <1>1
  <2>2. x <= MaxSeq - n
    BY <2>1, <1>5
  <2> QED
    BY <2>2, <1>0, <1>1
<1>7. \E n \in S : n >= floor /\ \A r \in R : r.seq <= n
  BY <1>2, <1>6
<1>8. Top(R, floor) \in S /\ Top(R, floor) >= floor /\ \A r \in R : r.seq <= Top(R, floor)
  BY <1>7 DEF Top, S
<1> QED
  BY <1>1, <1>8 DEF S

-----------------------------------------------------------------------------
(* Type correctness *)

LEMMA TypeInvImpliesTypeOK == TypeInv => TypeOK
<1> SUFFICES ASSUME TypeInv PROVE TypeOK
  OBVIOUS
<1>1. \A f \in Seqs : \A r \in disk[f] : r.seq \in Seqs /\ r.event \in Events
  BY DEF TypeInv, LogType, LogRecord
<1>2. \A p \in Procs : pool[p].st \in {"absent", "ready", "lagging"}
  BY DEF TypeInv, SspType, SspState
<1> QED
  BY <1>1, <1>2
     DEF TypeInv, ProcType, ReqType, LogType, SspType, TypeOK, BluePhases, GreenPhases, Request

LEMMA NoSspType == NoSsp \in SspState /\ NoSsp.batch = <<>> /\ NoSsp.st = "absent"
BY DEF NoSsp, SspState

LEMMA ToSetType == ASSUME NEW s \in Seq(Events) PROVE ToSet(s) \subseteq Events
BY ElementOfSeq DEF ToSet

LEMMA TypeInit == Init => TypeInv
<1> SUFFICES ASSUME Init PROVE TypeInv
  OBVIOUS
<1>1. ProcType
  BY NoSspType DEF Init, ProcType, Procs, Phases, BluePhases, GreenPhases
<1>2. 1 .. Logged \subseteq Events /\ 1 .. Logged \subseteq Seqs
  BY HandoverAssumption DEF Events, Seqs
<1>3. LogType
  <2> DEFINE before == {Record(e, e) : e \in 1 .. Logged}
  <2>1. before \subseteq LogRecord
    BY <1>2 DEF LogRecord, Record
  <2>2. disk \in [Seqs -> SUBSET LogRecord] /\ buf \in [Procs -> SUBSET LogRecord]
    BY <2>1 DEF Init
  <2>3. log \in [Procs -> LogState]
    BY HandoverAssumption DEF Init, LogState, EmptyLog
  <2>4. seqc \in [Procs -> 0 .. MaxSeq] /\ snap \in 0 .. MaxSeq
    BY HandoverAssumption DEF Init
  <2> QED
    BY <2>2, <2>3, <2>4 DEF LogType
<1>4. ReqType
  <2>1. req \in [Events -> Request]
    BY HandoverAssumption DEF Init, Events, Procs, Request
  <2>2. /\ \A e \in Events : req[e].st \in {"taking", "acked"} => req[e].seq # 0
        /\ RelayedTwice
    BY HandoverAssumption DEF Init, Events, RelayedTwice
  <2> QED
    BY <2>1, <2>2 DEF ReqType
<1>5. SspType
  <2>1. pool \in [Procs -> SspState] /\ fan \in [Procs -> Seq(Events)]
    BY NoSspType DEF Init, SspState
  <2>2. \A p \in Procs : pool[p].batch = <<>>
    BY DEF Init, NoSsp
  <2> QED
    BY <1>2, <2>1, <2>2 DEF Init, SspType
<1> QED
  BY <1>1, <1>3, <1>4, <1>5 DEF TypeInv

LEMMA ProcTypeStep ==
    TypeInv /\ [Next]_vars => ProcType'
<1> SUFFICES ASSUME TypeInv, [Next]_vars PROVE ProcType'
  OBVIOUS
<1>1. ASSUME NEW p \in Procs, Booted(p) PROVE ProcType'
  BY <1>1 DEF TypeInv, ProcType, Procs, Phases, BluePhases, GreenPhases, Become, Ends, OpenReplica, Booted
<1>2. ASSUME NEW p \in Procs, Crash(p) PROVE ProcType'
  BY <1>2 DEF TypeInv, ProcType, Procs, Phases, BluePhases, GreenPhases, Become, Ends, OpenReplica, Crash
<1>3. ASSUME Release PROVE ProcType'
  BY <1>3 DEF TypeInv, ProcType, Procs, Phases, BluePhases, GreenPhases, Become, Ends, OpenReplica, Release
<1>4. ASSUME CloseReplica PROVE ProcType'
  BY <1>4 DEF TypeInv, ProcType, Procs, Phases, BluePhases, GreenPhases, Become, Ends, OpenReplica, CloseReplica
<1>5. ASSUME CommitHold PROVE ProcType'
  BY <1>5 DEF TypeInv, ProcType, Procs, Phases, BluePhases, GreenPhases, Become, Ends, OpenReplica, CommitHold
<1>6. ASSUME CommitQuiesce PROVE ProcType'
  BY <1>6 DEF TypeInv, ProcType, Procs, Phases, BluePhases, GreenPhases, Become, Ends, OpenReplica, CommitQuiesce
<1>7. ASSUME CommitExport PROVE ProcType'
  <2>1. answer' \in SspState /\ answer'.batch = <<>>
    <3>1. pool["blue"] \in SspState /\ <<>> \in Seq(Events)
      BY DEF TypeInv, SspType, Procs
    <3>2. answer' = [pool["blue"] EXCEPT !.batch = <<>>]
      BY <1>7 DEF CommitExport
    <3> QED
      BY <3>1, <3>2 DEF SspState
  <2> QED
    BY <1>7, <2>1 DEF TypeInv, ProcType, Procs, Phases, BluePhases, GreenPhases, Become,
                      CommitExport
<1>8. ASSUME Start PROVE ProcType'
  BY <1>8 DEF TypeInv, ProcType, Procs, Phases, BluePhases, GreenPhases, Become, Ends, OpenReplica, Start
<1>9. ASSUME Ask PROVE ProcType'
  BY <1>9 DEF TypeInv, ProcType, Procs, Phases, BluePhases, GreenPhases, Become, Ends, OpenReplica, Ask
<1>10. ASSUME Released PROVE ProcType'
  BY <1>10 DEF TypeInv, ProcType, Procs, Phases, BluePhases, GreenPhases, Become, Ends, OpenReplica, Released
<1>11. ASSUME Unreleased PROVE ProcType'
  BY <1>11 DEF TypeInv, ProcType, Procs, Phases, BluePhases, GreenPhases, Become, Ends, OpenReplica, Unreleased
<1>12. ASSUME Open PROVE ProcType'
  BY <1>12 DEF TypeInv, ProcType, Procs, Phases, BluePhases, GreenPhases, Become, Ends, OpenReplica, Open
<1>13. ASSUME LockTimeout PROVE ProcType'
  BY <1>13 DEF TypeInv, ProcType, Procs, Phases, BluePhases, GreenPhases, Become, Ends, OpenReplica, LockTimeout
<1>14. ASSUME Prepared PROVE ProcType'
  BY <1>14 DEF TypeInv, ProcType, Procs, Phases, BluePhases, GreenPhases, Become, Ends, OpenReplica, Prepared
<1>15. ASSUME LoseCommit PROVE ProcType'
  BY <1>15 DEF TypeInv, ProcType, Procs, Phases, BluePhases, GreenPhases, Become, Ends, OpenReplica, LoseCommit
<1>16. ASSUME TakeOver PROVE ProcType'
  BY <1>16 DEF TypeInv, ProcType, Procs, Phases, BluePhases, GreenPhases, Become, Ends, OpenReplica, TakeOver
<1>17. ASSUME CommitDeadline PROVE ProcType'
  BY <1>17 DEF TypeInv, ProcType, Procs, Phases, BluePhases, GreenPhases, Become, Ends, OpenReplica, CommitDeadline
<1>18. ASSUME StopBlue PROVE ProcType'
  BY <1>18 DEF TypeInv, ProcType, Procs, Phases, BluePhases, GreenPhases, Become, Ends, OpenReplica, StopBlue
<1>19. ASSUME Restart PROVE ProcType'
  BY <1>19 DEF TypeInv, ProcType, Procs, Phases, BluePhases, GreenPhases, Become, Ends, OpenReplica, Restart
<1>20. ASSUME UNCHANGED procVars PROVE ProcType'
  BY <1>20 DEF TypeInv, ProcType, procVars
<1> QED
  BY <1>1, <1>2, <1>3, <1>4, <1>5, <1>6, <1>7, <1>8, <1>9, <1>10, <1>11, <1>12, <1>13, <1>14, <1>15, <1>16, <1>17, <1>18, <1>19, <1>20
     DEF Next, vars, procVars, logVars, sspVars, Arrive, Relay, HeldTooLong, Dispatch, Take, LogEvent, Drain, FanOut, TakeBatch, DeliverBatch, Rejoin

LEMMA ReqUpdate ==
    ASSUME ReqType, NEW e \in Events, NEW x \in Request, req' = [req EXCEPT ![e] = x],
           x.st \in {"taking", "acked"} => x.seq # 0,
           x.st = "new" => x.hops = 0, x.at = "blue" => x.hops <= 1
    PROVE  ReqType'
<1>1. req' \in [Events -> Request]
  BY DEF ReqType
<1>2. \A o \in Events : req'[o] = IF o = e THEN x ELSE req[o]
  BY DEF ReqType
<1> QED
  BY <1>1, <1>2 DEF ReqType, RelayedTwice

LEMMA MoveType ==
    ASSUME ReqType, NEW e \in Events, NEW st, Move(e, st),
           st \in {"handler", "failed"} \/ (st = "acked" /\ req[e].st = "taking")
    PROVE  ReqType'
<1> DEFINE x == [req[e] EXCEPT !.st = st]
<1>1. req[e] \in Request
  BY DEF ReqType
<1>2. x \in Request /\ x.st = st /\ x.at = req[e].at /\ x.hops = req[e].hops /\ x.seq = req[e].seq
  BY <1>1 DEF Request
<1>3. req' = [req EXCEPT ![e] = x]
  BY DEF Move
<1> HIDE DEF x
<1>4. x.st \in {"taking", "acked"} => x.seq # 0
  BY <1>2 DEF ReqType
<1>5. x.st # "new" /\ (x.at = "blue" => x.hops <= 1)
  BY <1>2 DEF ReqType, RelayedTwice
<1> QED
  BY <1>2, <1>3, <1>4, <1>5, ReqUpdate

LEMMA FailType ==
    ASSUME ReqType, NEW F,
           req' = [e \in Events |-> IF e \in F THEN [req[e] EXCEPT !.st = "failed"] ELSE req[e]]
    PROVE  ReqType'
<1>1. ASSUME NEW e \in Events
      PROVE  /\ req'[e] \in Request /\ req'[e].st \in {req[e].st, "failed"}
             /\ req'[e].at = req[e].at /\ req'[e].hops = req[e].hops /\ req'[e].seq = req[e].seq
  <2>1. req[e] \in Request
    BY DEF ReqType
  <2>2. req'[e] = IF e \in F THEN [req[e] EXCEPT !.st = "failed"] ELSE req[e]
    OBVIOUS
  <2> QED
    BY <2>1, <2>2 DEF Request
<1>2. req' \in [Events -> Request]
  BY <1>1
<1> QED
  BY <1>1, <1>2 DEF ReqType, RelayedTwice

(* A process that ends takes its requests, its log and its pool with it. *)
LEMMA EndsType ==
    ASSUME TypeInv, NEW p \in Procs, NEW how, Ends(p, how)
    PROVE  ReqType' /\ LogType' /\ SspType'
<1>1. ReqType'
  <2> DEFINE F == {e \in Events : req[e].at = p /\ req[e].st \in {"gate", "handler", "taking"}}
  <2>1. req' = [e \in Events |-> IF e \in F THEN [req[e] EXCEPT !.st = "failed"] ELSE req[e]]
    BY DEF Ends
  <2>2. ReqType
    BY DEF TypeInv
  <2> HIDE DEF F
  <2> QED
    BY <2>1, <2>2, FailType
<1>2. LogType'
  <2>1. EmptyLog \in LogState
    BY HandoverAssumption DEF EmptyLog, LogState
  <2> QED
    BY <2>1, HandoverAssumption DEF Ends, TypeInv, LogType
<1>3. SspType'
  <2>1. pool' = [pool EXCEPT ![p] = NoSsp] /\ fan' = [fan EXCEPT ![p] = <<>>]
        /\ got' = got /\ applied' = applied
    BY DEF Ends
  <2>2. ToSet(fan[p]) \subseteq Events /\ ToSet(pool[p].batch) \subseteq Events
    BY ToSetType DEF TypeInv, SspType, SspState
  <2>3. cut' \subseteq Events
    BY <2>2 DEF Ends, TypeInv, SspType
  <2>4. pool' \in [Procs -> SspState] /\ fan' \in [Procs -> Seq(Events)]
    BY <2>1, NoSspType DEF TypeInv, SspType
  <2>5. \A q \in Procs : pool'[q].batch # <<>> => pool'[q].task
    BY <2>1, NoSspType DEF TypeInv, SspType
  <2> QED
    BY <2>1, <2>3, <2>4, <2>5 DEF TypeInv, SspType
<1> QED
  BY <1>1, <1>2, <1>3

LEMMA RecordsType ==
    ASSUME LogType
    PROVE  Records \subseteq LogRecord /\ \A p \in Procs : Recover(p) \subseteq LogRecord
<1>1. \A f \in Seqs : disk[f] \subseteq LogRecord
  BY DEF LogType
<1>2. ASSUME NEW p \in Procs
      PROVE  log[p].closed \cup ({log[p].active} \ {0}) \subseteq Seqs
  <2>1. log[p] \in LogState
    BY DEF LogType
  <2> QED
    BY <2>1, HandoverAssumption DEF LogState, Seqs
<1> QED
  BY <1>1, <1>2 DEF Records, Recover

LEMMA OpenReplicaType ==
    ASSUME LogType, NEW p \in Procs, OpenReplica(p)
    PROVE  LogType'
<1>1. \A r \in Records : r.seq \in 0 .. MaxSeq
  BY RecordsType, HandoverAssumption DEF LogRecord, Seqs
<1>2. Top(Records, snap) \in 0 .. MaxSeq
  BY <1>1, TopIsMax DEF LogType
<1>3. [closed |-> {f \in Seqs : disk[f] # {}}, active |-> 0] \in LogState
  BY HandoverAssumption DEF LogState
<1>4. {r \in Records : r.seq > snap} \subseteq LogRecord
  BY RecordsType
<1> QED
  BY <1>2, <1>3, <1>4 DEF OpenReplica, LogType

LEMMA ReqTypeStep ==
    TypeInv /\ [Next]_vars => ReqType'
<1> SUFFICES ASSUME TypeInv, [Next]_vars PROVE ReqType'
  OBVIOUS
<1>r. ReqType /\ \A e \in Events : req[e] \in Request
  BY DEF TypeInv, ReqType
<1>1. ASSUME NEW e \in Events, NEW p \in Procs, Arrive(e, p) PROVE ReqType'
  <2> DEFINE x == [req[e] EXCEPT !.st = "gate", !.at = p]
  <2>0. req[e].hops = 0
    BY <1>1, <1>r DEF Arrive, ReqType, RelayedTwice
  <2>1. x \in Request /\ x.st = "gate" /\ x.hops = 0
    BY <2>0, <1>r DEF Request
  <2>2. req' = [req EXCEPT ![e] = x]
    BY <1>1 DEF Arrive
  <2> HIDE DEF x
  <2>3. x.hops <= 1 /\ x.st \notin {"new", "taking", "acked"}
    BY <2>1
  <2> QED
    BY <2>1, <2>2, <2>3, <1>r, ReqUpdate
<1>2. ASSUME NEW e \in Events, Relay(e) PROVE ReqType'
  <2> DEFINE x == [req[e] EXCEPT !.at = Peer(req[e].at), !.hops = @ + 1]
  <2>1. req[e].at \in Procs /\ req[e].hops \in 0 .. 2 /\ req[e].st = "gate"
    BY <1>2, <1>r DEF Request, Relay
  <2>2. req[e].at = "green" => req[e].hops = 0
    BY <1>2 DEF Relay, TypeInv, ProcType, GreenPhases
  <2>3. req[e].at = "blue" => req[e].hops <= 1
    BY DEF TypeInv, ReqType, RelayedTwice
  <2>4. req[e].hops + 1 \in 0 .. 2 /\ Peer(req[e].at) \in Procs
        /\ (Peer(req[e].at) = "blue" => req[e].hops + 1 <= 1)
    BY <2>1, <2>2, <2>3 DEF Peer, Procs
  <2>5. x \in Request /\ x.st = "gate" /\ (x.at = "blue" => x.hops <= 1)
    BY <1>r, <2>1, <2>4 DEF Request
  <2>6. req' = [req EXCEPT ![e] = x]
    BY <1>2 DEF Relay
  <2> HIDE DEF x
  <2> QED
    BY <2>5, <2>6, <1>r, ReqUpdate
<1>3. ASSUME NEW e \in Events, HeldTooLong(e) PROVE ReqType'
  BY <1>3, <1>r, MoveType DEF HeldTooLong
<1>4. ASSUME NEW e \in Events, Dispatch(e) PROVE ReqType'
  BY <1>4, <1>r, MoveType DEF Dispatch
<1>5. ASSUME NEW e \in Events, Take(e) PROVE ReqType'
  <2> DEFINE x == [req[e] EXCEPT !.st = "taking", !.seq = seqc[req[e].at] + 1]
  <2>1. seqc[req[e].at] \in 0 .. MaxSeq /\ seqc[req[e].at] < MaxSeq
    BY <1>5, <1>r DEF Take, Request, TypeInv, LogType
  <2>2. seqc[req[e].at] + 1 \in 0 .. MaxSeq /\ seqc[req[e].at] + 1 # 0
    BY <2>1, HandoverAssumption
  <2>3. x \in Request /\ x.st = "taking" /\ x.seq # 0 /\ x.at = req[e].at
        /\ x.hops = req[e].hops
    BY <1>r, <2>2 DEF Request
  <2>4. req' = [req EXCEPT ![e] = x]
    BY <1>5 DEF Take
  <2> HIDE DEF x
  <2> QED
    BY <2>3, <2>4, <1>r, ReqUpdate DEF ReqType, RelayedTwice
<1>6. ASSUME NEW e \in Events, LogEvent(e) PROVE ReqType'
  BY <1>6, <1>r, MoveType DEF LogEvent
<1>7. ASSUME LockTimeout PROVE ReqType'
  BY <1>7, <1>r, FailType DEF LockTimeout
<1>8. ASSUME NEW p \in Procs, Crash(p) PROVE ReqType'
  BY <1>8, EndsType DEF Crash
<1>9. ASSUME CommitDeadline PROVE ReqType'
  BY <1>9, EndsType DEF CommitDeadline, Procs
<1>10. ASSUME StopBlue PROVE ReqType'
  BY <1>10, EndsType DEF StopBlue, Procs
<1>11. ASSUME UNCHANGED req PROVE ReqType'
  BY <1>11 DEF TypeInv, ReqType, RelayedTwice
<1> QED
  BY <1>1, <1>2, <1>3, <1>4, <1>5, <1>6, <1>7, <1>8, <1>9, <1>10, <1>11
     DEF Next, vars, procVars, logVars, sspVars, Drain, FanOut, TakeBatch, DeliverBatch, Rejoin,
         Booted, Release, CloseReplica, CommitHold, CommitQuiesce, CommitExport, Start, Ask,
         Released, Unreleased, Open, Prepared, LoseCommit, TakeOver, Restart

LEMMA LogTypeStep ==
    TypeInv /\ [Next]_vars => LogType'
<1> SUFFICES ASSUME TypeInv, [Next]_vars PROVE LogType'
  OBVIOUS
<1>t. LogType
  BY DEF TypeInv
<1>1. ASSUME NEW e \in Events, Take(e) PROVE LogType'
  <2>1. req[e].at \in Procs /\ seqc[req[e].at] \in 0 .. MaxSeq /\ seqc[req[e].at] < MaxSeq
    BY <1>1 DEF Take, TypeInv, ReqType, Request, LogType
  <2>2. seqc[req[e].at] + 1 \in 0 .. MaxSeq
    BY <2>1, HandoverAssumption
  <2> QED
    BY <2>1, <2>2, <1>1, <1>t DEF Take, LogType
<1>2. ASSUME NEW e \in Events, LogEvent(e) PROVE LogType'
  <2> DEFINE p == req[e].at
             x == req[e].seq
             f == IF log[p].active = 0 THEN x ELSE log[p].active
  <2>1. p \in Procs /\ x \in Seqs
    BY <1>2, HandoverAssumption DEF LogEvent, TypeInv, ReqType, Request, Seqs
  <2>2. Record(x, e) \in LogRecord
    BY <2>1 DEF Record, LogRecord
  <2>3. f \in Seqs /\ f \in 0 .. MaxSeq /\ log[p] \in LogState
    BY <2>1, <1>t, HandoverAssumption DEF LogType, LogState, Seqs
  <2>4. CASE UNCHANGED <<disk, log, buf>>
    BY <2>4, <1>2, <1>t DEF LogEvent, LogType
  <2>5. CASE /\ disk' = [disk EXCEPT ![f] = @ \cup {Record(x, e)}]
             /\ log' = [log EXCEPT ![p].active = f]
             /\ buf' = [buf EXCEPT ![p] = @ \cup {Record(x, e)}]
    <3>1. disk' \in [Seqs -> SUBSET LogRecord] /\ buf' \in [Procs -> SUBSET LogRecord]
      BY <2>1, <2>2, <2>3, <2>5, <1>t DEF LogType
    <3>2. [log[p] EXCEPT !.active = f] \in LogState
      BY <2>3 DEF LogState
    <3>3. log' \in [Procs -> LogState]
      BY <2>5, <3>2, <1>t DEF LogType
    <3> QED
      BY <3>1, <3>3, <1>2, <1>t DEF LogEvent, LogType
  <2> QED
    BY <2>4, <2>5, <1>2 DEF LogEvent
<1>3. ASSUME NEW p \in Procs, Drain(p) PROVE LogType'
  <2> DEFINE top == Top(buf[p], snap)
             known == log[p].closed \cup ({log[p].active} \ {0})
             gone == {f \in known : Top(disk[f], 0) <= top}
  <2>1. \A r \in buf[p] : r.seq \in 0 .. MaxSeq
    BY <1>t, HandoverAssumption DEF LogType, LogRecord, Seqs
  <2>2. top \in 0 .. MaxSeq
    BY <2>1, <1>t, TopIsMax DEF LogType
  <2>3. snap' = top /\ disk' = [f \in Seqs |-> IF f \in gone THEN {} ELSE disk[f]]
        /\ log' = [log EXCEPT ![p] = [closed |-> known \ gone, active |-> 0]]
        /\ buf' = [buf EXCEPT ![p] = {}] /\ seqc' = seqc
    BY <1>3 DEF Drain
  <2> HIDE DEF top, gone
  <2>4. known \subseteq Seqs
    BY <1>t, HandoverAssumption DEF LogType, LogState, Seqs
  <2>5. [closed |-> known \ gone, active |-> 0] \in LogState
    BY <2>4, HandoverAssumption DEF LogState
  <2> QED
    BY <2>2, <2>3, <2>5, <1>t DEF LogType
<1>4. ASSUME Open PROVE LogType'
  BY <1>4, <1>t, OpenReplicaType DEF Open, Procs
<1>5. ASSUME TakeOver PROVE LogType'
  <2> DEFINE tail == {r \in Recover("green") : r.seq > seqc["green"]}
  <2>1. tail \subseteq LogRecord
    BY <1>t, RecordsType DEF Procs
  <2>2. \A r \in tail : r.seq \in 0 .. MaxSeq
    BY <2>1, HandoverAssumption DEF LogRecord, Seqs
  <2>3. seqc["green"] \in 0 .. MaxSeq
    BY <1>t DEF LogType, Procs
  <2>4. /\ buf' = [buf EXCEPT !["green"] = @ \cup {r \in tail : r.seq > snap}]
        /\ seqc' = [seqc EXCEPT !["green"] = Top(tail, @)]
        /\ UNCHANGED <<disk, log, snap>>
    BY <1>5 DEF TakeOver, CatchUp
  <2> HIDE DEF tail
  <2>5. Top(tail, seqc["green"]) \in 0 .. MaxSeq
    BY <2>2, <2>3, TopIsMax
  <2> QED
    BY <2>1, <2>4, <2>5, <1>t DEF LogType
<1>6. ASSUME Restart PROVE LogType'
  BY <1>6, <1>t, OpenReplicaType DEF Restart, Procs
<1>7. ASSUME NEW p \in Procs, Crash(p) PROVE LogType'
  BY <1>7, EndsType DEF Crash
<1>8. ASSUME CommitDeadline PROVE LogType'
  BY <1>8, EndsType DEF CommitDeadline, Procs
<1>9. ASSUME StopBlue PROVE LogType'
  BY <1>9, EndsType DEF StopBlue, Procs
<1>10. ASSUME UNCHANGED logVars PROVE LogType'
  BY <1>10, <1>t DEF LogType, logVars
<1> QED
  BY <1>1, <1>2, <1>3, <1>4, <1>5, <1>6, <1>7, <1>8, <1>9, <1>10
     DEF Next, vars, Arrive, Relay, HeldTooLong, Dispatch, FanOut, TakeBatch, DeliverBatch,
         Rejoin, Booted, Release, CloseReplica, CommitHold, CommitQuiesce, CommitExport, Start,
         Ask, Released, Unreleased, LockTimeout, Prepared, LoseCommit

(* What the pool of a process becomes. *)
LEMMA PoolUpdate ==
    ASSUME SspType, NEW p \in Procs, NEW x \in SspState, x.batch # <<>> => x.task,
           pool' = [pool EXCEPT ![p] = x]
    PROVE  pool' \in [Procs -> SspState] /\ \A q \in Procs : pool'[q].batch # <<>> => pool'[q].task
<1>1. pool' \in [Procs -> SspState]
  BY DEF SspType
<1>2. \A q \in Procs : pool'[q] = IF q = p THEN x ELSE pool[q]
  BY DEF SspType
<1> QED
  BY <1>1, <1>2 DEF SspType

LEMMA SspTypeStep ==
    TypeInv /\ [Next]_vars => SspType'
<1> SUFFICES ASSUME TypeInv, [Next]_vars PROVE SspType'
  OBVIOUS
<1>t. SspType
  BY DEF TypeInv
<1>p. \A p \in Procs : pool[p] \in SspState /\ (pool[p].batch # <<>> => pool[p].task)
  BY <1>t DEF SspType
<1>n. <<>> \in Seq(Events)
  OBVIOUS
<1>1. ASSUME NEW e \in Events, LogEvent(e) PROVE SspType'
  <2>1. fan' = fan \/ fan' = [fan EXCEPT ![req[e].at] = Append(@, e)]
    BY <1>1 DEF LogEvent
  <2>2. fan' \in [Procs -> Seq(Events)]
    <3>1. req[e].at \in Procs
      BY DEF TypeInv, ReqType, Request
    <3>2. fan[req[e].at] \in Seq(Events)
      BY <3>1, <1>t DEF SspType
    <3>3. Append(fan[req[e].at], e) \in Seq(Events)
      BY <3>2, AppendProperties
    <3> QED
      BY <2>1, <3>3, <1>t DEF SspType
  <2> QED
    BY <2>2, <1>1, <1>t DEF LogEvent, SspType
<1>2. ASSUME NEW p \in Procs, Drain(p) PROVE SspType'
  <2>1. EventsOf(buf[p]) \subseteq Events
    BY DEF EventsOf, TypeInv, LogType, LogRecord
  <2> QED
    BY <1>2, <1>t, <2>1 DEF Drain, sspVars, SspType
<1>3. ASSUME NEW p \in Procs, FanOut(p) PROVE SspType'
  <2> DEFINE e == Head(fan[p])
  <2>1. fan[p] \in Seq(Events) /\ fan[p] # <<>>
    BY <1>3, <1>t DEF FanOut, SspType
  <2>2. e \in Events /\ Tail(fan[p]) \in Seq(Events)
    BY <2>1, HeadTailProperties
  <2>3. fan' \in [Procs -> Seq(Events)] /\ applied' = applied /\ cut' = cut
    BY <2>2, <1>3, <1>t DEF FanOut, SspType
  <2>4. got' \subseteq Events
    BY <2>2, <1>3, <1>t DEF FanOut, SspType
  <2> HIDE DEF e
  <2>5. Append(pool[p].buffer, e) \in Seq(Events)
    BY <2>2, <1>p DEF SspState
  <2>6. CASE pool' = pool
    BY <2>3, <2>4, <2>6, <1>t DEF SspType
  <2>7. CASE pool' = [pool EXCEPT ![p].st = "lagging", ![p].task = TRUE,
                                  ![p].buffer = Append(@, e)]
    <3> DEFINE x == [pool[p] EXCEPT !.st = "lagging", !.task = TRUE,
                                    !.buffer = Append(pool[p].buffer, e)]
    <3>1. x \in SspState /\ (x.batch # <<>> => x.task)
      BY <2>5, <1>p DEF SspState
    <3>2. pool' = [pool EXCEPT ![p] = x]
      BY <2>7, <1>t DEF SspType
    <3> HIDE DEF x
    <3> QED
      BY <2>3, <2>4, <3>1, <3>2, <1>t, PoolUpdate DEF SspType
  <2>8. CASE pool' = [pool EXCEPT ![p].buffer = Append(@, e)]
    <3> DEFINE x == [pool[p] EXCEPT !.buffer = Append(pool[p].buffer, e)]
    <3>1. x \in SspState /\ x.batch = pool[p].batch /\ x.task = pool[p].task
      BY <2>5, <1>p DEF SspState
    <3>2. pool' = [pool EXCEPT ![p] = x]
      BY <2>8, <1>t DEF SspType
    <3> HIDE DEF x
    <3> QED
      BY <2>3, <2>4, <3>1, <3>2, <1>t, <1>p, PoolUpdate DEF SspType
  <2> QED
    BY <2>6, <2>7, <2>8, <1>3 DEF FanOut, e
<1>4. ASSUME NEW p \in Procs, TakeBatch(p) PROVE SspType'
  <2> DEFINE x == IF pool[p].buffer = <<>> THEN [NoSsp EXCEPT !.st = "ready"]
                  ELSE [pool[p] EXCEPT !.batch = pool[p].buffer, !.buffer = <<>>]
  <2>1. x \in SspState
    BY <1>p, <1>n, NoSspType DEF SspState
  <2>2. x.batch # <<>> => x.task
    BY <1>4, <1>p, NoSspType DEF TakeBatch, NoSsp, SspState
  <2>3. pool' = [pool EXCEPT ![p] = x] /\ UNCHANGED <<fan, got, cut, applied>>
    BY <1>4, <1>t DEF TakeBatch, SspType
  <2> HIDE DEF x
  <2> QED
    BY <2>1, <2>2, <2>3, <1>t, PoolUpdate DEF SspType
<1>5. ASSUME NEW p \in Procs, DeliverBatch(p) PROVE SspType'
  <2> DEFINE x == [pool[p] EXCEPT !.batch = <<>>]
  <2>1. x \in SspState /\ x.batch = <<>>
    BY <1>p, <1>n DEF SspState
  <2>2. pool' = [pool EXCEPT ![p] = x] /\ UNCHANGED <<fan, cut, applied>>
    BY <1>5, <1>t DEF DeliverBatch, SspType
  <2>3. got' \subseteq Events
    BY <1>5, <1>p, <1>t, ToSetType DEF DeliverBatch, SspState, SspType
  <2> HIDE DEF x
  <2> QED
    BY <2>1, <2>2, <2>3, <1>t, PoolUpdate DEF SspType
<1>6. ASSUME NEW p \in Procs, Rejoin(p) PROVE SspType'
  <2> DEFINE x == [pool[p] EXCEPT !.st = "ready"]
  <2>1. x \in SspState /\ x.batch = pool[p].batch /\ x.task = pool[p].task
    BY <1>p DEF SspState
  <2>2. pool' = [pool EXCEPT ![p] = x] /\ UNCHANGED <<fan, cut, applied>>
    BY <1>6, <1>t DEF Rejoin, SspType
  <2>3. EventsOf(buf[p]) \subseteq Events
    BY DEF EventsOf, TypeInv, LogType, LogRecord
  <2>4. got' \subseteq Events
    BY <1>6, <1>t, <2>3 DEF Rejoin, SspType
  <2> HIDE DEF x
  <2> QED
    BY <2>1, <2>2, <2>4, <1>t, <1>p, PoolUpdate DEF SspType
<1>7. ASSUME CommitQuiesce PROVE SspType'
  <2> DEFINE x == [pool["blue"] EXCEPT !.task = FALSE, !.batch = <<>>]
  <2>1. x \in SspState /\ x.batch = <<>>
    BY <1>p, <1>n DEF SspState, Procs
  <2>2. pool' = [pool EXCEPT !["blue"] = x] /\ UNCHANGED <<fan, got, applied>>
    BY <1>7, <1>t DEF CommitQuiesce, SspType
  <2>3. cut' \subseteq Events
    BY <1>7, <1>p, <1>t, ToSetType DEF CommitQuiesce, SspState, SspType, Procs
  <2> HIDE DEF x
  <2> QED
    BY <2>1, <2>2, <2>3, <1>t, PoolUpdate DEF SspType, Procs
<1>8. ASSUME TakeOver PROVE SspType'
  <2> DEFINE x == [answer EXCEPT !.task = (answer.st = "lagging")]
  <2>1. x \in SspState /\ x.batch = <<>>
    BY DEF SspState, TypeInv, ProcType
  <2>2. UNCHANGED <<fan, got, cut, applied>>
    BY <1>8 DEF TakeOver
  <2>3. pool' = pool \/ pool' = [pool EXCEPT !["green"] = x]
    BY <1>8, <1>t DEF TakeOver, SspType
  <2> HIDE DEF x
  <2> QED
    BY <2>1, <2>2, <2>3, <1>t, PoolUpdate DEF SspType, Procs
<1>9. ASSUME NEW p \in Procs, Crash(p) PROVE SspType'
  BY <1>9, EndsType DEF Crash
<1>10. ASSUME CommitDeadline PROVE SspType'
  BY <1>10, EndsType DEF CommitDeadline, Procs
<1>11. ASSUME StopBlue PROVE SspType'
  BY <1>11, EndsType DEF StopBlue, Procs
<1>12. ASSUME UNCHANGED <<sspVars, applied>> PROVE SspType'
  BY <1>12, <1>t DEF SspType, sspVars
<1> QED
  BY <1>1, <1>2, <1>3, <1>4, <1>5, <1>6, <1>7, <1>8, <1>9, <1>10, <1>11, <1>12
     DEF Next, vars, Arrive, Relay, HeldTooLong, Dispatch, Take, Booted, Release, CloseReplica,
         CommitHold, CommitExport, Start, Ask, Released, Unreleased, Open, LockTimeout, Prepared,
         LoseCommit, Restart

LEMMA TypeStep == TypeInv /\ [Next]_vars => TypeInv'
BY ProcTypeStep, ReqTypeStep, LogTypeStep, SspTypeStep DEF TypeInv

(* Every reachable state of a hand-over is well typed: each process is in a phase of its own
   side, no request is relayed a third time, and a batch is in the hands of a running
   redelivery task (handover.rs gate, ingest.rs redeliver_to_lagging_ssp). *)
THEOREM TypeCorrect == Spec => []TypeOK
BY TypeInit, TypeStep, TypeInvImpliesTypeOK, PTL DEF Spec

-----------------------------------------------------------------------------
(* Who may do what *)

(* The code's timings keep green's commit from running out under a serving blue ("late"); a
   release whose answer is lost ("release") is the disagreement the model records. *)
Orderly == "late" \notin Faults /\ "release" \notin Faults

LEMMA PhaseInit == Init => PhaseInv
<1> SUFFICES ASSUME Init PROVE PhaseInv
  OBVIOUS
<1>1. TypeInv
  BY TypeInit
<1> QED
  BY <1>1 DEF PhaseInv, Init, Locked, Yielded, InHand, Writer, Procs

LEMMA LockedStep ==
    ASSUME PhaseInv, TypeInv', [Next]_vars, Orderly
    PROVE  Locked'
<1> USE DEF PhaseInv, TypeInv, ProcType, Locked, Procs, Become
<1>1. ASSUME NEW p \in Procs, Booted(p) PROVE Locked'
  BY <1>1 DEF Booted
<1>2. ASSUME NEW p \in Procs, Crash(p) PROVE Locked'
  BY <1>2 DEF Crash, Ends
<1>3. ASSUME Release \/ CloseReplica \/ CommitHold \/ CommitQuiesce \/ CommitExport
      PROVE  Locked'
  BY <1>3 DEF Release, CloseReplica, CommitHold, CommitQuiesce, CommitExport
<1>4. ASSUME Start \/ Ask \/ Released \/ LockTimeout \/ Prepared \/ LoseCommit \/ TakeOver
      PROVE  Locked'
  BY <1>4 DEF Start, Ask, Released, LockTimeout, Prepared, LoseCommit, TakeOver
<1>5. ASSUME Unreleased PROVE Locked'
  BY <1>5 DEF Unreleased
<1>6. ASSUME Open \/ Restart PROVE Locked'
  BY <1>6 DEF Open, Restart, OpenReplica
<1>7. ASSUME CommitDeadline \/ StopBlue PROVE Locked'
  BY <1>7 DEF CommitDeadline, StopBlue, Ends
<1>8. ASSUME UNCHANGED procVars PROVE Locked'
  BY <1>8 DEF procVars
<1> QED
  BY <1>1, <1>2, <1>3, <1>4, <1>5, <1>6, <1>7, <1>8
     DEF Next, vars, Arrive, Relay, HeldTooLong, Dispatch, Take, LogEvent, Drain, FanOut,
         TakeBatch, DeliverBatch, Rejoin

LEMMA YieldedStep ==
    ASSUME PhaseInv, TypeInv', [Next]_vars, Orderly
    PROVE  Yielded'
<1> USE DEF PhaseInv, TypeInv, ProcType, Locked, Yielded, Procs, Become
<1>1. ASSUME NEW p \in Procs, Booted(p) PROVE Yielded'
  BY <1>1 DEF Booted
<1>2. ASSUME NEW p \in Procs, Crash(p) PROVE Yielded'
  BY <1>2 DEF Crash, Ends
<1>3. ASSUME Release \/ CloseReplica \/ CommitHold \/ CommitQuiesce \/ CommitExport
      PROVE  Yielded'
  BY <1>3 DEF Release, CloseReplica, CommitHold, CommitQuiesce, CommitExport, Called
<1>4. ASSUME Start \/ Ask \/ Released \/ LockTimeout \/ Prepared \/ LoseCommit
      PROVE  Yielded'
  BY <1>4 DEF Start, Ask, Released, LockTimeout, Prepared, LoseCommit
<1>5. ASSUME TakeOver PROVE Yielded'
  BY <1>5 DEF TakeOver, Orderly, Fault, Gone
<1>6. ASSUME Unreleased PROVE Yielded'
  BY <1>6 DEF Unreleased, Orderly, Fault, Gone
<1>7. ASSUME Open \/ Restart PROVE Yielded'
  BY <1>7 DEF Open, Restart, OpenReplica
<1>8. ASSUME CommitDeadline \/ StopBlue PROVE Yielded'
  BY <1>8 DEF CommitDeadline, StopBlue, Ends
<1>9. ASSUME UNCHANGED procVars PROVE Yielded'
  BY <1>9 DEF procVars
<1> QED
  BY <1>1, <1>2, <1>3, <1>4, <1>5, <1>6, <1>7, <1>8, <1>9
     DEF Next, vars, Arrive, Relay, HeldTooLong, Dispatch, Take, LogEvent, Drain, FanOut,
         TakeBatch, DeliverBatch, Rejoin

LEMMA InHandStep ==
    ASSUME PhaseInv, TypeInv', [Next]_vars, Orderly
    PROVE  InHand'
<1>t. /\ phase \in [Procs -> Phases] /\ mode \in [Procs -> {"hold", "serve", "forward"}]
      /\ phase["blue"] \in BluePhases /\ phase["green"] \in GreenPhases
      /\ req \in [Events -> Request]
      /\ \A e \in Events : req[e].at \in Procs
  BY DEF PhaseInv, TypeInv, ProcType, ReqType, Request
<1>i. InHand
  BY DEF PhaseInv
<1> USE <1>t, <1>i DEF InHand, Writer, Become, Procs
<1>1. ASSUME NEW e \in Events, NEW p \in Procs, Arrive(e, p) PROVE InHand'
  BY <1>1 DEF Arrive, procVars, Request
<1>2. ASSUME NEW e \in Events, Relay(e) PROVE InHand'
  BY <1>2 DEF Relay, procVars, Request
<1>3. ASSUME NEW e \in Events, HeldTooLong(e) PROVE InHand'
  BY <1>3 DEF HeldTooLong, procVars, Move, Request
<1>4. ASSUME NEW e \in Events, Dispatch(e) PROVE InHand'
  BY <1>4 DEF Dispatch, procVars, Move, Request
<1>5. ASSUME NEW e \in Events, Take(e) PROVE InHand'
  BY <1>5 DEF Take, procVars, Request
<1>6. ASSUME NEW e \in Events, LogEvent(e) PROVE InHand'
  <2>1. Move(e, "failed") \/ Move(e, "acked")
    BY <1>6 DEF LogEvent
  <2>2. phase' = phase /\ mode' = mode
    BY <1>6 DEF LogEvent, procVars
  <2>3. req[e] \in Request
    OBVIOUS
  <2>4. req'[e].st \in {"failed", "acked"} /\ \A o \in Events : o # e => req'[o] = req[o]
    BY <2>1, <2>3 DEF Move, Request
  <2>5. \A o \in Events : req'[o].st \in {"handler", "taking"} => req'[o] = req[o]
    BY <2>4
  <2> QED
    BY <2>2, <2>5
<1>7. ASSUME NEW p \in Procs, Booted(p) PROVE InHand'
  BY <1>7 DEF Booted
<1>8. ASSUME NEW p \in Procs, NEW how \in {"down", "stopped"}, Ends(p, how) PROVE InHand'
  BY <1>8 DEF Ends, Request
<1>9. ASSUME Release \/ CloseReplica \/ CommitHold PROVE InHand'
  BY <1>9 DEF Release, CloseReplica, CommitHold
<1>10. ASSUME CommitQuiesce PROVE InHand'
  BY <1>10 DEF CommitQuiesce, At
<1>11. ASSUME CommitExport PROVE InHand'
  BY <1>11 DEF CommitExport
<1>12. ASSUME Start \/ Ask \/ Released \/ Prepared \/ LoseCommit PROVE InHand'
  BY <1>12 DEF Start, Ask, Released, Prepared, LoseCommit
<1>13. ASSUME Unreleased PROVE InHand'
  BY <1>13 DEF Unreleased
<1>14. ASSUME LockTimeout PROVE InHand'
  BY <1>14 DEF LockTimeout, Request
<1>15. ASSUME Open \/ Restart PROVE InHand'
  BY <1>15 DEF Open, Restart
<1>16. ASSUME TakeOver PROVE InHand'
  BY <1>16 DEF TakeOver
<1>17. ASSUME UNCHANGED <<procVars, req>> PROVE InHand'
  BY <1>17 DEF procVars
<1> QED
  BY <1>1, <1>2, <1>3, <1>4, <1>5, <1>6, <1>7, <1>8, <1>9, <1>10, <1>11, <1>12, <1>13, <1>14,
     <1>15, <1>16, <1>17
     DEF Next, vars, Crash, CommitDeadline, StopBlue, Drain, FanOut, TakeBatch, DeliverBatch,
         Rejoin

LEMMA PhaseStep ==
    ASSUME Orderly
    PROVE  PhaseInv /\ [Next]_vars => PhaseInv'
<1> SUFFICES ASSUME PhaseInv, [Next]_vars PROVE PhaseInv'
  OBVIOUS
<1>1. TypeInv'
  BY TypeStep DEF PhaseInv
<1> QED
  BY <1>1, LockedStep, YieldedStep, InHandStep DEF PhaseInv

(* Two processes never number events at once, and blue is out of the way of a green that has
   opened the replica. *)
LEMMA OneWriter ==
    ASSUME PhaseInv
    PROVE  /\ ~(Writer("blue") /\ Writer("green"))
           /\ ~(Writer("green") /\ Preparing)
           /\ Preparing /\ Writer("blue") => phase["blue"] \in {"released", "holding"}
BY DEF PhaseInv, TypeInv, ProcType, GreenPhases, Locked, Yielded, Writer, Preparing

-----------------------------------------------------------------------------
(* Sequence numbers *)

LEMMA SeqInit == Init => SeqInv
<1> SUFFICES ASSUME Init PROVE SeqInv
  OBVIOUS
<1>1. PhaseInv
  BY PhaseInit
<1>2. \A e \in Events : /\ ~Taking(e) /\ (Acked(e) <=> e \in 1 .. Logged)
                        /\ (Acked(e) => req[e].seq = e)
  BY HandoverAssumption DEF Init, Events, Taking, Acked
<1>3. \A p \in Procs : Writer(p) => p = "blue" /\ seqc[p] = Logged
  BY DEF Init, Writer, Procs
<1>4. snap = 0 /\ ~Preparing
  BY DEF Init, Preparing, Procs
<1>5. Counted
  BY <1>2, <1>3, <1>4, HandoverAssumption DEF Counted
<1>6. Unshared
  BY <1>2 DEF Unshared
<1>7. Recorded
  <2> DEFINE before == {Record(e, e) : e \in 1 .. Logged}
  <2>1. /\ disk = [f \in Seqs |-> IF f = 1 THEN before ELSE {}]
        /\ buf = [p \in Procs |-> IF p = "blue" THEN before ELSE {}]
    BY DEF Init
  <2>2. 1 .. Logged \subseteq Events
    BY HandoverAssumption DEF Events
  <2>3. \A r \in before : Acked(r.event) /\ r = RecordOf(r.event)
    BY <1>2, <2>2 DEF RecordOf, Record
  <2>4. \A e \in 1 .. Logged : RecordOf(e) \in before
    BY <1>2, <2>2 DEF RecordOf
  <2>5. Logged > 0 => 1 \in Seqs
    BY HandoverAssumption DEF Seqs
  <2>6. \A e \in 1 .. Logged : RecordOf(e) \in Records
    BY <2>1, <2>4, <2>5, HandoverAssumption DEF Records
  <2>7. ASSUME NEW p \in Procs, Writer(p), log[p].active # 0 PROVE disk[log[p].active] # {}
    <3>1. Logged > 0 /\ log[p].active = 1
      BY <2>7, <1>3 DEF Init, EmptyLog
    <3> QED
      BY <3>1, <2>1, <2>5, HandoverAssumption
  <2> HIDE DEF before
  <2> QED
    BY <1>2, <2>1, <2>3, <2>6, <2>7 DEF Recorded
<1> QED
  BY <1>1, <1>4, <1>5, <1>6, <1>7 DEF SeqInv, Known

(* A step that numbers and logs nothing, and after which no process numbers events that did
   not do so before. *)
LEMMA QuietSeq ==
    ASSUME SeqInv, PhaseInv', disk' = disk, snap' = snap,
           \A p \in Procs : buf'[p] \subseteq buf[p],
           \A p \in Procs : Writer(p)' =>
               Writer(p) /\ seqc'[p] = seqc[p] /\ log'[p].active = log[p].active,
           Preparing' => Preparing /\ seqc'["green"] = seqc["green"] /\ log'["green"] = log["green"],
           \A e \in Events : /\ (Taking(e) \/ Acked(e))' => req'[e] = req[e]
                             /\ Acked(e) => Acked(e)',
           Preparing' /\ log'["blue"].active = 0 =>
               (At("blue", "handler") \cup At("blue", "taking") = {})'
    PROVE  SeqInv'
<1>1. \A e \in Events : Taking(e)' => Taking(e) /\ Writer(req[e].at)' /\ req[e].at \in Procs
  BY DEF PhaseInv, InHand, Taking, TypeInv, ReqType, Request
<1>2. \A e \in Events : Acked(e)' => Acked(e)
  BY DEF Acked
<1>3. Counted'
  BY <1>1, <1>2 DEF SeqInv, Counted
<1>4. Unshared'
  BY <1>1, <1>2 DEF SeqInv, Unshared
<1>5. \A e \in Events : Acked(e) => RecordOf(e)' = RecordOf(e)
  BY <1>2 DEF RecordOf
<1>6. Recorded'
  <2>1. Records' = Records
    BY DEF Records
  <2>2. \A f \in Seqs : \A r \in disk[f] : r.event \in Events
    BY DEF SeqInv, PhaseInv, TypeInv, LogType, LogRecord
  <2>3. \A p \in Procs : \A r \in buf[p] : r.event \in Events
    BY DEF SeqInv, PhaseInv, TypeInv, LogType, LogRecord
  <2>4. \A f \in Seqs : \A r \in disk'[f] : Acked(r.event)' /\ r = RecordOf(r.event)'
    BY <2>2, <1>5 DEF SeqInv, Recorded
  <2>5. \A p \in Procs : \A r \in buf'[p] : Acked(r.event)' /\ r = RecordOf(r.event)'
    BY <2>3, <1>5 DEF SeqInv, Recorded
  <2>6. \A e \in Events : Acked(e)' => RecordOf(e)' \in Records' \/ req'[e].seq <= snap'
    BY <2>1, <1>2, <1>5 DEF SeqInv, Recorded
  <2>7. \A p \in Procs : Writer(p)' /\ log'[p].active # 0 => disk'[log'[p].active] # {}
    BY DEF SeqInv, Recorded
  <2> QED
    BY <2>4, <2>5, <2>6, <2>7 DEF Recorded
<1>7. Known'
  BY DEF SeqInv, Known, Procs
<1> QED
  BY <1>3, <1>4, <1>6, <1>7 DEF SeqInv

LEMMA TakeSeq ==
    ASSUME SeqInv, PhaseInv', NEW e \in Events, Take(e)
    PROVE  SeqInv'
<1> DEFINE p == req[e].at
           n == seqc[p] + 1
<1>1. /\ req[e].st = "handler" /\ p \in Procs /\ Writer(p)
      /\ seqc[p] \in Nat /\ phase' = phase
      /\ seqc' = [seqc EXCEPT ![p] = n]
      /\ UNCHANGED <<disk, log, buf, snap>>
  BY HandoverAssumption
     DEF Take, SeqInv, PhaseInv, InHand, TypeInv, ReqType, Request, LogType, procVars
<1>2. /\ req'[e].st = "taking" /\ req'[e].seq = n /\ req'[e].at = p
      /\ \A o \in Events : o # e => req'[o] = req[o]
  BY DEF Take, SeqInv, PhaseInv, TypeInv, ReqType, Request
<1>3. /\ \A q \in Procs : seqc'[q] = IF q = p THEN n ELSE seqc[q]
      /\ \A q \in Procs : seqc[q] \in Nat
  BY <1>1, HandoverAssumption DEF SeqInv, PhaseInv, TypeInv, LogType
<1>4. \A q \in Procs : Writer(q) => q = p
  BY <1>1, OneWriter DEF SeqInv, Procs
<1>5. \A o \in Events : /\ req[o].seq \in Nat
                        /\ Taking(o) \/ Acked(o) => o # e /\ req[o].seq <= seqc[p]
                        /\ Taking(o) => req[o].at = p
  <2>1. \A o \in Events : req[o].seq \in Nat /\ req[o].at \in Procs
    BY HandoverAssumption DEF SeqInv, PhaseInv, TypeInv, ReqType, Request
  <2>2. \A o \in Events : Taking(o) => req[o].at = p
    BY <1>4, <2>1 DEF SeqInv, PhaseInv, InHand, Taking
  <2> QED
    BY <1>1, <2>1, <2>2 DEF SeqInv, Counted, Taking, Acked
<1> HIDE DEF p, n
<1>6. n \in Nat /\ n = seqc[p] + 1
  BY <1>1 DEF n
<1>7. /\ Taking(e)' /\ ~Acked(e)'
      /\ \A o \in Events : o # e => (Taking(o)' <=> Taking(o)) /\ (Acked(o)' <=> Acked(o))
  BY <1>2 DEF Taking, Acked
<1>8. /\ \A q \in Procs : Writer(q)' <=> Writer(q)
      /\ Preparing' <=> Preparing
  BY <1>1 DEF Writer, Preparing
<1>9. Counted'
  <2>1. \A o \in Events : Taking(o)' => req'[o].seq <= seqc'[req'[o].at]
    BY <1>1, <1>2, <1>3, <1>5, <1>6, <1>7
  <2>2. \A q \in Procs : Writer(q)' \/ (q = "green" /\ Preparing') => snap' <= seqc'[q]
    <3>1. snap \in Nat
      BY HandoverAssumption DEF SeqInv, PhaseInv, TypeInv, LogType
    <3> QED
      BY <1>1, <1>3, <1>6, <1>8, <3>1 DEF SeqInv, Counted
  <2>3. \A q \in Procs : Writer(q)' => \A o \in Events : Acked(o)' => req'[o].seq <= seqc'[q]
    BY <1>1, <1>2, <1>3, <1>4, <1>5, <1>6, <1>7, <1>8
  <2> QED
    BY <2>1, <2>2, <2>3 DEF Counted
<1>10. Unshared'
  <2>1. \A o \in Events : o # e /\ (Taking(o) \/ Acked(o))' => req'[o].seq # n
    BY <1>1, <1>2, <1>5, <1>6, <1>7
  <2> QED
    BY <1>2, <1>7, <2>1 DEF SeqInv, Unshared
<1>11. \A o \in Events : Acked(o) => Acked(o)' /\ RecordOf(o)' = RecordOf(o)
  BY <1>2, <1>5, <1>7 DEF RecordOf
<1>12. Recorded'
  <2>1. Records' = Records
    BY <1>1 DEF Records
  <2>2. /\ \A f \in Seqs : \A r \in disk[f] : r.event \in Events
        /\ \A q \in Procs : \A r \in buf[q] : r.event \in Events
    BY DEF SeqInv, PhaseInv, TypeInv, LogType, LogRecord
  <2>3. \A o \in Events : Acked(o)' => RecordOf(o)' \in Records' \/ req'[o].seq <= snap'
    BY <1>1, <1>2, <1>7, <1>11, <2>1 DEF SeqInv, Recorded
  <2> QED
    BY <1>1, <1>8, <1>11, <2>2, <2>3 DEF SeqInv, Recorded
<1>13. Known'
  <2> SUFFICES ASSUME Preparing PROVE Known'
    BY <1>8 DEF Known
  <2>1. p = "blue"
    BY <1>1, OneWriter DEF SeqInv, Procs
  <2>2. log["blue"].active # 0
    BY <1>1, <2>1 DEF SeqInv, Known, At, p
  <2>3. Writer("blue")' => seqc'["green"] <= seqc'["blue"]
    BY <1>1, <1>3, <1>6, <1>8, <2>1 DEF SeqInv, Known, Procs
  <2> QED
    BY <1>1, <2>2, <2>3 DEF SeqInv, Known
<1> QED
  BY <1>9, <1>10, <1>12, <1>13 DEF SeqInv

LEMMA LogEventSeq ==
    ASSUME SeqInv, PhaseInv', NEW e \in Events, LogEvent(e)
    PROVE  SeqInv'
<1> DEFINE p == req[e].at
           x == req[e].seq
           f == IF log[p].active = 0 THEN x ELSE log[p].active
<1>1. /\ Taking(e) /\ p \in Procs /\ Writer(p) /\ x \in Seqs /\ x \in Nat
      /\ phase' = phase /\ snap' = snap /\ seqc' = seqc
  BY HandoverAssumption
     DEF LogEvent, SeqInv, PhaseInv, InHand, TypeInv, ReqType, Request, procVars, Taking, Seqs
<1>2. /\ \A q \in Procs : Writer(q)' <=> Writer(q)
      /\ Preparing' <=> Preparing
  BY <1>1 DEF Writer, Preparing
<1>3. \A q \in Procs : Writer(q) => q = p
  BY <1>1, OneWriter DEF SeqInv, Procs
<1>4. CASE Move(e, "failed") /\ UNCHANGED <<disk, log, buf>>
  <2>1. /\ req'[e].st = "failed" /\ req'[e].at = req[e].at
        /\ \A o \in Events : o # e => req'[o] = req[o]
    BY <1>4 DEF Move, SeqInv, PhaseInv, TypeInv, ReqType, Request
  <2>2. \A o \in Events : /\ (Taking(o) \/ Acked(o))' => req'[o] = req[o]
                          /\ Acked(o) => Acked(o)'
    BY <1>1, <2>1 DEF Taking, Acked
  <2>3. Preparing' /\ log'["blue"].active = 0 =>
            (At("blue", "handler") \cup At("blue", "taking") = {})'
    BY <1>2, <1>4, <2>1 DEF SeqInv, Known, At
  <2> QED
    BY <1>1, <1>2, <1>4, <2>2, <2>3, QuietSeq
<1>5. CASE /\ Move(e, "acked")
           /\ disk' = [disk EXCEPT ![f] = @ \cup {Record(x, e)}]
           /\ log' = [log EXCEPT ![p].active = f]
           /\ buf' = [buf EXCEPT ![p] = @ \cup {Record(x, e)}]
  <2>1. /\ req'[e].st = "acked" /\ req'[e].at = p /\ req'[e].seq = x
        /\ \A o \in Events : o # e => req'[o] = req[o]
    BY <1>5 DEF Move, SeqInv, PhaseInv, TypeInv, ReqType, Request
  <2>2. /\ Acked(e)' /\ ~Taking(e)' /\ ~Acked(e)
        /\ \A o \in Events : o # e => (Taking(o)' <=> Taking(o)) /\ (Acked(o)' <=> Acked(o))
    BY <2>1, <1>1 DEF Taking, Acked
  <2>3. /\ RecordOf(e)' = Record(x, e)
        /\ \A o \in Events : o # e => RecordOf(o)' = RecordOf(o)
    BY <2>1 DEF RecordOf
  <2>4. f \in Seqs /\ f # 0 /\ log[p] \in LogState
    BY <1>1, HandoverAssumption DEF SeqInv, PhaseInv, TypeInv, LogType, LogState, Seqs
  <2>5. /\ \A g \in Seqs : disk'[g] = IF g = f THEN disk[g] \cup {Record(x, e)} ELSE disk[g]
        /\ \A q \in Procs : buf'[q] = IF q = p THEN buf[q] \cup {Record(x, e)} ELSE buf[q]
    BY <1>5 DEF SeqInv, PhaseInv, TypeInv, LogType
  <2>6. /\ log'[p].active = f /\ log'[p].closed = log[p].closed
        /\ \A q \in Procs : q # p => log'[q] = log[q]
    BY <1>1, <1>5, <2>4 DEF SeqInv, PhaseInv, TypeInv, LogType, LogState
  <2>7. Record(x, e).event = e
    BY DEF Record
  <2>8. Preparing => p = "blue" /\ log["blue"].active # 0 /\ f = log["blue"].active
    <3>1. Preparing => p = "blue"
      BY <1>1, OneWriter DEF SeqInv, Procs
    <3> QED
      BY <1>1, <3>1 DEF SeqInv, Known, At, Taking
  <2> HIDE DEF f, x, p
  <2>9. Counted'
    <3>1. x <= seqc[p]
      BY <1>1 DEF SeqInv, Counted, p, x
    <3> QED
      BY <1>1, <1>2, <1>3, <2>1, <2>2, <3>1 DEF SeqInv, Counted
  <2>10. Unshared'
    <3>1. x = req[e].seq
      BY DEF x
    <3> QED
      BY <1>1, <2>1, <2>2, <3>1 DEF SeqInv, Unshared
  <2>11. Recorded'
    <3>1. /\ \A g \in Seqs : \A r \in disk[g] : r.event \in Events /\ r.event # e
          /\ \A q \in Procs : \A r \in buf[q] : r.event \in Events /\ r.event # e
      BY <2>2 DEF SeqInv, PhaseInv, TypeInv, LogType, LogRecord, Recorded
    <3>2. ASSUME NEW g \in Seqs, NEW r \in disk'[g]
          PROVE  Acked(r.event)' /\ r = RecordOf(r.event)'
      <4>1. CASE r \in disk[g]
        BY <4>1, <2>2, <2>3, <3>1 DEF SeqInv, Recorded
      <4>2. CASE r = Record(x, e)
        BY <4>2, <2>2, <2>3, <2>7
      <4> QED
        BY <4>1, <4>2, <2>5
    <3>3. ASSUME NEW q \in Procs, NEW r \in buf'[q]
          PROVE  Acked(r.event)' /\ r = RecordOf(r.event)'
      <4>1. CASE r \in buf[q]
        BY <4>1, <2>2, <2>3, <3>1 DEF SeqInv, Recorded
      <4>2. CASE r = Record(x, e)
        BY <4>2, <2>2, <2>3, <2>7
      <4> QED
        BY <4>1, <4>2, <2>5
    <3>4. Records \subseteq Records' /\ Record(x, e) \in Records'
      BY <2>4, <2>5 DEF Records
    <3>5. \A o \in Events : Acked(o)' => RecordOf(o)' \in Records' \/ req'[o].seq <= snap'
      BY <1>1, <2>1, <2>2, <2>3, <3>4 DEF SeqInv, Recorded
    <3>6. \A q \in Procs : Writer(q)' /\ log'[q].active # 0 => disk'[log'[q].active] # {}
      BY <1>2, <1>3, <2>4, <2>5, <2>6
    <3> QED
      BY <3>2, <3>3, <3>5, <3>6 DEF Recorded
  <2>12. Known'
    <3> SUFFICES ASSUME Preparing PROVE Known'
      BY <1>2 DEF Known
    <3>1. log'["green"] = log["green"] /\ log'["blue"].active # 0
      BY <2>4, <2>6, <2>8 DEF Procs
    <3>2. disk[f] # {}
      BY <1>1, <2>8 DEF SeqInv, Recorded
    <3>3. \A g \in Seqs : disk'[g] # {} => g \in log["green"].closed
      BY <2>5, <3>2 DEF SeqInv, Known
    <3> QED
      BY <1>1, <1>2, <3>1, <3>3 DEF SeqInv, Known, Procs
  <2> QED
    BY <2>9, <2>10, <2>11, <2>12 DEF SeqInv
<1> QED
  BY <1>4, <1>5 DEF LogEvent

LEMMA DrainSeq ==
    ASSUME SeqInv, PhaseInv', NEW p \in Procs, Drain(p)
    PROVE  /\ SeqInv'
           /\ snap' = snap \/ \E e \in Events : Acked(e) /\ snap' = req[e].seq
<1> DEFINE top == Top(buf[p], snap)
           known == log[p].closed \cup ({log[p].active} \ {0})
           gone == {f \in known : Top(disk[f], 0) <= top}
<1>1. /\ phase[p] = "active" /\ UNCHANGED <<phase, req, seqc>> /\ snap' = top
      /\ disk' = [f \in Seqs |-> IF f \in gone THEN {} ELSE disk[f]]
      /\ log' = [log EXCEPT ![p] = [closed |-> known \ gone, active |-> 0]]
      /\ buf' = [buf EXCEPT ![p] = {}]
  BY DEF Drain, procVars
<1>2. Writer(p) /\ ~Preparing /\ ~Preparing' /\ \A q \in Procs : Writer(q)' <=> Writer(q)
  BY <1>1, OneWriter DEF SeqInv, Writer, Preparing, Procs, PhaseInv, Locked
<1>3. \A q \in Procs : Writer(q) => q = p
  BY <1>2, OneWriter DEF SeqInv, Procs
<1>4. /\ \A r \in buf[p] : r.seq \in 0 .. MaxSeq /\ r.event \in Events
      /\ \A f \in Seqs : \A r \in disk[f] : r.seq \in 0 .. MaxSeq /\ r.event \in Events
      /\ snap \in 0 .. MaxSeq /\ 0 \in 0 .. MaxSeq /\ known \subseteq Seqs /\ seqc[p] \in Nat
  BY HandoverAssumption DEF SeqInv, PhaseInv, TypeInv, LogType, LogRecord, LogState, Seqs
<1>5. /\ top \in {r.seq : r \in buf[p]} \cup {snap} /\ top \in 0 .. MaxSeq
      /\ snap <= top /\ \A r \in buf[p] : r.seq <= top
  BY <1>4, TopIsMax
<1>6. \A f \in gone : f \in Seqs /\ \A r \in disk[f] : r.seq <= top
  <2> SUFFICES ASSUME NEW f \in gone, NEW r \in disk[f] PROVE f \in Seqs /\ r.seq <= top
    BY <1>4
  <2>1. f \in Seqs /\ Top(disk[f], 0) <= top
    BY <1>4
  <2>2. r.seq <= Top(disk[f], 0) /\ Top(disk[f], 0) \in 0 .. MaxSeq
    BY <1>4, <2>1, TopIsMax
  <2> QED
    BY <1>4, <1>5, <2>1, <2>2
<1> HIDE DEF top, known, gone
<1>7. \A r \in buf[p] : r.seq <= seqc[p]
  <2> TAKE r \in buf[p]
  <2>1. r.event \in Events /\ Acked(r.event) /\ r.seq = req[r.event].seq
    BY <1>4 DEF SeqInv, Recorded, RecordOf, Record
  <2> QED
    BY <1>2, <2>1 DEF SeqInv, Counted
<1>8. top <= seqc[p]
  BY <1>2, <1>5, <1>7 DEF SeqInv, Counted
<1>9. \A f \in Seqs : disk'[f] \subseteq disk[f] /\ (f \notin gone => disk'[f] = disk[f])
  BY <1>1
<1>10. /\ \A q \in Procs : buf'[q] \subseteq buf[q]
       /\ log'[p].active = 0
  BY <1>1 DEF SeqInv, PhaseInv, TypeInv, LogType
<1>11. \A e \in Events : /\ Taking(e)' <=> Taking(e)
                         /\ Acked(e)' <=> Acked(e)
                         /\ RecordOf(e)' = RecordOf(e)
  BY <1>1 DEF Taking, Acked, RecordOf
<1>12. Counted'
  <2>1. \A q \in Procs : Writer(q)' => snap' <= seqc'[q]
    BY <1>1, <1>2, <1>3, <1>8
  <2> QED
    BY <1>1, <1>2, <1>11, <2>1 DEF SeqInv, Counted
<1>13. Unshared'
  BY <1>1, <1>11 DEF SeqInv, Unshared
<1>14. Recorded'
  <2>1. \A f \in Seqs : \A r \in disk'[f] : Acked(r.event)' /\ r = RecordOf(r.event)'
    BY <1>4, <1>9, <1>11 DEF SeqInv, Recorded
  <2>2. \A q \in Procs : \A r \in buf'[q] : Acked(r.event)' /\ r = RecordOf(r.event)'
    <3>1. \A q \in Procs : \A r \in buf[q] : r.event \in Events
      BY DEF SeqInv, PhaseInv, TypeInv, LogType, LogRecord
    <3> QED
      BY <1>10, <1>11, <3>1 DEF SeqInv, Recorded
  <2>3. ASSUME NEW e \in Events, Acked(e)
        PROVE  RecordOf(e) \in Records' \/ req[e].seq <= top
    <3>1. CASE req[e].seq <= snap
      <4>1. req[e].seq \in Nat
        BY HandoverAssumption DEF SeqInv, PhaseInv, TypeInv, ReqType, Request
      <4> QED
        BY <1>4, <1>5, <3>1, <4>1
    <3>2. CASE RecordOf(e) \in Records
      <4>1. PICK f \in Seqs : RecordOf(e) \in disk[f]
        BY <3>2 DEF Records
      <4>2. CASE f \in gone
        BY <1>6, <4>1, <4>2 DEF RecordOf, Record
      <4>3. CASE f \notin gone
        BY <1>9, <4>1, <4>3 DEF Records
      <4> QED
        BY <4>2, <4>3
    <3> QED
      BY <2>3, <3>1, <3>2 DEF SeqInv, Recorded
  <2>4. \A q \in Procs : Writer(q)' => log'[q].active = 0
    BY <1>2, <1>3, <1>10
  <2> QED
    BY <1>1, <1>11, <2>1, <2>2, <2>3, <2>4 DEF Recorded
<1>15. snap' = snap \/ \E e \in Events : Acked(e) /\ snap' = req[e].seq
  BY <1>1, <1>4, <1>5 DEF SeqInv, Recorded, RecordOf, Record
<1> QED
  BY <1>2, <1>12, <1>13, <1>14, <1>15 DEF SeqInv, Known

(* A process opens the replica: its counter is past everything in the log and the snapshot. *)
LEMMA OpenReplicaSeq ==
    ASSUME SeqInv, NEW p \in Procs, OpenReplica(p)
    PROVE  /\ UNCHANGED <<disk, snap>>
           /\ log'[p] = [closed |-> {f \in Seqs : disk[f] # {}}, active |-> 0]
           /\ seqc'[p] \in Nat /\ snap <= seqc'[p]
           /\ seqc'[p] = snap \/ \E e \in Events : Acked(e) /\ seqc'[p] = req[e].seq
           /\ \A e \in Events : Acked(e) => req[e].seq <= seqc'[p]
           /\ buf'[p] = {r \in Records : r.seq > snap}
           /\ \A q \in Procs : q # p =>
                 seqc'[q] = seqc[q] /\ log'[q] = log[q] /\ buf'[q] = buf[q]
<1>1. /\ UNCHANGED <<disk, snap>>
      /\ log'[p] = [closed |-> {f \in Seqs : disk[f] # {}}, active |-> 0]
      /\ seqc'[p] = Top(Records, snap)
      /\ buf'[p] = {r \in Records : r.seq > snap}
      /\ \A q \in Procs : q # p =>
            seqc'[q] = seqc[q] /\ log'[q] = log[q] /\ buf'[q] = buf[q]
  BY DEF OpenReplica, SeqInv, PhaseInv, TypeInv, LogType
<1>2. /\ \A r \in Records : r.seq \in 0 .. MaxSeq /\ r.event \in Events
      /\ snap \in 0 .. MaxSeq
  BY RecordsType, HandoverAssumption DEF SeqInv, PhaseInv, TypeInv, LogType, LogRecord, Seqs
<1>3. /\ Top(Records, snap) \in {r.seq : r \in Records} \cup {snap}
      /\ Top(Records, snap) \in 0 .. MaxSeq
      /\ snap <= Top(Records, snap) /\ \A r \in Records : r.seq <= Top(Records, snap)
  BY <1>2, TopIsMax
<1>4. \A r \in Records : Acked(r.event) /\ r.seq = req[r.event].seq
  BY DEF SeqInv, Recorded, Records, RecordOf, Record
<1>5. \A e \in Events : Acked(e) => req[e].seq <= Top(Records, snap)
  <2> SUFFICES ASSUME NEW e \in Events, Acked(e) PROVE req[e].seq <= Top(Records, snap)
    OBVIOUS
  <2>1. req[e].seq \in Nat
    BY HandoverAssumption DEF SeqInv, PhaseInv, TypeInv, ReqType, Request
  <2>2. RecordOf(e) \in Records => req[e].seq <= Top(Records, snap)
    BY <1>3 DEF RecordOf, Record
  <2> QED
    BY <1>2, <1>3, <2>1, <2>2 DEF SeqInv, Recorded
<1> QED
  BY <1>1, <1>2, <1>3, <1>4, <1>5

(* A process that opens the replica numbers events after those of its predecessor, or
   prepares behind a predecessor that opens no further segment. *)
LEMMA OpenSeq ==
    ASSUME SeqInv, PhaseInv', NEW p \in Procs, OpenReplica(p), req' = req,
           \A q \in Procs : q # p => (Writer(q)' <=> Writer(q)),
           \A e \in Events : Taking(e) => req[e].at # p,
           Preparing' => /\ p = "green"
                         /\ log["blue"].active = 0 =>
                               At("blue", "handler") \cup At("blue", "taking") = {}
    PROVE  SeqInv'
<1>1. /\ UNCHANGED <<disk, snap>>
      /\ log'[p] = [closed |-> {f \in Seqs : disk[f] # {}}, active |-> 0]
      /\ seqc'[p] \in Nat /\ snap <= seqc'[p]
      /\ seqc'[p] = snap \/ \E e \in Events : Acked(e) /\ seqc'[p] = req[e].seq
      /\ \A e \in Events : Acked(e) => req[e].seq <= seqc'[p]
      /\ buf'[p] = {r \in Records : r.seq > snap}
      /\ \A q \in Procs : q # p =>
            seqc'[q] = seqc[q] /\ log'[q] = log[q] /\ buf'[q] = buf[q]
  BY OpenReplicaSeq
<1>2. \A e \in Events : /\ Taking(e)' <=> Taking(e)
                        /\ Acked(e)' <=> Acked(e)
                        /\ RecordOf(e)' = RecordOf(e)
                        /\ req[e].at \in Procs
  BY DEF Taking, Acked, RecordOf, SeqInv, PhaseInv, TypeInv, ReqType, Request
<1>3. Records' = Records
  BY <1>1 DEF Records
<1>4. Counted'
  <2>1. \A e \in Events : Taking(e)' => req'[e].seq <= seqc'[req'[e].at]
    BY <1>1, <1>2 DEF SeqInv, Counted
  <2>2. \A q \in Procs : Writer(q)' \/ (q = "green" /\ Preparing') => snap' <= seqc'[q]
    BY <1>1 DEF SeqInv, Counted
  <2>3. \A q \in Procs : Writer(q)' => \A e \in Events : Acked(e)' => req'[e].seq <= seqc'[q]
    BY <1>1, <1>2 DEF SeqInv, Counted
  <2> QED
    BY <2>1, <2>2, <2>3 DEF Counted
<1>5. Unshared'
  BY <1>2 DEF SeqInv, Unshared
<1>6. Recorded'
  <2>1. /\ \A f \in Seqs : \A r \in disk[f] : r.event \in Events
        /\ \A q \in Procs : \A r \in buf[q] : r.event \in Events
        /\ \A r \in Records : r.event \in Events
    BY RecordsType DEF SeqInv, PhaseInv, TypeInv, LogType, LogRecord
  <2>2. \A f \in Seqs : \A r \in disk'[f] : Acked(r.event)' /\ r = RecordOf(r.event)'
    BY <1>1, <1>2, <2>1 DEF SeqInv, Recorded
  <2>3. \A r \in Records : Acked(r.event) /\ r = RecordOf(r.event)
    BY DEF SeqInv, Recorded, Records
  <2>4. ASSUME NEW q \in Procs, NEW r \in buf'[q]
        PROVE  Acked(r.event)' /\ r = RecordOf(r.event)'
    <3>1. CASE q = p
      BY <1>1, <1>2, <2>1, <2>3, <3>1
    <3>2. CASE q # p
      BY <1>1, <1>2, <2>1, <3>2 DEF SeqInv, Recorded
    <3> QED
      BY <3>1, <3>2
  <2>5. \A e \in Events : Acked(e)' => RecordOf(e)' \in Records' \/ req'[e].seq <= snap'
    BY <1>1, <1>2, <1>3 DEF SeqInv, Recorded
  <2>6. \A q \in Procs : Writer(q)' /\ log'[q].active # 0 => disk'[log'[q].active] # {}
    BY <1>1 DEF SeqInv, Recorded
  <2> QED
    BY <2>2, <2>4, <2>5, <2>6 DEF Recorded
<1>7. Known'
  <2> SUFFICES ASSUME Preparing' PROVE Known'
    BY DEF Known
  <2>1. p = "green" /\ log'["blue"] = log["blue"] /\ seqc'["blue"] = seqc["blue"]
    BY <1>1 DEF Procs
  <2>2. Writer("blue")' => seqc'["green"] <= seqc'["blue"]
    BY <1>1, <2>1 DEF SeqInv, Counted, Procs
  <2>3. log["blue"].active = 0 => (At("blue", "handler") \cup At("blue", "taking") = {})'
    BY DEF At
  <2> QED
    BY <1>1, <2>1, <2>2, <2>3 DEF Known
<1> QED
  BY <1>4, <1>5, <1>6, <1>7 DEF SeqInv

(* Who else may be at work when a process opens the replica: only a blue that has released
   it, and only next to a green that prepares. *)
LEMMA OpenAlone ==
    ASSUME SeqInv, PhaseInv', "quiet" \notin Faults
    PROVE  /\ Open => /\ phase'["blue"] = phase["blue"]
                      /\ \A e \in Events : Taking(e) => req[e].at # "green"
                      /\ Preparing' /\ log["blue"].active = 0 =>
                            At("blue", "handler") \cup At("blue", "taking") = {}
           /\ Restart => /\ phase'["green"] = phase["green"] /\ ~Preparing'
                         /\ \A e \in Events : ~Taking(e)
<1>1. /\ phase \in [Procs -> Phases] /\ phase["green"] \in GreenPhases
      /\ phase["blue"] \in BluePhases
      /\ \A e \in Events : req[e].at \in Procs
  BY DEF SeqInv, PhaseInv, TypeInv, ProcType, ReqType, Request
<1>2. ASSUME Open PROVE /\ phase'["blue"] = phase["blue"]
                        /\ \A e \in Events : Taking(e) => req[e].at # "green"
                        /\ Preparing' /\ log["blue"].active = 0 =>
                              At("blue", "handler") \cup At("blue", "taking") = {}
  <2>1. phase'["blue"] = phase["blue"] /\ lock = "none"
    BY <1>1, <1>2 DEF Open, Become, OpenReplica, Procs
  <2>2. \A e \in Events : Taking(e) => req[e].at # "green"
    BY <1>2 DEF Open, SeqInv, PhaseInv, InHand, Taking, Writer
  <2>3. ASSUME Preparing', log["blue"].active = 0
        PROVE  At("blue", "handler") \cup At("blue", "taking") = {}
    <3>1. phase["green"] = "opening" /\ (SegmentSeen \/ At("blue", "handler") \cup At("blue", "taking") = {})
      BY <1>1, <1>2, <2>3 DEF Open, Become, Preparing, Procs
    <3>2. phase["blue"] \in {"down", "stopped", "released"}
      BY <1>1, <2>1, <3>1 DEF SeqInv, PhaseInv, Locked, Yielded, BluePhases
    <3>3. CASE phase["blue"] # "released"
      BY <3>2, <3>3 DEF SeqInv, PhaseInv, InHand, Writer, At
    <3> QED
      BY <2>3, <3>1, <3>3 DEF SegmentSeen
  <2> QED
    BY <2>1, <2>2, <2>3
<1>3. ASSUME Restart PROVE /\ phase'["green"] = phase["green"] /\ ~Preparing'
                           /\ \A e \in Events : ~Taking(e)
  <2>1. phase'["green"] = phase["green"] /\ lock = "none" /\ phase["blue"] = "down"
    BY <1>1, <1>3 DEF Restart, Become, OpenReplica, Procs
  <2>2. ~Writer("blue") /\ ~Writer("green") /\ ~Preparing'
    BY <1>1, <2>1 DEF SeqInv, PhaseInv, Locked, Writer, Preparing, GreenPhases
  <2> QED
    BY <1>1, <2>1, <2>2 DEF SeqInv, PhaseInv, InHand, Taking, Procs
<1> QED
  BY <1>2, <1>3

LEMMA OpenStepSeq ==
    ASSUME SeqInv, PhaseInv', "quiet" \notin Faults, Open \/ Restart
    PROVE  SeqInv'
<1>1. CASE Open
  <2>1. OpenReplica("green") /\ req' = req
    BY <1>1 DEF Open
  <2>2. \A q \in Procs : q # "green" => (Writer(q)' <=> Writer(q))
    BY <1>1, OpenAlone DEF Writer, Procs
  <2> QED
    BY <1>1, <2>1, <2>2, OpenAlone, OpenSeq DEF Procs
<1>2. CASE Restart
  <2>1. OpenReplica("blue") /\ req' = req
    BY <1>2 DEF Restart
  <2>2. \A q \in Procs : q # "blue" => (Writer(q)' <=> Writer(q))
    BY <1>2, OpenAlone DEF Writer, Procs
  <2> QED
    BY <1>2, <2>1, <2>2, OpenAlone, OpenSeq DEF Procs
<1> QED
  BY <1>1, <1>2

(* Green takes over: what it reads of the log is all of it, and nobody else numbers events. *)
LEMMA TakeOverFacts ==
    ASSUME SeqInv, PhaseInv', TakeOver
    PROVE  /\ UNCHANGED <<disk, log, snap, req, applied>> /\ ~Preparing' /\ Preparing
           /\ \A e \in Events : ~Taking(e)
           /\ ~Writer("blue")' /\ phase'["green"] = "active" /\ phase'["blue"] = phase["blue"]
           /\ seqc'["blue"] = seqc["blue"] /\ buf'["blue"] = buf["blue"]
           /\ seqc'["green"] \in Nat /\ seqc["green"] <= seqc'["green"]
           /\ \A r \in Records : r.seq <= seqc'["green"]
           /\ buf'["green"] =
                 buf["green"] \cup {r \in Records : r.seq > seqc["green"] /\ r.seq > snap}
<1> DEFINE tail == {r \in Recover("green") : r.seq > seqc["green"]}
<1>1. /\ phase \in [Procs -> Phases] /\ seqc \in [Procs -> 0 .. MaxSeq]
      /\ buf \in [Procs -> SUBSET LogRecord] /\ MaxSeq \in Nat
      /\ \A e \in Events : req[e].at \in Procs
  BY HandoverAssumption
     DEF SeqInv, PhaseInv, TypeInv, ProcType, LogType, ReqType, Request
<1>2. /\ UNCHANGED <<disk, log, snap, req, applied>>
      /\ phase["green"] = "committing" /\ phase'["green"] = "active"
      /\ phase'["blue"] = phase["blue"]
      /\ buf' = [buf EXCEPT !["green"] = @ \cup {r \in tail : r.seq > snap}]
      /\ seqc' = [seqc EXCEPT !["green"] = Top(tail, @)]
  BY <1>1 DEF TakeOver, Become, CatchUp, Procs
<1>3. Preparing /\ ~Preparing' /\ Writer("green")' /\ ~Writer("green")
  BY <1>2 DEF Preparing, Writer
<1>4. ~Writer("blue")' /\ ~Writer("blue")
  BY <1>2 DEF PhaseInv, Locked, Yielded, Writer
<1>5. \A e \in Events : ~Taking(e)
  BY <1>1, <1>3, <1>4 DEF SeqInv, PhaseInv, InHand, Taking, Procs
<1>6. Recover("green") = Records
  <2>1. log["green"].closed \subseteq Seqs /\ log["green"].active = 0
    BY <1>3 DEF SeqInv, PhaseInv, TypeInv, LogType, LogState, Known, Procs
  <2>2. \A f \in Seqs : disk[f] # {} => f \in log["green"].closed
    BY <1>3 DEF SeqInv, Known
  <2>3. Recover("green") \subseteq Records
    BY <2>1 DEF Recover, Records
  <2>4. Records \subseteq Recover("green")
    BY <2>2 DEF Recover, Records
  <2> QED
    BY <2>3, <2>4
<1>7. \A r \in Records : r.seq \in 0 .. MaxSeq
  BY <1>1, RecordsType DEF SeqInv, PhaseInv, TypeInv, LogRecord, Seqs
<1>8. \A r \in tail : r.seq \in 0 .. MaxSeq
  BY <1>6, <1>7
<1>9. seqc["green"] \in 0 .. MaxSeq
  BY <1>1 DEF Procs
<1>10. /\ Top(tail, seqc["green"]) \in 0 .. MaxSeq
       /\ seqc["green"] <= Top(tail, seqc["green"])
       /\ \A r \in tail : r.seq <= Top(tail, seqc["green"])
  BY <1>8, <1>9, TopIsMax
<1>11. seqc'["green"] = Top(tail, seqc["green"]) /\ seqc'["blue"] = seqc["blue"]
  BY <1>1, <1>2 DEF Procs
<1>12. /\ buf'["green"] = buf["green"] \cup {r \in tail : r.seq > snap}
       /\ buf'["blue"] = buf["blue"]
  BY <1>1, <1>2 DEF Procs
<1>13. \A r \in Records : r.seq <= seqc'["green"]
  BY <1>1, <1>6, <1>7, <1>9, <1>10, <1>11
<1> QED
  BY <1>1, <1>2, <1>3, <1>4, <1>5, <1>6, <1>10, <1>11, <1>12, <1>13

LEMMA TakeOverSeq ==
    ASSUME SeqInv, PhaseInv', TakeOver
    PROVE  SeqInv'
<1>1. \A e \in Events : /\ ~Taking(e)'
                        /\ Acked(e)' <=> Acked(e)
                        /\ RecordOf(e)' = RecordOf(e)
                        /\ req[e].seq \in Nat
  BY TakeOverFacts, HandoverAssumption
     DEF Taking, Acked, RecordOf, SeqInv, PhaseInv, TypeInv, ReqType, Request
<1>2. /\ snap \in Nat /\ seqc["green"] \in Nat /\ snap <= seqc["green"]
      /\ ~Writer("green")
  BY TakeOverFacts, HandoverAssumption, OneWriter
     DEF SeqInv, Counted, PhaseInv, TypeInv, LogType, Procs
<1>3. Counted'
  <2>1. snap' <= seqc'["green"]
    BY <1>2, TakeOverFacts
  <2>2. ASSUME NEW e \in Events, Acked(e) PROVE req[e].seq <= seqc'["green"]
    <3>1. CASE req[e].seq <= snap
      BY <3>1, <1>1, <1>2, TakeOverFacts
    <3>2. CASE RecordOf(e) \in Records
      BY <3>2, TakeOverFacts DEF RecordOf, Record
    <3> QED
      BY <2>2, <3>1, <3>2 DEF SeqInv, Recorded
  <2> QED
    BY <1>1, <2>1, <2>2, TakeOverFacts DEF Counted, Procs
<1>4. Unshared'
  BY <1>1, TakeOverFacts DEF SeqInv, Unshared
<1>5. Recorded'
  <2>1. Records' = Records
    BY TakeOverFacts DEF Records
  <2>2. /\ \A f \in Seqs : \A r \in disk[f] : r.event \in Events
        /\ \A q \in Procs : \A r \in buf[q] : r.event \in Events
        /\ \A r \in Records : r.event \in Events
    BY RecordsType DEF SeqInv, PhaseInv, TypeInv, LogType, LogRecord
  <2>3. \A r \in Records : Acked(r.event) /\ r = RecordOf(r.event)
    BY DEF SeqInv, Recorded, Records
  <2>4. ASSUME NEW q \in Procs, NEW r \in buf'[q]
        PROVE  Acked(r.event)' /\ r = RecordOf(r.event)'
    <3>1. r \in buf[q] \/ r \in Records
      BY TakeOverFacts DEF Procs
    <3> QED
      BY <1>1, <2>2, <2>3, <3>1 DEF SeqInv, Recorded
  <2>5. \A f \in Seqs : \A r \in disk'[f] : Acked(r.event)' /\ r = RecordOf(r.event)'
    BY <1>1, <2>2, TakeOverFacts DEF SeqInv, Recorded
  <2>6. \A e \in Events : Acked(e)' => RecordOf(e)' \in Records' \/ req'[e].seq <= snap'
    BY <1>1, <2>1, TakeOverFacts DEF SeqInv, Recorded
  <2>7. \A q \in Procs : Writer(q)' => log'[q].active = 0
    BY TakeOverFacts DEF SeqInv, Known, Procs
  <2> QED
    BY <2>4, <2>5, <2>6, <2>7 DEF Recorded
<1> QED
  BY <1>3, <1>4, <1>5, TakeOverFacts DEF SeqInv, Known

(* What every other step does to the log, as far as the invariants can tell. *)
Quiet ==
    /\ UNCHANGED <<disk, snap, applied>>
    /\ \A p \in Procs : buf'[p] \subseteq buf[p]
    /\ \A p \in Procs : Writer(p)' => /\ Writer(p) /\ seqc'[p] = seqc[p] /\ buf'[p] = buf[p]
                                      /\ log'[p].active = log[p].active
    /\ \A p \in Procs : phase'[p] \in {"booting", "active"} => phase[p] \in {"booting", "active"}
    /\ Preparing' => /\ Preparing /\ seqc'["green"] = seqc["green"]
                     /\ log'["green"] = log["green"] /\ buf'["green"] = buf["green"]
    /\ \A e \in Events : /\ (Taking(e) \/ Acked(e))' => req'[e] = req[e]
                         /\ Acked(e) => Acked(e)'
    /\ Preparing' /\ log'["blue"].active = 0 =>
           (At("blue", "handler") \cup At("blue", "taking") = {})'

LEMMA EndsQuiet ==
    ASSUME SeqInv, PhaseInv', NEW p \in Procs, NEW how \in {"down", "stopped"}, Ends(p, how)
    PROVE  Quiet
<1>1. /\ phase \in [Procs -> Phases] /\ log \in [Procs -> LogState]
      /\ seqc \in [Procs -> 0 .. MaxSeq] /\ buf \in [Procs -> SUBSET LogRecord]
      /\ req \in [Events -> Request] /\ \A e \in Events : req[e].at \in Procs
  BY DEF SeqInv, PhaseInv, TypeInv, ProcType, LogType, ReqType, Request
<1>2. /\ phase'[p] = how /\ buf'[p] = {} /\ UNCHANGED <<disk, snap, applied>>
      /\ \A q \in Procs : q # p => /\ phase'[q] = phase[q] /\ seqc'[q] = seqc[q]
                                   /\ log'[q] = log[q] /\ buf'[q] = buf[q]
  BY <1>1 DEF Ends, Become
<1>3. \A e \in Events : \/ req'[e] = req[e]
                        \/ /\ req[e].st \in {"gate", "handler", "taking"}
                           /\ req'[e].st = "failed"
  BY <1>1 DEF Ends, Request
<1>4. \A e \in Events : req'[e].st \in {"handler", "taking"} => req'[e] = req[e] /\ req[e].at # p
  BY <1>1, <1>3 DEF Ends
<1>5. ~Writer(p)' /\ \A q \in Procs : q # p => (Writer(q)' <=> Writer(q))
  BY <1>2 DEF Writer
<1>6. Preparing' => Preparing /\ p # "green"
  BY <1>2 DEF Preparing, Procs
<1>7. \A e \in Events : /\ (Taking(e) \/ Acked(e))' => req'[e] = req[e]
                        /\ Acked(e) => Acked(e)'
  BY <1>3 DEF Taking, Acked
<1>8. ASSUME Preparing', log'["blue"].active = 0
      PROVE  (At("blue", "handler") \cup At("blue", "taking") = {})'
  BY <1>4, <1>6, <1>8 DEF At, Procs
<1>9. \A q \in Procs : buf'[q] \subseteq buf[q]
  BY <1>2
<1>10. \A q \in Procs : phase'[q] \in {"booting", "active"} => phase[q] \in {"booting", "active"}
  BY <1>2
<1>11. "green" \in Procs
  BY DEF Procs
<1> QED
  BY <1>2, <1>5, <1>6, <1>7, <1>8, <1>9, <1>10, <1>11 DEF Quiet

(* A step of the requests at the gates. *)
LEMMA GateQuiet ==
    ASSUME SeqInv, PhaseInv', UNCHANGED <<phase, logVars, applied>>, NEW e \in Events,
           \A o \in Events : o # e => req'[o] = req[o],
           req[e].st \notin {"taking", "acked"}, req'[e].st \notin {"taking", "acked"},
           Preparing /\ log["blue"].active = 0 => ~(req'[e].st = "handler" /\ req'[e].at = "blue")
    PROVE  Quiet
<1>1. \A o \in Events : /\ (Taking(o) \/ Acked(o))' => req'[o] = req[o]
                        /\ Acked(o) => Acked(o)'
  BY DEF Taking, Acked
<1>2. /\ \A p \in Procs : Writer(p)' <=> Writer(p)
      /\ Preparing' <=> Preparing
  BY DEF Writer, Preparing
<1>3. Preparing' /\ log'["blue"].active = 0 =>
          (At("blue", "handler") \cup At("blue", "taking") = {})'
  BY <1>2 DEF logVars, SeqInv, Known, At
<1> QED
  BY <1>1, <1>2, <1>3 DEF Quiet, logVars

LEMMA QuietStep ==
    ASSUME SeqInv, PhaseInv', [Next]_vars, "quiet" \notin Faults
    PROVE  \/ Quiet
           \/ \E e \in Events : Take(e) \/ LogEvent(e)
           \/ \E p \in Procs : Drain(p)
           \/ Open \/ Restart \/ TakeOver
<1>t. /\ phase \in [Procs -> Phases] /\ phase["green"] \in GreenPhases
      /\ phase["blue"] \in BluePhases
      /\ req \in [Events -> Request] /\ \A e \in Events : req[e].at \in Procs
  BY DEF SeqInv, PhaseInv, TypeInv, ProcType, ReqType, Request
<1>1. ASSUME NEW e \in Events, NEW p \in Procs, Arrive(e, p) PROVE Quiet
  <2>1. /\ UNCHANGED <<phase, logVars, applied>> /\ req[e].st = "new" /\ req'[e].st = "gate"
        /\ \A o \in Events : o # e => req'[o] = req[o]
    BY <1>1, <1>t DEF Arrive, procVars, Request
  <2> QED
    BY <2>1, GateQuiet
<1>2. ASSUME NEW e \in Events, Relay(e) PROVE Quiet
  <2>1. /\ UNCHANGED <<phase, logVars, applied>> /\ req[e].st = "gate" /\ req'[e].st = "gate"
        /\ \A o \in Events : o # e => req'[o] = req[o]
    BY <1>2, <1>t DEF Relay, procVars, Request
  <2> QED
    BY <2>1, GateQuiet
<1>3. ASSUME NEW e \in Events, HeldTooLong(e) PROVE Quiet
  <2>1. /\ UNCHANGED <<phase, logVars, applied>> /\ req[e].st = "gate" /\ req'[e].st = "failed"
        /\ \A o \in Events : o # e => req'[o] = req[o]
    BY <1>3, <1>t DEF HeldTooLong, Move, procVars, Request
  <2> QED
    BY <2>1, GateQuiet
<1>4. ASSUME NEW e \in Events, Dispatch(e) PROVE Quiet
  <2>1. /\ UNCHANGED <<phase, logVars, applied>> /\ req[e].st = "gate" /\ req'[e].st = "handler"
        /\ req'[e].at = req[e].at
        /\ \A o \in Events : o # e => req'[o] = req[o]
    BY <1>4, <1>t DEF Dispatch, Move, procVars, Request
  <2>2. ASSUME Preparing, req[e].at = "blue" PROVE log["blue"].active # 0
    <3>1. SegmentSeen /\ mode["blue"] = "serve"
      BY <1>4, <2>2 DEF Dispatch, SegmentKnown, Preparing
    <3>2. phase["blue"] = "released"
      BY <2>2, <3>1 DEF SeqInv, PhaseInv, InHand, Locked, Preparing, Procs
    <3> QED
      BY <3>1, <3>2 DEF SegmentSeen
  <2> QED
    BY <2>1, <2>2, GateQuiet
<1>5. ASSUME NEW p \in Procs, Crash(p) PROVE Quiet
  BY <1>5, EndsQuiet DEF Crash
<1>6. ASSUME CommitDeadline \/ StopBlue PROVE Quiet
  BY <1>6, EndsQuiet DEF CommitDeadline, StopBlue, Procs
<1>7. ASSUME LockTimeout PROVE Quiet
  <2>1. /\ UNCHANGED <<logVars, applied>> /\ phase["green"] \in {"opening", "direct"}
        /\ phase' = [phase EXCEPT !["green"] = "down"]
    BY <1>7 DEF LockTimeout, Become
  <2>2. phase'["green"] = "down" /\ phase'["blue"] = phase["blue"]
    BY <2>1, <1>t DEF Procs
  <2>3. \A e \in Events : \/ req'[e] = req[e]
                          \/ req[e].st = "gate" /\ req'[e].st = "failed"
    BY <1>7, <1>t DEF LockTimeout, At, Request
  <2>4. \A e \in Events : /\ (Taking(e) \/ Acked(e))' => req'[e] = req[e]
                          /\ Acked(e) => Acked(e)'
    BY <2>3 DEF Taking, Acked
  <2> QED
    BY <2>1, <2>2, <2>4 DEF Quiet, logVars, Writer, Preparing, Procs
<1>8. ASSUME UNCHANGED <<req, logVars, applied>>,
             \A p \in Procs : Writer(p)' => Writer(p),
             \A p \in Procs : phase'[p] \in {"booting", "active"} =>
                                 phase[p] \in {"booting", "active"},
             Preparing' => Preparing
      PROVE  Quiet
  <2>1. \A e \in Events : /\ (Taking(e) \/ Acked(e))' => req'[e] = req[e]
                          /\ Acked(e) => Acked(e)'
    BY <1>8 DEF Acked
  <2>2. Preparing' /\ log'["blue"].active = 0 =>
            (At("blue", "handler") \cup At("blue", "taking") = {})'
    BY <1>8 DEF logVars, SeqInv, Known, At
  <2> QED
    BY <1>8, <2>1, <2>2 DEF Quiet, logVars
<1>9. ASSUME NEW p \in Procs, Booted(p) PROVE Quiet
  <2>1. /\ UNCHANGED <<req, logVars, applied>> /\ phase[p] = "booting" /\ phase'[p] = "active"
        /\ \A q \in Procs : q # p => phase'[q] = phase[q]
    BY <1>9, <1>t DEF Booted
  <2> QED
    BY <2>1, <1>8 DEF Writer, Preparing, Procs
<1>10. ASSUME Release \/ CloseReplica \/ CommitHold \/ CommitQuiesce \/ CommitExport PROVE Quiet
  <2>1. /\ UNCHANGED <<req, logVars, applied>> /\ phase'["green"] = phase["green"]
        /\ Writer("blue")' => Writer("blue")
        /\ phase'["blue"] \in {"booting", "active"} => phase["blue"] \in {"booting", "active"}
    BY <1>10, <1>t DEF Release, CloseReplica, CommitHold, CommitQuiesce, CommitExport, Become,
                       Writer, Procs
  <2> QED
    BY <2>1, <1>8 DEF Writer, Preparing, Procs
<1>11. ASSUME Start \/ Ask \/ Released \/ Unreleased \/ Prepared \/ LoseCommit PROVE Quiet
  <2>1. /\ UNCHANGED <<req, logVars, applied>> /\ phase'["blue"] = phase["blue"]
        /\ Writer("green")' => Writer("green")
        /\ phase'["green"] \in {"booting", "active"} => phase["green"] \in {"booting", "active"}
        /\ Preparing' => Preparing
    BY <1>11, <1>t DEF Start, Ask, Released, Unreleased, Prepared, LoseCommit, Become, Writer,
                       Preparing, Procs
  <2> QED
    BY <2>1, <1>8 DEF Writer, Procs
<1>12. ASSUME UNCHANGED <<phase, req, logVars, applied>> PROVE Quiet
  BY <1>8, <1>12 DEF Writer, Preparing
<1>13. ASSUME NEW p \in Procs, FanOut(p) \/ TakeBatch(p) \/ DeliverBatch(p) \/ Rejoin(p)
       PROVE  Quiet
  BY <1>12, <1>13 DEF FanOut, TakeBatch, DeliverBatch, Rejoin, procVars
<1>14. ASSUME UNCHANGED vars PROVE Quiet
  BY <1>12, <1>14 DEF vars, procVars
<1> QED
  BY <1>1, <1>2, <1>3, <1>4, <1>5, <1>6, <1>7, <1>9, <1>10, <1>11, <1>13, <1>14 DEF Next

LEMMA SeqStep ==
    ASSUME Orderly, "quiet" \notin Faults
    PROVE  SeqInv /\ [Next]_vars => SeqInv'
<1> SUFFICES ASSUME SeqInv, [Next]_vars PROVE SeqInv'
  OBVIOUS
<1>1. PhaseInv'
  BY PhaseStep DEF SeqInv
<1>2. CASE Quiet
  BY <1>1, <1>2, QuietSeq DEF Quiet
<1> QED
  BY <1>1, <1>2, QuietStep, TakeSeq, LogEventSeq, DrainSeq, OpenStepSeq, TakeOverSeq

(* Blue and green never run the background loops at once, and no two records of the log carry
   one sequence number, whatever crashes and whichever other answers are lost on the way, in
   every hand-over in which green's commit ends after blue's, the answer to the release
   arrives and the segment blue writes to is one green saw when it opened the log
   (handover.rs request_commit, lib.rs commit_handover and catch_up_wal). *)
THEOREM SchedulersTakeTurns ==
    ASSUME Orderly, "quiet" \notin Faults
    PROVE  Spec => []OneScheduler
<1>1. SeqInv => OneScheduler
  <2> SUFFICES ASSUME SeqInv PROVE OneScheduler
    OBVIOUS
  <2>1. ~(Runs("blue") /\ Runs("green"))
    BY OneWriter DEF SeqInv, Runs, Writer
  <2>2. \A r \in Records : /\ r.event \in Events /\ Acked(r.event)
                           /\ r = RecordOf(r.event) /\ r.seq = req[r.event].seq
    <3>1. \A r \in Records : r.event \in Events
      BY RecordsType DEF SeqInv, PhaseInv, TypeInv, LogRecord
    <3> QED
      BY <3>1 DEF SeqInv, Recorded, Records, RecordOf, Record
  <2>3. \A r, q \in Records : r.seq = q.seq => r = q
    BY <2>2 DEF SeqInv, Unshared
  <2> QED
    BY <2>1, <2>3 DEF OneScheduler
<1> QED
  BY <1>1, SeqInit, SeqStep, PTL DEF Spec

-----------------------------------------------------------------------------
(* The backlog *)

LEMMA QuietBacklog ==
    ASSUME BacklogInv, SeqInv', Quiet
    PROVE  BacklogInv'
<1>1. \A e \in Events : /\ Taking(e)' => Taking(e) /\ req'[e] = req[e]
                        /\ Acked(e)' <=> Acked(e)
                        /\ Acked(e) => req'[e] = req[e] /\ RecordOf(e)' = RecordOf(e)
  BY DEF Quiet, Taking, Acked, RecordOf
<1>2. Records' = Records
  BY DEF Quiet, Records
<1>3. Ordered'
  BY <1>1 DEF BacklogInv, Ordered, Quiet
<1>4. Durable'
  BY <1>1, <1>2 DEF BacklogInv, Durable, Quiet
<1>5. Buffered'
  BY <1>1 DEF BacklogInv, Buffered, Quiet, Writer
<1>6. Behind'
  BY <1>1 DEF BacklogInv, Behind, Quiet
<1> QED
  BY <1>3, <1>4, <1>5, <1>6 DEF BacklogInv

LEMMA BacklogInit == Init => BacklogInv
<1> SUFFICES ASSUME Init PROVE BacklogInv
  OBVIOUS
<1>1. SeqInv
  BY SeqInit
<1>2. \A e \in Events : /\ ~Taking(e) /\ (Acked(e) <=> e \in 1 .. Logged)
                        /\ (Acked(e) => req[e].seq = e)
  BY HandoverAssumption DEF Init, Events, Taking, Acked
<1>3. Durable
  <2>1. snap = 0
    BY DEF Init
  <2> QED
    BY <1>1, <1>2, <2>1, HandoverAssumption DEF SeqInv, Recorded, Durable
<1>4. Buffered
  <2>1. /\ \A p \in Procs : phase[p] \in {"booting", "active"} => p = "blue"
        /\ buf["blue"] = {Record(e, e) : e \in 1 .. Logged}
    BY DEF Init, Procs
  <2>2. \A e \in 1 .. Logged : Record(e, e) \in buf["blue"] /\ Record(e, e).event = e
    BY <2>1 DEF Record
  <2>3. \A e \in 1 .. Logged : e \in EventsOf(buf["blue"])
    BY <2>2 DEF EventsOf
  <2> QED
    BY <1>2, <2>1, <2>3 DEF Buffered
<1>5. ~Preparing
  BY DEF Init, Preparing, Procs
<1> QED
  BY <1>1, <1>2, <1>3, <1>4, <1>5 DEF BacklogInv, Ordered, Behind

LEMMA TakeBacklog ==
    ASSUME BacklogInv, SeqInv', NEW e \in Events, Take(e)
    PROVE  BacklogInv'
<1> DEFINE p == req[e].at
           n == seqc[p] + 1
<1>1. /\ req[e].st = "handler" /\ p \in Procs /\ Writer(p)
      /\ seqc[p] \in Nat /\ phase' = phase
      /\ seqc' = [seqc EXCEPT ![p] = n]
      /\ UNCHANGED <<disk, log, buf, snap, applied>>
  BY HandoverAssumption
     DEF Take, BacklogInv, SeqInv, PhaseInv, InHand, TypeInv, ReqType, Request, LogType, procVars
<1>2. /\ req'[e].st = "taking" /\ req'[e].seq = n
      /\ \A o \in Events : o # e => req'[o] = req[o]
  BY DEF Take, BacklogInv, SeqInv, PhaseInv, TypeInv, ReqType, Request
<1>3. /\ ~Acked(e) /\ ~Acked(e)'
      /\ \A o \in Events : o # e => (Taking(o)' <=> Taking(o)) /\ (Acked(o)' <=> Acked(o))
      /\ \A o \in Events : o # e => RecordOf(o)' = RecordOf(o)
  BY <1>1, <1>2 DEF Taking, Acked, RecordOf
<1>4. /\ snap \in Nat /\ \A o \in Events : req[o].seq \in Nat
      /\ snap <= seqc[p] /\ \A o \in Events : Acked(o) => req[o].seq <= seqc[p]
  BY <1>1, HandoverAssumption
     DEF BacklogInv, SeqInv, Counted, PhaseInv, TypeInv, LogType, ReqType, Request
<1>5. Preparing => p = "blue" /\ seqc'["green"] = seqc["green"] /\ seqc["green"] \in Nat
                   /\ seqc["green"] <= seqc[p]
  <2>1. Preparing => p = "blue"
    BY <1>1, OneWriter DEF BacklogInv, SeqInv, Procs
  <2>2. seqc["green"] \in Nat
    BY HandoverAssumption DEF BacklogInv, SeqInv, PhaseInv, TypeInv, LogType, Procs
  <2> QED
    BY <1>1, <2>1, <2>2 DEF BacklogInv, SeqInv, Known, Procs, PhaseInv, TypeInv, LogType
<1>6. n \in Nat /\ seqc[p] < n
  BY <1>1
<1> HIDE DEF p, n
<1>7. Records' = Records
  BY <1>1 DEF Records
<1>8. Ordered'
  <2>1. ASSUME NEW o \in Events, Taking(o)', o # e
        PROVE  snap' < req'[o].seq /\ \A i \in Events : Acked(i)' => req'[i].seq < req'[o].seq
    BY <1>1, <1>2, <1>3, <2>1 DEF BacklogInv, Ordered
  <2>2. snap' < n /\ \A i \in Events : Acked(i)' => req'[i].seq < n
    BY <1>1, <1>2, <1>3, <1>4, <1>6
  <2> QED
    BY <1>2, <2>1, <2>2 DEF Ordered
<1>9. Durable'
  BY <1>1, <1>2, <1>3, <1>7 DEF BacklogInv, Durable
<1>10. Buffered'
  BY <1>1, <1>3 DEF BacklogInv, Buffered
<1>11. Behind'
  <2> SUFFICES ASSUME Preparing, NEW o \in Events
               PROVE  /\ Acked(o)' => \/ o \in applied' \/ RecordOf(o)' \in buf'["green"]
                                      \/ seqc'["green"] < req'[o].seq
                      /\ Taking(o)' => seqc'["green"] < req'[o].seq
    BY <1>1 DEF Behind, Preparing
  <2>1. CASE o = e
    BY <1>1, <1>2, <1>3, <1>5, <1>6, <2>1
  <2>2. CASE o # e
    BY <1>1, <1>2, <1>3, <1>5, <2>2 DEF BacklogInv, Behind
  <2> QED
    BY <2>1, <2>2
<1> QED
  BY <1>8, <1>9, <1>10, <1>11 DEF BacklogInv

LEMMA LogEventBacklog ==
    ASSUME BacklogInv, SeqInv', NEW e \in Events, LogEvent(e), "overtake" \notin Faults
    PROVE  BacklogInv'
<1> DEFINE p == req[e].at
           x == req[e].seq
           f == IF log[p].active = 0 THEN x ELSE log[p].active
<1>1. /\ Taking(e) /\ p \in Procs /\ Writer(p) /\ x \in Seqs /\ x \in Nat
      /\ UNCHANGED <<phase, snap, seqc, applied>>
  BY HandoverAssumption
     DEF LogEvent, BacklogInv, SeqInv, PhaseInv, InHand, TypeInv, ReqType, Request, procVars,
         Taking, Seqs
<1>2. \A q \in Procs : Writer(q) => q = p
  BY <1>1, OneWriter DEF BacklogInv, SeqInv, Procs
<1>3. CASE Move(e, "failed") /\ UNCHANGED <<disk, log, buf>>
  <2>1. /\ req'[e].st = "failed"
        /\ \A o \in Events : o # e => req'[o] = req[o]
    BY <1>3 DEF Move, BacklogInv, SeqInv, PhaseInv, TypeInv, ReqType, Request
  <2>2. \A o \in Events : /\ Taking(o)' => Taking(o) /\ req'[o] = req[o]
                          /\ Acked(o)' => Acked(o) /\ req'[o] = req[o] /\ RecordOf(o)' = RecordOf(o)
    BY <2>1 DEF Taking, Acked, RecordOf
  <2>3. Records' = Records
    BY <1>3 DEF Records
  <2>4. Ordered' /\ Durable'
    BY <1>1, <2>2, <2>3 DEF BacklogInv, Ordered, Durable
  <2>5. Buffered'
    BY <1>1, <1>3, <2>2 DEF BacklogInv, Buffered
  <2>6. Behind'
    BY <1>1, <1>3, <2>2 DEF BacklogInv, Behind, Preparing
  <2> QED
    BY <2>4, <2>5, <2>6 DEF BacklogInv
<1>4. CASE /\ Move(e, "acked")
           /\ disk' = [disk EXCEPT ![f] = @ \cup {Record(x, e)}]
           /\ buf' = [buf EXCEPT ![p] = @ \cup {Record(x, e)}]
  <2>1. /\ req'[e].st = "acked" /\ req'[e].seq = x
        /\ \A o \in Events : o # e => req'[o] = req[o]
    BY <1>4 DEF Move, BacklogInv, SeqInv, PhaseInv, TypeInv, ReqType, Request
  <2>2. /\ ~Taking(e)' /\ RecordOf(e)' = Record(x, e) /\ Record(x, e).event = e
        /\ \A o \in Events : o # e => /\ Taking(o)' <=> Taking(o)
                                      /\ Acked(o)' <=> Acked(o)
                                      /\ RecordOf(o)' = RecordOf(o)
    BY <2>1 DEF Taking, Acked, RecordOf, Record
  <2>3. f \in Seqs
    BY <1>1, HandoverAssumption
       DEF BacklogInv, SeqInv, PhaseInv, TypeInv, LogType, LogState, Seqs
  <2>4. /\ \A g \in Seqs : disk[g] \subseteq disk'[g]
        /\ Record(x, e) \in disk'[f]
        /\ \A q \in Procs : buf[q] \subseteq buf'[q]
        /\ Record(x, e) \in buf'[p]
    BY <1>1, <1>4, <2>3 DEF BacklogInv, SeqInv, PhaseInv, TypeInv, LogType
  <2>5. Records \subseteq Records' /\ Record(x, e) \in Records'
    BY <2>3, <2>4 DEF Records
  <2>6. \A o \in Events : Taking(o) /\ o # e => x < req[o].seq
    <3> SUFFICES ASSUME NEW o \in Events, Taking(o), o # e PROVE x < req[o].seq
      OBVIOUS
    <3>1. req[o].at \in Procs /\ req[o].seq \in Nat
      BY HandoverAssumption DEF BacklogInv, SeqInv, PhaseInv, TypeInv, ReqType, Request
    <3>2. req[o].at = p
      BY <1>2, <3>1 DEF BacklogInv, SeqInv, PhaseInv, InHand, Taking
    <3>3. x <= req[o].seq
      BY <3>2 DEF LogEvent, At, Taking
    <3>4. x # req[o].seq
      BY <1>1 DEF BacklogInv, SeqInv, Unshared
    <3> QED
      BY <1>1, <3>1, <3>3, <3>4
  <2>7. snap < x /\ (Preparing => seqc["green"] < x)
    BY <1>1 DEF BacklogInv, Ordered, Behind
  <2> HIDE DEF f, x, p
  <2>8. Ordered'
    BY <1>1, <2>1, <2>2, <2>6 DEF BacklogInv, Ordered
  <2>9. Durable'
    BY <1>1, <2>1, <2>2, <2>5, <2>7 DEF BacklogInv, Durable
  <2>10. Buffered'
    <3> SUFFICES ASSUME NEW q \in Procs, phase[q] \in {"booting", "active"}, NEW o \in Events,
                        Acked(o)'
                 PROVE  o \in applied \cup EventsOf(buf'[q])
      BY <1>1 DEF Buffered
    <3>1. q = p
      BY <1>2 DEF Writer
    <3>2. EventsOf(buf[q]) \subseteq EventsOf(buf'[q])
      BY <2>4 DEF EventsOf
    <3>3. o = e => o \in EventsOf(buf'[q])
      BY <2>2, <2>4, <3>1 DEF EventsOf
    <3> QED
      BY <2>2, <3>2, <3>3 DEF BacklogInv, Buffered
  <2>11. Behind'
    <3> SUFFICES ASSUME Preparing, NEW o \in Events
                 PROVE  /\ Acked(o)' => \/ o \in applied' \/ RecordOf(o)' \in buf'["green"]
                                        \/ seqc'["green"] < req'[o].seq
                        /\ Taking(o)' => seqc'["green"] < req'[o].seq
      BY <1>1 DEF Behind, Preparing
    <3>1. CASE o = e
      BY <1>1, <2>1, <2>2, <2>7, <3>1
    <3>2. CASE o # e
      BY <1>1, <2>1, <2>2, <2>4, <3>2 DEF BacklogInv, Behind, Procs
    <3> QED
      BY <3>1, <3>2
  <2> QED
    BY <2>8, <2>9, <2>10, <2>11 DEF BacklogInv
<1> QED
  BY <1>3, <1>4 DEF LogEvent

LEMMA DrainBacklog ==
    ASSUME BacklogInv, SeqInv', NEW p \in Procs, Drain(p)
    PROVE  BacklogInv'
<1>1. /\ phase[p] = "active" /\ UNCHANGED <<phase, req, seqc>>
      /\ applied' = applied \cup EventsOf(buf[p])
  BY DEF Drain, procVars
<1>2. \A e \in Events : /\ Taking(e)' <=> Taking(e)
                        /\ Acked(e)' <=> Acked(e)
  BY <1>1 DEF Taking, Acked
<1>3. \A e \in Events : Acked(e)' => e \in applied'
  BY <1>1, <1>2 DEF BacklogInv, Buffered
<1>4. ~Preparing'
  BY <1>1, OneWriter
     DEF BacklogInv, SeqInv, PhaseInv, Locked, Writer, Preparing, Procs
<1>5. snap' = snap \/ \E e \in Events : Acked(e) /\ snap' = req[e].seq
  BY DrainSeq DEF BacklogInv, SeqInv
<1>6. Ordered'
  BY <1>1, <1>2, <1>5 DEF BacklogInv, Ordered
<1> QED
  BY <1>3, <1>4, <1>6 DEF BacklogInv, Durable, Buffered, Behind

LEMMA OpenBacklog ==
    ASSUME BacklogInv, SeqInv', NEW p \in Procs, OpenReplica(p), UNCHANGED <<req, applied>>,
           \A q \in Procs : q # p => phase'[q] = phase[q],
           Preparing' => p = "green"
    PROVE  BacklogInv'
<1>1. /\ UNCHANGED <<disk, snap>>
      /\ seqc'[p] = snap \/ \E e \in Events : Acked(e) /\ seqc'[p] = req[e].seq
      /\ buf'[p] = {r \in Records : r.seq > snap}
      /\ \A q \in Procs : q # p => buf'[q] = buf[q]
  BY OpenReplicaSeq DEF BacklogInv
<1>2. \A e \in Events : /\ Taking(e)' <=> Taking(e)
                        /\ Acked(e)' <=> Acked(e)
                        /\ RecordOf(e)' = RecordOf(e)
  BY DEF Taking, Acked, RecordOf
<1>3. Records' = Records
  BY <1>1 DEF Records
<1>4. \A e \in Events : Acked(e) => e \in applied \/ RecordOf(e) \in buf'[p]
  <2>1. \A e \in Events : RecordOf(e).seq = req[e].seq
    BY DEF RecordOf, Record
  <2>2. snap \in Nat /\ \A e \in Events : req[e].seq \in Nat
    BY HandoverAssumption
       DEF BacklogInv, SeqInv, PhaseInv, TypeInv, LogType, ReqType, Request
  <2> QED
    BY <1>1, <2>1, <2>2 DEF BacklogInv, Durable
<1>5. Ordered' /\ Durable'
  BY <1>1, <1>2, <1>3 DEF BacklogInv, Ordered, Durable
<1>6. Buffered'
  <2>1. \A e \in Events : RecordOf(e) \in buf'[p] => e \in EventsOf(buf'[p])
    BY DEF EventsOf, RecordOf, Record
  <2> QED
    BY <1>1, <1>2, <1>4, <2>1 DEF BacklogInv, Buffered
<1>7. Behind'
  <2> SUFFICES ASSUME Preparing' PROVE Behind'
    BY DEF Behind
  <2>1. \A e \in Events : Taking(e) => seqc'["green"] < req[e].seq
    BY <1>1 DEF BacklogInv, Ordered
  <2> QED
    BY <1>2, <1>4, <2>1 DEF Behind
<1> QED
  BY <1>5, <1>6, <1>7 DEF BacklogInv

LEMMA TakeOverBacklog ==
    ASSUME BacklogInv, SeqInv', TakeOver
    PROVE  BacklogInv'
<1>0. SeqInv /\ PhaseInv'
  BY DEF BacklogInv, SeqInv
<1>1. /\ UNCHANGED <<disk, log, snap, req, applied>> /\ ~Preparing' /\ Preparing
      /\ \A e \in Events : ~Taking(e)
      /\ ~Writer("blue")'
      /\ buf'["green"] =
            buf["green"] \cup {r \in Records : r.seq > seqc["green"] /\ r.seq > snap}
  BY <1>0, TakeOverFacts
<1>2. \A e \in Events : /\ ~Taking(e)'
                        /\ Acked(e)' <=> Acked(e)
                        /\ RecordOf(e)' = RecordOf(e)
  BY <1>1 DEF Taking, Acked, RecordOf
<1>3. Records' = Records
  BY <1>1 DEF Records
<1>4. ASSUME NEW e \in Events, Acked(e) PROVE e \in applied \cup EventsOf(buf'["green"])
  <2>1. RecordOf(e).seq = req[e].seq /\ RecordOf(e).event = e
    BY DEF RecordOf, Record
  <2>2. snap \in Nat /\ req[e].seq \in Nat /\ seqc["green"] \in Nat
    BY HandoverAssumption
       DEF BacklogInv, SeqInv, PhaseInv, TypeInv, LogType, ReqType, Request, Procs
  <2>3. e \in applied \/ RecordOf(e) \in buf["green"] \/ seqc["green"] < req[e].seq
    BY <1>1, <1>4 DEF BacklogInv, Behind
  <2>4. e \in applied \/ (RecordOf(e) \in Records /\ snap < req[e].seq)
    BY <1>4 DEF BacklogInv, Durable
  <2>5. e \in applied \/ RecordOf(e) \in buf'["green"]
    BY <1>1, <2>1, <2>2, <2>3, <2>4
  <2> QED
    BY <2>1, <2>5 DEF EventsOf
<1>5. Ordered' /\ Durable'
  BY <1>1, <1>2, <1>3 DEF BacklogInv, Ordered, Durable
<1>6. Buffered'
  BY <1>1, <1>2, <1>4 DEF Buffered, Writer, Procs
<1> QED
  BY <1>1, <1>5, <1>6 DEF BacklogInv, Behind

LEMMA BacklogStep ==
    ASSUME Orderly, "quiet" \notin Faults, "overtake" \notin Faults
    PROVE  BacklogInv /\ [Next]_vars => BacklogInv'
<1> SUFFICES ASSUME BacklogInv, [Next]_vars PROVE BacklogInv'
  OBVIOUS
<1>1. SeqInv /\ SeqInv' /\ PhaseInv'
  BY SeqStep DEF BacklogInv, SeqInv
<1>2. CASE Open
  <2>1. OpenReplica("green") /\ UNCHANGED <<req, applied>>
    BY <1>2 DEF Open
  <2>2. \A q \in Procs : q # "green" => phase'[q] = phase[q]
    BY <1>1, <1>2, OpenAlone DEF Procs
  <2> QED
    BY <1>1, <2>1, <2>2, OpenBacklog DEF Procs
<1>3. CASE Restart
  <2>1. OpenReplica("blue") /\ UNCHANGED <<req, applied>>
    BY <1>3 DEF Restart
  <2>2. ~Preparing' /\ \A q \in Procs : q # "blue" => phase'[q] = phase[q]
    BY <1>1, <1>3, OpenAlone DEF Procs
  <2> QED
    BY <1>1, <2>1, <2>2, OpenBacklog DEF Procs
<1> QED
  BY <1>1, <1>2, <1>3, QuietStep, QuietBacklog, TakeBacklog, LogEventBacklog, DrainBacklog,
     TakeOverBacklog

(* Whoever runs the background loops with the replica open, a green that took over or a
   process that was started again after a crash, holds every event that was acknowledged and
   not yet applied: the next drain applies it.  In addition to what keeps the schedulers apart
   this takes events to be logged in the order of their sequence numbers (lib.rs
   commit_handover and catch_up_wal, ingest.rs ingest_event_from). *)
THEOREM BacklogSurvivesHandover ==
    ASSUME Orderly, "quiet" \notin Faults, "overtake" \notin Faults
    PROVE  Spec => []BacklogKept
<1>1. BacklogInv => BacklogKept
  BY DEF BacklogInv, Buffered, BacklogKept, Acked
<1> QED
  BY <1>1, BacklogInit, BacklogStep, PTL DEF Spec

-----------------------------------------------------------------------------
(* The queues *)

LEMMA ToSetParts ==
    ASSUME NEW s \in Seq(Events), NEW e \in Events
    PROVE  /\ ToSet(<<>>) = {} /\ ToSet(Append(s, e)) = ToSet(s) \cup {e}
           /\ s # <<>> => ToSet(s) = {Head(s)} \cup ToSet(Tail(s))
<1>1. ToSet(<<>>) = {}  BY DEF ToSet
<1>2. ToSet(Append(s, e)) = ToSet(s) \cup {e}
  <2>1. Append(s, e) \in Seq(Events) /\ Len(Append(s, e)) = Len(s) + 1 /\ Len(s) \in Nat
        /\ \A i \in 1 .. Len(s) : Append(s, e)[i] = s[i]
        /\ Append(s, e)[Len(s) + 1] = e
    OBVIOUS
  <2>2. DOMAIN Append(s, e) = DOMAIN s \cup {Len(s) + 1} /\ DOMAIN s = 1 .. Len(s)
    BY <2>1
  <2> QED  BY <2>1, <2>2 DEF ToSet
<1>3. ASSUME s # <<>> PROVE ToSet(s) = {Head(s)} \cup ToSet(Tail(s))
  <2>1. Len(s) \in Nat \ {0} /\ DOMAIN s = 1 .. Len(s) /\ Head(s) = s[1]  BY <1>3
  <2>2. DOMAIN Tail(s) = 1 .. (Len(s) - 1) /\ \A i \in 1 .. (Len(s) - 1) : Tail(s)[i] = s[i + 1]
    BY <1>3, <2>1
  <2>3. ASSUME NEW x \in ToSet(s) PROVE x \in {Head(s)} \cup ToSet(Tail(s))
    <3>1. PICK i \in 1 .. Len(s) : x = s[i]  BY <2>1 DEF ToSet
    <3>2. CASE i = 1  BY <2>1, <3>1, <3>2
    <3>3. CASE i # 1
      <4>1. i - 1 \in 1 .. (Len(s) - 1) /\ (i - 1) + 1 = i  BY <2>1, <3>3
      <4>2. Tail(s)[i - 1] = x  BY <2>2, <3>1, <4>1
      <4> QED  BY <2>2, <4>1, <4>2 DEF ToSet
    <3> QED  BY <3>2, <3>3
  <2>4. ASSUME NEW x \in ToSet(Tail(s)) PROVE x \in ToSet(s)
    <3>1. PICK i \in 1 .. (Len(s) - 1) : x = Tail(s)[i]  BY <2>2 DEF ToSet
    <3>2. i + 1 \in 1 .. Len(s) /\ x = s[i + 1]  BY <2>1, <2>2, <3>1
    <3> QED  BY <2>1, <3>2 DEF ToSet
  <2>5. Head(s) \in ToSet(s)  BY <2>1 DEF ToSet
  <2> QED  BY <2>3, <2>4, <2>5
<1> QED  BY <1>1, <1>2, <1>3

AckedKept == \A e \in Events : req'[e].st = "acked" => req[e].st = "acked"

(* A step that leaves the SSP's places alone. *)
Apart ==
    /\ UNCHANGED <<sspVars, answer>> /\ AckedKept
    /\ phase'["green"] # phase["green"] => phase["green"] # "active"
    /\ \/ phase'["blue"] = phase["blue"] \/ phase["blue"] \in {"down", "booting"}
       \/ /\ phase'["blue"] \in {"releasing", "released", "holding"}
          /\ phase["blue"] \in {"active", "releasing", "released"}
    /\ phase'["blue"] \notin {"stopped", "retired", "quiesced"} \/ phase'["blue"] = phase["blue"]
    /\ phase'["blue"] \in {"down", "booting"} => phase["blue"] \in {"down", "booting"}
    /\ phase'["green"] = "committing" /\ call' = "ok" => phase["green"] = "committing" /\ call = "ok"

LEMMA ApartFeeds ==
    ASSUME FeedInv, Apart
    PROVE  InPool' /\ BlueFeeds' /\ AnswerFeeds' /\ GreenFeeds'
<1>0. UNCHANGED <<pool, fan, got, cut, answer>> /\ UNCHANGED FromBlue
      /\ UNCHANGED Queued("blue") /\ UNCHANGED Queued("green")
  BY DEF Apart, sspVars, FromBlue, Queued
<1>2. InPool'  BY <1>0 DEF FeedInv, InPool, Apart
<1>3. BlueFeeds'
  <2> SUFFICES ASSUME phase'["blue"] \in {"active", "releasing", "released", "holding", "quiesced"},
                      pool["blue"].st # "absent"
               PROVE  Fed(Queued("blue"))'
    BY <1>0 DEF BlueFeeds
  <2>1. phase["blue"] \in {"active", "releasing", "released", "holding", "quiesced"}
    BY DEF FeedInv, InPool, Apart
  <2>2. Fed(Queued("blue"))  BY <2>1 DEF FeedInv, BlueFeeds
  <2> QED  BY <1>0, <2>2 DEF Fed, Apart, AckedKept
<1>4. AnswerFeeds'  BY <1>0 DEF FeedInv, AnswerFeeds, Apart, AckedKept, Fed
<1>5. GreenFeeds'  BY <1>0 DEF FeedInv, GreenFeeds, InPool, Apart, AckedKept, Fed
<1> QED  BY <1>2, <1>3, <1>4, <1>5

LEMMA ApartActions ==
    ASSUME FeedInv,
           \/ \E e \in Events : (\E p \in Procs : Arrive(e, p)) \/ Relay(e) \/ HeldTooLong(e)
                                \/ Dispatch(e) \/ Take(e)
           \/ \E p \in Procs : Drain(p) \/ Booted(p)
           \/ Release \/ CloseReplica \/ CommitHold \/ Start \/ Ask \/ Released \/ Unreleased
           \/ Open \/ LockTimeout \/ Prepared \/ LoseCommit \/ Restart \/ UNCHANGED vars
    PROVE  Apart
<1>0. /\ phase \in [Procs -> Phases] /\ mode \in [Procs -> {"hold", "serve", "forward"}]
      /\ req \in [Events -> Request] /\ Procs = {"blue", "green"}
  BY DEF FeedInv, BacklogInv, SeqInv, PhaseInv, TypeInv, ProcType, ReqType, Procs
<1>1. ASSUME NEW e \in Events, (\E p \in Procs : Arrive(e, p)) \/ Relay(e) \/ HeldTooLong(e)
                               \/ Dispatch(e) \/ Take(e)
      PROVE  Apart
  <2>1. UNCHANGED <<procVars, sspVars>>
    BY <1>1 DEF Arrive, Relay, HeldTooLong, Dispatch, Take
  <2>2. AckedKept
    <3>1. \A o \in Events : o # e => req'[o] = req[o]
      BY <1>0, <1>1 DEF Arrive, Relay, HeldTooLong, Dispatch, Take, Move
    <3>2. req'[e].st # "acked"
      <4>0. req[e] \in Request  BY <1>0
      <4>1. ASSUME NEW p \in Procs, Arrive(e, p) PROVE req'[e].st # "acked"
        BY <1>0, <4>0, <4>1 DEF Arrive, Request
      <4>2. CASE Relay(e)  BY <1>0, <4>0, <4>2 DEF Relay, Request
      <4>3. CASE HeldTooLong(e) \/ Dispatch(e)
        BY <1>0, <4>0, <4>3 DEF HeldTooLong, Dispatch, Move, Request
      <4>4. CASE Take(e)  BY <1>0, <4>0, <4>4 DEF Take, Request
      <4> QED  BY <1>1, <4>1, <4>2, <4>3, <4>4
    <3> QED  BY <3>1, <3>2 DEF AckedKept
  <2> QED  BY <2>1, <2>2 DEF Apart, procVars
<1>2. ASSUME NEW p \in Procs, Drain(p) \/ Booted(p) PROVE Apart
  <2>1. UNCHANGED <<sspVars, answer, req, call>>  BY <1>2 DEF Drain, Booted, procVars
  <2>2. phase' = phase \/ (phase[p] = "booting" /\ phase' = [phase EXCEPT ![p] = "active"])
    BY <1>2 DEF Drain, Booted, procVars
  <2> QED  BY <1>0, <2>1, <2>2 DEF Apart, AckedKept
<1>3. CASE LockTimeout
  <2>1. UNCHANGED <<sspVars, answer, call>> /\ phase["green"] \in {"opening", "direct"}
        /\ phase' = [phase EXCEPT !["green"] = "down"]
    BY <1>3 DEF LockTimeout, Become
  <2>2. AckedKept  BY <1>0, <1>3 DEF LockTimeout, AckedKept, Request
  <2> QED  BY <1>0, <2>1, <2>2 DEF Apart
<1>4. CASE Release \/ CloseReplica \/ CommitHold
  <2>1. UNCHANGED <<sspVars, answer, req>>
    BY <1>4 DEF Release, CloseReplica, CommitHold
  <2>2. \/ phase' = phase
        \/ phase["blue"] = "active" /\ phase' = [phase EXCEPT !["blue"] = "releasing"]
        \/ phase["blue"] = "releasing" /\ phase' = [phase EXCEPT !["blue"] = "released"]
        \/ phase["blue"] = "released" /\ phase' = [phase EXCEPT !["blue"] = "holding"]
    BY <1>4 DEF Release, CloseReplica, CommitHold, Become
  <2>3. call' = call \/ phase["green"] = "asking"
    BY <1>4 DEF Release, CloseReplica, CommitHold, Called
  <2> QED  BY <1>0, <2>1, <2>2, <2>3 DEF Apart, AckedKept
<1>5. CASE Start \/ Ask \/ Released \/ Unreleased \/ Open \/ Prepared \/ LoseCommit
  <2>1. UNCHANGED <<sspVars, answer, req>>
    BY <1>5 DEF Start, Ask, Released, Unreleased, Open, Prepared, LoseCommit
  <2>2. /\ phase' = phase \/ \E ph \in Phases : phase' = [phase EXCEPT !["green"] = ph]
        /\ phase["green"] # "active"
    BY <1>0, <1>5 DEF Start, Ask, Released, Unreleased, Open, Prepared, LoseCommit, Become,
                      Phases, GreenPhases
  <2>3. phase'["green"] = "committing" => call' # "ok"
    BY <1>0, <1>5 DEF Start, Ask, Released, Unreleased, Open, Prepared, LoseCommit, Become
  <2> QED  BY <1>0, <2>1, <2>2, <2>3 DEF Apart, AckedKept
<1>6. CASE Restart
  <2>1. UNCHANGED <<sspVars, answer, req, call>> /\ phase["blue"] = "down"
        /\ phase' = [phase EXCEPT !["blue"] = "booting"]
    BY <1>6 DEF Restart, Become
  <2> QED  BY <1>0, <2>1 DEF Apart, AckedKept
<1>7. CASE UNCHANGED vars  BY <1>7 DEF Apart, AckedKept, vars, procVars
<1> QED  BY <1>1, <1>2, <1>3, <1>4, <1>5, <1>6, <1>7

(* Only a process that numbers events acknowledges one; a green that has the pool, or the answer
   with it, is not kept waiting by a blue that does. *)
LEMMA LogEventFeeds ==
    ASSUME FeedInv, NEW e \in Events, LogEvent(e)
    PROVE  InPool' /\ BlueFeeds' /\ AnswerFeeds' /\ GreenFeeds'
<1> DEFINE p == req[e].at
<1>0. /\ PhaseInv /\ req \in [Events -> Request] /\ fan \in [Procs -> Seq(Events)]
      /\ Procs = {"blue", "green"} /\ p \in Procs
  BY DEF FeedInv, BacklogInv, SeqInv, PhaseInv, TypeInv, ReqType, SspType, Procs, Request
<1>1. /\ UNCHANGED <<phase, call, answer, pool, got, cut>>
      /\ req[e].st = "taking"
      /\ \A o \in Events : o # e => req'[o] = req[o]
      /\ \/ req'[e].st = "failed" /\ fan' = fan
         \/ fan' = [fan EXCEPT ![p] = Append(@, e)]
  <2>1. UNCHANGED <<phase, call, answer, pool, got, cut>> /\ req[e].st = "taking"
    BY DEF LogEvent, procVars
  <2>2. \/ Move(e, "failed") /\ fan' = fan
        \/ Move(e, "acked") /\ fan' = [fan EXCEPT ![p] = Append(@, e)]
    BY DEF LogEvent
  <2>3. req[e] \in Request  BY <1>0
  <2>4. \A o \in Events : o # e => req'[o] = req[o]  BY <1>0, <2>2 DEF Move
  <2>5. Move(e, "failed") => req'[e].st = "failed"  BY <1>0, <2>3 DEF Move, Request
  <2> QED  BY <2>1, <2>2, <2>4, <2>5
<1>2. Writer(p)  BY <1>0, <1>1 DEF PhaseInv, InHand
<1>3. CASE req'[e].st = "failed" /\ fan' = fan
  <2>1. Apart  BY <1>1, <1>3 DEF Apart, AckedKept, sspVars
  <2> QED  BY <2>1, ApartFeeds
<1>4. CASE fan' = [fan EXCEPT ![p] = Append(@, e)]
  <2>1. /\ \A q \in Procs : q # p => fan'[q] = fan[q]
        /\ ToSet(fan'[p]) = ToSet(fan[p]) \cup {e}
    <3>1. fan'[p] = Append(fan[p], e) /\ fan[p] \in Seq(Events)  BY <1>0, <1>4
    <3> QED  BY <1>0, <1>4, <3>1, ToSetParts
  <2>2. \A q \in Procs : Queued(q)' = IF q = p THEN Queued(q) \cup {e} ELSE Queued(q)
    BY <1>0, <1>1, <2>1 DEF Queued
  <2>3. \A Q, R : Fed(Q) /\ Q \cup {e} \subseteq R =>
            \A o \in Events : req'[o].st = "acked" => o \in got \cup cut \cup R
    BY <1>1 DEF Fed
  <2>5. InPool'  BY <1>1 DEF FeedInv, InPool
  <2>6. BlueFeeds'
    <3> SUFFICES ASSUME phase["blue"] \in {"active", "releasing", "released", "holding", "quiesced"},
                        pool["blue"].st # "absent"
                 PROVE  Fed(Queued("blue"))'
      BY <1>1 DEF BlueFeeds
    <3>1. p = "blue"
      <4>1. phase["green"] \in {"booting", "active"} => phase["blue"] # "quiesced"
        BY <1>0 DEF PhaseInv, Yielded
      <4>2. Writer("green") => phase["green"] \in {"booting", "active"}
        BY <1>0 DEF Writer, PhaseInv, TypeInv, ProcType, GreenPhases
      <4>3. ~Writer("green")
        BY <1>0, <4>1, <4>2, OneWriter DEF Writer
      <4> QED  BY <1>0, <1>2, <4>3
    <3>2. Fed(Queued("blue"))  BY DEF FeedInv, BlueFeeds
    <3>3. Queued("blue")' = Queued("blue") \cup {e}  BY <1>0, <2>2, <3>1
    <3> QED  BY <1>1, <2>3, <3>2, <3>3 DEF Fed
  <2>7. AnswerFeeds'
    <3>1. ~(phase["green"] = "committing" /\ call = "ok")
      BY <1>0, <1>2 DEF Writer, PhaseInv, Yielded
    <3> QED  BY <1>1, <3>1 DEF AnswerFeeds
  <2>8. GreenFeeds'
    <3> SUFFICES ASSUME phase["green"] = "active", pool["green"].st # "absent"
                 PROVE  Fed(Queued("green") \cup FromBlue)'
      BY <1>1 DEF GreenFeeds
    <3>1. p = "green"  BY <1>0, <1>2, OneWriter DEF Writer
    <3>2. Fed(Queued("green") \cup FromBlue)  BY DEF FeedInv, GreenFeeds
    <3>3. Queued("green")' = Queued("green") \cup {e} /\ FromBlue' = FromBlue
      BY <1>0, <1>1, <2>1, <2>2, <3>1 DEF FromBlue
    <3> QED  BY <1>1, <2>3, <3>2, <3>3 DEF Fed
  <2> QED  BY <2>5, <2>6, <2>7, <2>8
<1> QED  BY <1>1, <1>3, <1>4

(* Green has the pool, or the answer it comes with. *)
Received == phase["green"] = "active" \/ (phase["green"] = "committing" /\ call = "ok")

LEMMA BlueYielded ==
    ASSUME FeedInv
    PROVE  /\ Received => phase["blue"] \in {"retired", "down", "stopped"}
           /\ Received /\ phase["blue"] # "retired" => pool["blue"].st = "absent"
<1>1. PhaseInv /\ InPool  BY DEF FeedInv, BacklogInv, SeqInv
<1>2. Received => phase["blue"] \in {"retired", "down", "stopped"}
  BY <1>1 DEF Received, PhaseInv, TypeInv, ProcType, BluePhases, Locked, Yielded
<1> QED  BY <1>1, <1>2 DEF InPool

LEMMA FeedTypes ==
    ASSUME FeedInv
    PROVE  /\ phase \in [Procs -> Phases] /\ req \in [Events -> Request]
           /\ pool \in [Procs -> SspState] /\ fan \in [Procs -> Seq(Events)]
           /\ answer \in SspState /\ answer.batch = <<>>
           /\ Procs = {"blue", "green"}
           /\ \A p \in Procs : pool[p].st = "absent" => pool[p] = NoSsp
BY DEF FeedInv, BacklogInv, SeqInv, PhaseInv, TypeInv, ProcType, ReqType, SspType, Procs, InPool

(* An SSP that is not in the pool has no task: ending it, or starting none, changes nothing. *)
LEMMA SameSsp ==
    ASSUME NEW a \in SspState, NEW b \in SspState, a.st = b.st, a.buffer = b.buffer,
           a.task = b.task, a.batch = b.batch
    PROVE  a = b
BY DEF SspState

LEMMA NoTask ==
    /\ [NoSsp EXCEPT !.task = FALSE] = NoSsp
    /\ [NoSsp EXCEPT !.task = FALSE, !.batch = <<>>] = NoSsp
<1> DEFINE a == [NoSsp EXCEPT !.task = FALSE]
           b == [NoSsp EXCEPT !.task = FALSE, !.batch = <<>>]
<1>0. FALSE \in BOOLEAN /\ <<>> \in Seq(Events)  OBVIOUS
<1>1. NoSsp \in SspState  BY NoSspType
<1>2. a \in SspState  BY <1>0, <1>1 DEF SspState
<1>3. b \in SspState
  <2>1. b = [a EXCEPT !.batch = <<>>]  BY <1>1 DEF SspState
  <2> HIDE DEF a, b
  <2> QED  BY <1>0, <1>2, <2>1 DEF SspState
<1>4. a.st = NoSsp.st /\ a.buffer = NoSsp.buffer /\ a.batch = NoSsp.batch  BY <1>1 DEF SspState
<1>5. b.st = NoSsp.st /\ b.buffer = NoSsp.buffer /\ b.batch = <<>>  BY <1>1 DEF SspState
<1>6. a.task = FALSE  BY <1>1 DEF SspState
<1>7. b.task = FALSE  BY <1>1 DEF SspState
<1>8. NoSsp.task = FALSE /\ NoSsp.batch = <<>>  BY DEF NoSsp
<1> HIDE DEF a, b
<1>9. a = NoSsp  BY <1>1, <1>2, <1>4, <1>6, <1>8, SameSsp
<1>10. b = NoSsp  BY <1>1, <1>3, <1>5, <1>7, <1>8, SameSsp
<1> QED  BY <1>9, <1>10 DEF a, b

(* A delivery that changes no process keeps every event in sight of whoever has the SSP. *)
LEMMA DeliveryFeeds ==
    ASSUME FeedInv, UNCHANGED <<phase, call, answer, req>>,
           \A p \in Procs : pool'[p].st # "absent" =>
               /\ pool[p].st # "absent"
               /\ got \cup cut \cup Queued(p) \subseteq (got \cup cut \cup Queued(p))',
           Received => got \cup cut \cup FromBlue \subseteq (got \cup cut \cup FromBlue)'
    PROVE  BlueFeeds' /\ AnswerFeeds' /\ GreenFeeds'
<1>0. Procs = {"blue", "green"}  BY DEF Procs
<1>1. BlueFeeds'
  <2> SUFFICES ASSUME phase["blue"] \in {"active", "releasing", "released", "holding", "quiesced"},
                      pool'["blue"].st # "absent"
               PROVE  Fed(Queued("blue"))'
    BY DEF BlueFeeds
  <2>1. Fed(Queued("blue"))  BY <1>0 DEF FeedInv, BlueFeeds
  <2> QED  BY <1>0, <2>1 DEF Fed
<1>2. AnswerFeeds'
  <2> SUFFICES ASSUME phase["green"] = "committing", call = "ok", answer.st # "absent"
               PROVE  Fed(ToSet(answer.buffer) \cup FromBlue)'
    BY DEF AnswerFeeds
  <2>1. Fed(ToSet(answer.buffer) \cup FromBlue) /\ Received  BY DEF FeedInv, AnswerFeeds, Received
  <2> QED  BY <2>1 DEF Fed
<1>3. GreenFeeds'
  <2> SUFFICES ASSUME phase["green"] = "active", pool'["green"].st # "absent"
               PROVE  Fed(Queued("green") \cup FromBlue)'
    BY DEF GreenFeeds
  <2>1. Fed(Queued("green") \cup FromBlue) /\ Received
    BY <1>0 DEF FeedInv, GreenFeeds, Received
  <2> QED  BY <1>0, <2>1 DEF Fed
<1> QED  BY <1>1, <1>2, <1>3

LEMMA TakeBatchFeeds ==
    ASSUME FeedInv, NEW p \in Procs, TakeBatch(p)
    PROVE  InPool' /\ BlueFeeds' /\ AnswerFeeds' /\ GreenFeeds'
<1>0. UNCHANGED <<phase, call, answer, req, fan, got, cut>> /\ pool[p].task /\ pool[p].batch = <<>>
  BY DEF TakeBatch, procVars
<1>1. pool[p].st # "absent" /\ pool[p] \in SspState
  BY <1>0, FeedTypes DEF NoSsp
<1>2. /\ \A q \in Procs : q # p => pool'[q] = pool[q]
      /\ pool'[p].st \in {"ready", pool[p].st}
      /\ pool'[p].batch = pool[p].buffer /\ pool'[p].buffer = <<>>
  BY <1>0, <1>1, FeedTypes DEF TakeBatch, NoSsp, SspState
<1>n. ToSet(<<>>) = {}  BY DEF ToSet
<1>3. \A q \in Procs : Queued(q)' = Queued(q)
  <2>1. Queued(p)' = Queued(p)  BY <1>0, <1>2, <1>n DEF Queued
  <2>2. \A q \in Procs : q # p => Queued(q)' = Queued(q)  BY <1>0, <1>2 DEF Queued
  <2> QED  BY <2>1, <2>2
<1>4. FromBlue \subseteq FromBlue'
  <2>1. CASE p = "blue"  BY <1>0, <1>1, <1>2, <1>n, <2>1 DEF FromBlue
  <2>2. CASE p # "blue"
    <3>1. pool'["blue"] = pool["blue"]  BY <1>2, <2>2 DEF Procs
    <3> QED  BY <1>0, <3>1 DEF FromBlue
  <2> QED  BY <2>1, <2>2
<1>6. InPool'  BY <1>0, <1>1, <1>2 DEF FeedInv, InPool, Procs
<1> QED  BY <1>0, <1>1, <1>2, <1>3, <1>4, <1>6, DeliveryFeeds

LEMMA DeliverBatchFeeds ==
    ASSUME FeedInv, NEW p \in Procs, DeliverBatch(p)
    PROVE  InPool' /\ BlueFeeds' /\ AnswerFeeds' /\ GreenFeeds'
<1>0. /\ UNCHANGED <<phase, call, answer, req, fan, cut>> /\ pool[p].batch # <<>>
      /\ got' = got \cup ToSet(pool[p].batch)
  BY DEF DeliverBatch, procVars
<1>1. pool[p].st # "absent" /\ pool[p] \in SspState
  BY <1>0, FeedTypes DEF NoSsp
<1>2. /\ \A q \in Procs : q # p => pool'[q] = pool[q]
      /\ pool'[p].st = pool[p].st /\ pool'[p].buffer = pool[p].buffer
  BY <1>0, <1>1, FeedTypes DEF DeliverBatch, SspState
<1>3. \A q \in Procs : got \cup cut \cup Queued(q) \subseteq (got \cup cut \cup Queued(q))'
  BY <1>0, <1>2 DEF Queued
<1>4. got \cup cut \cup FromBlue \subseteq (got \cup cut \cup FromBlue)'
  BY <1>0, <1>1, <1>2, FeedTypes DEF FromBlue
<1>6. InPool'  BY <1>0, <1>1, <1>2 DEF FeedInv, InPool, Procs
<1> QED  BY <1>0, <1>1, <1>2, <1>3, <1>4, <1>6, DeliveryFeeds

(* The replica and the buffer of the process that serves hold every acknowledged event, so an
   SSP that bootstraps from it has them all. *)
LEMMA RejoinFeeds ==
    ASSUME FeedInv, NEW p \in Procs, Rejoin(p)
    PROVE  InPool' /\ BlueFeeds' /\ AnswerFeeds' /\ GreenFeeds'
<1>0. /\ UNCHANGED <<phase, call, answer, req, fan, cut>> /\ phase[p] = "active"
      /\ got' = got \cup applied \cup EventsOf(buf[p])
  BY DEF Rejoin, procVars
<1>1. pool[p].st = "absent" /\ pool[p] = NoSsp /\ pool[p] \in SspState
  BY FeedTypes DEF Rejoin
<1>2. /\ \A q \in Procs : q # p => pool'[q] = pool[q]
      /\ pool'[p].st = "ready"
  BY <1>1, FeedTypes DEF Rejoin, SspState
<1>3. \A e \in Events : req'[e].st = "acked" => e \in got'
  BY <1>0 DEF FeedInv, BacklogInv, Buffered, Acked
<1>4. BlueFeeds' /\ AnswerFeeds' /\ GreenFeeds'
  BY <1>3 DEF BlueFeeds, AnswerFeeds, GreenFeeds, Fed
<1>6. InPool'  BY <1>0, <1>1, <1>2 DEF FeedInv, InPool, Procs
<1> QED  BY <1>4, <1>6

(* A slow fan-out and a failed delivery are not met in one run. *)
FaultsApart == "slow" \notin Faults \/ "post" \notin Faults \/ MaxFaults <= 1

(* A delivery that fails is in sight of blue only: the retired blue whose fan-out was not
   waited for would put it where it is exported no more. *)
LEMMA FanOutFeeds ==
    ASSUME FeedInv, NEW p \in Procs, FanOut(p), FaultsApart
    PROVE  InPool' /\ BlueFeeds' /\ AnswerFeeds' /\ GreenFeeds'
<1> DEFINE e == Head(fan[p])
<1>0. /\ UNCHANGED <<phase, call, answer, req, cut>> /\ fan[p] # <<>>
      /\ fan' = [fan EXCEPT ![p] = Tail(@)]
  BY DEF FanOut, procVars
<1>1. /\ pool[p] \in SspState /\ fan[p] \in Seq(Events) /\ e \in Events
      /\ Procs = {"blue", "green"}
  BY <1>0, FeedTypes
<1>2. /\ \A q \in Procs : q # p => fan'[q] = fan[q]
      /\ ToSet(fan[p]) = {e} \cup ToSet(fan'[p])
  <2>1. fan'[p] = Tail(fan[p])  BY <1>0, FeedTypes
  <2>2. ToSet(fan[p]) = {e} \cup ToSet(Tail(fan[p]))  BY <1>0, <1>1, ToSetParts
  <2> QED  BY <1>0, <2>1, <2>2, FeedTypes
<1> HIDE DEF e
<1>4. CASE pool' = pool /\ got' = got \cup {e}
  <2>1. \A q \in Procs : got \cup cut \cup Queued(q) \subseteq (got \cup cut \cup Queued(q))'
    BY <1>0, <1>2, <1>4 DEF Queued
  <2>2. got \cup cut \cup FromBlue \subseteq (got \cup cut \cup FromBlue)'
    BY <1>0, <1>1, <1>2, <1>4 DEF FromBlue
  <2>4. InPool'  BY <1>0, <1>4 DEF FeedInv, InPool
  <2> QED  BY <1>0, <1>4, <2>1, <2>2, <2>4, DeliveryFeeds
<1>5. CASE pool[p].st = "absent" /\ UNCHANGED <<pool, got>>
  <2>1. \A q \in Procs : pool'[q].st # "absent" => Queued(q)' = Queued(q)
    BY <1>0, <1>2, <1>5 DEF Queued
  <2>2. FromBlue' = FromBlue
    BY <1>0, <1>1, <1>2, <1>5 DEF FromBlue
  <2>4. InPool'  BY <1>0, <1>5 DEF FeedInv, InPool
  <2> QED  BY <1>0, <1>5, <2>1, <2>2, <2>4, DeliveryFeeds
<1>6. CASE /\ pool[p].st # "absent" /\ (Lagging \/ Fault("post")) /\ got' = got
           /\ \A q \in Procs : q # p => pool'[q] = pool[q]
           /\ pool'[p].st = "lagging" /\ pool'[p].batch = pool[p].batch
           /\ pool'[p].buffer = Append(pool[p].buffer, e)
  <2>1. ToSet(pool'[p].buffer) = ToSet(pool[p].buffer) \cup {e}
    BY <1>1, <1>6, ToSetParts DEF SspState
  <2>2. \A q \in Procs : Queued(q)' = Queued(q)
    <3>1. Queued(p)' = Queued(p)  BY <1>1, <1>2, <1>6, <2>1 DEF Queued
    <3>2. \A q \in Procs : q # p => Queued(q)' = Queued(q)  BY <1>2, <1>6 DEF Queued
    <3> QED  BY <3>1, <3>2
  <2>3. Received => p = "green"
    <3> SUFFICES ASSUME Received, p = "blue" PROVE FALSE
      BY <1>1
    <3>1. Unfanned  BY <1>0, <1>6, BlueYielded DEF Unfanned
    <3>2. Fault("post")  BY <1>6, <3>1 DEF FeedInv, Exported
    <3> QED  BY <3>1, <3>2, HandoverAssumption DEF FeedInv, Exported, Fault, FaultsApart
  <2>4. Received => FromBlue' = FromBlue
    BY <1>1, <1>2, <1>6, <2>3 DEF FromBlue
  <2>6. InPool'  BY <1>0, <1>1, <1>6 DEF FeedInv, InPool
  <2> QED  BY <1>0, <1>6, <2>2, <2>4, <2>6, DeliveryFeeds
<1>7. \/ pool' = pool /\ got' = got \cup {e}
      \/ pool[p].st = "absent" /\ UNCHANGED <<pool, got>>
      \/ /\ pool[p].st # "absent" /\ (Lagging \/ Fault("post")) /\ got' = got
         /\ \A q \in Procs : q # p => pool'[q] = pool[q]
         /\ pool'[p].st = "lagging" /\ pool'[p].batch = pool[p].batch
         /\ pool'[p].buffer = Append(pool[p].buffer, e)
  <2>1. pool[p].st = "lagging" => Lagging  BY DEF Lagging
  <2>2. pool \in [Procs -> SspState]  BY FeedTypes
  <2> QED  BY <1>1, <2>1, <2>2 DEF FanOut, e, SspState
<1> QED  BY <1>4, <1>5, <1>6, <1>7

(* Blue stops its redelivery task with a batch in hand, which is cut off. *)
LEMMA CommitQuiesceFeeds ==
    ASSUME FeedInv, CommitQuiesce
    PROVE  InPool' /\ BlueFeeds' /\ AnswerFeeds' /\ GreenFeeds'
<1>0. /\ UNCHANGED <<call, answer, req, fan, got>> /\ phase["blue"] = "holding"
      /\ phase' = [phase EXCEPT !["blue"] = "quiesced"]
      /\ cut' = cut \cup ToSet(pool["blue"].batch)
      /\ pool' = [pool EXCEPT !["blue"] = [@ EXCEPT !.task = FALSE, !.batch = <<>>]]
  BY DEF CommitQuiesce
<1>1. /\ phase'["blue"] = "quiesced" /\ phase'["green"] = phase["green"]
      /\ pool["blue"] \in SspState /\ Procs = {"blue", "green"}
  BY <1>0, FeedTypes
<1>2. /\ pool'["green"] = pool["green"] /\ pool'["blue"].st = pool["blue"].st
      /\ pool'["blue"].buffer = pool["blue"].buffer
      /\ pool["blue"] = NoSsp => pool'["blue"] = NoSsp
  <2>1. /\ pool'["green"] = pool["green"]
        /\ pool'["blue"] = [pool["blue"] EXCEPT !.task = FALSE, !.batch = <<>>]
    BY <1>0, <1>1, FeedTypes
  <2>2. pool["blue"] = NoSsp => pool'["blue"] = NoSsp  BY <2>1, NoTask
  <2> QED  BY <1>1, <2>1, <2>2 DEF SspState
<1>3. ~Received  BY <1>0, BlueYielded
<1>4. BlueFeeds'
  <2> SUFFICES ASSUME pool["blue"].st # "absent" PROVE Fed(Queued("blue"))'
    BY <1>2 DEF BlueFeeds
  <2>1. Fed(Queued("blue"))  BY <1>0 DEF FeedInv, BlueFeeds
  <2>2. got \cup cut \cup Queued("blue") \subseteq (got \cup cut \cup Queued("blue"))'
    BY <1>0, <1>2 DEF Queued
  <2> QED  BY <1>0, <2>1, <2>2 DEF Fed
<1>5. AnswerFeeds' /\ GreenFeeds'
  BY <1>0, <1>1, <1>3 DEF AnswerFeeds, GreenFeeds, Received
<1>7. InPool'  BY <1>0, <1>1, <1>2 DEF FeedInv, InPool
<1> QED  BY <1>4, <1>5, <1>7

(* The export carries the buffer of a lagging SSP; what blue's fan-out still holds stays
   with blue. *)
LEMMA CommitExportFeeds ==
    ASSUME FeedInv, CommitExport
    PROVE  InPool' /\ BlueFeeds' /\ AnswerFeeds' /\ GreenFeeds'
<1>0. /\ UNCHANGED <<req, pool, fan, got, cut>> /\ phase["blue"] = "quiesced"
      /\ phase' = [phase EXCEPT !["blue"] = "retired"]
      /\ answer' = [pool["blue"] EXCEPT !.batch = <<>>]
  BY DEF CommitExport, Become, sspVars
<1>1. /\ phase'["blue"] = "retired" /\ phase'["green"] = phase["green"]
      /\ pool["blue"] \in SspState /\ Procs = {"blue", "green"}
  BY <1>0, FeedTypes
<1>2. /\ answer'.st = pool["blue"].st /\ answer'.buffer = pool["blue"].buffer
      /\ pool["blue"] = NoSsp => answer' = NoSsp
  BY <1>0, <1>1 DEF SspState, NoSsp
<1>3. ~Received  BY <1>0, BlueYielded
<1>4. BlueFeeds' /\ GreenFeeds'
  BY <1>1, <1>3 DEF BlueFeeds, GreenFeeds, Received
<1>5. AnswerFeeds'
  <2> SUFFICES ASSUME pool["blue"].st # "absent"
               PROVE  Fed(ToSet(answer.buffer) \cup FromBlue)'
    BY <1>2 DEF AnswerFeeds
  <2>1. Fed(Queued("blue"))  BY <1>0 DEF FeedInv, BlueFeeds
  <2>2. Queued("blue") = (ToSet(answer.buffer) \cup FromBlue)'
    BY <1>0, <1>2 DEF Queued, FromBlue
  <2> QED  BY <1>0, <2>1, <2>2 DEF Fed
<1>7. InPool'  BY <1>0, <1>1, <1>2 DEF FeedInv, InPool
<1> QED  BY <1>4, <1>5, <1>7

(* Green takes the pool with the answer; without one its pool is empty until the SSP
   registers. *)
LEMMA TakeOverFeeds ==
    ASSUME FeedInv, TakeOver
    PROVE  InPool' /\ BlueFeeds' /\ AnswerFeeds' /\ GreenFeeds'
<1>0. /\ UNCHANGED <<req, answer, fan, got, cut>> /\ phase["green"] = "committing"
      /\ phase' = [phase EXCEPT !["green"] = "active"]
      /\ \/ call = "ok" /\ pool' = [pool EXCEPT !["green"] =
                                        [answer EXCEPT !.task = answer.st = "lagging"]]
         \/ pool' = pool
  BY DEF TakeOver, Become
<1>1. /\ phase'["green"] = "active" /\ phase'["blue"] = phase["blue"]
      /\ Procs = {"blue", "green"}
  BY <1>0, FeedTypes
<1>2. pool'["blue"] = pool["blue"] /\ FromBlue' = FromBlue /\ Queued("blue")' = Queued("blue")
  <2>1. pool'["blue"] = pool["blue"]  BY <1>0, FeedTypes
  <2> QED  BY <1>0, <2>1 DEF FromBlue, Queued
<1>3. pool["green"].st = "absent"  BY <1>0 DEF FeedInv, InPool
<1>4. BlueFeeds'  BY <1>0, <1>1, <1>2 DEF FeedInv, BlueFeeds, Fed
<1>5. AnswerFeeds'  BY <1>1 DEF AnswerFeeds
<1>6. CASE pool' = pool
  <2>1. GreenFeeds'  BY <1>3, <1>6 DEF GreenFeeds
  <2>3. InPool'  BY <1>0, <1>1, <1>6 DEF FeedInv, InPool
  <2> QED  BY <1>4, <1>5, <2>1, <2>3
<1>7. CASE call = "ok" /\ pool' = [pool EXCEPT !["green"] =
                                    [answer EXCEPT !.task = answer.st = "lagging"]]
  <2>1. pool'["green"] = [answer EXCEPT !.task = answer.st = "lagging"]  BY <1>7, FeedTypes
  <2>2. pool'["green"].st = answer.st /\ pool'["green"].buffer = answer.buffer
    BY <2>1, FeedTypes DEF SspState
  <2>3. answer.st = "absent" => pool'["green"] = NoSsp
    <3>1. answer.st = "absent" => answer = NoSsp  BY DEF FeedInv, InPool
    <3>2. answer = NoSsp => (answer.st = "lagging") = FALSE  BY DEF NoSsp
    <3> QED  BY <2>1, <3>1, <3>2, NoTask
  <2>4. GreenFeeds'
    <3> SUFFICES ASSUME answer.st # "absent" PROVE Fed(Queued("green") \cup FromBlue)'
      BY <2>2 DEF GreenFeeds
    <3>1. Fed(ToSet(answer.buffer) \cup FromBlue)  BY <1>0, <1>7 DEF FeedInv, AnswerFeeds
    <3>2. ToSet(answer.buffer) \subseteq Queued("green")'  BY <2>2 DEF Queued
    <3> QED  BY <1>0, <1>2, <3>1, <3>2 DEF Fed
  <2>6. InPool'  BY <1>0, <1>1, <1>2, <2>2, <2>3 DEF FeedInv, InPool
  <2> QED  BY <1>4, <1>5, <2>4, <2>6
<1> QED  BY <1>0, <1>6, <1>7

(* Blue ends under a green that has the pool only once it has retired, with what it still
   held cut off, or without the SSP. *)
LEMMA EndsFeeds ==
    ASSUME FeedInv, NEW p \in Procs, NEW how \in {"down", "stopped"}, Ends(p, how)
    PROVE  InPool' /\ BlueFeeds' /\ AnswerFeeds' /\ GreenFeeds'
<1>0. /\ UNCHANGED <<answer, got>> /\ phase' = [phase EXCEPT ![p] = how]
      /\ pool' = [pool EXCEPT ![p] = NoSsp] /\ fan' = [fan EXCEPT ![p] = <<>>]
      /\ cut' = IF phase[p] = "retired" THEN cut \cup ToSet(fan[p]) \cup ToSet(pool[p].batch) ELSE cut
      /\ p # "green" => call' = call
  BY DEF Ends, Become
<1>1. /\ phase'[p] = how /\ pool'[p] = NoSsp /\ fan'[p] = <<>>
      /\ \A q \in Procs : q # p => phase'[q] = phase[q] /\ pool'[q] = pool[q] /\ fan'[q] = fan[q]
      /\ Procs = {"blue", "green"} /\ cut \subseteq cut'
  BY <1>0, FeedTypes
<1>2. AckedKept  BY FeedTypes DEF Ends, AckedKept, Request
<1>4. InPool'  BY <1>0, <1>1, NoSspType DEF FeedInv, InPool
<1>5. CASE p = "green"
  <2>1. Queued("blue")' = Queued("blue")  BY <1>1, <1>5 DEF Queued
  <2>2. BlueFeeds'  BY <1>0, <1>1, <1>2, <1>5, <2>1 DEF FeedInv, BlueFeeds, Fed, AckedKept
  <2>3. AnswerFeeds' /\ GreenFeeds'  BY <1>1, <1>5 DEF AnswerFeeds, GreenFeeds
  <2> QED  BY <1>4, <2>2, <2>3
<1>6. CASE p = "blue"
  <2>1. BlueFeeds'  BY <1>1, <1>6 DEF BlueFeeds
  <2>2. FromBlue \subseteq cut' \/ ~Received
    BY <1>0, <1>6, BlueYielded DEF FromBlue
  <2>3. Queued("green")' = Queued("green") /\ pool'["green"] = pool["green"]
        /\ phase'["green"] = phase["green"] /\ call' = call
    BY <1>0, <1>1, <1>6 DEF Queued
  <2>4. AnswerFeeds'
    <3> SUFFICES ASSUME phase["green"] = "committing", call = "ok", answer.st # "absent"
                 PROVE  Fed(ToSet(answer.buffer) \cup FromBlue)'
      BY <1>0, <2>3 DEF AnswerFeeds
    <3>1. Fed(ToSet(answer.buffer) \cup FromBlue) /\ Received
      BY DEF FeedInv, AnswerFeeds, Received
    <3> QED  BY <1>0, <1>1, <1>2, <2>2, <3>1 DEF Fed, AckedKept
  <2>5. GreenFeeds'
    <3> SUFFICES ASSUME phase["green"] = "active", pool["green"].st # "absent"
                 PROVE  Fed(Queued("green") \cup FromBlue)'
      BY <2>3 DEF GreenFeeds
    <3>1. Fed(Queued("green") \cup FromBlue) /\ Received  BY DEF FeedInv, GreenFeeds, Received
    <3> QED  BY <1>0, <1>1, <1>2, <2>2, <2>3, <3>1 DEF Fed, AckedKept
  <2> QED  BY <1>4, <2>1, <2>4, <2>5
<1> QED  BY <1>1, <1>5, <1>6

LEMMA SpentGrows ==
    ASSUME spent \in [faults : Nat, drains : Nat], [Next]_vars
    PROVE  spent' \in [faults : Nat, drains : Nat] /\ spent'.faults >= spent.faults
<1>1. \/ spent' = spent \/ spent' = [spent EXCEPT !.faults = @ + 1]
      \/ spent' = [spent EXCEPT !.drains = @ + 1]
  BY DEF Next, vars, Fault, Arrive, Relay, HeldTooLong, Dispatch, Take, LogEvent, Drain, FanOut,
         TakeBatch, DeliverBatch, Rejoin, Booted, Crash, Release, CloseReplica, CommitHold,
         CommitQuiesce, CommitExport, Start, Ask, Released, Unreleased, Open, LockTimeout,
         Prepared, LoseCommit, TakeOver, CommitDeadline, StopBlue, Restart
<1> QED  BY <1>1

(* Blue's fan-out outlives the export, and an SSP lags, only by a fault each. *)
LEMMA LaggingStep ==
    ASSUME FeedInv, [Next]_vars
    PROVE  /\ Unfanned' => Unfanned \/ (Fault("slow") /\ (Lagging' => Lagging))
           /\ Lagging' => Lagging \/ (Fault("post") /\ (Unfanned' => Unfanned))
<1> DEFINE Same == (Unfanned' => Unfanned) /\ (Lagging' => Lagging)
<1>0. /\ phase \in [Procs -> Phases] /\ pool \in [Procs -> SspState]
      /\ fan \in [Procs -> Seq(Events)] /\ answer \in SspState /\ Procs = {"blue", "green"}
  BY FeedTypes
<1>1. ASSUME Apart PROVE Same
  BY <1>1 DEF Apart, sspVars, Unfanned, Lagging
<1>2. ASSUME NEW e \in Events, LogEvent(e) PROVE Same
  <2>1. UNCHANGED <<phase, pool, answer>>  BY <1>2 DEF LogEvent, procVars
  <2>2. fan' = fan \/ fan' = [fan EXCEPT ![req[e].at] = Append(@, e)]  BY <1>2 DEF LogEvent
  <2>3. Writer(req[e].at)
    BY <1>2 DEF LogEvent, FeedInv, BacklogInv, SeqInv, PhaseInv, InHand
  <2>4. phase["blue"] = "retired" => fan'["blue"] = fan["blue"]
    BY <1>0, <2>2, <2>3 DEF Writer
  <2> QED  BY <2>1, <2>4 DEF Unfanned, Lagging
<1>3. ASSUME NEW p \in Procs, FanOut(p)
      PROVE  (Unfanned' => Unfanned) /\ (Lagging' => Lagging \/ Fault("post"))
  <2>1. UNCHANGED <<phase, answer>> /\ fan[p] # <<>> /\ fan' = [fan EXCEPT ![p] = Tail(@)]
    BY <1>3 DEF FanOut, procVars
  <2>2. pool' = pool \/ Fault("post") \/ pool[p].st = "lagging"
    BY <1>3 DEF FanOut
  <2>3. Unfanned' => Unfanned  BY <1>0, <2>1 DEF Unfanned
  <2> QED  BY <2>1, <2>2, <2>3 DEF Lagging
<1>4. ASSUME NEW p \in Procs, TakeBatch(p) \/ DeliverBatch(p) \/ Rejoin(p) PROVE Same
  <2>1. UNCHANGED <<phase, answer, fan>>
    BY <1>4 DEF TakeBatch, DeliverBatch, Rejoin, procVars
  <2>2. pool[p] \in SspState  BY <1>0
  <2>3. /\ pool'[p].st \in {pool[p].st, "ready"}
        /\ \A q \in Procs : q # p => pool'[q] = pool[q]
    <3>1. CASE TakeBatch(p)  BY <1>0, <2>2, <3>1 DEF TakeBatch, SspState, NoSsp
    <3>2. CASE DeliverBatch(p)  BY <1>0, <2>2, <3>2 DEF DeliverBatch, SspState
    <3>3. CASE Rejoin(p)  BY <1>0, <2>2, <3>3 DEF Rejoin, SspState
    <3> QED  BY <1>4, <3>1, <3>2, <3>3
  <2> QED  BY <2>1, <2>3 DEF Unfanned, Lagging
<1>5. ASSUME NEW p \in Procs, NEW how \in {"down", "stopped"}, Ends(p, how) PROVE Same
  <2>1. /\ answer' = answer /\ phase' = [phase EXCEPT ![p] = how]
        /\ pool' = [pool EXCEPT ![p] = NoSsp] /\ fan' = [fan EXCEPT ![p] = <<>>]
    BY <1>5 DEF Ends, Become
  <2> QED  BY <1>0, <2>1, NoSspType DEF Unfanned, Lagging
<1>6. ASSUME CommitQuiesce PROVE Same
  <2>1. /\ UNCHANGED <<answer, fan>> /\ phase' = [phase EXCEPT !["blue"] = "quiesced"]
        /\ pool' = [pool EXCEPT !["blue"] = [@ EXCEPT !.task = FALSE, !.batch = <<>>]]
    BY <1>6 DEF CommitQuiesce
  <2>2. pool'["green"] = pool["green"] /\ pool'["blue"].st = pool["blue"].st
    BY <1>0, <2>1 DEF SspState
  <2> QED  BY <1>0, <2>1, <2>2 DEF Unfanned, Lagging
<1>7. ASSUME CommitExport
      PROVE  (Unfanned' => Unfanned \/ Fault("slow")) /\ (Lagging' => Lagging)
  <2>1. /\ UNCHANGED <<pool, fan>> /\ answer' = [pool["blue"] EXCEPT !.batch = <<>>]
        /\ fan["blue"] = <<>> \/ Fault("slow")
    BY <1>7 DEF CommitExport, sspVars
  <2>2. answer'.st = pool["blue"].st
    BY <1>0, <2>1 DEF SspState
  <2> QED  BY <1>0, <2>1, <2>2 DEF Unfanned, Lagging
<1>8. ASSUME TakeOver PROVE Same
  <2>1. /\ UNCHANGED <<answer, fan>> /\ phase' = [phase EXCEPT !["green"] = "active"]
        /\ pool' = pool \/ pool' = [pool EXCEPT !["green"] =
                                       [answer EXCEPT !.task = answer.st = "lagging"]]
    BY <1>8 DEF TakeOver, Become
  <2>2. pool'["blue"] = pool["blue"] /\ pool'["green"].st \in {pool["green"].st, answer.st}
    BY <1>0, <2>1 DEF SspState
  <2> QED  BY <1>0, <2>1, <2>2 DEF Unfanned, Lagging
<1>9. ASSUME (\E p \in Procs : Crash(p)) \/ CommitDeadline \/ StopBlue PROVE Same
  BY <1>9, <1>5 DEF Crash, CommitDeadline, StopBlue, Procs
<1>10. ASSUME NEW e \in Events, (\E p \in Procs : Arrive(e, p)) \/ Relay(e) \/ HeldTooLong(e)
                                \/ Dispatch(e) \/ Take(e)
       PROVE  Apart
  BY <1>10, ApartActions
<1>11. ASSUME NEW p \in Procs, Drain(p) \/ Booted(p) PROVE Apart
  BY <1>11, ApartActions
<1>12. ASSUME \/ Release \/ CloseReplica \/ CommitHold \/ Start \/ Ask \/ Released \/ Unreleased
              \/ Open \/ LockTimeout \/ Prepared \/ LoseCommit \/ Restart \/ UNCHANGED vars
       PROVE  Apart
  BY <1>12, ApartActions
<1> HIDE DEF Same
<1>13. ASSUME NEW e \in Events, (\E p \in Procs : Arrive(e, p)) \/ Relay(e) \/ HeldTooLong(e)
                                \/ Dispatch(e) \/ Take(e) \/ LogEvent(e)
       PROVE  Same
  BY <1>1, <1>2, <1>10, <1>13
<1>14. ASSUME NEW p \in Procs, Drain(p) \/ TakeBatch(p) \/ DeliverBatch(p) \/ Rejoin(p) \/ Booted(p)
       PROVE  Same
  BY <1>1, <1>4, <1>11, <1>14
<1>15. Same \/ CommitExport \/ \E p \in Procs : FanOut(p)
  BY <1>1, <1>6, <1>8, <1>9, <1>12, <1>13, <1>14 DEF Next
<1> QED  BY <1>3, <1>7, <1>15 DEF Same

LEMMA ExportedStep ==
    ASSUME FeedInv, [Next]_vars, FaultsApart
    PROVE  Exported'
<1>1. Exported  BY DEF FeedInv
<1>2. /\ spent \in [faults : Nat, drains : Nat] /\ spent' \in [faults : Nat, drains : Nat]
      /\ spent'.faults >= spent.faults
  BY <1>1, SpentGrows DEF Exported
<1>3. ASSUME NEW f, Fault(f) PROVE f \in Faults /\ spent.faults < MaxFaults /\ spent'.faults > 0
  BY <1>2, <1>3 DEF Fault
<1>4. Unfanned' => "slow" \in Faults /\ spent'.faults > 0
  BY <1>1, <1>2, <1>3, LaggingStep DEF Exported
<1>5. Lagging' => "post" \in Faults /\ spent'.faults > 0
  BY <1>1, <1>2, <1>3, LaggingStep DEF Exported
<1>6. ASSUME Unfanned', Lagging' PROVE FALSE
  <2>1. CASE Unfanned /\ Lagging  BY <1>1, <2>1 DEF Exported
  <2>2. CASE ~Unfanned
    <3>1. Fault("slow") /\ Lagging  BY <1>6, <2>2, LaggingStep
    <3> QED  BY <1>1, <1>2, <1>3, <3>1, HandoverAssumption DEF Exported, FaultsApart
  <2>3. CASE ~Lagging
    <3>1. Fault("post") /\ Unfanned  BY <1>6, <2>3, LaggingStep
    <3> QED  BY <1>1, <1>2, <1>3, <3>1, HandoverAssumption DEF Exported, FaultsApart
  <2> QED  BY <2>1, <2>2, <2>3
<1> QED  BY <1>2, <1>4, <1>5, <1>6 DEF Exported

LEMMA FeedInit == Init => FeedInv
<1> SUFFICES ASSUME Init PROVE FeedInv
  OBVIOUS
<1>1. BacklogInv  BY BacklogInit
<1>2. /\ phase["blue"] = "active" /\ phase["green"] = "down" /\ answer = NoSsp
      /\ pool["green"] = NoSsp /\ pool["blue"] = [NoSsp EXCEPT !.st = "ready"]
      /\ got = 1 .. Logged
      /\ \A e \in Events : req[e].st = "acked" => e <= Logged
  BY DEF Init, Procs
<1>3. pool["blue"].st = "ready"  BY <1>2 DEF NoSsp
<1>4. \A e \in Events : req[e].st = "acked" => e \in got
  BY <1>2, HandoverAssumption DEF Events
<1>5. Exported
  <2>1. spent \in [faults : Nat, drains : Nat]  BY DEF Init
  <2> QED  BY <1>2, <1>3, <2>1, NoSspType DEF Exported, Unfanned, Lagging, Procs
<1>6. InPool  BY <1>2, <1>3, NoSspType DEF InPool, Procs
<1>7. BlueFeeds /\ AnswerFeeds /\ GreenFeeds
  BY <1>4 DEF BlueFeeds, AnswerFeeds, GreenFeeds, Fed
<1> QED  BY <1>1, <1>5, <1>6, <1>7 DEF FeedInv

LEMMA FeedStep ==
    ASSUME Orderly, "quiet" \notin Faults, "overtake" \notin Faults, FaultsApart
    PROVE  FeedInv /\ [Next]_vars => FeedInv'
<1> SUFFICES ASSUME FeedInv, [Next]_vars PROVE FeedInv'
  OBVIOUS
<1>1. BacklogInv' /\ Exported'  BY BacklogStep, ExportedStep DEF FeedInv
<1> SUFFICES InPool' /\ BlueFeeds' /\ AnswerFeeds' /\ GreenFeeds'
  BY <1>1 DEF FeedInv
<1>2. ASSUME NEW e \in Events, (\E p \in Procs : Arrive(e, p)) \/ Relay(e) \/ HeldTooLong(e)
                               \/ Dispatch(e) \/ Take(e)
      PROVE  Apart
  BY <1>2, ApartActions
<1>3. ASSUME NEW p \in Procs, Drain(p) \/ Booted(p) PROVE Apart
  BY <1>3, ApartActions
<1>4. ASSUME \/ Release \/ CloseReplica \/ CommitHold \/ Start \/ Ask \/ Released \/ Unreleased
             \/ Open \/ LockTimeout \/ Prepared \/ LoseCommit \/ Restart \/ UNCHANGED vars
      PROVE  Apart
  BY <1>4, ApartActions
<1>5. ASSUME Apart PROVE InPool' /\ BlueFeeds' /\ AnswerFeeds' /\ GreenFeeds'
  BY <1>5, ApartFeeds
<1>6. ASSUME NEW p \in Procs, FanOut(p) \/ TakeBatch(p) \/ DeliverBatch(p) \/ Rejoin(p)
      PROVE  InPool' /\ BlueFeeds' /\ AnswerFeeds' /\ GreenFeeds'
  BY <1>6, FanOutFeeds, TakeBatchFeeds, DeliverBatchFeeds, RejoinFeeds
<1>7. ASSUME (\E p \in Procs : Crash(p)) \/ CommitDeadline \/ StopBlue
      PROVE  InPool' /\ BlueFeeds' /\ AnswerFeeds' /\ GreenFeeds'
  BY <1>7, EndsFeeds DEF Crash, CommitDeadline, StopBlue, Procs
<1> QED
  BY <1>2, <1>3, <1>4, <1>5, <1>6, <1>7, LogEventFeeds, CommitQuiesceFeeds, CommitExportFeeds,
     TakeOverFeeds DEF Next

(* The SSP of a pool that was handed over gets every event either scheduler acknowledged: it
   has it, it is queued for it in a process that still runs, or its delivery was cut off with
   the task that held it, whatever dies and whichever answer is lost (lib.rs commit_handover
   and import_handover, router.rs export, ingest.rs redelivery).  A commit that gives up on
   its fan-out after 30 s and a delivery that then fails would leave the event in the buffer
   of a pool that was exported already: FaultsApart leaves that out. *)
THEOREM SspIsFed ==
    ASSUME Orderly, "quiet" \notin Faults, "overtake" \notin Faults, FaultsApart
    PROVE  Spec => []SspMissesNothing
<1>1. ASSUME FeedInv PROVE SspMissesNothing
  <2>1. phase["blue"] = "active" /\ pool["blue"].st # "absent" => Fed(Queued("blue"))
    BY <1>1 DEF FeedInv, BlueFeeds
  <2>2. phase["green"] = "active" /\ pool["green"].st # "absent" => Fed(Queued("green") \cup FromBlue)
    BY <1>1 DEF FeedInv, GreenFeeds
  <2>3. FromBlue \subseteq Queued("blue")  BY DEF FromBlue, Queued
  <2> QED  BY <2>1, <2>2, <2>3 DEF SspMissesNothing, Fed, Procs
<1> QED
  BY <1>1, FeedInit, FeedStep, PTL DEF Spec
============================================================================
