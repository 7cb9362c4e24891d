------------------------- MODULE SchedulerHandover -------------------------
(***************************************************************************)
(* The blue/green hand-over of the scheduler (apps/scheduler, handover.rs, *)
(* lib.rs, main.rs): green, started by the control plane on blue's data    *)
(* volume, has blue release the replica, opens it and prepares its boot    *)
(* while blue serves on, then has blue commit, takes in the tail of the    *)
(* shared write-ahead log and serves.  A request may land on either        *)
(* process and goes through its gate, which serves, holds or relays it.    *)
(*                                                                         *)
(* A request is one ingested event.  The log is the directory of segment   *)
(* files both processes append to; each process knows the segments it saw  *)
(* when it opened the log and the one it opened itself.  One SSP stands    *)
(* for the pool.  Sequence numbers count from the snapshot the first boot  *)
(* left behind.                                                            *)
(*                                                                         *)
(* Time is compared only where the constants of the code order it: blue's  *)
(* commit (10 s for its requests, 30 s for the fan-out) ends before green  *)
(* stops asking (60 s).  "late" in Faults lifts that.                      *)
(***************************************************************************)
EXTENDS Naturals, FiniteSets, SequencesExt

CONSTANTS
    MaxEvents, \* number of events posted to /ingest
    Logged,    \* how many of them blue has logged and fanned out since its last drain
    MaxSeq,    \* bound on the sequence numbers of a run
    MaxDrains, \* bound on the drains of a run
    Faults,    \* which of the faults below may happen
    MaxFaults  \* bound on the faults of a run

(* "crash": a process dies.  "busy": blue refuses to release for 3 minutes.  "release",
   "commit": the answer to that call is lost.  "held": a request waits for 90 s.  "post": a
   delivery to the SSP fails.  "slow": a wait of blue's commit runs out.  "late": green's
   commit runs out while blue serves or is committing.  "quiet": blue starts a segment after
   green has opened the log.  "overtake": of two events being taken in, the later is logged
   first. *)
ASSUME HandoverAssumption ==
    /\ MaxEvents \in Nat /\ MaxSeq \in Nat /\ Logged \in 0 .. MaxEvents
    /\ Logged <= MaxSeq /\ MaxDrains \in Nat /\ MaxFaults \in Nat
    /\ Faults \subseteq {"crash", "busy", "release", "commit", "held", "post", "slow", "late",
                         "quiet", "overtake"}

VARIABLES
    phase,  \* where each process is in its life
    mode,   \* the mode of its gate
    lock,   \* the process that has the replica open, or "none"
    call,   \* green's call to blue: release while it is asking, else commit
    answer, \* the pool blue exported: what green gets with the commit's answer
    req,    \* each request: where it is, whether it was relayed, its sequence number
    disk,   \* the log: the records of each segment file, named by its first seq
    log,    \* the log as each process knows it: closed segments and the active one
    seqc,   \* seq_counter of each process
    buf,    \* event_buffer of each process
    snap,   \* snapshot_seq of the replica
    pool,   \* the SSP in the pool of each process
    fan,    \* the fan-out queue of each process
    got,    \* history: events the SSP has
    applied,\* history: events drained into the replica
    cut,    \* history: events whose delivery ended with the task that held them
    spent   \* faults and drains so far

procVars == <<phase, mode, lock, call, answer>>
logVars == <<disk, log, seqc, buf, snap>>
sspVars == <<pool, fan, got, cut>>
vars == <<procVars, req, logVars, sspVars, applied, spent>>

Events == 1 .. MaxEvents
Procs == {"blue", "green"}
Peer(p) == IF p = "blue" THEN "green" ELSE "blue"
Seqs == 1 .. MaxSeq
NoSsp == [st |-> "absent", buffer |-> <<>>, task |-> FALSE, batch |-> <<>>]
Record(s, e) == [seq |-> s, event |-> e]
EmptyLog == [closed |-> {}, active |-> 0]
Gone(p) == phase[p] \in {"down", "stopped"}

Init ==
    /\ phase = [p \in Procs |-> IF p = "blue" THEN "active" ELSE "down"]
    /\ mode = [p \in Procs |-> IF p = "blue" THEN "serve" ELSE "hold"]
    /\ lock = "blue" /\ call = "idle" /\ answer = NoSsp
    /\ req = [e \in Events |-> [st |-> IF e <= Logged THEN "acked" ELSE "new", at |-> "blue",
                               hops |-> 0, seq |-> IF e <= Logged THEN e ELSE 0]]
    /\ LET before == {Record(e, e) : e \in 1 .. Logged} IN
       /\ disk = [f \in Seqs |-> IF f = 1 THEN before ELSE {}]
       /\ log = [p \in Procs |-> IF p = "blue" /\ Logged > 0 THEN [EmptyLog EXCEPT !.active = 1]
                                 ELSE EmptyLog]
       /\ seqc = [p \in Procs |-> IF p = "blue" THEN Logged ELSE 0]
       /\ buf = [p \in Procs |-> IF p = "blue" THEN before ELSE {}]
    /\ snap = 0
    /\ pool = [p \in Procs |-> IF p = "blue" THEN [NoSsp EXCEPT !.st = "ready"] ELSE NoSsp]
    /\ fan = [p \in Procs |-> <<>>]
    /\ got = 1 .. Logged /\ applied = {} /\ cut = {}
    /\ spent = [faults |-> 0, drains |-> 0]

Become(p, ph, m) ==
    /\ phase' = [phase EXCEPT ![p] = ph]
    /\ mode' = [mode EXCEPT ![p] = m]

Fault(f) ==
    /\ f \in Faults /\ spent.faults < MaxFaults
    /\ spent' = [spent EXCEPT !.faults = @ + 1]

-----------------------------------------------------------------------------
(* The log *)

Records == UNION {disk[f] : f \in Seqs}
EventsOf(records) == {r.event : r \in records}
Top(records, floor) == CHOOSE n \in {r.seq : r \in records} \cup {floor} :
                          n >= floor /\ \A r \in records : r.seq <= n

(* EventWal::recover: the segments this process knows, and no other. *)
Recover(p) == UNION {disk[f] : f \in log[p].closed \cup ({log[p].active} \ {0})}

(* Scheduler::new: open the replica, take stock of the segments on disk and
   buffer what the snapshot does not cover. *)
OpenReplica(p) ==
    /\ lock = "none" /\ lock' = p
    /\ log' = [log EXCEPT ![p] = [closed |-> {f \in Seqs : disk[f] # {}}, active |-> 0]]
    /\ buf' = [buf EXCEPT ![p] = {r \in Records : r.seq > snap}]
    /\ seqc' = [seqc EXCEPT ![p] = Top(Records, snap)]
    /\ UNCHANGED <<disk, snap>>

(* apply_buffered_events: fold the whole buffer into the replica and truncate the log. *)
Drain(p) ==
    /\ phase[p] = "active" /\ buf[p] # {} /\ spent.drains < MaxDrains
    /\ LET top == Top(buf[p], snap)
           gone == {f \in log[p].closed \cup ({log[p].active} \ {0}) : Top(disk[f], 0) <= top}
       IN /\ snap' = top
          /\ disk' = [f \in Seqs |-> IF f \in gone THEN {} ELSE disk[f]]
          /\ log' = [log EXCEPT ![p] = [closed |-> (@.closed \cup ({@.active} \ {0})) \ gone,
                                        active |-> 0]]
    /\ applied' = applied \cup EventsOf(buf[p])
    /\ buf' = [buf EXCEPT ![p] = {}]
    /\ spent' = [spent EXCEPT !.drains = @ + 1]
    /\ UNCHANGED <<procVars, req, seqc, sspVars>>

-----------------------------------------------------------------------------
(* The gate of a process, and an event on its way through it *)

At(p, st) == {e \in Events : req[e].st = st /\ req[e].at = p}
Move(e, st) == req' = [req EXCEPT ![e].st = st]

(* The events are alike: they are numbered as they arrive. *)
Arrive(e, p) ==
    /\ req[e].st = "new" /\ ~Gone(p) /\ \A o \in 1 .. e - 1 : req[o].st # "new"
    /\ req' = [req EXCEPT ![e] = [@ EXCEPT !.st = "gate", !.at = p]]
    /\ UNCHANGED <<procVars, logVars, sspVars, applied, spent>>

RelayAlways(e) == \* without the guard on relayed requests
    LET p == req[e].at IN
    /\ req[e].st = "gate" /\ mode[p] = "forward" /\ ~Gone(Peer(p))
    /\ req' = [req EXCEPT ![e].at = Peer(p), ![e].hops = @ + 1]
    /\ UNCHANGED <<procVars, logVars, sspVars, applied, spent>>

RelayOnce(e) == \* a retired process holds relayed requests too
    /\ req[e].hops = 0 /\ RelayAlways(e)

(* A process that is not retired holds what was relayed to it already.  A peer
   that is down is asked again until the mode changes. *)
Relay(e) ==
    LET p == req[e].at IN
    /\ req[e].st = "gate" /\ mode[p] = "forward"
    /\ req[e].hops = 0 \/ phase[p] = "retired"
    /\ ~Gone(Peer(p))
    /\ req' = [req EXCEPT ![e].at = Peer(p), ![e].hops = @ + 1]
    /\ UNCHANGED <<procVars, logVars, sspVars, applied, spent>>

(* A request is held for at most 90 s. *)
HeldTooLong(e) ==
    /\ req[e].st = "gate" /\ mode[req[e].at] # "serve" /\ Fault("held")
    /\ Move(e, "failed")
    /\ UNCHANGED <<procVars, logVars, sspVars, applied>>

(* Events taken in before green opened the log are in a segment green knows;
   "quiet" is the case in which the next one is not. *)
SegmentSeen ==
    \/ "quiet" \in Faults
    \/ log["blue"].active # 0
    \/ phase["blue"] # "released"
SegmentKnown == phase["green"] \in {"preparing", "committing"} => SegmentSeen

Dispatch(e) ==
    /\ req[e].st = "gate" /\ mode[req[e].at] = "serve"
    /\ req[e].at = "blue" => SegmentKnown
    /\ Move(e, "handler")
    /\ UNCHANGED <<procVars, logVars, sspVars, applied, spent>>

(* ingest_event_from holds the ingest gate for reading from the sequence number to
   the hand-off to the fan-out; a commit takes it for writing and keeps it. *)
Take(e) ==
    LET p == req[e].at IN
    /\ req[e].st = "handler" /\ phase[p] \notin {"quiesced", "retired"}
    /\ seqc[p] < MaxSeq
    /\ seqc' = [seqc EXCEPT ![p] = @ + 1]
    /\ req' = [req EXCEPT ![e] = [@ EXCEPT !.st = "taking", !.seq = seqc[p] + 1]]
    /\ UNCHANGED <<procVars, disk, log, buf, snap, sspVars, applied, spent>>

(* EventWal::append opens a segment named by its first event when none is active;
   a file of that name fails the append, and the request with it. *)
LogEvent(e) ==
    LET p == req[e].at
        s == req[e].seq
        f == IF log[p].active = 0 THEN s ELSE log[p].active
        failed == log[p].active = 0 /\ disk[s] # {}
    IN  /\ req[e].st = "taking"
        /\ "overtake" \in Faults \/ \A o \in At(p, "taking") : s <= req[o].seq
        /\ IF failed
           THEN /\ Move(e, "failed")
                /\ UNCHANGED <<disk, log, buf, fan>>
           ELSE /\ Move(e, "acked")
                /\ disk' = [disk EXCEPT ![f] = @ \cup {Record(s, e)}]
                /\ log' = [log EXCEPT ![p].active = f]
                /\ buf' = [buf EXCEPT ![p] = @ \cup {Record(s, e)}]
                /\ fan' = [fan EXCEPT ![p] = Append(@, e)]
        /\ UNCHANGED <<procVars, seqc, snap, pool, got, cut, applied, spent>>

-----------------------------------------------------------------------------
(* The fan-out to the SSP, and the redelivery task of a lagging one *)

FanOut(p) ==
    /\ fan[p] # <<>> /\ fan' = [fan EXCEPT ![p] = Tail(@)]
    /\ LET e == Head(fan[p]) IN
       \/ /\ pool[p].st = "ready" /\ got' = got \cup {e}
          /\ UNCHANGED <<pool, spent>>
       \/ /\ pool[p].st = "ready" /\ Fault("post")
          /\ pool' = [pool EXCEPT ![p].st = "lagging", ![p].task = TRUE,
                                 ![p].buffer = Append(@, e)]
          /\ UNCHANGED got
       \/ /\ pool[p].st = "lagging"
          /\ pool' = [pool EXCEPT ![p].buffer = Append(@, e)]
          /\ UNCHANGED <<got, spent>>
       \/ /\ pool[p].st = "absent" /\ UNCHANGED <<pool, got, spent>>
    /\ UNCHANGED <<procVars, req, logVars, applied, cut>>

TakeBatch(p) ==
    /\ pool[p].task /\ pool[p].batch = <<>>
    /\ pool' = [pool EXCEPT ![p] =
          IF @.buffer = <<>> THEN [NoSsp EXCEPT !.st = "ready"]
          ELSE [@ EXCEPT !.batch = pool[p].buffer, !.buffer = <<>>]]
    /\ UNCHANGED <<procVars, req, logVars, fan, got, cut, applied, spent>>

DeliverBatch(p) ==
    /\ pool[p].batch # <<>>
    /\ got' = got \cup ToSet(pool[p].batch)
    /\ pool' = [pool EXCEPT ![p].batch = <<>>]
    /\ UNCHANGED <<procVars, req, logVars, fan, cut, applied, spent>>

(* An SSP the scheduler does not know registers and bootstraps from its replica and
   buffer. *)
Rejoin(p) ==
    /\ phase[p] = "active" /\ pool[p].st = "absent"
    /\ pool' = [pool EXCEPT ![p].st = "ready"]
    /\ got' = got \cup applied \cup EventsOf(buf[p])
    /\ UNCHANGED <<procVars, req, logVars, fan, cut, applied, spent>>

-----------------------------------------------------------------------------
(* Blue *)

(* The call reaches blue's routes only through blue's gate. *)
Called(step) == call = "sent" /\ phase["green"] = step /\ mode["blue"] = "serve"

(* release_replica, up to the point of no return and past it. *)
Release ==
    /\ Called("asking")
    /\ \/ phase["blue"] = "active" /\ phase' = [phase EXCEPT !["blue"] = "releasing"]
          /\ UNCHANGED call
       \/ phase["blue"] \in {"releasing", "released"} /\ call' = "ok"
          /\ UNCHANGED phase
    /\ UNCHANGED <<mode, lock, answer, req, logVars, sspVars, applied, spent>>

CloseReplica ==
    /\ phase["blue"] = "releasing"
    /\ phase' = [phase EXCEPT !["blue"] = "released"]
    /\ lock' = "none"
    /\ call' = IF Called("asking") THEN "ok" ELSE call
    /\ UNCHANGED <<mode, answer, req, logVars, sspVars, applied, spent>>

CommitQuiesceUngated == \* does not take the ingest gate
    /\ phase["blue"] = "holding"
    /\ phase' = [phase EXCEPT !["blue"] = "quiesced"]
    /\ cut' = cut \cup ToSet(pool["blue"].batch)
    /\ pool' = [pool EXCEPT !["blue"] = [@ EXCEPT !.task = FALSE, !.batch = <<>>]]
    /\ UNCHANGED <<mode, lock, call, answer, req, logVars, fan, got, applied, spent>>

(* commit_handover: hold; wait for the requests in flight, take the ingest gate
   and stop the background tasks; wait for the fan-out, export and relay. *)
CommitHold ==
    /\ Called("committing") /\ phase["blue"] = "released"
    /\ Become("blue", "holding", "hold")
    /\ UNCHANGED <<lock, call, answer, req, logVars, sspVars, applied, spent>>

CommitExportStates == \* exports the states of the pool without the buffers
    /\ phase["blue"] = "quiesced" /\ fan["blue"] = <<>>
    /\ answer' = [NoSsp EXCEPT !.st = pool["blue"].st]
    /\ Become("blue", "retired", "forward")
    /\ call' = IF call = "sent" /\ phase["green"] = "committing" THEN "ok" ELSE call
    /\ UNCHANGED <<lock, req, logVars, sspVars, applied, spent>>

CommitQuiesce ==
    /\ phase["blue"] = "holding" /\ At("blue", "taking") = {}
    /\ \/ At("blue", "handler") = {} /\ UNCHANGED spent
       \/ At("blue", "handler") # {} /\ Fault("slow")
    /\ phase' = [phase EXCEPT !["blue"] = "quiesced"]
    /\ cut' = cut \cup ToSet(pool["blue"].batch)
    /\ pool' = [pool EXCEPT !["blue"] = [@ EXCEPT !.task = FALSE, !.batch = <<>>]]
    /\ UNCHANGED <<mode, lock, call, answer, req, logVars, fan, got, applied>>

CommitExport ==
    /\ phase["blue"] = "quiesced"
    /\ \/ fan["blue"] = <<>> /\ UNCHANGED spent
       \/ fan["blue"] # <<>> /\ Fault("slow")
    /\ answer' = [pool["blue"] EXCEPT !.batch = <<>>]
    /\ Become("blue", "retired", "forward")
    /\ call' = IF call = "sent" /\ phase["green"] = "committing" THEN "ok" ELSE call
    /\ UNCHANGED <<lock, req, logVars, sspVars, applied>>

-----------------------------------------------------------------------------
(* Green *)

Start ==
    /\ phase["green"] = "down" /\ Become("green", "asking", "forward")
    /\ UNCHANGED <<lock, call, answer, req, logVars, sspVars, applied, spent>>

Ask ==
    /\ phase["green"] = "asking" /\ call = "idle" /\ ~Gone("blue")
    /\ call' = "sent"
    /\ UNCHANGED <<phase, mode, lock, answer, req, logVars, sspVars, applied, spent>>

Released ==
    /\ phase["green"] = "asking" /\ call = "ok" /\ call' = "idle"
    /\ phase' = [phase EXCEPT !["green"] = "opening"]
    /\ UNCHANGED <<mode, lock, answer, req, logVars, sspVars, applied, spent>>

UnreleasedIfGone == \* does not read the status of a predecessor that retired
    /\ phase["green"] = "asking" /\ call' = "idle"
    /\ Gone("blue") /\ Become("green", "direct", "hold")
    /\ UNCHANGED <<lock, answer, req, logVars, sspVars, applied, spent>>

(* release without an answer: nobody listens, or settle_ambiguous reads blue's status.
   A retired blue relays the call back to green, which holds it until it times out. *)
Unreleased ==
    /\ phase["green"] = "asking" /\ call' = "idle"
    /\ \/ /\ Gone("blue") \/ phase["blue"] = "retired"
          /\ Become("green", "direct", "hold") /\ UNCHANGED spent
       \/ ~Gone("blue") /\ phase["blue"] # "retired" /\ call \in {"sent", "ok"}
          /\ Fault("release") /\ Become("green", "waiting", "forward")
       \/ phase["blue"] \in {"active", "booting"} /\ call = "sent"
          /\ Fault("busy") /\ Become("green", "waiting", "forward")
    /\ UNCHANGED <<lock, answer, req, logVars, sspVars, applied>>

(* open_scheduler once the lock is free: behind the gate after a release, serving at once on
   a boot of its own. *)
Open ==
    /\ \/ /\ phase["green"] = "opening" /\ Become("green", "preparing", "forward")
          /\ SegmentSeen \/ At("blue", "handler") \cup At("blue", "taking") = {}
       \/ phase["green"] \in {"direct", "waiting"} /\ Become("green", "booting", "serve")
    /\ OpenReplica("green")
    /\ UNCHANGED <<call, answer, req, sspVars, applied, spent>>

(* The lock stays taken for 60 s: the process exits and its supervisor starts it again. *)
LockTimeout ==
    /\ phase["green"] \in {"opening", "direct"}
    /\ lock = "blue" /\ phase["blue"] # "releasing"
    /\ Become("green", "down", "hold")
    /\ req' = [e \in Events |-> IF e \in At("green", "gate") THEN [req[e] EXCEPT !.st = "failed"]
                                ELSE req[e]]
    /\ UNCHANGED <<lock, call, answer, logVars, sspVars, applied, spent>>

(* boot_prepare is done: hold, and ask for the commit. *)
Prepared ==
    /\ phase["green"] = "preparing" /\ Become("green", "committing", "hold")
    /\ call' = "sent"
    /\ UNCHANGED <<lock, answer, req, logVars, sspVars, applied, spent>>

(* The commit's answer is lost.  Asked again, blue holds the call, or relays it to green. *)
LoseCommit ==
    /\ phase["green"] = "committing" /\ call = "ok" /\ Fault("commit")
    /\ call' = "sent"
    /\ UNCHANGED <<phase, mode, lock, answer, req, logVars, sspVars, applied>>

CatchUpBuffer == \* leaves the sequence counter behind
    /\ buf' = [buf EXCEPT !["green"] =
                  @ \cup {r \in Recover("green") : r.seq > seqc["green"] /\ r.seq > snap}]
    /\ UNCHANGED <<disk, log, seqc, snap>>

(* catch_up_wal, import_handover and boot_finish, with or without blue's state. *)
CatchUp ==
    LET tail == {r \in Recover("green") : r.seq > seqc["green"]} IN
    /\ buf' = [buf EXCEPT !["green"] = @ \cup {r \in tail : r.seq > snap}]
    /\ seqc' = [seqc EXCEPT !["green"] = Top(tail, @)]
    /\ UNCHANGED <<disk, log, snap>>

TakeOver ==
    /\ phase["green"] = "committing" /\ Become("green", "active", "serve")
    /\ CatchUp
    /\ \/ /\ call = "ok"
          /\ pool' = [pool EXCEPT !["green"] = [answer EXCEPT !.task = answer.st = "lagging"]]
          /\ UNCHANGED spent
       \/ /\ call = "sent" /\ (Gone("blue") \/ phase["blue"] = "retired")
          /\ UNCHANGED <<pool, spent>>
       \/ /\ call = "sent" /\ ~Gone("blue") /\ phase["blue"] # "retired" /\ Fault("late")
          /\ UNCHANGED pool
    /\ call' = "idle"
    /\ UNCHANGED <<lock, answer, req, fan, got, cut, applied>>

-----------------------------------------------------------------------------
(* Either process *)

Booted(p) ==
    /\ phase[p] = "booting" /\ phase' = [phase EXCEPT ![p] = "active"]
    /\ UNCHANGED <<mode, lock, call, answer, req, logVars, sspVars, applied, spent>>

(* A process ends: its requests fail, its lock is free, its memory is gone. *)
Ends(p, how) ==
    /\ Become(p, how, "hold")
    /\ lock' = IF lock = p THEN "none" ELSE lock
    /\ req' = [e \in Events |-> IF req[e].at = p /\ req[e].st \in {"gate", "handler", "taking"}
                                THEN [req[e] EXCEPT !.st = "failed"] ELSE req[e]]
    /\ call' = IF p = "green" THEN "idle" ELSE call
    /\ log' = [log EXCEPT ![p] = EmptyLog]
    /\ seqc' = [seqc EXCEPT ![p] = 0]
    /\ buf' = [buf EXCEPT ![p] = {}]
    /\ pool' = [pool EXCEPT ![p] = NoSsp]
    /\ fan' = [fan EXCEPT ![p] = <<>>]
    /\ cut' = IF phase[p] = "retired" THEN cut \cup ToSet(fan[p]) \cup ToSet(pool[p].batch) ELSE cut
    /\ UNCHANGED <<answer, disk, snap, got, applied>>

Crash(p) == ~Gone(p) /\ Fault("crash") /\ Ends(p, "down")

(* Blue exits when no commit follows its release within 120 s; a green that waits for the
   lock has it long before. *)
CommitDeadline ==
    /\ phase["blue"] \in {"released", "holding", "quiesced"}
    /\ phase["green"] \notin {"asking", "opening"}
    /\ Ends("blue", "down")
    /\ UNCHANGED spent

(* The control plane stops a blue that relays to a serving green, once its relays are done,
   or one green waits for. *)
StopBlue ==
    /\ \/ phase["blue"] = "retired" /\ phase["green"] = "active" /\ At("blue", "gate") = {}
       \/ phase["blue"] = "active" /\ phase["green"] = "waiting"
    /\ Ends("blue", "stopped") /\ UNCHANGED spent

(* A blue that went down, and was not stopped, is started again; while green has the replica it cannot boot. *)
Restart ==
    /\ phase["blue"] = "down" /\ Become("blue", "booting", "serve") /\ OpenReplica("blue")
    /\ UNCHANGED <<call, answer, req, sspVars, applied, spent>>

Next ==
    \/ \E e \in Events : (\E p \in Procs : Arrive(e, p)) \/ Relay(e) \/ HeldTooLong(e)
                          \/ Dispatch(e) \/ Take(e) \/ LogEvent(e)
    \/ \E p \in Procs : Drain(p) \/ FanOut(p) \/ TakeBatch(p) \/ DeliverBatch(p)
                        \/ Rejoin(p) \/ Booted(p) \/ Crash(p)
    \/ Release \/ CloseReplica \/ CommitHold \/ CommitQuiesce \/ CommitExport
    \/ Start \/ Ask \/ Released \/ Unreleased \/ Open \/ LockTimeout \/ Prepared
    \/ LoseCommit \/ TakeOver \/ CommitDeadline \/ StopBlue \/ Restart

Fairness ==
    /\ \A e \in Events : WF_vars(Relay(e)) /\ WF_vars(Dispatch(e)) /\ WF_vars(Take(e)) /\ WF_vars(LogEvent(e))
    /\ \A p \in Procs : WF_vars(FanOut(p)) /\ WF_vars(TakeBatch(p)) /\ WF_vars(DeliverBatch(p))
                         /\ WF_vars(Rejoin(p)) /\ WF_vars(Booted(p))
    /\ WF_vars(Release) /\ WF_vars(CloseReplica) /\ WF_vars(CommitHold)
    /\ WF_vars(CommitQuiesce) /\ WF_vars(CommitExport)
    /\ WF_vars(Start) /\ WF_vars(Ask) /\ WF_vars(Released) /\ WF_vars(Unreleased) /\ WF_vars(Open)
    /\ WF_vars(LockTimeout) /\ WF_vars(Prepared) /\ WF_vars(TakeOver)
    /\ WF_vars(CommitDeadline) /\ WF_vars(StopBlue)

Spec == Init /\ [][Next]_vars /\ Fairness

-----------------------------------------------------------------------------
(* Every variable stays in its set: a process is in a phase of its own side, a request is
   relayed at most twice (green to a blue that retires, and back), and a batch is in the hands
   of a running redelivery task. *)
TypeOK ==
    /\ phase["blue"] \in {"down", "stopped", "booting", "active", "releasing", "released",
                          "holding", "quiesced", "retired"}
    /\ phase["green"] \in {"down", "asking", "opening", "direct", "waiting", "booting",
                           "preparing", "committing", "active"}
    /\ mode \in [Procs -> {"hold", "serve", "forward"}]
    /\ lock \in Procs \cup {"none"} /\ call \in {"idle", "sent", "ok"}
    /\ req \in [Events -> [st : {"new", "gate", "handler", "taking", "acked", "failed"},
                           at : Procs, hops : 0 .. 2, seq : 0 .. MaxSeq]]
    /\ \A f \in Seqs : \A r \in disk[f] : r.seq \in Seqs /\ r.event \in Events
    /\ seqc \in [Procs -> 0 .. MaxSeq] /\ snap \in 0 .. MaxSeq
    /\ \A p \in Procs : /\ pool[p].st \in {"absent", "ready", "lagging"}
                        /\ pool[p].batch # <<>> => pool[p].task
    /\ got \subseteq Events /\ applied \subseteq Events /\ cut \subseteq Events

(* The background loops of spawn_singleton: the changefeed tail runs from boot_finish until
   a commit has taken the ingest gate. *)
Runs(p) == phase[p] \in {"active", "releasing", "released", "holding"}

(* Blue and green never run the background loops at once, and no two records of the log
   share a sequence number, through a crash, a busy blue, a lost answer to the commit, a
   request held too long, a failed delivery or a slow wait.  A commit that blue serves
   through ("late"), a release whose answer is lost ("release") and blue's first segment
   after green opened the log ("quiet") do break it. *)
OneScheduler ==
    /\ ~(Runs("blue") /\ Runs("green"))
    /\ \A r, s \in Records : r.seq = s.seq => r = s

(* The scheduler that runs the background loops with the replica open holds every event a
   predecessor acknowledged: what is not in the replica is in its buffer, so the next drain
   applies it. *)
BacklogKept ==
    \A p \in Procs : phase[p] = "active" =>
        \A e \in Events : req[e].st = "acked" => e \in applied \cup EventsOf(buf[p])

Queued(p) == ToSet(fan[p]) \cup ToSet(pool[p].buffer) \cup ToSet(pool[p].batch)

(* The SSP of an imported pool gets every acknowledged event: it has it, or some process
   still has it queued for it, or it was cut off in the hands of a redelivery task or of the
   retired blue's fan-out. *)
SspMissesNothing ==
    \A p \in Procs : phase[p] = "active" /\ pool[p].st # "absent" =>
        \A e \in Events : req[e].st = "acked" =>
            e \in got \cup Queued("blue") \cup Queued("green") \cup cut

(* A request held or relayed by either gate is served or fails with its process: it does not
   bounce between two gates that relay to each other, nor wait for a mode that never comes. *)
RequestsEnd == \A e \in Events : req[e].st = "gate" ~> req[e].st \in {"acked", "failed"}

(* Whatever is lost or dies on the way, some scheduler ends up serving with all of its
   background work. *)
SomeoneServes == []<>(\E p \in Procs : phase[p] = "active" /\ mode[p] = "serve")
=============================================================================
