------------------------ MODULE SspPromotionProofs ------------------------
(***************************************************************************)
(* The blue/green replacement of an SSP never leaves two of them writing   *)
(* view edges, for any number of views and events and whatever calls fail, *)
(* copies are lost, redeliveries drag on and blue dies: as long as the     *)
(* answer to a promotion arrives, blue does not claim to be drained before *)
(* it is, and a blue that died does not register in the middle of a swap.  *)
(* Each of these three breaks it.                                          *)
(*                                                                         *)
(* OneWriter is not inductive.  It needs what the scheduler's view of the  *)
(* pool says of the processes (Pooled), that blue is silent from before    *)
(* green is promoted (Retired), and that green stays in standby through    *)
(* every phase of a swap but the last (Standby).                           *)
(*                                                                         *)
(* The state keeps its type, whatever fails: no event is queued twice for  *)
(* one SSP, so its queue is never longer than the events (Once).           *)
(*                                                                         *)
(* An SSP that is up takes the events in order and skips none, however     *)
(* many faults there are, if no swap is abandoned under a live blue        *)
(* (Abandonless) or if blue neither dies nor refuses a delivery (Lagless). *)
(* What it has yet to take, in its redelivery task's hands and then in its *)
(* queue, is the run of events after those it has (InTurn); and it has one *)
(* such task at most (Slots, Lone), which a lag and an abandoned swap      *)
(* together would break.                                                   *)
(***************************************************************************)
EXTENDS SspPromotion, FiniteSetTheorems, SequenceTheorems, WellFoundedInduction, TLAPS

(* The faults that break OneWriter. *)
Breaking == {"promote", "undrained", "comeback"}

-----------------------------------------------------------------------------
(* The inductive invariant. *)

Statuses == {"gone", "boot", "loaded", "ready", "retired"}
PoolStates == {"out", "coming", "ready", "lagging", "retiring", "retired"}

(* What the steps rely on of the shape of the state. *)
Shape ==
    /\ DOMAIN node = Ssps /\ DOMAIN pub = Ssps
    /\ \A s \in Ssps : /\ DOMAIN node[s] = {"status", "standby", "circuit", "regs"}
                       /\ node[s].status \in Statuses /\ node[s].standby \in BOOLEAN
    /\ pool \in [Ssps -> PoolStates]
    /\ DOMAIN swap = {"at", "pred", "upto", "trusted", "digests"}
    /\ standby \in BOOLEAN /\ replaced \in BOOLEAN

(* Blue is no standby, queues nothing before it is ready, and the pool knows a blue that is
   there: one that boots is coming up, and nothing retires before a swap. *)
Pooled ==
    /\ ~node["blue"].standby
    /\ node["blue"].status \in {"gone", "boot", "loaded"} => pub["blue"] = <<>>
    /\ pool["blue"] = "out" => node["blue"].status = "gone"
    /\ node["blue"].status \in {"boot", "loaded"} => pool["blue"] = "coming" /\ ~Swapping
    /\ swap.at \in {"none", "wait"} => pool["blue"] \notin {"retiring", "retired"}

(* Green neither dies nor retires; it writes nothing before it is ready or in standby; and it
   boots as the standby the pool takes it for. *)
Standby ==
    /\ node["green"].status # "retired"
    /\ node["green"].status # "ready" => pub["green"] = <<>> /\ swap.at = "none"
    /\ node["green"].standby => pub["green"] = <<>>
    /\ node["green"].status \in {"boot", "loaded"} /\ standby => node["green"].standby
    /\ swap.at \in {"commit", "done"} => ~node["green"].standby

Silent(s) == node[s].status \in {"gone", "retired"} /\ pub[s] = <<>>

(* Blue is silent once green is out of standby, and from before that in a swap. *)
Retired ==
    /\ node["green"].status # "gone" /\ ~node["green"].standby =>
         /\ Silent("blue")
         /\ swap.at \in {"none", "commit", "done"}
         /\ replaced \/ swap.at = "commit"
    /\ swap.at = "hold" /\ ~swap.pred => node["blue"].status = "gone"
    /\ swap.at = "drain" => node["blue"].status \in {"gone", "retired"}
    /\ swap.at \in {"promote", "commit"} => Silent("blue")

Turns == Shape /\ Pooled /\ Standby /\ Retired

-----------------------------------------------------------------------------
(* Most steps move events, views and publications around: no SSP changes its status, and a
   queue is filled only by an SSP that serves out of standby.  Between ready and lagging the
   pool may go back and forth. *)

FilledInTurn ==
    /\ DOMAIN pub' = Ssps
    /\ \A s \in Ssps : pub'[s] # <<>> => Writes(s)

SameRoles ==
    /\ DOMAIN node' = Ssps
    /\ \A s \in Ssps : /\ DOMAIN node'[s] = DOMAIN node[s]
                       /\ node'[s].status = node[s].status
                       /\ node'[s].standby = node[s].standby
    /\ FilledInTurn

LivePath ==
    /\ pool' \in [Ssps -> PoolStates]
    /\ \A s \in Ssps : \/ pool'[s] = pool[s]
                       \/ pool[s] \in {"ready", "lagging"} /\ pool'[s] \in {"ready", "lagging"}
    /\ UNCHANGED <<standby, replaced, swap>>

(* Such a step keeps the invariant. *)
LEMMA QuietStep ==
    ASSUME Turns, SameRoles, LivePath
    PROVE  Turns'
<1>1. Shape'
  BY DEF Turns, Shape, SameRoles, FilledInTurn, LivePath, Ssps
<1>2. Pooled'
  BY DEF Turns, Shape, Pooled, SameRoles, FilledInTurn, LivePath, Writes, Swapping, Ssps
<1>3. Standby'
  BY DEF Turns, Shape, Standby, SameRoles, FilledInTurn, LivePath, Writes, Ssps, Statuses
<1>4. Retired'
  BY DEF Turns, Shape, Pooled, Retired, Silent, SameRoles, FilledInTurn, LivePath, Writes, Ssps
<1> QED  BY <1>1, <1>2, <1>3, <1>4 DEF Turns

(* An SSP that is ready takes an event: ingest_handler queues deltas only out of standby. *)
LEMMA TakenQuiet ==
    ASSUME Turns, NEW s, NEW e, node[s].status = "ready", Taken(s, e)
    PROVE  SameRoles
  BY DEF Turns, Shape, Taken, SameRoles, FilledInTurn, Writes, Ssps

LEMMA UnchangedQuiet ==
    ASSUME Turns, UNCHANGED <<node, pub>>
    PROVE  SameRoles
  BY DEF Turns, Shape, SameRoles, FilledInTurn, Writes, Ssps

LEMMA RegisteredQuiet ==
    ASSUME Turns, NEW s, NEW v, node[s].status = "ready", Registered(s, v)
    PROVE  SameRoles
  BY DEF Turns, Shape, Registered, SameRoles, FilledInTurn, Writes, Ssps

LEMMA UnregisteredQuiet ==
    ASSUME Turns, NEW s, NEW v, node[s].status = "ready", Unregistered(s, v)
    PROVE  SameRoles
  BY DEF Turns, Shape, Unregistered, SameRoles, FilledInTurn, Writes, Ssps

(* The fan-out, the redelivery and the publisher are such steps. *)
LEMMA DeliveryStep ==
    ASSUME Turns,
           \/ Ingest \/ FanOut \/ FanOutDone
           \/ \E s \in Ssps : Deliver(s) \/ Publish(s)
           \/ \E t \in Tasks : Redeliver(t) \/ RedeliverOne(t)
    PROVE  Turns'
<1> USE DEF scheduler, views
<1>1. CASE Ingest
  <2>1. SameRoles  BY <1>1, UnchangedQuiet DEF Ingest
  <2>2. LivePath  BY <1>1 DEF Ingest, LivePath, Turns, Shape
  <2> QED  BY <2>1, <2>2, QuietStep
<1>2. CASE FanOut
  <2>1. SameRoles  BY <1>2, UnchangedQuiet DEF FanOut
  <2>2. LivePath  BY <1>2 DEF FanOut, LivePath, Turns, Shape
  <2> QED  BY <2>1, <2>2, QuietStep
<1>3. CASE FanOutDone
  <2>1. SameRoles  BY <1>3, UnchangedQuiet DEF FanOutDone
  <2>2. LivePath  BY <1>3 DEF FanOutDone, Lags, LivePath, Turns, Shape, PoolStates
  <2> QED  BY <2>1, <2>2, QuietStep
<1>4. ASSUME NEW s \in Ssps, Deliver(s) PROVE Turns'
  <2>1. SameRoles  BY <1>4, UnchangedQuiet, TakenQuiet DEF Deliver
  <2>2. LivePath  BY <1>4 DEF Deliver, LivePath, Turns, Shape
  <2> QED  BY <2>1, <2>2, QuietStep
<1>5. ASSUME NEW s \in Ssps, Publish(s) PROVE Turns'
  <2>1. SameRoles  BY <1>5 DEF Publish, Turns, Shape, SameRoles, FilledInTurn, Writes
  <2>2. LivePath  BY <1>5 DEF Publish, LivePath, Turns, Shape
  <2> QED  BY <2>1, <2>2, QuietStep
<1>6. ASSUME NEW t \in Tasks, Redeliver(t) PROVE Turns'
  <2>1. SameRoles  BY <1>6, UnchangedQuiet DEF Redeliver
  <2>2. LivePath  BY <1>6 DEF Redeliver, LivePath, Turns, Shape, PoolStates
  <2> QED  BY <2>1, <2>2, QuietStep
<1>7. ASSUME NEW t \in Tasks, RedeliverOne(t) PROVE Turns'
  <2>1. SameRoles  BY <1>7, UnchangedQuiet, TakenQuiet DEF RedeliverOne
  <2>2. LivePath  BY <1>7 DEF RedeliverOne, LivePath, Turns, Shape
  <2> QED  BY <2>1, <2>2, QuietStep
<1> QED  BY <1>1, <1>2, <1>3, <1>4, <1>5, <1>6, <1>7

(* So are the registrations and releases of views and the copies for the standby. *)
LEMMA ViewStep ==
    ASSUME Turns,
           \/ \E v \in Views : Register(v) \/ Release(v)
           \/ RegisterEnds \/ Arrive
    PROVE  Turns'
<1> USE DEF scheduler, views
<1>1. ASSUME NEW v \in Views, Register(v) PROVE Turns'
  <2>1. SameRoles  BY <1>1, UnchangedQuiet DEF Register
  <2>2. LivePath  BY <1>1 DEF Register, LivePath, Turns, Shape
  <2> QED  BY <2>1, <2>2, QuietStep
<1>2. ASSUME NEW v \in Views, Release(v) PROVE Turns'
  <2>1. SameRoles  BY <1>2, UnchangedQuiet DEF Release
  <2>2. LivePath  BY <1>2 DEF Release, LivePath, Turns, Shape
  <2> QED  BY <2>1, <2>2, QuietStep
<1>3. CASE RegisterEnds
  <2>1. SameRoles  BY <1>3, UnchangedQuiet, RegisteredQuiet DEF RegisterEnds
  <2>2. LivePath  BY <1>3 DEF RegisterEnds, LivePath, Turns, Shape
  <2> QED  BY <2>1, <2>2, QuietStep
<1>4. CASE Arrive
  <2> PICK m \in msgs : Arrives(m)  BY <1>4 DEF Arrive
  <2>1. SameRoles  BY UnchangedQuiet, RegisteredQuiet, UnregisteredQuiet DEF Arrives
  <2>2. LivePath  BY DEF Arrives, LivePath, Turns, Shape
  <2> QED  BY <2>1, <2>2, QuietStep
<1> QED  BY <1>1, <1>2, <1>3, <1>4

-----------------------------------------------------------------------------
(* Blue comes back only while green is in standby and no swap is under way; green comes in
   beside blue or once the pool has given it up, and then blue is gone. *)
LEMMA RegisterSspStep ==
    ASSUME "comeback" \notin Faults, Turns, NEW s \in Ssps, RegisterSsp(s)
    PROVE  Turns'
<1> USE DEF scheduler, views
<1>1. CASE s = "blue"
  <2>1. ~Swapping /\ ~replaced /\ node["blue"].status = "gone"
    BY <1>1 DEF RegisterSsp, Fault
  <2>2. node["green"].status = "gone" \/ node["green"].standby
    BY <2>1 DEF Turns, Retired, Swapping
  <2>3. /\ DOMAIN node' = Ssps
        /\ node'["green"] = node["green"]
        /\ DOMAIN node'["blue"] = {"status", "standby", "circuit", "regs"}
        /\ node'["blue"].status = "boot" /\ node'["blue"].standby = FALSE
        /\ pool' = [pool EXCEPT !["blue"] = "coming"]
        /\ UNCHANGED <<standby, replaced, swap, pub>>
    BY <1>1 DEF RegisterSsp, Turns, Shape, Ssps
  <2>4. Shape'
    BY <2>3 DEF Turns, Shape, Ssps, Statuses, PoolStates
  <2>5. Pooled'
    BY <2>1, <2>3 DEF Turns, Shape, Pooled, Swapping, Ssps
  <2>6. Standby'
    BY <2>3 DEF Turns, Standby
  <2>7. Retired'
    BY <2>1, <2>2, <2>3 DEF Turns, Retired, Swapping, Silent
  <2> QED  BY <2>4, <2>5, <2>6, <2>7 DEF Turns
<1>2. CASE s = "green"
  <2>1. node["green"].status = "gone" /\ swap.at = "none" /\ pub["green"] = <<>>
    BY <1>2 DEF RegisterSsp, Turns, Standby
  <2> DEFINE beside == Serving("blue") \/ ComingUp("blue")
  <2>2. ~beside => Silent("blue")
    BY <2>1 DEF Turns, Shape, Pooled, Silent, Serving, ComingUp, Ssps, PoolStates
  <2>3. beside \in BOOLEAN
    BY DEF Serving, ComingUp
  <2>4. /\ DOMAIN node' = Ssps
        /\ node'["blue"] = node["blue"]
        /\ DOMAIN node'["green"] = {"status", "standby", "circuit", "regs"}
        /\ node'["green"].status = "boot" /\ node'["green"].standby = beside
        /\ pool' = [pool EXCEPT !["green"] = "coming"]
        /\ standby' = beside /\ replaced' = (replaced \/ ~beside)
        /\ UNCHANGED <<swap, pub>>
    BY <1>2 DEF RegisterSsp, Turns, Shape, Ssps
  <2> HIDE DEF beside
  <2>5. Shape'
    BY <2>3, <2>4 DEF Turns, Shape, Ssps, Statuses, PoolStates
  <2>6. Pooled'
    BY <2>4 DEF Turns, Shape, Pooled, Swapping, Ssps
  <2>7. Standby'
    BY <2>1, <2>3, <2>4 DEF Turns, Standby
  <2>8. Retired'
    BY <2>1, <2>2, <2>3, <2>4 DEF Turns, Retired, Silent
  <2> QED  BY <2>5, <2>6, <2>7, <2>8 DEF Turns
<1> QED  BY <1>1, <1>2 DEF Ssps

(* An SSP loads its views and goes ready: a standby into a swap, blue only beside a standby. *)
LEMMA BootStep ==
    ASSUME Turns, NEW s \in Ssps, BootViews(s) \/ BootEnds(s)
    PROVE  Turns'
<1> USE DEF scheduler, views
<1>1. CASE BootViews(s)
  <2>1. /\ node[s].status = "boot" /\ node'[s].status = "loaded"
        /\ DOMAIN node' = Ssps
        /\ \A r \in Ssps : /\ DOMAIN node'[r] = DOMAIN node[r]
                           /\ node'[r].standby = node[r].standby
                           /\ r # s => node'[r].status = node[r].status
        /\ UNCHANGED <<pool, standby, replaced, swap, pub>>
    BY <1>1 DEF BootViews, Turns, Shape, Ssps
  <2>2. Shape'
    BY <2>1 DEF Turns, Shape, Ssps, Statuses
  <2>3. Pooled'
    BY <2>1 DEF Turns, Shape, Pooled, Swapping, Ssps
  <2>4. Standby'
    BY <2>1 DEF Turns, Standby, Ssps
  <2>5. Retired'
    BY <2>1 DEF Turns, Pooled, Retired, Silent, Swapping, Ssps
  <2> QED  BY <2>2, <2>3, <2>4, <2>5 DEF Turns
<1>2. CASE BootEnds(s)
  <2>1. /\ node[s].status = "loaded" /\ node'[s].status = "ready"
        /\ DOMAIN node' = Ssps
        /\ \A r \in Ssps : /\ DOMAIN node'[r] = DOMAIN node[r]
                           /\ node'[r].standby = node[r].standby
                           /\ r # s => node'[r].status = node[r].status
        /\ pool' = [pool EXCEPT ![s] = "ready"]
        /\ swap' = IF s = "green" /\ standby THEN [swap EXCEPT !.at = "wait"] ELSE swap
        /\ UNCHANGED <<standby, replaced, pub>>
    BY <1>2 DEF BootEnds, Turns, Shape, Ssps
  <2>2. Shape'
    BY <2>1 DEF Turns, Shape, Ssps, Statuses, PoolStates
  <2>3. CASE s = "blue"
    <3>1. Pooled'  BY <2>1, <2>3 DEF Turns, Shape, Pooled, Swapping, Ssps
    <3>2. Standby'  BY <2>1, <2>3 DEF Turns, Standby, Ssps
    <3>3. Retired'  BY <2>1, <2>3 DEF Turns, Pooled, Retired, Silent, Swapping, Ssps
    <3> QED  BY <2>2, <3>1, <3>2, <3>3 DEF Turns
  <2>4. CASE s = "green"
    <3>1. /\ swap.at = "none" /\ (standby => node["green"].standby)
          /\ swap'.at = IF standby THEN "wait" ELSE "none"
      BY <2>1, <2>4 DEF Turns, Shape, Standby
    <3>2. Pooled'  BY <2>1, <2>4, <3>1 DEF Turns, Shape, Pooled, Swapping, Ssps
    <3>3. Standby'  BY <2>1, <2>4, <3>1 DEF Turns, Standby, Ssps
    <3>4. Retired'  BY <2>1, <2>4, <3>1 DEF Turns, Shape, Retired, Silent, Ssps
    <3> QED  BY <2>2, <3>2, <3>3, <3>4 DEF Turns
  <2> QED  BY <2>3, <2>4 DEF Ssps
<1> QED  BY <1>1, <1>2

(* Blue dies, and is found dead. *)
LEMMA DeathStep ==
    ASSUME Turns, Dies \/ Evict
    PROVE  Turns'
<1> USE DEF scheduler, views
<1>1. CASE Dies
  <2>1. /\ node'["blue"].status = "gone" /\ pub'["blue"] = <<>>
        /\ node["blue"].status \in {"ready", "retired"}
        /\ DOMAIN node' = Ssps /\ DOMAIN pub' = Ssps
        /\ \A r \in Ssps : /\ DOMAIN node'[r] = DOMAIN node[r]
                           /\ node'[r].standby = node[r].standby
        /\ node'["green"].status = node["green"].status /\ pub'["green"] = pub["green"]
        /\ UNCHANGED <<pool, standby, replaced, swap>>
    BY <1>1 DEF Dies, Turns, Shape, Ssps
  <2>2. Shape'  BY <2>1 DEF Turns, Shape, Ssps, Statuses
  <2>3. Pooled'  BY <2>1 DEF Turns, Pooled, Swapping, Ssps
  <2>4. Standby'  BY <2>1 DEF Turns, Standby, Ssps
  <2>5. Retired'  BY <2>1 DEF Turns, Retired, Silent, Ssps
  <2> QED  BY <2>2, <2>3, <2>4, <2>5 DEF Turns
<1>2. CASE Evict
  <2>1. /\ node["blue"].status = "gone"
        /\ pool' = [pool EXCEPT !["blue"] = "out"]
        /\ UNCHANGED <<standby, replaced, swap, node, pub>>
    BY <1>2 DEF Evict
  <2>2. Shape'  BY <2>1 DEF Turns, Shape, PoolStates
  <2>3. Pooled'  BY <2>1 DEF Turns, Shape, Pooled, Swapping, Ssps
  <2>4. Standby'  BY <2>1 DEF Turns, Standby
  <2>5. Retired'  BY <2>1 DEF Turns, Retired, Silent
  <2> QED  BY <2>2, <2>3, <2>4, <2>5 DEF Turns
<1> QED  BY <1>1, <1>2

-----------------------------------------------------------------------------
(* The swap. *)

(* A step that only moves the swap on, to a phase green stays in standby in. *)
LEMMA PhaseStep ==
    ASSUME Turns, UNCHANGED <<pool, standby, replaced, node, pub>>,
           swap.at \notin {"none", "commit", "done"},
           NEW a, swap' = [swap EXCEPT !.at = a],
           a \in {"retire", "drain", "promote", "abandon", "unretire", "failed"},
           a \in {"retire", "drain", "promote", "abandon", "unretire"} => Swapping,
           a = "drain" => node["blue"].status \in {"gone", "retired"},
           a = "promote" => Silent("blue")
    PROVE  Turns'
<1>1. swap'.at = a /\ DOMAIN swap' = DOMAIN swap
  BY DEF Turns, Shape
<1>2. Shape'  BY <1>1 DEF Turns, Shape
<1>3. Pooled'  BY <1>1 DEF Turns, Pooled, Swapping
<1>4. Standby'  BY <1>1 DEF Turns, Standby
<1>5. Retired'  BY <1>1 DEF Turns, Retired, Silent
<1> QED  BY <1>2, <1>3, <1>4, <1>5 DEF Turns

(* A swap begins when blue is not coming up: it is there, or it is gone. *)
LEMMA HoldStep ==
    ASSUME Turns, Hold
    PROVE  Turns'
<1> USE DEF scheduler, views
<1>1. /\ swap.at = "wait" /\ pool["blue"] # "coming"
      /\ DOMAIN swap' = DOMAIN swap
      /\ swap'.at \in {"hold", "failed"} /\ swap'.pred = Serving("blue")
      /\ UNCHANGED <<pool, standby, replaced, node, pub>>
  BY DEF Hold, At, ComingUp, Turns, Shape
<1>2. ~Serving("blue") => node["blue"].status = "gone"
  BY <1>1 DEF Turns, Shape, Pooled, Serving, Ssps, PoolStates
<1>3. Shape'  BY <1>1 DEF Turns, Shape
<1>4. Pooled'  BY <1>1 DEF Turns, Pooled, Swapping
<1>5. Standby'  BY <1>1 DEF Turns, Standby
<1>6. Retired'  BY <1>1, <1>2 DEF Turns, Retired, Silent
<1> QED  BY <1>3, <1>4, <1>5, <1>6 DEF Turns

(* Blue leaves the live path, or there is no blue and green is promoted at once. *)
LEMMA MarkRetiringStep ==
    ASSUME Turns, MarkRetiring
    PROVE  Turns'
<1> USE DEF scheduler, views
<1>1. /\ swap.at = "hold"
      /\ UNCHANGED <<standby, replaced, node, pub>>
  BY DEF MarkRetiring, At
<1>2. CASE swap.pred
  <2>1. /\ DOMAIN swap' = DOMAIN swap /\ swap'.at = "idle"
        /\ pool' = [pool EXCEPT !["blue"] = IF @ = "out" THEN @ ELSE "retiring"]
    BY <1>2 DEF MarkRetiring, Turns, Shape
  <2>2. Shape'  BY <1>1, <2>1 DEF Turns, Shape, Ssps, PoolStates
  <2>3. Pooled'  BY <1>1, <2>1 DEF Turns, Shape, Pooled, Swapping, Ssps
  <2>4. Standby'  BY <1>1, <2>1 DEF Turns, Standby
  <2>5. Retired'  BY <1>1, <2>1 DEF Turns, Retired, Silent
  <2> QED  BY <2>2, <2>3, <2>4, <2>5 DEF Turns
<1>3. CASE ~swap.pred
  <2>1. Silent("blue")  BY <1>1, <1>3 DEF Turns, Pooled, Retired, Silent
  <2>2. swap' = [swap EXCEPT !.at = "promote"] /\ UNCHANGED pool
    BY <1>3 DEF MarkRetiring, To
  <2> QED  BY <1>1, <2>1, <2>2, PhaseStep DEF Swapping
<1> QED  BY <1>2, <1>3

(* Blue is told to retire and answers, or the call fails. *)
LEMMA RetireStep ==
    ASSUME "undrained" \notin Faults, Turns,
           FanOutIdle \/ Retire \/ RetireAnswered \/ RetireFails
    PROVE  Turns'
<1> USE DEF scheduler, views
<1>1. CASE FanOutIdle
  BY <1>1, PhaseStep DEF FanOutIdle, At, To, Swapping
<1>2. CASE Retire
  <2>1. CASE node["blue"].status = "ready"
    <3>1. /\ swap.at = "retire" /\ swap'.at = "drain" /\ DOMAIN swap' = DOMAIN swap
          /\ node'["blue"].status = "retired" /\ node'["green"] = node["green"]
          /\ DOMAIN node' = Ssps /\ DOMAIN node'["blue"] = DOMAIN node["blue"]
          /\ node'["blue"].standby = node["blue"].standby
          /\ UNCHANGED <<pool, standby, replaced, pub>>
      BY <1>2, <2>1 DEF Retire, At, To, Turns, Shape, Ssps
    <3>2. Shape'  BY <3>1 DEF Turns, Shape, Ssps, Statuses
    <3>3. Pooled'  BY <2>1, <3>1 DEF Turns, Pooled, Swapping
    <3>4. Standby'  BY <3>1 DEF Turns, Standby
    <3>5. Retired'  BY <3>1 DEF Turns, Retired, Silent
    <3> QED  BY <3>2, <3>3, <3>4, <3>5 DEF Turns
  <2>2. CASE node["blue"].status # "ready"
    BY <1>2, <2>2, PhaseStep DEF Retire, At, To, Swapping
  <2> QED  BY <2>1, <2>2
<1>3. CASE RetireAnswered
  <2>1. /\ swap.at = "drain" /\ Drained
        /\ swap' = [swap EXCEPT !.at = "promote", !.trusted = TRUE, !.digests = Digests]
        /\ UNCHANGED <<pool, standby, replaced, node, pub>>
    BY <1>3 DEF RetireAnswered, At, Fault
  <2>2. Silent("blue")  BY <2>1 DEF Turns, Retired, Silent, Drained
  <2>3. swap'.at = "promote" /\ DOMAIN swap' = DOMAIN swap
    BY <2>1 DEF Turns, Shape
  <2>4. Shape'  BY <2>1, <2>3 DEF Turns, Shape
  <2>5. Pooled'  BY <2>1, <2>3 DEF Turns, Pooled, Swapping
  <2>6. Standby'  BY <2>1, <2>3 DEF Turns, Standby
  <2>7. Retired'  BY <2>1, <2>2, <2>3 DEF Turns, Retired, Silent
  <2> QED  BY <2>4, <2>5, <2>6, <2>7 DEF Turns
<1>4. CASE RetireFails
  BY <1>4, PhaseStep DEF RetireFails, To, Swapping
<1> QED  BY <1>1, <1>2, <1>3, <1>4

(* Green leaves standby when blue is silent, or nothing has changed. *)
LEMMA PromoteStep ==
    ASSUME "promote" \notin Faults, Turns, Promote
    PROVE  Turns'
<1> USE DEF scheduler, views
<1>1. /\ swap.at = "promote" /\ Silent("blue")
      /\ node["green"].status = "ready" /\ node["green"].standby
      /\ UNCHANGED <<pool, standby, replaced>>
  BY DEF Promote, At, Turns, Shape, Standby, Retired, Ssps
<1>2. CASE Promoted /\ To("commit")
  <2>1. /\ swap'.at = "commit" /\ DOMAIN swap' = DOMAIN swap
        /\ DOMAIN node' = Ssps /\ DOMAIN pub' = Ssps
        /\ node'["blue"] = node["blue"] /\ pub'["blue"] = pub["blue"]
        /\ node'["green"].status = node["green"].status /\ node'["green"].standby = FALSE
        /\ DOMAIN node'["green"] = DOMAIN node["green"]
    BY <1>1, <1>2 DEF Promoted, To, Turns, Shape, Ssps
  <2>2. Shape'  BY <1>1, <2>1 DEF Turns, Shape, Ssps
  <2>3. Pooled'  BY <1>1, <2>1 DEF Turns, Pooled, Swapping
  <2>4. Standby'  BY <1>1, <2>1 DEF Turns, Standby
  <2>5. Retired'  BY <1>1, <2>1 DEF Turns, Retired, Silent
  <2> QED  BY <2>2, <2>3, <2>4, <2>5 DEF Turns
<1>3. CASE To(GivenUp) /\ UNCHANGED <<node, pub>>
  <2>1. GivenUp \in {"abandon", "failed"}  BY DEF GivenUp
  <2> QED  BY <1>1, <1>3, <2>1, PhaseStep DEF To, Swapping
<1> QED  BY <1>2, <1>3 DEF Promote, Fault

(* Green has blue's place and blue its standing refused; or blue serves on. *)
LEMMA EndStep ==
    ASSUME Turns, Commit \/ Resume \/ Unretire
    PROVE  Turns'
<1> USE DEF scheduler, views
<1>1. CASE Commit
  <2>1. /\ swap.at = "commit" /\ swap'.at = "done" /\ DOMAIN swap' = DOMAIN swap
        /\ standby' = FALSE /\ replaced' = TRUE
        /\ pool' = [pool EXCEPT !["blue"] = IF @ = "out" THEN @ ELSE "retired"]
        /\ UNCHANGED <<node, pub>>
    BY <1>1 DEF Commit, At, To, Turns, Shape
  <2>2. Shape'  BY <2>1 DEF Turns, Shape, Ssps, PoolStates
  <2>3. Pooled'  BY <2>1 DEF Turns, Shape, Pooled, Swapping, Ssps
  <2>4. Standby'  BY <2>1 DEF Turns, Standby
  <2>5. Retired'  BY <2>1 DEF Turns, Retired, Silent
  <2> QED  BY <2>2, <2>3, <2>4, <2>5 DEF Turns
<1>2. CASE Resume
  <2>1. /\ swap.at = "abandon" /\ swap'.at = "unretire" /\ DOMAIN swap' = DOMAIN swap
        /\ DOMAIN node' = Ssps /\ node'["green"] = node["green"]
        /\ DOMAIN node'["blue"] = DOMAIN node["blue"]
        /\ node'["blue"].standby = node["blue"].standby
        /\ \/ node'["blue"].status = node["blue"].status
           \/ node["blue"].status = "retired" /\ node'["blue"].status = "ready"
        /\ UNCHANGED <<pool, standby, replaced, pub>>
    BY <1>2 DEF Resume, At, To, Turns, Shape, Ssps
  <2>2. Shape'  BY <2>1 DEF Turns, Shape, Ssps, Statuses
  <2>3. Pooled'  BY <2>1 DEF Turns, Pooled, Swapping
  <2>4. Standby'  BY <2>1 DEF Turns, Standby
  <2>5. Retired'  BY <2>1 DEF Turns, Retired, Silent
  <2> QED  BY <2>2, <2>3, <2>4, <2>5 DEF Turns
<1>3. CASE Unretire
  <2>1. /\ swap.at = "unretire" /\ swap'.at = "failed" /\ DOMAIN swap' = DOMAIN swap
        /\ pool' = IF pool["blue"] = "retiring" THEN [pool EXCEPT !["blue"] = "lagging"]
                                                ELSE pool
        /\ UNCHANGED <<standby, replaced, node, pub>>
    BY <1>3 DEF Unretire, At, To, Turns, Shape
  <2>2. Shape'  BY <2>1 DEF Turns, Shape, Ssps, PoolStates
  <2>3. Pooled'  BY <2>1 DEF Turns, Shape, Pooled, Swapping, Ssps
  <2>4. Standby'  BY <2>1 DEF Turns, Standby
  <2>5. Retired'  BY <2>1 DEF Turns, Retired, Silent
  <2> QED  BY <2>2, <2>3, <2>4, <2>5 DEF Turns
<1> QED  BY <1>1, <1>2, <1>3

-----------------------------------------------------------------------------
LEMMA InitTurns ==
    ASSUME Init
    PROVE  Turns
<1>1. Shape
  BY DEF Init, Shape, Ssps, Statuses, PoolStates
<1>2. Pooled /\ Standby /\ Retired
  BY DEF Init, Pooled, Standby, Retired, Silent, Swapping, Ssps
<1> QED  BY <1>1, <1>2 DEF Turns

LEMMA NextTurns ==
    ASSUME Faults \cap Breaking = {}, Turns, [Next]_vars
    PROVE  Turns'
<1>1. "promote" \notin Faults /\ "undrained" \notin Faults /\ "comeback" \notin Faults
  BY DEF Breaking
<1>2. CASE UNCHANGED vars
  <2>1. SameRoles  BY <1>2, UnchangedQuiet DEF vars
  <2>2. LivePath  BY <1>2 DEF vars, LivePath, Turns, Shape
  <2> QED  BY <2>1, <2>2, QuietStep
<1>3. CASE Next
  BY <1>1, <1>3, DeliveryStep, ViewStep, RegisterSspStep, BootStep, DeathStep, HoldStep,
     MarkRetiringStep, RetireStep, PromoteStep, EndStep DEF Next
<1> QED  BY <1>2, <1>3

(* Green writes only out of standby, and then blue is silent. *)
LEMMA TurnsOneWriter ==
    ASSUME Turns
    PROVE  OneWriter
<1>1. Writes("green") => node["green"].status = "ready" /\ ~node["green"].standby
  BY DEF Turns, Standby, Writes
<1>2. Silent("blue") => ~Writes("blue")
  BY DEF Silent, Writes
<1> QED  BY <1>1, <1>2 DEF Turns, Retired, OneWriter

(* At no time do both SSPs write view edges, whichever calls of the swap fail (promote and
   abandon of ssp_handover.rs), for any views, events and number of faults: provided green's
   answer to the promotion arrives, blue answers the retirement only once its publications
   are out, and a blue that died does not register during a swap. *)
THEOREM OneWriterAlways ==
    ASSUME Faults \cap Breaking = {}
    PROVE  Spec => []OneWriter
<1>1. Init => Turns
  BY InitTurns
<1>2. Turns /\ [Next]_vars => Turns'
  BY NextTurns
<1>3. Turns => OneWriter
  BY TurnsOneWriter
<1> QED  BY <1>1, <1>2, <1>3, PTL DEF Spec

-----------------------------------------------------------------------------
(* The type invariant. *)

Phases == {"none", "wait", "hold", "idle", "retire", "drain", "promote", "commit", "abandon",
           "unretire", "done", "failed"}
Event == 1 .. MaxEvents

(* A fan-out is under way only with an event to send, and then for both SSPs. *)
CountersTyped ==
    /\ events \in 0 .. MaxEvents /\ sent \in 0 .. events
    /\ out \in [Ssps -> {"no", "sent", "ok", "failed", "off"}]
    /\ \A s \in Ssps : out[s] # "no" => sent < events
    /\ faults \in 0 .. MaxFaults
PoolTyped ==
    /\ pool \in [Ssps -> PoolStates]
    /\ standby \in BOOLEAN /\ replaced \in BOOLEAN
QueuesTyped ==
    /\ buf \in [Ssps -> Seq(Event)]
    /\ task \in [Tasks -> [ssp : Ssps \cup {"none"}, batch : Seq(Event)]]
    /\ \A t \in Tasks : task[t].ssp = "none" => task[t].batch = <<>>
ViewsTyped ==
    /\ tracker \in [Views -> Ssps \cup {"none"}]
    /\ reg = NoReg \/ reg \in [view : Views, ssp : Ssps]
    /\ msgs \subseteq [op : {"register", "unregister"}, view : Views, to : Ssps \cup {"standby"}]
    /\ rows \subseteq Views /\ released \subseteq Views
SwapTyped ==
    swap \in [at : Phases, pred : BOOLEAN, upto : Nat, trusted : BOOLEAN,
              digests : [Views -> 0 .. NoEdges]]
NodesTyped ==
    /\ node \in [Ssps -> [status : Statuses, standby : BOOLEAN, circuit : 0 .. MaxEvents,
                          regs : SUBSET Views]]
    /\ pub \in [Ssps -> Seq(Work)]
EdgesTyped == edges \in [Views -> 0 .. Garbled]

Typed == /\ CountersTyped /\ PoolTyped /\ QueuesTyped /\ ViewsTyped /\ SwapTyped /\ NodesTyped
         /\ EdgesTyped

LEMMA TypedInit == Init => Typed
<1> SUFFICES ASSUME Init PROVE Typed  OBVIOUS
<1> USE PromotionAssumption
<1>1. CountersTyped  BY DEF Init, CountersTyped, Ssps
<1>2. PoolTyped  BY DEF Init, PoolTyped, Ssps, PoolStates
<1>3. QueuesTyped
  <2>1. <<>> \in Seq(Event)  OBVIOUS
  <2> QED  BY <2>1 DEF Init, QueuesTyped, Off
<1>4. ViewsTyped  BY DEF Init, ViewsTyped, Ssps
<1>5. SwapTyped  BY DEF Init, SwapTyped, Phases, Unknown, NoEdges
<1>6. NodesTyped
  <2>1. <<>> \in Seq(Work)  OBVIOUS
  <2> QED  BY <2>1 DEF Init, NodesTyped, Statuses
<1>7. EdgesTyped  BY DEF Init, EdgesTyped, NoEdges, Garbled
<1> QED  BY <1>1, <1>2, <1>3, <1>4, <1>5, <1>6, <1>7 DEF Typed

(* Any set of views can be put in a sequence. *)
LEMMA ViewSeq ==
    ASSUME NEW S, S \subseteq Views
    PROVE  SetToSeq(S) \in Seq(S)
<1>1. IsFiniteSet(S)
  BY PromotionAssumption, FS_Subset
<1>2. Cardinality(S) \in Nat /\ ExistsBijection(1..Cardinality(S), S)
  BY <1>1, FS_CardinalityType
<1>3. \E f \in [1..Cardinality(S) -> S] : IsInjective(f)
  BY <1>2 DEF ExistsBijection, Bijection, Injection
<1>4. SetToSeq(S) \in [1..Cardinality(S) -> S]
  BY <1>3 DEF SetToSeq
<1> QED  BY <1>2, <1>4

LEMMA DeltasType ==
    ASSUME NodesTyped, NEW s \in Ssps, NEW e \in Event
    PROVE  Deltas(s, e) \in Seq(Work)
<1> DEFINE held == SetToSeq(node[s].regs)
<1>1. held \in Seq(Views)
  <2>1. node[s].regs \subseteq Views  BY DEF NodesTyped
  <2> QED  BY <2>1, ViewSeq
<1>2. \A i \in DOMAIN held : [op |-> "delta", view |-> held[i], at |-> e] \in Work
  BY <1>1, PromotionAssumption DEF Work, Event
<1> QED  BY <1>1, <1>2 DEF Deltas

LEMMA TakenType ==
    ASSUME NodesTyped, NEW s \in Ssps, NEW e \in Event, Taken(s, e)
    PROVE  NodesTyped'
<1>1. Deltas(s, e) \in Seq(Work)  BY DeltasType
<1>2. pub[s] \in Seq(Work) /\ pub[s] \o Deltas(s, e) \in Seq(Work)
  BY <1>1 DEF NodesTyped
<1>3. e \in 0 .. MaxEvents  BY PromotionAssumption DEF Event
<1>4. node' \in [Ssps -> [status : Statuses, standby : BOOLEAN, circuit : 0 .. MaxEvents,
                          regs : SUBSET Views]]
  BY <1>3 DEF NodesTyped, Taken
<1>5. pub' \in [Ssps -> Seq(Work)]
  BY <1>2 DEF NodesTyped, Taken
<1> QED  BY <1>4, <1>5 DEF NodesTyped

Ascending(p) == \A i, j \in DOMAIN p : i < j => p[i] < p[j]

(* Every set of numbers up to n can be enumerated in ascending order. *)
LEMMA AscendingStep ==
    ASSUME NEW n \in Nat, NEW S, S \subseteq 1..n,
           \A m \in Nat : m < n => \A T \in SUBSET (1..m) : \E p \in [1..Cardinality(T) -> T] : Ascending(p)
    PROVE  \E p \in [1..Cardinality(S) -> S] : Ascending(p)
<1>1. CASE n = 0
  <2>1. S = {}  BY <1>1
  <2>2. Cardinality(S) = 0  BY <2>1, FS_EmptySet
  <2>3. 1..0 = {}  OBVIOUS
  <2> DEFINE p == [i \in 1..0 |-> i]
  <2>4. p \in [1..Cardinality(S) -> S] /\ Ascending(p)
    BY <2>1, <2>2, <2>3 DEF Ascending
  <2> QED  BY <2>4
<1>2. CASE n # 0
  <2> DEFINE T == S \ {n}
             k == Cardinality(T)
  <2>1. n - 1 \in Nat /\ n - 1 < n /\ T \in SUBSET (1..(n - 1))  BY <1>2
  <2>2. PICK q \in [1..k -> T] : Ascending(q)
    <3>1. \A U \in SUBSET (1..(n - 1)) : \E p \in [1..Cardinality(U) -> U] : Ascending(p)
      BY <2>1
    <3> HIDE DEF T
    <3> QED  BY <2>1, <3>1, Zenon DEF k
  <2>3. IsFiniteSet(T) /\ k \in Nat
    <3>1. IsFiniteSet(1..(n - 1))  BY <2>1, FS_Interval
    <3> QED  BY <2>1, <3>1, FS_Subset, FS_CardinalityType
  <2>4. CASE n \notin S
    <3>1. T = S  BY <2>4
    <3> QED  BY <2>2, <3>1
  <2>5. CASE n \in S
    <3>1. S = T \cup {n} /\ n \notin T  BY <2>5
    <3>2. Cardinality(S) = k + 1
      <4> HIDE DEF T
      <4>1. Cardinality(T \cup {n}) = k + 1  BY <2>3, <3>1, FS_AddElement DEF k
      <4> QED  BY <3>1, <4>1
    <3> DEFINE p == [i \in 1..(k + 1) |-> IF i = k + 1 THEN n ELSE q[i]]
    <3>3. \A i \in 1..k : q[i] \in T /\ q[i] < n
      <4>1. \A x \in T : x < n  BY <2>1
      <4> HIDE DEF k, T
      <4> QED  BY <2>2, <4>1
    <3>4. p \in [1..(k + 1) -> S]
      <4> HIDE DEF k, T
      <4> QED  BY <2>3, <3>1, <3>3
    <3>5. Ascending(p)
      <4> HIDE DEF k, T
      <4> SUFFICES ASSUME NEW i \in 1..(k + 1), NEW j \in 1..(k + 1), i < j PROVE p[i] < p[j]
        BY DEF Ascending
      <4>1. i \in 1..k  BY <2>3
      <4>2. CASE j = k + 1  BY <3>3, <4>1, <4>2, <2>3
      <4>3. CASE j # k + 1
        <5>1. j \in 1..k  BY <4>3, <2>3
        <5>2. q[i] < q[j]  BY <2>2, <4>1, <5>1 DEF Ascending
        <5> QED  BY <2>3, <4>1, <5>1, <5>2
      <4> QED  BY <4>2, <4>3
    <3> QED  BY <3>2, <3>4, <3>5
  <2> QED  BY <2>4, <2>5
<1> QED  BY <1>1, <1>2

LEMMA AscendingExists ==
    ASSUME NEW n \in Nat, NEW S \in SUBSET (1..n)
    PROVE  \E p \in [1..Cardinality(S) -> S] : Ascending(p)
<1> DEFINE Enumerated(m) == \A T \in SUBSET (1..m) : \E p \in [1..Cardinality(T) -> T] : Ascending(p)
           bad == {m \in Nat : ~Enumerated(m)}
<1>1. CASE bad # {}
  <2>1. PICK m \in bad : \A l \in bad : ~(<<l, m>> \in OpToRel(<, Nat))
    <3>1. bad \in SUBSET Nat  OBVIOUS
    <3> HIDE DEF bad
    <3> QED  BY <1>1, <3>1, WFMin, NatLessThanWellFounded
  <2>2. m \in Nat /\ ~Enumerated(m)  OBVIOUS
  <2>3. ASSUME NEW l \in Nat, l < m PROVE Enumerated(l)
    <3>1. <<l, m>> \in OpToRel(<, Nat)  BY <2>2, <2>3 DEF OpToRel
    <3> HIDE DEF Enumerated
    <3> QED  BY <2>1, <3>1
  <2>4. Enumerated(m)
    <3> SUFFICES ASSUME NEW T \in SUBSET (1..m) PROVE \E p \in [1..Cardinality(T) -> T] : Ascending(p)
      OBVIOUS
    <3>1. \A l \in Nat : l < m => \A U \in SUBSET (1..l) : \E p \in [1..Cardinality(U) -> U] : Ascending(p)
      BY <2>3
    <3> HIDE DEF Enumerated
    <3> QED  BY <2>2, <3>1, AscendingStep
  <2> QED  BY <2>2, <2>4
<1>2. CASE bad = {}
  <2>1. Enumerated(n)
    <3> HIDE DEF Enumerated
    <3> QED  BY <1>2
  <2> QED  BY <2>1
<1> QED  BY <1>1, <1>2

LEMMA InOrderType ==
    ASSUME NEW n \in Nat, NEW S \in SUBSET (1..n)
    PROVE  InOrder(S) \in [1..Cardinality(S) -> S] /\ Cardinality(S) \in Nat
<1>1. \E p \in [1..Cardinality(S) -> S] : Ascending(p)  BY AscendingExists
<1>2. InOrder(S) \in [1..Cardinality(S) -> S]
  BY <1>1, Zenon DEF InOrder, Ascending
<1>3. IsFiniteSet(1..n)  BY FS_Interval
<1> QED  BY <1>2, <1>3, FS_Subset, FS_CardinalityType

LEMMA WithoutType ==
    ASSUME NEW W, NEW q \in Seq(W), NEW v PROVE Without(q, v) \in Seq(W)
<1> DEFINE S == {i \in DOMAIN q : q[i].view # v}
<1>1. Len(q) \in Nat /\ DOMAIN q = 1..Len(q)  OBVIOUS
<1>2. S \in SUBSET (1..Len(q))  BY <1>1
<1> DEFINE p == InOrder(S)
           k == Cardinality(S)
<1>3. p \in [1..k -> S] /\ k \in Nat
  <2> HIDE DEF S
  <2> QED  BY <1>1, <1>2, InOrderType
<1>4. DOMAIN p = 1..k /\ \A i \in DOMAIN p : q[p[i]] \in W
  <2> HIDE DEF p, k
  <2> QED  BY <1>2, <1>3
<1>5. [i \in DOMAIN p |-> q[p[i]]] \in Seq(W)
  <2> HIDE DEF p, k
  <2> QED  BY <1>3, <1>4
<1> QED  BY <1>5 DEF Without

LEMMA RegisteredType ==
    ASSUME NodesTyped, NEW s \in Ssps, NEW v \in Views, Registered(s, v), rows \subseteq Views
    PROVE  NodesTyped' /\ rows' \subseteq Views
<1> DEFINE snapshot == [op |-> "snapshot", view |-> v, at |-> node[s].circuit]
<1>1. snapshot \in Work  BY DEF NodesTyped, Work
<1>2. pub[s] \in Seq(Work)  BY DEF NodesTyped
<1>3. Without(pub[s], v) \in Seq(Work)  BY <1>2, WithoutType
<1>4. Append(pub[s], snapshot) \in Seq(Work) /\ Append(Without(pub[s], v), snapshot) \in Seq(Work)
  BY <1>1, <1>2, <1>3
<1>5. node' \in [Ssps -> [status : Statuses, standby : BOOLEAN, circuit : 0 .. MaxEvents,
                          regs : SUBSET Views]]
  BY DEF NodesTyped, Registered
<1>6. pub' \in [Ssps -> Seq(Work)]
  <2> HIDE DEF snapshot
  <2>1. PICK q \in {pub[s], Append(pub[s], snapshot), Append(Without(pub[s], v), snapshot)} :
            pub' = [pub EXCEPT ![s] = q]
    BY DEF Registered, snapshot
  <2> QED  BY <1>2, <1>4, <2>1 DEF NodesTyped
<1> QED  BY <1>5, <1>6 DEF NodesTyped, Registered

LEMMA UnregisteredType ==
    ASSUME NodesTyped, NEW s \in Ssps, NEW v \in Views, Unregistered(s, v)
    PROVE  NodesTyped'
<1> DEFINE drop == [op |-> "drop", view |-> v, at |-> 0]
<1>1. drop \in Work  BY PromotionAssumption DEF Work
<1>2. pub[s] \in Seq(Work)  BY DEF NodesTyped
<1>3. Without(pub[s], v) \in Seq(Work)  BY <1>2, WithoutType
<1>4. Append(Without(pub[s], v), drop) \in Seq(Work)
  BY <1>1, <1>3
<1>5. node' \in [Ssps -> [status : Statuses, standby : BOOLEAN, circuit : 0 .. MaxEvents,
                          regs : SUBSET Views]]
  BY DEF NodesTyped, Unregistered
<1>6. pub' \in [Ssps -> Seq(Work)]
  BY <1>2, <1>4 DEF NodesTyped, Unregistered
<1> QED  BY <1>5, <1>6 DEF NodesTyped
LEMMA FaultType ==
    ASSUME faults \in 0 .. MaxFaults, NEW f, Fault(f)
    PROVE  faults' \in 0 .. MaxFaults
  BY PromotionAssumption DEF Fault

(* The counters of the fan-out and of the faults. *)
LEMMA CountersStep ==
    ASSUME Typed, Next
    PROVE  CountersTyped'
<1> USE DEF scheduler, views
<1>0. /\ events \in Nat /\ sent \in Nat /\ sent <= events /\ events <= MaxEvents
      /\ faults \in 0 .. MaxFaults
  BY PromotionAssumption DEF Typed, CountersTyped
<1>1. CASE Ingest
  BY <1>0, <1>1, PromotionAssumption DEF Ingest, Typed, CountersTyped
<1>2. CASE FanOut
  BY <1>0, <1>2 DEF FanOut, Typed, CountersTyped
<1>3. CASE FanOutDone
  <2>1. sent < events
    <3>1. "blue" \in Ssps /\ out["blue"] # "no"  BY <1>3 DEF FanOutDone, Ssps
    <3> QED  BY <3>1 DEF Typed, CountersTyped
  <2> QED  BY <1>0, <1>3, <2>1 DEF FanOutDone, Typed, CountersTyped
<1>4. ASSUME NEW s \in Ssps, Deliver(s) PROVE CountersTyped'
  <2>1. faults' \in 0 .. MaxFaults  BY <1>0, <1>4, FaultType DEF Deliver
  <2>2. /\ out[s] = "sent" /\ UNCHANGED <<events, sent>>
        /\ \E r \in {"ok", "failed"} : out' = [out EXCEPT ![s] = r]
    BY <1>4 DEF Deliver
  <2> QED  BY <1>0, <2>1, <2>2 DEF Typed, CountersTyped
<1>5. CASE UNCHANGED <<events, sent, out>> /\ faults' \in 0 .. MaxFaults
  BY <1>5 DEF Typed, CountersTyped
<1>6. ASSUME NEW s \in Ssps, Publish(s) \/ RegisterSsp(s) \/ BootViews(s) \/ BootEnds(s)
      PROVE UNCHANGED <<events, sent, out>> /\ faults' \in 0 .. MaxFaults
  BY <1>0, <1>6, FaultType DEF Publish, RegisterSsp, BootViews, BootEnds
<1>7. ASSUME NEW t \in Tasks, Redeliver(t) \/ RedeliverOne(t)
      PROVE UNCHANGED <<events, sent, out>> /\ faults' \in 0 .. MaxFaults
  BY <1>0, <1>7 DEF Redeliver, RedeliverOne
<1>8. ASSUME NEW v \in Views, Register(v) \/ Release(v)
      PROVE UNCHANGED <<events, sent, out>> /\ faults' \in 0 .. MaxFaults
  BY <1>0, <1>8, FaultType DEF Register, Release
<1>9. CASE RegisterEnds \/ Arrive \/ Dies \/ Evict
  BY <1>0, <1>5, <1>9, FaultType DEF RegisterEnds, Arrive, Arrives, Dies, Evict
<1>10. CASE Hold \/ MarkRetiring \/ FanOutIdle \/ Retire \/ RetireAnswered \/ RetireFails
  BY <1>0, <1>5, <1>10, FaultType
     DEF Hold, MarkRetiring, FanOutIdle, Retire, RetireAnswered, RetireFails
<1>11. CASE Promote \/ Commit \/ Resume \/ Unretire
  BY <1>0, <1>5, <1>11, FaultType DEF Promote, Commit, Resume, Unretire
<1> QED  BY <1>1, <1>2, <1>3, <1>4, <1>5, <1>6, <1>7, <1>8, <1>9, <1>10, <1>11 DEF Next

(* The pool. *)
LEMMA PoolStep ==
    ASSUME Typed, Next
    PROVE  PoolTyped'
<1> USE DEF scheduler, views, PoolStates
<1>0. PoolTyped  BY DEF Typed
<1>1. CASE Ingest \/ FanOut \/ FanOutDone
  BY <1>0, <1>1 DEF Ingest, FanOut, FanOutDone, PoolTyped
<1>2. ASSUME NEW s \in Ssps, Deliver(s) \/ Publish(s) \/ BootViews(s) \/ BootEnds(s)
      PROVE PoolTyped'
  BY <1>0, <1>2 DEF Deliver, Publish, BootViews, BootEnds, PoolTyped
<1>3. ASSUME NEW s \in Ssps, RegisterSsp(s) PROVE PoolTyped'
  <2>1. Serving("blue") \in BOOLEAN /\ ComingUp("blue") \in BOOLEAN  BY DEF Serving, ComingUp
  <2> QED  BY <1>0, <1>3, <2>1 DEF RegisterSsp, PoolTyped
<1>4. ASSUME NEW t \in Tasks, Redeliver(t) \/ RedeliverOne(t) PROVE PoolTyped'
  BY <1>0, <1>4 DEF Redeliver, RedeliverOne, PoolTyped
<1>5. ASSUME NEW v \in Views, Register(v) \/ Release(v) PROVE PoolTyped'
  BY <1>0, <1>5 DEF Register, Release, PoolTyped
<1>6. CASE RegisterEnds \/ Arrive \/ Dies \/ Evict
  BY <1>0, <1>6 DEF RegisterEnds, Arrive, Arrives, Dies, Evict, PoolTyped
<1>7. CASE Hold \/ MarkRetiring \/ FanOutIdle \/ Retire \/ RetireAnswered \/ RetireFails
  BY <1>0, <1>7 DEF Hold, MarkRetiring, FanOutIdle, Retire, RetireAnswered, RetireFails, PoolTyped
<1>8. CASE Promote \/ Commit \/ Resume \/ Unretire
  BY <1>0, <1>8 DEF Promote, Commit, Resume, Unretire, PoolTyped
<1> QED  BY <1>1, <1>2, <1>3, <1>4, <1>5, <1>6, <1>7, <1>8 DEF Next

(* The redelivery tasks: whether or not one is free, a task is started with an empty batch. *)
TaskRecord == [ssp : Ssps \cup {"none"}, batch : Seq(Event)]

LEMMA SpawnedType ==
    ASSUME NEW tt \in [Tasks -> TaskRecord], NEW s \in Ssps,
           \A t \in Tasks : tt[t].ssp = "none" => tt[t].batch = <<>>
    PROVE  /\ Spawned(tt, s) \in [Tasks -> TaskRecord]
           /\ \A t \in Tasks : Spawned(tt, s)[t].ssp = "none" => Spawned(tt, s)[t].batch = <<>>
           /\ \A t \in Tasks : Spawned(tt, s)[t] = tt[t] \/ Spawned(tt, s)[t] = [ssp |-> s, batch |-> <<>>]
<1> DEFINE u == CHOOSE w \in Tasks : tt[w] = Off /\ \A x \in Tasks : tt[x] = Off => w <= x
           new == [ssp |-> s, batch |-> <<>>]
<1>1. Spawned(tt, s) = [tt EXCEPT ![u] = new]  BY DEF Spawned
<1>2. new \in TaskRecord /\ new.ssp \in Ssps /\ new.ssp # "none"  BY DEF TaskRecord, Ssps
<1> HIDE DEF u, new
<1>3. \A t \in Tasks : Spawned(tt, s)[t] = tt[t] \/ Spawned(tt, s)[t] = new
  BY <1>1
<1> QED  BY <1>1, <1>2, <1>3 DEF new

LEMMA QueuesStep ==
    ASSUME Typed, Next
    PROVE  QueuesTyped'
<1> USE DEF scheduler, views
<1>0. QueuesTyped /\ task \in [Tasks -> TaskRecord]
  BY DEF Typed, QueuesTyped, TaskRecord
<1>00. <<>> \in Seq(Event)  OBVIOUS
<1>1. CASE FanOut \/ FanOutDone
  <2>1. \A s \in Ssps : Append(buf[s], sent + 1) \in Seq(Event)
    <3>1. sent + 1 \in Event
      <4>1. sent < events
        BY <1>1 DEF FanOut, FanOutDone, Typed, CountersTyped, Ssps
      <4> QED  BY <4>1, PromotionAssumption DEF Event, Typed, CountersTyped
    <3> QED  BY <1>0, <3>1 DEF QueuesTyped
  <2>2. buf' \in [Ssps -> Seq(Event)]
    BY <1>0, <1>1, <2>1 DEF FanOut, FanOutDone, QueuesTyped
  <2>3. CASE FanOut
    BY <1>0, <2>2, <2>3 DEF FanOut, QueuesTyped
  <2>4. CASE FanOutDone
    <3> DEFINE one == IF Lags("blue") THEN Spawned(task, "blue") ELSE task
    <3>1. one \in [Tasks -> TaskRecord] /\ \A t \in Tasks : one[t].ssp = "none" => one[t].batch = <<>>
      BY <1>0, SpawnedType DEF QueuesTyped, Ssps
    <3>2. task' = IF Lags("green") THEN Spawned(one, "green") ELSE one
      BY <2>4 DEF FanOutDone
    <3> HIDE DEF one
    <3>3. task' \in [Tasks -> TaskRecord] /\ \A t \in Tasks : task'[t].ssp = "none" => task'[t].batch = <<>>
      BY <3>1, <3>2, SpawnedType DEF Ssps
    <3> QED  BY <2>2, <3>3 DEF QueuesTyped, TaskRecord
  <2> QED  BY <1>1, <2>3, <2>4
<1>2. ASSUME NEW s \in Ssps, RegisterSsp(s) \/ BootEnds(s) PROVE QueuesTyped'
  BY <1>0, <1>00, <1>2 DEF RegisterSsp, BootEnds, QueuesTyped
<1>3. ASSUME NEW t \in Tasks, Redeliver(t) PROVE QueuesTyped'
  <2> DEFINE s == task[t].ssp
  <2>1. s \in Ssps
    <3>1. s # "none"
      <4>1. CASE s = "none"
        <5>1. task[t] \in TaskRecord /\ task[t].batch = <<>>  BY <1>0, <4>1 DEF QueuesTyped
        <5>2. task[t] = Off  BY <4>1, <5>1 DEF Off, TaskRecord
        <5> QED  BY <1>3, <5>2 DEF Redeliver
      <4> QED  BY <4>1
    <3> QED  BY <1>0, <3>1 DEF TaskRecord
  <2>2. CASE UNCHANGED buf /\ task' = [task EXCEPT ![t] = Off]
    <3>1. Off \in TaskRecord /\ Off.batch = <<>>  BY <1>00 DEF Off, TaskRecord
    <3> QED  BY <1>0, <2>2, <3>1 DEF QueuesTyped, TaskRecord
  <2>3. CASE task' = [task EXCEPT ![t].batch = buf[s]] /\ buf' = [buf EXCEPT ![s] = <<>>]
    <3>1. buf[s] \in Seq(Event)  BY <1>0, <2>1 DEF QueuesTyped
    <3>2. task' \in [Tasks -> TaskRecord]  BY <1>0, <2>3, <3>1 DEF TaskRecord
    <3>3. buf' \in [Ssps -> Seq(Event)]  BY <1>0, <1>00, <2>3 DEF QueuesTyped
    <3>4. \A u \in Tasks : task'[u].ssp = task[u].ssp /\ (u # t => task'[u] = task[u])
      BY <1>0, <2>3 DEF TaskRecord
    <3>5. task[t].ssp # "none"  BY <2>1 DEF Ssps
    <3> QED  BY <1>0, <3>2, <3>3, <3>4, <3>5 DEF QueuesTyped, TaskRecord
  <2> QED  BY <1>3, <2>2, <2>3 DEF Redeliver
<1>4. ASSUME NEW t \in Tasks, RedeliverOne(t) PROVE QueuesTyped'
  <2> DEFINE s == task[t].ssp
  <2>1. task[t].batch \in Seq(Event) /\ task[t].batch # <<>>
    BY <1>0, <1>4 DEF RedeliverOne, TaskRecord
  <2>2. s \in Ssps /\ s # "none"
    BY <1>0, <2>1 DEF QueuesTyped, TaskRecord, Ssps
  <2>3. PICK b \in Seq(Event) : task' = [task EXCEPT ![t].batch = b]
    <3>1. Tail(task[t].batch) \in Seq(Event)  BY <2>1
    <3>2. \/ task' = [task EXCEPT ![t].batch = Tail(task[t].batch)]
          \/ task' = [task EXCEPT ![t].batch = <<>>]
      BY <1>4 DEF RedeliverOne
    <3> QED  BY <1>00, <3>1, <3>2, Zenon
  <2>4. task' \in [Tasks -> TaskRecord]
    BY <1>0, <2>3 DEF TaskRecord
  <2>5. \A u \in Tasks : task'[u].ssp = task[u].ssp /\ (u # t => task'[u] = task[u])
    BY <1>0, <2>3 DEF TaskRecord
  <2>6. buf' \in [Ssps -> Seq(Event)]
    <3>1. task[t].batch \o buf[s] \in Seq(Event)  BY <1>0, <2>1, <2>2 DEF QueuesTyped
    <3> QED  BY <1>0, <1>4, <3>1 DEF RedeliverOne, QueuesTyped
  <2> QED  BY <1>0, <2>2, <2>4, <2>5, <2>6 DEF QueuesTyped, TaskRecord
<1>5. CASE Evict \/ Commit
  BY <1>0, <1>00, <1>5 DEF Evict, Commit, QueuesTyped
<1>6. CASE Unretire
  <2>1. task' = task \/ task' = Spawned(task, "blue")  BY <1>6 DEF Unretire
  <2>2. task' \in [Tasks -> TaskRecord] /\ \A t \in Tasks : task'[t].ssp = "none" => task'[t].batch = <<>>
    BY <1>0, <2>1, SpawnedType DEF QueuesTyped, Ssps
  <2> QED  BY <1>0, <1>6, <2>2 DEF Unretire, QueuesTyped, TaskRecord
<1>7. CASE UNCHANGED <<buf, task>>
  BY <1>0, <1>7 DEF QueuesTyped
<1>8. ASSUME NEW s \in Ssps, Deliver(s) \/ Publish(s) \/ BootViews(s) PROVE UNCHANGED <<buf, task>>
  BY <1>8 DEF Deliver, Publish, BootViews
<1>9. ASSUME NEW v \in Views, Register(v) \/ Release(v) PROVE UNCHANGED <<buf, task>>
  BY <1>9 DEF Register, Release
<1>10. CASE Ingest \/ RegisterEnds \/ Arrive \/ Dies
  BY <1>7, <1>10 DEF Ingest, RegisterEnds, Arrive, Arrives, Dies
<1>11. CASE Hold \/ MarkRetiring \/ FanOutIdle \/ Retire \/ RetireAnswered \/ RetireFails
  BY <1>7, <1>11 DEF Hold, MarkRetiring, FanOutIdle, Retire, RetireAnswered, RetireFails
<1>12. CASE Promote \/ Resume
  BY <1>7, <1>12 DEF Promote, Resume
<1> QED  BY <1>1, <1>2, <1>3, <1>4, <1>5, <1>6, <1>7, <1>8, <1>9, <1>10, <1>11, <1>12 DEF Next
(* The view registrations. *)
LEMMA ViewsStep ==
    ASSUME Typed, Next
    PROVE  ViewsTyped'
<1> USE DEF scheduler, views
<1>0. ViewsTyped /\ NodesTyped  BY DEF Typed
<1>1. CASE UNCHANGED <<tracker, reg, msgs, rows, released>>
  BY <1>0, <1>1 DEF ViewsTyped
<1>2. CASE Ingest \/ FanOut \/ FanOutDone
  BY <1>1, <1>2 DEF Ingest, FanOut, FanOutDone
<1>3. ASSUME NEW s \in Ssps, Deliver(s) \/ Publish(s) \/ RegisterSsp(s) \/ BootViews(s) \/ BootEnds(s)
      PROVE ViewsTyped'
  BY <1>1, <1>3 DEF Deliver, Publish, RegisterSsp, BootViews, BootEnds
<1>4. ASSUME NEW t \in Tasks, Redeliver(t) \/ RedeliverOne(t) PROVE ViewsTyped'
  BY <1>1, <1>4 DEF Redeliver, RedeliverOne
<1>5. ASSUME NEW v \in Views, Register(v) PROVE ViewsTyped'
  <2>1. PICK s \in TargetOf(v) : reg' = [view |-> v, ssp |-> s] /\ tracker' = [tracker EXCEPT ![v] = s]
    BY <1>5 DEF Register
  <2>2. s \in Ssps
    <3>1. tracker[v] \in Ssps \cup {"none"}  BY <1>0 DEF ViewsTyped
    <3> QED  BY <2>1, <3>1 DEF TargetOf
  <2> QED  BY <1>0, <1>5, <2>1, <2>2 DEF Register, ViewsTyped
<1>6. ASSUME NEW v \in Views, Release(v) PROVE ViewsTyped'
  <2> DEFINE copies == Shadow(tracker[v], "unregister", v)
                       \cup {[op |-> "unregister", view |-> v, to |-> tracker[v]]}
  <2>1. tracker[v] \in Ssps \cup {"none"}  BY <1>0 DEF ViewsTyped
  <2>2. tracker[v] # "none" =>
          copies \subseteq [op : {"register", "unregister"}, view : Views, to : Ssps \cup {"standby"}]
    BY <2>1 DEF Shadow
  <2>3. msgs' = msgs \/ (tracker[v] # "none" /\ msgs' = msgs \cup copies)
    BY <1>6 DEF Release
  <2> HIDE DEF copies
  <2> QED  BY <1>0, <1>6, <2>2, <2>3 DEF Release, ViewsTyped
<1>7. CASE RegisterEnds
  <2>1. reg.view \in Views /\ reg.ssp \in Ssps  BY <1>0, <1>7 DEF RegisterEnds, ViewsTyped
  <2>2. rows' \subseteq Views
    <3>1. Registered(reg.ssp, reg.view) => rows' \subseteq Views
      BY <1>0, <2>1, RegisteredType DEF ViewsTyped
    <3> QED  BY <1>0, <1>7, <3>1 DEF RegisterEnds, ViewsTyped
  <2>3. msgs' \subseteq [op : {"register", "unregister"}, view : Views, to : Ssps \cup {"standby"}]
    BY <1>0, <1>7, <2>1 DEF RegisterEnds, Shadow, ViewsTyped
  <2>4. tracker' \in [Views -> Ssps \cup {"none"}]
    BY <1>0, <1>7 DEF RegisterEnds, ViewsTyped
  <2> QED  BY <1>0, <1>7, <2>2, <2>3, <2>4 DEF RegisterEnds, ViewsTyped
<1>8. CASE Arrive
  <2>1. PICK m \in msgs : Arrives(m)  BY <1>8 DEF Arrive
  <2>2. m.view \in Views /\ m.to \in Ssps \cup {"standby"}  BY <1>0 DEF ViewsTyped
  <2>3. rows' = rows \/ \E s \in Ssps : Registered(s, m.view)
    BY <2>1 DEF Arrives, Unregistered
  <2>4. rows' \subseteq Views
    BY <1>0, <2>2, <2>3, RegisteredType DEF ViewsTyped
  <2> QED  BY <1>0, <2>1, <2>4 DEF Arrives, ViewsTyped
<1>9. CASE Dies \/ Evict
  BY <1>1, <1>9 DEF Dies, Evict
<1>10. CASE Hold \/ MarkRetiring \/ FanOutIdle \/ Retire \/ RetireAnswered \/ RetireFails
  BY <1>1, <1>10 DEF Hold, MarkRetiring, FanOutIdle, Retire, RetireAnswered, RetireFails
<1>11. CASE Promote \/ Resume \/ Unretire
  BY <1>1, <1>11 DEF Promote, Resume, Unretire
<1>12. CASE Commit
  BY <1>0, <1>12 DEF Commit, ViewsTyped, Ssps
<1> QED  BY <1>2, <1>3, <1>4, <1>5, <1>6, <1>7, <1>8, <1>9, <1>10, <1>11, <1>12 DEF Next

(* The swap. *)
LEMMA PhaseType ==
    ASSUME SwapTyped, NEW a \in Phases, To(a)
    PROVE  SwapTyped'
  BY DEF SwapTyped, To

LEMMA SwapStep ==
    ASSUME Typed, Next
    PROVE  SwapTyped'
<1> USE DEF scheduler, views
<1>0. SwapTyped  BY DEF Typed
<1>1. CASE UNCHANGED swap
  BY <1>0, <1>1 DEF SwapTyped
<1>2. CASE Ingest \/ FanOut \/ FanOutDone \/ RegisterEnds \/ Arrive \/ Dies \/ Evict
  BY <1>1, <1>2 DEF Ingest, FanOut, FanOutDone, RegisterEnds, Arrive, Arrives, Dies, Evict
<1>3. ASSUME NEW s \in Ssps, Deliver(s) \/ Publish(s) \/ RegisterSsp(s) \/ BootViews(s)
      PROVE SwapTyped'
  BY <1>1, <1>3 DEF Deliver, Publish, RegisterSsp, BootViews
<1>4. ASSUME NEW s \in Ssps, BootEnds(s) PROVE SwapTyped'
  <2>1. swap' = swap \/ swap' = [swap EXCEPT !.at = "wait"]  BY <1>4 DEF BootEnds
  <2> QED  BY <1>0, <2>1 DEF SwapTyped, Phases
<1>5. ASSUME NEW t \in Tasks, Redeliver(t) \/ RedeliverOne(t) PROVE SwapTyped'
  BY <1>1, <1>5 DEF Redeliver, RedeliverOne
<1>6. ASSUME NEW v \in Views, Register(v) \/ Release(v) PROVE SwapTyped'
  BY <1>1, <1>6 DEF Register, Release
<1>7. CASE Hold
  <2>1. PICK a \in {"hold", "failed"}, b \in BOOLEAN : swap' = [swap EXCEPT !.at = a, !.pred = b]
    <3>1. Serving("blue") \in BOOLEAN  BY DEF Serving
    <3> QED  BY <1>7, <3>1 DEF Hold
  <2> QED  BY <1>0, <2>1 DEF SwapTyped, Phases
<1>8. CASE MarkRetiring
  <2>1. events \in Nat  BY PromotionAssumption DEF Typed, CountersTyped
  <2>2. swap' = [swap EXCEPT !.at = "idle", !.upto = events] \/ To("promote")
    BY <1>8 DEF MarkRetiring
  <2> QED  BY <1>0, <2>1, <2>2 DEF SwapTyped, Phases, To
<1>9. CASE FanOutIdle \/ Retire \/ RetireFails
  BY <1>0, <1>9, PhaseType DEF FanOutIdle, Retire, RetireFails, Phases
<1>10. CASE RetireAnswered
  <2>1. Digests \in [Views -> 0 .. NoEdges]
    BY PromotionAssumption DEF Typed, NodesTyped, Digests, NoEdges, Ssps
  <2>2. \/ swap' = [swap EXCEPT !.at = "promote", !.trusted = TRUE, !.digests = Digests]
        \/ To("promote")
    BY <1>10 DEF RetireAnswered
  <2> QED  BY <1>0, <2>1, <2>2 DEF SwapTyped, Phases, To
<1>11. CASE Promote
  <2>1. GivenUp \in Phases /\ "commit" \in Phases  BY DEF GivenUp, Phases
  <2>2. To("commit") \/ To(GivenUp)  BY <1>11 DEF Promote
  <2> QED  BY <1>0, <2>1, <2>2, PhaseType
<1>12. CASE Commit \/ Resume \/ Unretire
  BY <1>0, <1>12, PhaseType DEF Commit, Resume, Unretire, Phases
<1> QED  BY <1>2, <1>3, <1>4, <1>5, <1>6, <1>7, <1>8, <1>9, <1>10, <1>11, <1>12 DEF Next

(* The SSPs and what they have queued. *)
NodeRecord == [status : Statuses, standby : BOOLEAN, circuit : 0 .. MaxEvents, regs : SUBSET Views]

LEMMA PromotedType ==
    ASSUME NodesTyped, ViewsTyped, Promoted
    PROVE  NodesTyped'
<1> DEFINE held == node["green"].regs \cup Missed
           again == SetToSeq(Republished(held))
           more == [i \in DOMAIN again |-> [op |-> "snapshot", view |-> again[i],
                                            at |-> node["green"].circuit]]
<1>0. "green" \in Ssps /\ node["green"] \in NodeRecord /\ pub["green"] \in Seq(Work)
  BY DEF Ssps, NodesTyped, NodeRecord
<1>1. held \subseteq Views
  BY <1>0 DEF ViewsTyped, Missed, NodeRecord
<1>2. again \in Seq(Views)
  <2> DEFINE S == Republished(held)
  <2>1. S \subseteq Views  BY <1>1 DEF Republished
  <2> HIDE DEF S
  <2>2. SetToSeq(S) \in Seq(S)  BY <2>1, ViewSeq
  <2>3. SetToSeq(S) \in Seq(Views)  BY <2>1, <2>2
  <2> QED  BY <2>3 DEF S
<1>3. Kept(held) \in SUBSET Views  BY <1>1 DEF Kept
<1> HIDE DEF again
<1>4. \A i \in DOMAIN again : [op |-> "snapshot", view |-> again[i], at |-> node["green"].circuit] \in Work
  BY <1>0, <1>2 DEF Work, NodeRecord
<1>5. more \in Seq(Work)
  <2>1. DOMAIN again = 1..Len(again) /\ Len(again) \in Nat  BY <1>2
  <2> QED  BY <1>4, <2>1
<1>6. pub["green"] \o more \in Seq(Work)
  <2> HIDE DEF more
  <2> QED  BY <1>0, <1>5
<1>7. CASE UNCHANGED <<node, pub>>
  BY <1>7 DEF NodesTyped
<1>8. CASE /\ node' = [node EXCEPT !["green"].regs = Kept(held), !["green"].standby = FALSE]
           /\ pub' = [pub EXCEPT !["green"] = @ \o more]
  <2> HIDE DEF held, more
  <2>1. node' \in [Ssps -> NodeRecord]  BY <1>0, <1>3, <1>8 DEF NodesTyped, NodeRecord
  <2>2. pub' \in [Ssps -> Seq(Work)]  BY <1>6, <1>8 DEF NodesTyped
  <2> QED  BY <2>1, <2>2 DEF NodesTyped, NodeRecord
<1> QED  BY <1>7, <1>8 DEF Promoted, again

LEMMA NodesStep ==
    ASSUME Typed, Next
    PROVE  NodesTyped'
<1> USE DEF scheduler, views
<1>0. /\ NodesTyped /\ ViewsTyped
      /\ node \in [Ssps -> NodeRecord] /\ pub \in [Ssps -> Seq(Work)] /\ "blue" \in Ssps
  BY DEF Typed, NodesTyped, NodeRecord, Ssps
<1>00. <<>> \in Seq(Work) /\ sent \in 0 .. MaxEvents
  BY PromotionAssumption DEF Typed, CountersTyped
<1>1. CASE UNCHANGED <<node, pub>>
  BY <1>0, <1>1 DEF NodesTyped
<1>2. CASE node' \in [Ssps -> NodeRecord] /\ pub' \in [Ssps -> Seq(Work)]
  BY <1>2 DEF NodesTyped, NodeRecord
<1>3. CASE Ingest \/ FanOut \/ FanOutDone \/ Evict
  BY <1>1, <1>3 DEF Ingest, FanOut, FanOutDone, Evict
<1>4. ASSUME NEW s \in Ssps, Deliver(s) PROVE NodesTyped'
  <2>1. sent + 1 \in Event
    BY <1>4, PromotionAssumption DEF Deliver, Typed, CountersTyped, Event
  <2> QED  BY <1>0, <1>1, <1>4, <2>1, TakenType DEF Deliver
<1>5. ASSUME NEW s \in Ssps, Publish(s) PROVE NodesTyped'
  <2>1. Tail(pub[s]) \in Seq(Work)  BY <1>0, <1>5 DEF Publish
  <2>2. pub' = [pub EXCEPT ![s] = Tail(pub[s])] /\ node' = node  BY <1>5 DEF Publish
  <2> QED  BY <1>0, <1>2, <2>1, <2>2
<1>6. ASSUME NEW s \in Ssps, RegisterSsp(s) PROVE NodesTyped'
  <2> DEFINE b == s = "green" /\ (Serving("blue") \/ ComingUp("blue"))
             r == [status |-> "boot", standby |-> b, circuit |-> sent, regs |-> {}]
  <2>1. b \in BOOLEAN  BY DEF Serving, ComingUp
  <2>2. node' = [node EXCEPT ![s] = r] /\ pub' = pub  BY <1>6 DEF RegisterSsp
  <2>3. r \in NodeRecord
    <3> HIDE DEF b
    <3> QED  BY <1>00, <2>1 DEF NodeRecord, Statuses
  <2> HIDE DEF r
  <2> QED  BY <1>0, <1>2, <2>2, <2>3
<1>7. ASSUME NEW s \in Ssps, BootViews(s) \/ BootEnds(s) PROVE NodesTyped'
  <2> DEFINE now == IF \A r \in Ssps : out[r] = "no" THEN sent ELSE sent + 1
  <2>1. now \in 0 .. MaxEvents
    BY <1>00, PromotionAssumption DEF Typed, CountersTyped
  <2> HIDE DEF now
  <2>2. \/ node' = [node EXCEPT ![s].status = "loaded", ![s].regs = rows]
        \/ node' = [node EXCEPT ![s].status = "ready", ![s].circuit = now]
    BY <1>7 DEF BootViews, BootEnds, now
  <2>3. node' \in [Ssps -> NodeRecord]
    <3>1. rows \in SUBSET Views /\ "loaded" \in Statuses /\ "ready" \in Statuses
      BY <1>0 DEF ViewsTyped, Statuses
    <3>2. CASE node' = [node EXCEPT ![s].status = "loaded", ![s].regs = rows]
      BY <1>0, <3>1, <3>2 DEF NodeRecord
    <3>3. CASE node' = [node EXCEPT ![s].status = "ready", ![s].circuit = now]
      BY <1>0, <2>1, <3>1, <3>3 DEF NodeRecord
    <3> QED  BY <2>2, <3>2, <3>3
  <2>4. pub' = pub  BY <1>7 DEF BootViews, BootEnds
  <2> QED  BY <1>0, <1>2, <2>3, <2>4
<1>8. ASSUME NEW t \in Tasks, Redeliver(t) PROVE NodesTyped'
  BY <1>1, <1>8 DEF Redeliver
<1>9. ASSUME NEW t \in Tasks, RedeliverOne(t) PROVE NodesTyped'
  <2>1. QueuesTyped /\ task \in [Tasks -> TaskRecord]  BY DEF Typed, QueuesTyped, TaskRecord
  <2>2. task[t].batch \in Seq(Event) /\ task[t].batch # <<>>
    BY <1>9, <2>1 DEF RedeliverOne, TaskRecord
  <2>3. task[t].ssp \in Ssps  BY <2>1, <2>2 DEF QueuesTyped, TaskRecord
  <2>4. Head(task[t].batch) \in Event  BY <2>2
  <2> QED  BY <1>0, <1>1, <1>9, <2>3, <2>4, TakenType DEF RedeliverOne
<1>10. ASSUME NEW v \in Views, Register(v) \/ Release(v) PROVE NodesTyped'
  BY <1>1, <1>10 DEF Register, Release
<1>11. CASE RegisterEnds
  <2>1. reg.view \in Views /\ reg.ssp \in Ssps  BY <1>0, <1>11 DEF RegisterEnds, ViewsTyped
  <2> QED  BY <1>0, <1>1, <1>11, <2>1, RegisteredType DEF RegisterEnds, ViewsTyped
<1>12. CASE Arrive
  <2>1. PICK m \in msgs : Arrives(m)  BY <1>12 DEF Arrive
  <2>2. m.view \in Views /\ m.to \in Ssps \cup {"standby"}  BY <1>0 DEF ViewsTyped
  <2>3. \/ UNCHANGED <<node, pub>>
        \/ \E s \in Ssps : Registered(s, m.view) \/ Unregistered(s, m.view)
    BY <2>1 DEF Arrives
  <2>4. rows \subseteq Views  BY <1>0 DEF ViewsTyped
  <2> QED  BY <1>0, <1>1, <2>2, <2>3, <2>4, RegisteredType, UnregisteredType
<1>13. CASE Dies
  <2>1. node' \in [Ssps -> NodeRecord]
    <3>1. {} \in SUBSET Views /\ "gone" \in Statuses  BY DEF Statuses
    <3>2. node' = [node EXCEPT !["blue"].status = "gone", !["blue"].regs = {}]  BY <1>13 DEF Dies
    <3> QED  BY <1>0, <3>1, <3>2 DEF NodeRecord
  <2>2. pub' \in [Ssps -> Seq(Work)]
    BY <1>0, <1>00, <1>13 DEF Dies
  <2> QED  BY <1>2, <2>1, <2>2
<1>14. CASE Hold \/ MarkRetiring \/ FanOutIdle \/ RetireAnswered \/ RetireFails \/ Commit \/ Unretire
  BY <1>1, <1>14 DEF Hold, MarkRetiring, FanOutIdle, RetireAnswered, RetireFails, Commit, Unretire
<1>15. CASE Retire \/ Resume
  <2>1. node' = node \/ \E a \in Statuses : node' = [node EXCEPT !["blue"].status = a]
    <3>1. node["blue"].status \in Statuses /\ "ready" \in Statuses /\ "retired" \in Statuses
      BY <1>0 DEF NodeRecord, Statuses
    <3> QED  BY <1>15, <3>1 DEF Retire, Resume
  <2>2. node' \in [Ssps -> NodeRecord]
    BY <1>0, <2>1 DEF NodeRecord
  <2>3. pub' = pub  BY <1>15 DEF Retire, Resume
  <2> QED  BY <1>0, <1>2, <2>2, <2>3
<1>16. CASE Promote
  BY <1>0, <1>1, <1>16, PromotedType DEF Promote
<1> QED  BY <1>3, <1>4, <1>5, <1>6, <1>7, <1>8, <1>9, <1>10, <1>11, <1>12, <1>13, <1>14, <1>15, <1>16
         DEF Next

(* The edges in the database. *)
LEMMA EdgesStep ==
    ASSUME Typed, Next
    PROVE  EdgesTyped'
<1> USE DEF scheduler, views
<1>0. EdgesTyped  BY DEF Typed
<1>1. CASE UNCHANGED edges
  BY <1>0, <1>1 DEF EdgesTyped
<1>2. CASE Ingest \/ FanOut \/ FanOutDone \/ RegisterEnds \/ Arrive \/ Dies \/ Evict
  BY <1>1, <1>2 DEF Ingest, FanOut, FanOutDone, RegisterEnds, Arrive, Arrives, Dies, Evict
<1>3. ASSUME NEW s \in Ssps, Deliver(s) \/ RegisterSsp(s) \/ BootViews(s) PROVE EdgesTyped'
  BY <1>1, <1>3 DEF Deliver, RegisterSsp, BootViews
<1>4. ASSUME NEW s \in Ssps, BootEnds(s) PROVE EdgesTyped'
  <2> DEFINE now == IF \A r \in Ssps : out[r] = "no" THEN sent ELSE sent + 1
  <2>1. now \in 0 .. Garbled
    BY PromotionAssumption DEF Typed, CountersTyped, Garbled
  <2> HIDE DEF now
  <2>2. \/ edges' = edges
        \/ edges' = [v \in Views |-> IF v \in node[s].regs \cap rows THEN now ELSE edges[v]]
    BY <1>4 DEF BootEnds, now
  <2> QED  BY <1>0, <2>1, <2>2 DEF EdgesTyped
<1>5. ASSUME NEW s \in Ssps, Publish(s) PROVE EdgesTyped'
  <2> DEFINE w == Head(pub[s])
  <2>1. w \in Work  BY <1>5 DEF Publish, Typed, NodesTyped
  <2> HIDE DEF w
  <2>2. edges[w.view] \in 0 .. Garbled /\ w.view \in Views
    BY <1>0, <2>1 DEF EdgesTyped, Work
  <2>3. Written(edges[w.view], w) \in 0 .. Garbled
    BY <2>1, <2>2, PromotionAssumption DEF Written, Work, NoEdges, Garbled
  <2>4. edges' = edges \/ edges' = [edges EXCEPT ![w.view] = Written(@, w)]
    BY <1>5 DEF Publish, w
  <2> QED  BY <1>0, <2>2, <2>3, <2>4 DEF EdgesTyped
<1>6. ASSUME NEW t \in Tasks, Redeliver(t) \/ RedeliverOne(t) PROVE EdgesTyped'
  BY <1>1, <1>6 DEF Redeliver, RedeliverOne
<1>7. ASSUME NEW v \in Views, Register(v) \/ Release(v) PROVE EdgesTyped'
  BY <1>1, <1>7 DEF Register, Release
<1>8. CASE Hold \/ MarkRetiring \/ FanOutIdle \/ Retire \/ RetireAnswered \/ RetireFails
  BY <1>1, <1>8 DEF Hold, MarkRetiring, FanOutIdle, Retire, RetireAnswered, RetireFails
<1>9. CASE Promote \/ Commit \/ Resume \/ Unretire
  BY <1>1, <1>9 DEF Promote, Commit, Resume, Unretire
<1> QED  BY <1>2, <1>3, <1>4, <1>5, <1>6, <1>7, <1>8, <1>9 DEF Next

LEMMA TypedStep == Typed /\ [Next]_vars => Typed'
<1>1. Typed /\ Next => Typed'
  BY CountersStep, PoolStep, QueuesStep, ViewsStep, SwapStep, NodesStep, EdgesStep DEF Typed
<1>2. Typed /\ UNCHANGED vars => Typed'
  BY DEF Typed, CountersTyped, PoolTyped, QueuesTyped, ViewsTyped, SwapTyped, NodesTyped,
         EdgesTyped, vars
<1> QED  BY <1>1, <1>2
-----------------------------------------------------------------------------
(* No event is queued twice for an SSP, in its queue and the hands of its tasks together, and
   only events that have been handed to it or are being so: hence no queue is longer than the
   events are many. *)
Reached(s, e) == e <= sent \/ (e = sent + 1 /\ out[s] = "off")

OnceIn(s, q) == IsInjective(q) /\ \A e \in Range(q) : Reached(s, e)
Apart(q, r) == Range(q) \cap Range(r) = {}

Once ==
    /\ \A s \in Ssps : OnceIn(s, buf[s])
    /\ \A t \in Tasks, s \in Ssps : task[t].ssp = s =>
         /\ OnceIn(s, task[t].batch) /\ Apart(task[t].batch, buf[s])
         /\ \A u \in Tasks : u # t /\ task[u].ssp = s => Apart(task[t].batch, task[u].batch)

LEMMA EmptyOnce == ASSUME NEW s PROVE OnceIn(s, <<>>) /\ Range(<<>>) = {}
  BY DEF OnceIn, IsInjective, Range

LEMMA AppendOnce ==
    ASSUME NEW q \in Seq(Event), NEW e \in Event, IsInjective(q), e \notin Range(q)
    PROVE  IsInjective(Append(q, e)) /\ Range(Append(q, e)) = Range(q) \cup {e}
<1> DEFINE n == Len(q)
           a == Append(q, e)
<1>1. /\ n \in Nat /\ DOMAIN q = 1..n /\ DOMAIN a = 1..(n + 1)
      /\ a[n + 1] = e /\ \A i \in 1..n : a[i] = q[i]
  OBVIOUS
<1> HIDE DEF a, n
<1>2. \A i \in 1..(n + 1) : i \in 1..n \/ i = n + 1
  BY <1>1
<1>3. IsInjective(a)
  BY <1>1, <1>2 DEF IsInjective, Range
<1>4. Range(a) = Range(q) \cup {e}
  BY <1>1, <1>2 DEF Range
<1> QED  BY <1>3, <1>4 DEF a

LEMMA ConcatOnce ==
    ASSUME NEW q \in Seq(Event), NEW r \in Seq(Event), IsInjective(q), IsInjective(r), Apart(q, r)
    PROVE  IsInjective(q \o r) /\ Range(q \o r) \subseteq Range(q) \cup Range(r)
<1> DEFINE n == Len(q)
           m == Len(r)
           a == q \o r
<1>1. /\ n \in Nat /\ m \in Nat /\ DOMAIN q = 1..n /\ DOMAIN r = 1..m /\ DOMAIN a = 1..(n + m)
      /\ \A i \in 1..(n + m) : a[i] = IF i <= n THEN q[i] ELSE r[i - n]
  OBVIOUS
<1> HIDE DEF a, n, m
<1>2. \A i \in 1..(n + m) : \/ i \in 1..n /\ a[i] = q[i]
                            \/ i - n \in 1..m /\ i > n /\ a[i] = r[i - n]
  BY <1>1
<1>3. \A i \in 1..n, j \in 1..m : q[i] # r[j]
  BY <1>1 DEF Apart, Range
<1>4. IsInjective(a)
  <2> SUFFICES ASSUME NEW i \in 1..(n + m), NEW j \in 1..(n + m), a[i] = a[j] PROVE i = j
    BY <1>1 DEF IsInjective
  <2>1. CASE i \in 1..n /\ a[i] = q[i] /\ j \in 1..n /\ a[j] = q[j]
    BY <1>1, <2>1 DEF IsInjective
  <2>2. CASE i - n \in 1..m /\ a[i] = r[i - n] /\ j - n \in 1..m /\ a[j] = r[j - n]
    <3>1. i - n = j - n  BY <1>1, <2>2 DEF IsInjective
    <3> QED  BY <1>1, <3>1
  <2> QED  BY <1>2, <1>3, <2>1, <2>2
<1>5. Range(a) \subseteq Range(q) \cup Range(r)
  BY <1>1, <1>2 DEF Range
<1> QED  BY <1>4, <1>5 DEF a

LEMMA TailOnce ==
    ASSUME NEW q \in Seq(Event), q # <<>>, IsInjective(q)
    PROVE  IsInjective(Tail(q)) /\ Range(Tail(q)) \subseteq Range(q)
<1> DEFINE n == Len(q)
           a == Tail(q)
<1>1. /\ n \in Nat /\ DOMAIN q = 1..n /\ DOMAIN a = 1..(n - 1)
      /\ \A i \in 1..(n - 1) : a[i] = q[i + 1]
  OBVIOUS
<1> HIDE DEF a, n
<1>2. \A i \in 1..(n - 1) : i + 1 \in 1..n /\ a[i] = q[i + 1]
  BY <1>1
<1>3. IsInjective(a)
  <2> SUFFICES ASSUME NEW i \in 1..(n - 1), NEW j \in 1..(n - 1), a[i] = a[j] PROVE i = j
    BY <1>1 DEF IsInjective
  <2>1. i + 1 = j + 1  BY <1>1, <1>2 DEF IsInjective
  <2> QED  BY <1>1, <2>1
<1>4. Range(a) \subseteq Range(q)
  BY <1>1, <1>2 DEF Range
<1> QED  BY <1>3, <1>4 DEF a

(* A queue without repetition is at most as long as there are events. *)
LEMMA OnceShort ==
    ASSUME NEW q \in Seq(Event), IsInjective(q)
    PROVE  Len(q) <= MaxEvents
<1> DEFINE n == Len(q)
<1>1. n \in Nat /\ q \in [1..n -> Event]  OBVIOUS
<1> HIDE DEF n
<1>2. IsFiniteSet(Event) /\ Cardinality(Event) = MaxEvents
  <2>1. 1 \in Int /\ MaxEvents \in Int  BY PromotionAssumption
  <2>2. IsFiniteSet(1..MaxEvents) /\ Cardinality(1..MaxEvents) = IF 1 > MaxEvents THEN 0 ELSE MaxEvents - 1 + 1
    BY <2>1, FS_Interval
  <2> QED  BY <2>2, PromotionAssumption DEF Event
<1>3. Cardinality(1..n) = n
  <2>1. 1 \in Int /\ n \in Int  BY <1>1
  <2>2. Cardinality(1..n) = IF 1 > n THEN 0 ELSE n - 1 + 1
    BY <2>1, FS_Interval
  <2> QED  BY <1>1, <2>2
<1>4. q \in Injection(1..n, Event)
  BY <1>1 DEF Injection
<1>5. Cardinality(1..n) <= Cardinality(Event)
  BY <1>2, <1>4, FS_Injection
<1> QED  BY <1>2, <1>3, <1>5 DEF n
(* Queues that grow by the event at hand or are emptied, and tasks that are emptied. *)
LEMMA OnceGrows ==
    ASSUME Typed, Once,
           \A s \in Ssps : \/ buf'[s] = buf[s] \/ buf'[s] = <<>>
                           \/ \E e \in Event : /\ e = sent + 1 /\ buf'[s] = Append(buf[s], e)
                                              /\ out[s] # "off" /\ Reached(s, e)',
           \A t \in Tasks : task'[t] = task[t] \/ task'[t].batch = <<>>,
           \A s \in Ssps, e \in Event : Reached(s, e) => Reached(s, e)'
    PROVE  Once'
<1>0. /\ \A s \in Ssps : buf[s] \in Seq(Event)
      /\ \A t \in Tasks : task[t].batch \in Seq(Event)
      /\ sent \in Nat
  BY PromotionAssumption DEF Typed, QueuesTyped, CountersTyped
<1>1. \A q \in Seq(Event) : Range(q) \subseteq Event
  BY DEF Range
<1>2. ASSUME NEW s \in Ssps PROVE OnceIn(s, buf[s])'
  <2>1. CASE buf'[s] = buf[s]
    BY <1>0, <1>1, <2>1 DEF Once, OnceIn
  <2>2. CASE buf'[s] = <<>>
    BY <2>2, EmptyOnce DEF OnceIn
  <2>3. ASSUME NEW e \in Event, e = sent + 1, buf'[s] = Append(buf[s], e), out[s] # "off", Reached(s, e)'
        PROVE OnceIn(s, buf[s])'
    <3>1. e \notin Range(buf[s])
      <4>1. ~Reached(s, e)  BY <1>0, <2>3 DEF Reached
      <4>2. OnceIn(s, buf[s])  BY DEF Once
      <4> QED  BY <4>1, <4>2 DEF OnceIn
    <3>2. IsInjective(buf'[s]) /\ Range(buf'[s]) = Range(buf[s]) \cup {e}
      BY <1>0, <2>3, <3>1, AppendOnce DEF Once, OnceIn
    <3>3. \A d \in Range(buf'[s]) : Reached(s, d)'
      BY <1>0, <1>1, <2>3, <3>2 DEF Once, OnceIn
    <3> QED  BY <3>2, <3>3 DEF OnceIn
  <2> QED  BY <2>1, <2>2, <2>3
<1>3. ASSUME NEW s \in Ssps, NEW t \in Tasks, task'[t].ssp = s PROVE OnceIn(s, task[t].batch)'
  <2>1. CASE task'[t] = task[t]
    BY <1>0, <1>1, <1>3, <2>1 DEF Once, OnceIn
  <2>2. CASE task'[t].batch = <<>>
    BY <2>2, EmptyOnce DEF OnceIn
  <2> QED  BY <2>1, <2>2
<1>4. ASSUME NEW s \in Ssps, NEW t \in Tasks, task'[t].ssp = s PROVE Apart(task[t].batch, buf[s])'
  <2>1. CASE task'[t].batch = <<>>
    BY <2>1, EmptyOnce DEF Apart
  <2>2. CASE task'[t] = task[t]
    <3>1. OnceIn(s, task[t].batch) /\ Apart(task[t].batch, buf[s])
      BY <1>4, <2>2 DEF Once
    <3>2. CASE buf'[s] = buf[s]
      BY <2>2, <3>1, <3>2 DEF Apart
    <3>3. CASE buf'[s] = <<>>
      BY <3>3, EmptyOnce DEF Apart
    <3>4. ASSUME NEW e \in Event, e = sent + 1, buf'[s] = Append(buf[s], e), out[s] # "off"
          PROVE Apart(task[t].batch, buf[s])'
      <4>1. e \notin Range(buf[s])
        <5>1. ~Reached(s, e)  BY <1>0, <3>4 DEF Reached
        <5>2. OnceIn(s, buf[s])  BY DEF Once
        <5> QED  BY <5>1, <5>2 DEF OnceIn
      <4>2. e \notin Range(task[t].batch)
        BY <1>0, <3>1, <3>4 DEF OnceIn, Reached
      <4>3. Range(buf'[s]) = Range(buf[s]) \cup {e}
        BY <1>0, <3>4, <4>1, AppendOnce DEF Once, OnceIn
      <4> QED  BY <2>2, <3>1, <4>2, <4>3 DEF Apart
    <3> QED  BY <3>2, <3>3, <3>4
  <2> QED  BY <2>1, <2>2
<1>5. ASSUME NEW s \in Ssps, NEW t \in Tasks, task'[t].ssp = s, NEW u \in Tasks, u # t, task'[u].ssp = s
      PROVE Apart(task[t].batch, task[u].batch)'
  <2>1. CASE task'[t].batch = <<>> \/ task'[u].batch = <<>>
    BY <2>1, EmptyOnce DEF Apart
  <2>2. CASE task'[t] = task[t] /\ task'[u] = task[u]
    BY <1>5, <2>2 DEF Once, Apart
  <2> QED  BY <2>1, <2>2
<1> QED  BY <1>2, <1>3, <1>4, <1>5 DEF Once

(* A step that moves one task's batch, and perhaps the queue of its SSP, keeping them apart. *)
LEMMA OnceMoves ==
    ASSUME Typed, Once, NEW t \in Tasks, NEW s \in Ssps, task[t].ssp = s,
           UNCHANGED <<sent, out>>,
           NEW b \in Seq(Event), task' = [task EXCEPT ![t].batch = b],
           NEW q \in Seq(Event), buf' = [buf EXCEPT ![s] = q],
           IsInjective(b), IsInjective(q), Apart(b, q),
           Range(b) \cup Range(q) \subseteq Range(task[t].batch) \cup Range(buf[s])
    PROVE  Once'
<1>0. /\ buf \in [Ssps -> Seq(Event)] /\ task \in [Tasks -> TaskRecord]
  BY DEF Typed, QueuesTyped, TaskRecord
<1>1. /\ task'[t].ssp = s /\ task'[t].batch = b
      /\ \A u \in Tasks : u # t => task'[u] = task[u]
      /\ buf'[s] = q /\ \A r \in Ssps : r # s => buf'[r] = buf[r]
  BY <1>0 DEF TaskRecord
<1>2. \A r \in Ssps : \A e : Reached(r, e)' <=> Reached(r, e)
  BY DEF Reached
<1>3. \A e \in Range(b) \cup Range(q) : Reached(s, e)
  BY DEF Once, OnceIn
<1>4. ASSUME NEW r \in Ssps PROVE OnceIn(r, buf[r])'
  <2>1. CASE r = s
    BY <1>1, <1>2, <1>3, <2>1 DEF OnceIn
  <2>2. CASE r # s
    BY <1>1, <1>2, <2>2 DEF Once, OnceIn
  <2> QED  BY <2>1, <2>2
<1>5. ASSUME NEW r \in Ssps, NEW u \in Tasks, task'[u].ssp = r PROVE OnceIn(r, task[u].batch)'
  <2>1. CASE u = t
    BY <1>1, <1>2, <1>3, <1>5, <2>1 DEF OnceIn
  <2>2. CASE u # t
    BY <1>1, <1>2, <1>5, <2>2 DEF Once, OnceIn
  <2> QED  BY <2>1, <2>2
<1>6. ASSUME NEW u \in Tasks, u # t, task[u].ssp = s
      PROVE Apart(task[u].batch, b) /\ Apart(b, task[u].batch) /\ Apart(task[u].batch, q)
  <2>1. Apart(task[u].batch, task[t].batch) /\ Apart(task[u].batch, buf[s])
    BY <1>6 DEF Once
  <2> QED  BY <2>1 DEF Apart
<1>7. ASSUME NEW r \in Ssps, NEW u \in Tasks, task'[u].ssp = r PROVE Apart(task[u].batch, buf[r])'
  <2>1. CASE u = t
    BY <1>1, <1>7, <2>1 DEF Apart
  <2>2. CASE u # t /\ r = s
    BY <1>1, <1>6, <1>7, <2>2 DEF Apart
  <2>3. CASE u # t /\ r # s
    <3>1. Apart(task[u].batch, buf[r])  BY <1>1, <1>7, <2>3 DEF Once
    <3> QED  BY <1>1, <2>3, <3>1 DEF Apart
  <2> QED  BY <2>1, <2>2, <2>3
<1>8. ASSUME NEW r \in Ssps, NEW u \in Tasks, task'[u].ssp = r, NEW w \in Tasks, w # u, task'[w].ssp = r
      PROVE Apart(task[u].batch, task[w].batch)'
  <2>1. CASE u = t
    BY <1>1, <1>6, <1>8, <2>1 DEF Apart
  <2>2. CASE w = t
    BY <1>1, <1>6, <1>8, <2>2 DEF Apart
  <2>3. CASE u # t /\ w # t
    <3>1. Apart(task[u].batch, task[w].batch)  BY <1>1, <1>8, <2>3 DEF Once
    <3> QED  BY <1>1, <2>3, <3>1 DEF Apart
  <2> QED  BY <2>1, <2>2, <2>3
<1> QED  BY <1>4, <1>5, <1>7, <1>8 DEF Once

LEMMA SpawnedKeeps ==
    ASSUME NEW tt \in [Tasks -> TaskRecord], NEW s \in Ssps
    PROVE  /\ Spawned(tt, s) \in [Tasks -> TaskRecord]
           /\ \A t \in Tasks : Spawned(tt, s)[t] = tt[t] \/ Spawned(tt, s)[t].batch = <<>>
<1> DEFINE u == CHOOSE w \in Tasks : tt[w] = Off /\ \A x \in Tasks : tt[x] = Off => w <= x
           new == [ssp |-> s, batch |-> <<>>]
<1>1. Spawned(tt, s) = [tt EXCEPT ![u] = new]  BY DEF Spawned
<1>2. new \in TaskRecord /\ new.batch = <<>>  BY DEF TaskRecord, Ssps
<1> HIDE DEF u, new
<1> QED  BY <1>1, <1>2

LEMMA OnceStep ==
    ASSUME Typed, Once, [Next]_vars
    PROVE  Once'
<1> USE DEF scheduler, views
<1>0. /\ QueuesTyped /\ buf \in [Ssps -> Seq(Event)] /\ task \in [Tasks -> TaskRecord]
      /\ sent \in Nat
  BY PromotionAssumption DEF Typed, QueuesTyped, TaskRecord, CountersTyped
<1>1. CASE /\ UNCHANGED <<buf, task, sent>>
           /\ \A s \in Ssps : out[s] = "off" => out'[s] = "off"
  <2>1. \A s \in Ssps, e \in Event : Reached(s, e) => Reached(s, e)'
    BY <1>1 DEF Reached
  <2> QED  BY <1>1, <2>1, OnceGrows
<1>2. ASSUME NEW s \in Ssps, buf' = [buf EXCEPT ![s] = <<>>], UNCHANGED <<task, sent, out>> PROVE Once'
  <2>1. \A r \in Ssps, e \in Event : Reached(r, e) => Reached(r, e)'
    BY <1>2 DEF Reached
  <2>2. \A r \in Ssps : buf'[r] = buf[r] \/ buf'[r] = <<>>
    BY <1>0, <1>2
  <2> QED  BY <1>2, <2>1, <2>2, OnceGrows
<1>3. CASE FanOut
  <2>1. sent + 1 \in Event /\ sent' = sent /\ task' = task
    BY <1>3, PromotionAssumption DEF FanOut, Typed, CountersTyped, Event
  <2>2. \A s \in Ssps : out[s] = "no" /\ buf'[s] = IF Buffered(s) THEN Append(buf[s], sent + 1) ELSE buf[s]
    BY <1>3 DEF FanOut
  <2>3. \A s \in Ssps : Buffered(s) => out'[s] = "off"
    BY <1>3 DEF FanOut, Buffered
  <2>4. \A s \in Ssps, e \in Event : Reached(s, e) => Reached(s, e)'
    BY <2>1, <2>2 DEF Reached
  <2>5. \A s \in Ssps : \A e : Buffered(s) /\ e = sent + 1 => Reached(s, e)'
    BY <2>1, <2>3 DEF Reached
  <2>6. \A s \in Ssps : \/ buf'[s] = buf[s]
                        \/ \E e \in Event : /\ e = sent + 1 /\ buf'[s] = Append(buf[s], e)
                                           /\ out[s] # "off" /\ Reached(s, e)'
    BY <2>1, <2>2, <2>5
  <2> QED  BY <2>1, <2>4, <2>6, OnceGrows
<1>4. CASE FanOutDone
  <2>1. sent + 1 \in Event /\ sent' = sent + 1
    <3>1. "blue" \in Ssps /\ out["blue"] # "no"  BY <1>4 DEF FanOutDone, Ssps
    <3> QED  BY <1>4, <3>1, PromotionAssumption DEF FanOutDone, Typed, CountersTyped, Event
  <2>2. \A s \in Ssps : buf'[s] = buf[s] \/ (out[s] # "off" /\ buf'[s] = Append(buf[s], sent + 1))
    BY <1>4 DEF FanOutDone
  <2>3. \A s \in Ssps, e \in Event : e <= sent + 1 => Reached(s, e)'
    BY <2>1 DEF Reached
  <2>4. \A s \in Ssps, e \in Event : Reached(s, e) => e <= sent + 1
    BY <1>0 DEF Reached, Event
  <2>5. \A t \in Tasks : task'[t] = task[t] \/ task'[t].batch = <<>>
    <3> DEFINE one == IF Lags("blue") THEN Spawned(task, "blue") ELSE task
    <3>1. one \in [Tasks -> TaskRecord] /\ \A t \in Tasks : one[t] = task[t] \/ one[t].batch = <<>>
      BY <1>0, SpawnedKeeps DEF Ssps
    <3>2. task' = IF Lags("green") THEN Spawned(one, "green") ELSE one
      BY <1>4 DEF FanOutDone
    <3> HIDE DEF one
    <3>3. \A t \in Tasks : task'[t] = one[t] \/ task'[t].batch = <<>>
      BY <3>1, <3>2, SpawnedKeeps DEF Ssps
    <3> QED  BY <3>1, <3>3
  <2>6. \A s \in Ssps : \/ buf'[s] = buf[s]
                        \/ \E e \in Event : /\ e = sent + 1 /\ buf'[s] = Append(buf[s], e)
                                           /\ out[s] # "off" /\ Reached(s, e)'
    <3>1. \A s \in Ssps, e \in Event : e = sent + 1 => Reached(s, e)'
      BY <1>0, <2>3
    <3> QED  BY <2>1, <2>2, <3>1
  <2>7. \A s \in Ssps, e \in Event : Reached(s, e) => Reached(s, e)'
    BY <2>3, <2>4
  <2> QED  BY <2>5, <2>6, <2>7, OnceGrows
<1>5. ASSUME NEW s \in Ssps, Deliver(s) PROVE Once'
  <2>1. \A r \in Ssps : out[r] = "off" => out'[r] = "off"
    BY <1>5 DEF Deliver, Typed, CountersTyped
  <2> QED  BY <1>1, <1>5, <2>1 DEF Deliver
<1>6. ASSUME NEW s \in Ssps, Publish(s) \/ RegisterSsp(s) \/ BootViews(s) \/ BootEnds(s) PROVE Once'
  BY <1>1, <1>2, <1>6 DEF Publish, RegisterSsp, BootViews, BootEnds
<1>7. ASSUME NEW t \in Tasks, Redeliver(t) PROVE Once'
  <2> DEFINE s == task[t].ssp
  <2>1. CASE UNCHANGED <<buf, sent, out>> /\ task' = [task EXCEPT ![t] = Off]
    <3>1. \A r \in Ssps, e \in Event : Reached(r, e) => Reached(r, e)'
      BY <2>1 DEF Reached
    <3>2. \A u \in Tasks : task'[u] = task[u] \/ task'[u].batch = <<>>
      BY <1>0, <2>1 DEF Off
    <3> QED  BY <2>1, <3>1, <3>2, OnceGrows
  <2>2. CASE /\ task' = [task EXCEPT ![t].batch = buf[s]] /\ buf' = [buf EXCEPT ![s] = <<>>]
             /\ UNCHANGED <<sent, out>> /\ task[t] # Off
    <3>1. s \in Ssps
      <4>1. CASE s = "none"
        <5>1. task[t] \in TaskRecord /\ task[t].batch = <<>>  BY <1>0, <4>1 DEF QueuesTyped
        <5>2. task[t] = Off  BY <4>1, <5>1 DEF Off, TaskRecord
        <5> QED  BY <2>2, <5>2
      <4> QED  BY <1>0, <4>1 DEF TaskRecord
    <3>2. buf[s] \in Seq(Event) /\ <<>> \in Seq(Event) /\ IsInjective(buf[s]) /\ IsInjective(<<>>)
      BY <1>0, <3>1 DEF Once, OnceIn, IsInjective
    <3>3. Apart(buf[s], <<>>) /\ Range(buf[s]) \cup Range(<<>>) \subseteq Range(task[t].batch) \cup Range(buf[s])
      BY EmptyOnce DEF Apart
    <3> HIDE DEF s
    <3> QED  BY <2>2, <3>1, <3>2, <3>3, OnceMoves DEF s
  <2> QED  BY <1>7, <2>1, <2>2 DEF Redeliver
<1>8. ASSUME NEW t \in Tasks, RedeliverOne(t) PROVE Once'
  <2> DEFINE s == task[t].ssp
             h == task[t].batch
  <2>1. h \in Seq(Event) /\ h # <<>> /\ UNCHANGED <<sent, out>>
    BY <1>0, <1>8 DEF RedeliverOne, TaskRecord
  <2>2. s \in Ssps
    BY <1>0, <2>1 DEF QueuesTyped, TaskRecord
  <2>3. buf[s] \in Seq(Event) /\ IsInjective(h) /\ IsInjective(buf[s]) /\ Apart(h, buf[s])
    BY <1>0, <2>2 DEF Once, OnceIn
  <2>4. CASE task' = [task EXCEPT ![t].batch = Tail(h)] /\ buf' = buf
    <3>1. Tail(h) \in Seq(Event)  BY <2>1
    <3>2. IsInjective(Tail(h)) /\ Range(Tail(h)) \subseteq Range(h)  BY <2>1, <2>3, TailOnce
    <3>3. Apart(Tail(h), buf[s])  BY <2>3, <3>2 DEF Apart
    <3>4. buf' = [buf EXCEPT ![s] = buf[s]]  BY <1>0, <2>4
    <3>5. Range(Tail(h)) \cup Range(buf[s]) \subseteq Range(h) \cup Range(buf[s])  BY <3>2
    <3> QED  BY <2>1, <2>2, <2>3, <2>4, <3>1, <3>2, <3>3, <3>4, <3>5, OnceMoves
  <2>5. CASE task' = [task EXCEPT ![t].batch = <<>>] /\ buf' = [buf EXCEPT ![s] = h \o @]
    <3>1. h \o buf[s] \in Seq(Event) /\ <<>> \in Seq(Event) /\ IsInjective(<<>>)
      BY <2>1, <2>3 DEF IsInjective
    <3>2. IsInjective(h \o buf[s]) /\ Range(h \o buf[s]) \subseteq Range(h) \cup Range(buf[s])
      BY <2>1, <2>3, ConcatOnce
    <3>3. Apart(<<>>, h \o buf[s])  BY EmptyOnce DEF Apart
    <3>4. Range(<<>>) \cup Range(h \o buf[s]) \subseteq Range(h) \cup Range(buf[s])  BY <3>2, EmptyOnce
    <3>5. buf' = [buf EXCEPT ![s] = h \o buf[s]]  BY <1>0, <2>2, <2>5
    <3> QED  BY <2>1, <2>2, <2>5, <3>1, <3>2, <3>3, <3>4, <3>5, OnceMoves
  <2> QED  BY <1>8, <2>4, <2>5 DEF RedeliverOne
<1>9. ASSUME NEW v \in Views, Register(v) \/ Release(v) PROVE Once'
  BY <1>1, <1>9 DEF Register, Release
<1>10. CASE Ingest \/ RegisterEnds \/ Arrive \/ Dies
  BY <1>1, <1>10 DEF Ingest, RegisterEnds, Arrive, Arrives, Dies
<1>11. CASE Hold \/ MarkRetiring \/ FanOutIdle \/ Retire \/ RetireAnswered \/ RetireFails
  BY <1>1, <1>11 DEF Hold, MarkRetiring, FanOutIdle, Retire, RetireAnswered, RetireFails
<1>12. CASE Promote \/ Resume
  BY <1>1, <1>12 DEF Promote, Resume
<1>13. CASE Evict \/ Commit
  BY <1>2, <1>13 DEF Evict, Commit, Ssps
<1>14. CASE Unretire
  <2>1. \A t \in Tasks : task'[t] = task[t] \/ task'[t].batch = <<>>
    BY <1>0, <1>14, SpawnedKeeps DEF Unretire, Ssps
  <2>2. UNCHANGED <<buf, sent, out>>  BY <1>14 DEF Unretire
  <2>3. \A r \in Ssps, e \in Event : Reached(r, e) => Reached(r, e)'
    BY <2>2 DEF Reached
  <2> QED  BY <2>1, <2>2, <2>3, OnceGrows
<1>15. CASE UNCHANGED vars
  BY <1>1, <1>15 DEF vars
<1> QED  BY <1>3, <1>4, <1>5, <1>6, <1>7, <1>8, <1>9, <1>10, <1>11, <1>12, <1>13, <1>14, <1>15 DEF Next

LEMMA OnceInit == Init => Once
<1> SUFFICES ASSUME Init PROVE Once  OBVIOUS
<1>1. \A s \in Ssps : buf[s] = <<>>  BY DEF Init
<1>2. \A t \in Tasks : task[t].ssp \notin Ssps  BY DEF Init, Off, Ssps
<1> QED  BY <1>1, <1>2, EmptyOnce DEF Once

LEMMA TypedTypeOK == Typed /\ Once => TypeOK
<1> SUFFICES ASSUME Typed, Once PROVE TypeOK  OBVIOUS
<1>1. \A s \in Ssps : buf[s] \in Seq(1 .. MaxEvents) /\ Len(buf[s]) <= MaxEvents
  BY OnceShort DEF Typed, QueuesTyped, Once, OnceIn, Event
<1>2. \A t \in Tasks : task[t].ssp \in Ssps \cup {"none"}
  BY DEF Typed, QueuesTyped
<1>3. /\ pool \in [Ssps -> {"out", "coming", "ready", "lagging", "retiring", "retired"}]
      /\ swap.at \in {"none", "wait", "hold", "idle", "retire", "drain", "promote", "commit",
                      "abandon", "unretire", "done", "failed"}
  BY DEF Typed, PoolTyped, SwapTyped, PoolStates, Phases
<1>4. \A s \in Ssps :
         /\ node[s].status \in {"gone", "boot", "loaded", "ready", "retired"}
         /\ node[s].circuit \in 0 .. MaxEvents /\ node[s].regs \subseteq Views
         /\ pub[s] \in Seq(Work)
  BY DEF Typed, NodesTyped, Statuses
<1> QED  BY <1>1, <1>2, <1>3, <1>4
         DEF TypeOK, Typed, CountersTyped, PoolTyped, ViewsTyped, EdgesTyped

(* Whatever fails, the state stays in its type; above all, the queue of an SSP that boots, lags
   or retires (message_buffers of router.rs) never holds more than the events there are, though
   a redelivery that fails puts its batch back (redeliver_to_lagging_ssp of ingest.rs). *)
THEOREM TypeCorrect == Spec => []TypeOK
<1>1. Init => Typed /\ Once
  BY TypedInit, OnceInit
<1>2. Typed /\ Once /\ [Next]_vars => Typed' /\ Once'
  BY TypedStep, OnceStep
<1>3. Typed /\ Once => TypeOK
  BY TypedTypeOK
<1> QED  BY <1>1, <1>2, <1>3, PTL DEF Spec
-----------------------------------------------------------------------------
(* Events in order.  What an SSP has yet to be given, in the hands of its redelivery task and
   then in its queue, are the events after the ones it has, up to the fan-out's. *)

(* The first makes an abandoned swap end with a blue that is dead, and lets no redelivery
   outlast a boot; the second leaves an abandoned swap as the only reason to lag. *)
Abandonless == Faults \cap {"retire", "refuse", "promote", "stale"} = {}
Lagless == Faults \cap {"drop", "died", "restart"} = {}

Up(s) == node[s].status \in {"ready", "retired"}
Idle(s) == \A t \in Tasks : task[t].ssp # s
AtMostOne(s) == \A t, u \in Tasks : task[t].ssp = s /\ task[u].ssp = s => t = u

(* the last event handed to s, one way or the other *)
Due(s) == IF out[s] \in {"ok", "off"} THEN sent + 1 ELSE sent

(* q is the events after a up to b *)
RunOf(q, a, b) == q \in Seq(Event) /\ Len(q) = b - a /\ \A i \in 1 .. Len(q) : q[i] = a + i

PendingAt(s, a, m) ==
    /\ node[s].circuit = a \/ node[s].circuit = a + 1
    /\ \A t \in Tasks : task[t].ssp = s => RunOf(task[t].batch, a, m)
    /\ pool[s] # "retired" => RunOf(buf[s], m, Due(s)) /\ (Idle(s) => m = a)

InTurn(s) ==
    /\ pool[s] \in {"ready", "lagging", "retiring", "retired"}
    /\ AtMostOne(s)
    /\ pool[s] = "ready" => Idle(s) /\ buf[s] = <<>>
    /\ out[s] \in {"sent", "ok", "failed"} =>
         /\ \A t \in Tasks : task[t].ssp = s => task[t].batch = <<>>
         /\ pool[s] # "retired" => buf[s] = <<>>
    /\ out[s] = "sent" => node[s].circuit = sent \/ node[s].circuit = sent + 1
    /\ \E a, m \in Nat : PendingAt(s, a, m)

(* Green has tasks only once it is ready, blue no more than there are slots for: none while it
   is on the live path, one more after the swap. *)
Slots ==
    /\ node["green"].status # "ready" =>
         /\ node["green"].status # "retired" /\ Idle("green")
         /\ pool["green"] \in {"out", "coming"} /\ swap.at = "none"
    /\ pool["green"] \notin {"retiring", "retired"}
    /\ pool["blue"] = "retired" => swap.at = "done"
    /\ swap.at # "failed" => AtMostOne("blue") /\ (pool["blue"] = "ready" => Idle("blue"))
    /\ \E t \in Tasks : task[t].ssp # "blue"
    /\ pool["blue"] = "ready" => AtMostOne("blue")
    /\ out["blue"] = "no" <=> out["green"] = "no"

(* A swap that is abandoned finds blue without a redelivery task: it is dead, or it has had
   none so far. *)
LoneDead ==
    /\ node["blue"].status = "retired" => swap.at \in {"drain", "promote", "commit", "done"}
    /\ swap.at \in {"abandon", "unretire"} /\ pool["blue"] = "retiring" => ~Up("blue")

LoneFirst ==
    /\ Up("blue")
    /\ node["blue"].status = "retired" => swap.at \notin {"none", "wait", "hold", "idle", "retire"}
    /\ swap.at \in {"none", "wait", "hold"} => pool["blue"] = "ready"
    /\ swap.at = "hold" => swap.pred
    /\ swap.at \in {"idle", "retire", "drain", "promote", "commit", "abandon", "unretire"} =>
         pool["blue"] = "retiring"
    /\ swap.at = "done" => pool["blue"] = "retired"
    /\ swap.at # "failed" =>
         /\ Idle("blue") /\ out["blue"] # "failed"
         /\ out["blue"] = "sent" => node["blue"].status = "ready"
    /\ swap.at = "idle" /\ out["blue"] = "sent" => sent < swap.upto
    /\ swap.at = "retire" => out["blue"] # "sent"

Lone == (Abandonless /\ LoneDead) \/ (Lagless /\ LoneFirst)

InTurns == \A s \in Ssps : Up(s) => InTurn(s)

Order == Typed /\ Slots /\ Lone /\ InTurns

(* what EventsInOrder asks of a step *)
Onward == \A s \in Ssps : Up(s) => node'[s].circuit \in {node[s].circuit, node[s].circuit + 1}

LEMMA RunEmpty ==
    ASSUME NEW a \in Nat, NEW b \in Nat PROVE RunOf(<<>>, a, b) <=> a = b
  BY DEF RunOf

LEMMA RunAppend ==
    ASSUME NEW q, NEW a \in Nat, NEW b \in Nat, RunOf(q, a, b), NEW e \in Event, e = b + 1
    PROVE  RunOf(Append(q, e), a, e)
<1>1. q \in Seq(Event) /\ Len(q) \in Nat /\ Len(q) = b - a /\ \A i \in 1 .. Len(q) : q[i] = a + i
  BY DEF RunOf
<1>2. Append(q, e) \in Seq(Event) /\ Len(Append(q, e)) = e - a
  BY <1>1
<1>3. ASSUME NEW i \in 1 .. Len(Append(q, e)) PROVE Append(q, e)[i] = a + i
  <2>1. CASE i <= Len(q)  BY <1>1, <2>1
  <2>2. CASE i = Len(q) + 1  BY <1>1, <2>2
  <2> QED  BY <1>1, <2>1, <2>2
<1> QED  BY <1>2, <1>3 DEF RunOf

LEMMA RunConcat ==
    ASSUME NEW q, NEW r, NEW a \in Nat, NEW m \in Nat, NEW b \in Nat, RunOf(q, a, m), RunOf(r, m, b)
    PROVE  RunOf(q \o r, a, b)
<1> DEFINE n == Len(q)
           k == Len(r)
<1>1. /\ q \in Seq(Event) /\ n \in Nat /\ n = m - a /\ \A i \in 1 .. n : q[i] = a + i
      /\ r \in Seq(Event) /\ k \in Nat /\ k = b - m /\ \A i \in 1 .. k : r[i] = m + i
  BY DEF RunOf
<1>2. /\ q \o r \in Seq(Event) /\ Len(q \o r) = n + k
      /\ \A i \in 1 .. (n + k) : (q \o r)[i] = IF i <= n THEN q[i] ELSE r[i - n]
  <2>1. q \in Seq(Event) /\ r \in Seq(Event)  BY <1>1
  <2>2. q \o r \in Seq(Event)  BY <2>1
  <2>3. Len(q \o r) = n + k  BY <2>1
  <2>4. \A i \in 1 .. (n + k) : (q \o r)[i] = IF i <= n THEN q[i] ELSE r[i - n]  BY <2>1
  <2> QED  BY <2>2, <2>3, <2>4
<1> HIDE DEF n, k
<1>3. ASSUME NEW i \in 1 .. (n + k) PROVE (q \o r)[i] = a + i
  <2>1. CASE i <= n
    <3>1. i \in 1 .. n  BY <1>1, <2>1
    <3> QED  BY <1>1, <1>2, <2>1, <3>1
  <2>2. CASE ~(i <= n)
    <3>1. i - n \in 1 .. k  BY <1>1, <2>2
    <3>2. r[i - n] = m + (i - n)  BY <1>1, <3>1
    <3>3. (q \o r)[i] = r[i - n]  BY <1>2, <2>2
    <3> QED  BY <1>1, <3>2, <3>3
  <2> QED  BY <2>1, <2>2
<1> QED  BY <1>1, <1>2, <1>3 DEF RunOf

LEMMA RunHead ==
    ASSUME NEW q, NEW a \in Nat, NEW b \in Nat, RunOf(q, a, b), q # <<>>
    PROVE  Head(q) = a + 1 /\ RunOf(Tail(q), a + 1, b)
<1>1. q \in Seq(Event) /\ Len(q) \in Nat /\ Len(q) = b - a /\ \A i \in 1 .. Len(q) : q[i] = a + i
  BY DEF RunOf
<1>2. Len(q) >= 1 /\ Head(q) = q[1]
  BY <1>1
<1>3. Tail(q) \in Seq(Event) /\ Len(Tail(q)) = Len(q) - 1
  BY <1>1, <1>2
<1>4. ASSUME NEW i \in 1 .. Len(Tail(q)) PROVE Tail(q)[i] = (a + 1) + i
  <2>1. Tail(q)[i] = q[i + 1] /\ i + 1 \in 1 .. Len(q)  BY <1>1, <1>2, <1>3
  <2> QED  BY <1>1, <1>3, <2>1
<1> QED  BY <1>1, <1>2, <1>3, <1>4 DEF RunOf

(* What is given to s is what it was. *)
SameFor(s) ==
    /\ sent' = sent /\ out'[s] = out[s] /\ pool'[s] = pool[s] /\ buf'[s] = buf[s]
    /\ \A t \in Tasks : (task'[t].ssp = s <=> task[t].ssp = s) /\ (task[t].ssp = s => task'[t] = task[t])
    /\ node'[s].circuit = node[s].circuit

LEMMA SameInTurn ==
    ASSUME NEW s \in Ssps, InTurn(s), SameFor(s)
    PROVE  InTurn(s)'
<1>1. Idle(s)' <=> Idle(s)  BY DEF Idle, SameFor
<1>2. AtMostOne(s)'  BY DEF InTurn, AtMostOne, SameFor
<1>3. Due(s)' = Due(s)  BY DEF Due, SameFor
<1>4. PICK a \in Nat, m \in Nat : PendingAt(s, a, m)  BY DEF InTurn
<1>5. PendingAt(s, a, m)'  BY <1>1, <1>3, <1>4 DEF PendingAt, SameFor
<1> QED  BY <1>1, <1>2, <1>4, <1>5 DEF InTurn, SameFor

SameCircuits ==
    \A s \in Ssps : node'[s].circuit = node[s].circuit /\ (Up(s)' => Up(s))

LEMMA QuietInTurn ==
    ASSUME Order, UNCHANGED <<sent, out, pool, buf, task>>, SameCircuits
    PROVE  Onward /\ InTurns'
<1>1. ASSUME NEW s \in Ssps, Up(s)' PROVE InTurn(s)'
  <2>1. SameFor(s)  BY DEF SameFor, SameCircuits
  <2>2. InTurn(s)  BY <1>1 DEF Order, InTurns, SameCircuits
  <2> QED  BY <2>1, <2>2, SameInTurn
<1>2. Onward  BY DEF Onward, SameCircuits
<1> QED  BY <1>1, <1>2 DEF InTurns

(* What an action on the deliveries leaves of InTurn once its parts are known. *)
LEMMA NowInTurn ==
    ASSUME NEW s \in Ssps, NEW a \in Nat, NEW m \in Nat, PendingAt(s, a, m)',
           pool'[s] \in {"ready", "lagging", "retiring", "retired"}, AtMostOne(s)',
           pool'[s] = "ready" => Idle(s)' /\ buf'[s] = <<>>,
           out'[s] \in {"sent", "ok", "failed"} =>
             /\ \A t \in Tasks : task'[t].ssp = s => task'[t].batch = <<>>
             /\ pool'[s] # "retired" => buf'[s] = <<>>,
           out'[s] = "sent" => node'[s].circuit = sent' \/ node'[s].circuit = sent' + 1
    PROVE  InTurn(s)'
  BY DEF InTurn

LEMMA FanOutOrder ==
    ASSUME Order, FanOut
    PROVE  Onward /\ InTurns'
<1>1. /\ sent < events /\ sent' = sent /\ pool' = pool /\ task' = task /\ node' = node
      /\ \A s \in Ssps : out[s] = "no"
      /\ \A s \in Ssps : out'[s] = IF pool[s] = "ready" THEN "sent" ELSE "off"
      /\ \A s \in Ssps : buf'[s] = IF Buffered(s) THEN Append(buf[s], sent + 1) ELSE buf[s]
  BY DEF FanOut
<1>2. sent \in Nat /\ sent + 1 \in Event
  BY <1>1, PromotionAssumption DEF Order, Typed, CountersTyped, Event
<1>3. ASSUME NEW s \in Ssps, Up(s)' PROVE InTurn(s)'
  <2>1. InTurn(s)  BY <1>1, <1>3 DEF Order, InTurns, Up
  <2>2. PICK a \in Nat, m \in Nat : PendingAt(s, a, m)  BY <2>1 DEF InTurn
  <2>3. Due(s) = sent  BY <1>1 DEF Due
  <2>4. (Idle(s)' <=> Idle(s)) /\ AtMostOne(s)'  BY <1>1, <2>1 DEF Idle, AtMostOne, InTurn
  <2>5. CASE pool[s] = "ready"
    <3>1. out'[s] = "sent" /\ buf'[s] = <<>> /\ buf[s] = <<>> /\ Idle(s)
      BY <1>1, <2>1, <2>5 DEF Buffered, InTurn
    <3>2. m = a /\ m = sent
      <4>1. RunOf(<<>>, m, sent) /\ m = a  BY <2>2, <2>3, <2>5, <3>1 DEF PendingAt
      <4> QED  BY <1>2, <4>1, RunEmpty
    <3>3. node'[s].circuit = sent \/ node'[s].circuit = sent + 1
      BY <1>1, <2>2, <3>2 DEF PendingAt
    <3>4. Due(s)' = sent  BY <1>1, <3>1 DEF Due
    <3>5. PendingAt(s, a, m)'
      BY <1>1, <2>2, <2>3, <2>4, <2>5, <3>1, <3>4 DEF PendingAt
    <3>6. \A t \in Tasks : task'[t].ssp # s  BY <1>1, <3>1 DEF Idle
    <3> QED  BY <1>1, <2>4, <2>5, <3>1, <3>3, <3>5, <3>6, NowInTurn
  <2>6. CASE pool[s] \in {"lagging", "retiring"}
    <3>1. out'[s] = "off" /\ buf'[s] = Append(buf[s], sent + 1)
      BY <1>1, <2>6 DEF Buffered
    <3>2. Due(s)' = sent + 1  BY <1>1, <3>1 DEF Due
    <3>3. RunOf(buf'[s], m, sent + 1)
      <4>1. RunOf(buf[s], m, sent)  BY <2>2, <2>3, <2>6 DEF PendingAt
      <4> QED  BY <1>2, <3>1, <4>1, RunAppend
    <3>4. PendingAt(s, a, m)'  BY <1>1, <2>2, <2>4, <2>6, <3>2, <3>3 DEF PendingAt
    <3> QED  BY <1>1, <2>4, <2>6, <3>1, <3>4, NowInTurn
  <2>7. CASE pool[s] = "retired"
    <3>1. out'[s] = "off"  BY <1>1, <2>7
    <3>2. PendingAt(s, a, m)'  BY <1>1, <2>2, <2>7 DEF PendingAt
    <3> QED  BY <1>1, <2>4, <2>7, <3>1, <3>2, NowInTurn
  <2> QED  BY <2>1, <2>5, <2>6, <2>7 DEF InTurn
<1>4. Onward  BY <1>1 DEF Onward
<1> QED  BY <1>3, <1>4 DEF InTurns

LEMMA DeliverOrder ==
    ASSUME Order, NEW r \in Ssps, Deliver(r)
    PROVE  Onward /\ InTurns'
<1>1. /\ out[r] = "sent" /\ sent' = sent /\ pool' = pool /\ task' = task /\ buf' = buf
      /\ \A s \in Ssps \ {r} : out'[s] = out[s] /\ node'[s] = node[s]
      /\ \/ /\ node[r].status = "ready" /\ Taken(r, sent + 1) /\ out'[r] = "ok"
         \/ node' = node /\ out'[r] = "failed"
  BY DEF Deliver, scheduler, Taken, Order, Typed, CountersTyped, NodesTyped
<1>2. sent \in Nat  BY DEF Order, Typed, CountersTyped
<1>3. \A s \in Ssps : node'[s].status = node[s].status
  BY <1>1 DEF Taken, Order, Typed, NodesTyped
<1>4. ASSUME NEW s \in Ssps, Up(s)', s # r PROVE InTurn(s)'
  <2>1. InTurn(s)  BY <1>3, <1>4 DEF Order, InTurns, Up
  <2>2. SameFor(s)  BY <1>1, <1>4 DEF SameFor
  <2> QED  BY <2>1, <2>2, SameInTurn
<1>5. ASSUME Up(r)
      PROVE  InTurn(r)' /\ node'[r].circuit \in {node[r].circuit, node[r].circuit + 1}
  <2>1. InTurn(r)  BY <1>5 DEF Order, InTurns
  <2>2. PICK a \in Nat, m \in Nat : PendingAt(r, a, m)  BY <2>1 DEF InTurn
  <2>3. (Idle(r)' <=> Idle(r)) /\ AtMostOne(r)'  BY <1>1, <2>1 DEF Idle, AtMostOne, InTurn
  <2>4. /\ \A t \in Tasks : task'[t].ssp = r => task'[t].batch = <<>>
        /\ pool'[r] # "retired" => buf'[r] = <<>>
        /\ pool'[r] \in {"ready", "lagging", "retiring", "retired"}
        /\ pool'[r] = "ready" => Idle(r)' /\ buf'[r] = <<>>
    BY <1>1, <2>1, <2>3 DEF InTurn
  <2>5. node[r].circuit = sent \/ node[r].circuit = sent + 1  BY <1>1, <2>1 DEF InTurn
  <2>6. CASE Taken(r, sent + 1) /\ out'[r] = "ok"
    <3>0. PICK k \in Nat : k = sent + 1  BY <1>2
    <3>1. node'[r].circuit = k  BY <2>6, <3>0 DEF Taken, Order, Typed, NodesTyped
    <3>2. Due(r)' = k  BY <1>1, <2>6, <3>0 DEF Due
    <3>3. RunOf(<<>>, k, k)  BY RunEmpty
    <3>4. PendingAt(r, k, k)'  BY <2>4, <3>1, <3>2, <3>3 DEF PendingAt
    <3>5. InTurn(r)'  BY <2>3, <2>4, <2>6, <3>4, NowInTurn
    <3> QED  BY <1>2, <2>5, <3>0, <3>1, <3>5
  <2>7. CASE node' = node /\ out'[r] = "failed"
    <3>1. Due(r)' = Due(r)  BY <1>1, <2>7 DEF Due
    <3>2. PendingAt(r, a, m)'  BY <1>1, <2>2, <2>3, <2>7, <3>1 DEF PendingAt
    <3>3. InTurn(r)'  BY <2>3, <2>4, <2>7, <3>2, NowInTurn
    <3> QED  BY <2>7, <3>3
  <2> QED  BY <1>1, <2>6, <2>7
<1>6. Onward  BY <1>1, <1>5 DEF Onward
<1>7. InTurns'  BY <1>3, <1>4, <1>5 DEF InTurns, Up
<1> QED  BY <1>6, <1>7

(* A free slot takes the new redelivery task; the others stay as they are. *)
LEMMA SpawnedFree ==
    ASSUME NEW tt \in [Tasks -> [ssp : Ssps \cup {"none"}, batch : Seq(Event)]], NEW s \in Ssps,
           \E t \in Tasks : tt[t] = Off
    PROVE  \E t \in Tasks : tt[t] = Off /\ Spawned(tt, s) = [tt EXCEPT ![t] = [ssp |-> s, batch |-> <<>>]]
<1> DEFINE P(u) == tt[u] = Off /\ \A w \in Tasks : tt[w] = Off => u <= w
<1>1. \E u \in Tasks : P(u)
  <2>1. Tasks = {1, 2, 3}  BY DEF Tasks
  <2>2. tt[1] = Off \/ tt[2] = Off \/ tt[3] = Off  BY <2>1
  <2>3. CASE tt[1] = Off  BY <2>1, <2>3
  <2>4. CASE tt[1] # Off /\ tt[2] = Off  BY <2>1, <2>4
  <2>5. CASE tt[1] # Off /\ tt[2] # Off /\ tt[3] = Off  BY <2>1, <2>5
  <2> QED  BY <2>2, <2>3, <2>4, <2>5
<1> DEFINE c == CHOOSE u \in Tasks : P(u)
<1>2. c \in Tasks /\ P(c)  BY <1>1, Zenon
<1> HIDE DEF c
<1>3. Spawned(tt, s) = [tt EXCEPT ![c] = [ssp |-> s, batch |-> <<>>]]  BY DEF Spawned, c
<1> QED  BY <1>2, <1>3

(* A slot nobody has is off. *)
LEMMA NobodysOff ==
    ASSUME QueuesTyped, NEW t \in Tasks, task[t].ssp = "none"
    PROVE  task[t] = Off
  BY DEF QueuesTyped, Off

(* Green has one task at most, and blue too while it is on the live path. *)
LEMMA GreenOnce ==
    ASSUME Order PROVE AtMostOne("green") /\ (pool["green"] = "ready" => Up("green") /\ Idle("green"))
<1>1. CASE node["green"].status = "ready"
  <2>1. Up("green") /\ InTurn("green")  BY <1>1 DEF Order, InTurns, Up, Ssps
  <2> QED  BY <2>1 DEF InTurn
<1>2. CASE node["green"].status # "ready"
  BY <1>2 DEF Order, Slots, Idle, AtMostOne
<1> QED  BY <1>1, <1>2

LEMMA FreeSlot ==
    ASSUME Order, AtMostOne("blue")
    PROVE  /\ \E t \in Tasks : task[t] = Off
           /\ Idle("green") => \E t, u \in Tasks : t # u /\ task[t] = Off /\ task[u] = Off
<1>1. AtMostOne("green")  BY GreenOnce
<1>2. \A t \in Tasks : task[t].ssp \in {"blue", "green", "none"}
  BY DEF Order, Typed, QueuesTyped, Ssps
<1>3. \A t \in Tasks : task[t].ssp = "none" => task[t] = Off
  BY NobodysOff DEF Order, Typed
<1>4. 1 \in Tasks /\ 2 \in Tasks /\ 3 \in Tasks  BY DEF Tasks
<1>5. \E t \in Tasks : task[t].ssp = "none"
  BY <1>1, <1>2, <1>4 DEF AtMostOne
<1>6. ASSUME Idle("green")
      PROVE  \E t, u \in Tasks : t # u /\ task[t].ssp = "none" /\ task[u].ssp = "none"
  BY <1>2, <1>4, <1>6 DEF AtMostOne, Idle
<1> QED  BY <1>3, <1>5, <1>6

(* The tasks for s are the ones there were; the same with a new one. *)
KeepsTask(s, t) == (task'[t].ssp = s <=> task[t].ssp = s) /\ (task[t].ssp = s => task'[t] = task[t])
SameTasks(s) == \A t \in Tasks : KeepsTask(s, t)
OneMore(s) ==
    \E t \in Tasks : /\ task[t] = Off /\ task'[t] = [ssp |-> s, batch |-> <<>>]
                     /\ \A u \in Tasks \ {t} : KeepsTask(s, u)

LEMMA SpawnedTasks ==
    ASSUME QueuesTyped, NEW s \in Ssps, \E t \in Tasks : task[t] = Off, task' = Spawned(task, s)
    PROVE  OneMore(s) /\ \A r \in Ssps \ {s} : SameTasks(r)
<1>1. PICK t \in Tasks : task[t] = Off /\ Spawned(task, s) = [task EXCEPT ![t] = [ssp |-> s, batch |-> <<>>]]
  BY SpawnedFree DEF QueuesTyped
<1>2. /\ task'[t] = [ssp |-> s, batch |-> <<>>] /\ \A u \in Tasks \ {t} : task'[u] = task[u]
  BY <1>1 DEF QueuesTyped
<1>3. task[t].ssp = "none" /\ \A r \in Ssps : r # "none"  BY <1>1 DEF Off, Ssps
<1> QED  BY <1>1, <1>2, <1>3 DEF OneMore, SameTasks, KeepsTask

LEMMA FanOutDoneTasks ==
    ASSUME Order, FanOutDone, NEW s \in Ssps
    PROVE  IF Lags(s) THEN OneMore(s) ELSE SameTasks(s)
<1> DEFINE one == IF Lags("blue") THEN Spawned(task, "blue") ELSE task
<1>1. task' = IF Lags("green") THEN Spawned(one, "green") ELSE one  BY DEF FanOutDone
<1> HIDE DEF one
<1>2. QueuesTyped /\ Ssps = {"blue", "green"}  BY DEF Order, Typed, Ssps
<1>3. Lags("blue") => AtMostOne("blue")  BY DEF Lags, Order, Slots
<1>4. Lags("green") => Idle("green")  BY GreenOnce DEF Lags
<1>5. CASE ~Lags("blue") /\ ~Lags("green")
  BY <1>1, <1>2, <1>5 DEF one, SameTasks, KeepsTask
<1>6. CASE Lags("blue") /\ ~Lags("green")
  <2>1. task' = Spawned(task, "blue")  BY <1>1, <1>6 DEF one
  <2>2. \E t \in Tasks : task[t] = Off  BY <1>3, <1>6, FreeSlot
  <2> QED  BY <1>2, <1>6, <2>1, <2>2, SpawnedTasks
<1>7. CASE ~Lags("blue") /\ Lags("green")
  <2>1. task' = Spawned(task, "green")  BY <1>1, <1>7 DEF one
  <2>2. \E t \in Tasks : task[t] = Off
    <3>1. PICK t \in Tasks : task[t].ssp # "blue"  BY DEF Order, Slots
    <3>2. task[t].ssp = "none"  BY <1>4, <1>7, <3>1 DEF Idle, Order, Typed, QueuesTyped, Ssps
    <3> QED  BY <1>2, <3>2, NobodysOff
  <2> QED  BY <1>2, <1>7, <2>1, <2>2, SpawnedTasks
<1>8. CASE Lags("blue") /\ Lags("green")
  <2> DEFINE new(r) == [ssp |-> r, batch |-> <<>>]
  <2>1. \E t, u \in Tasks : t # u /\ task[t] = Off /\ task[u] = Off
    BY <1>3, <1>4, <1>8, FreeSlot
  <2>2. PICK t \in Tasks : task[t] = Off /\ one = [task EXCEPT ![t] = new("blue")]
    <3>1. task \in [Tasks -> [ssp : Ssps \cup {"none"}, batch : Seq(Event)]]
      BY <1>2 DEF QueuesTyped
    <3>2. "blue" \in Ssps  BY DEF Ssps
    <3> QED  BY <1>8, <2>1, <3>1, <3>2, SpawnedFree DEF one
  <2>3. /\ one \in [Tasks -> [ssp : Ssps \cup {"none"}, batch : Seq(Event)]]
        /\ one[t] = new("blue") /\ \A u \in Tasks \ {t} : one[u] = task[u]
    <3>1. new("blue") \in [ssp : Ssps \cup {"none"}, batch : Seq(Event)]  BY DEF Ssps
    <3>2. task \in [Tasks -> [ssp : Ssps \cup {"none"}, batch : Seq(Event)]]
      BY <1>2 DEF QueuesTyped
    <3> HIDE DEF new
    <3> QED  BY <2>2, <3>1, <3>2
  <2>4. \E u \in Tasks : one[u] = Off  BY <2>1, <2>3
  <2>5. PICK u \in Tasks : one[u] = Off /\ task' = [one EXCEPT ![u] = new("green")]
    <3>1. "green" \in Ssps  BY DEF Ssps
    <3> QED  BY <1>1, <1>8, <2>3, <2>4, <3>1, SpawnedFree
  <2>6. u # t /\ task[u] = Off  BY <2>3, <2>5 DEF Off
  <2>7. /\ task'[t] = new("blue") /\ task'[u] = new("green")
        /\ \A w \in Tasks \ {t, u} : task'[w] = task[w]
    <3> HIDE DEF new
    <3> QED  BY <2>3, <2>5, <2>6
  <2>8. task[t].ssp = "none" /\ task[u].ssp = "none"  BY <2>2, <2>6 DEF Off
  <2>9. OneMore("blue")  BY <2>2, <2>6, <2>7, <2>8 DEF OneMore, KeepsTask
  <2>10. OneMore("green")  BY <2>2, <2>6, <2>7, <2>8 DEF OneMore, KeepsTask
  <2> QED  BY <1>2, <1>8, <2>9, <2>10
<1> QED  BY <1>5, <1>6, <1>7, <1>8

LEMMA SameTasksFacts ==
    ASSUME NEW s \in Ssps, SameTasks(s)
    PROVE  (Idle(s)' <=> Idle(s)) /\ (AtMostOne(s) => AtMostOne(s)')
  BY DEF SameTasks, KeepsTask, Idle, AtMostOne

LEMMA OneMoreFacts ==
    ASSUME NEW s \in Ssps, OneMore(s), Idle(s)
    PROVE  /\ ~Idle(s)' /\ AtMostOne(s)'
           /\ \A t \in Tasks : task'[t].ssp = s => task'[t].batch = <<>>
<1>1. PICK t \in Tasks : /\ task'[t] = [ssp |-> s, batch |-> <<>>]
                         /\ \A u \in Tasks \ {t} : KeepsTask(s, u)
  BY DEF OneMore
<1>2. \A u \in Tasks \ {t} : task'[u].ssp # s  BY <1>1 DEF KeepsTask, Idle
<1>3. task'[t].ssp = s /\ task'[t].batch = <<>>  BY <1>1
<1> QED  BY <1>2, <1>3 DEF Idle, AtMostOne

LEMMA FanOutDoneOrder ==
    ASSUME Order, FanOutDone
    PROVE  Onward /\ InTurns'
<1>1. /\ sent' = sent + 1 /\ node' = node
      /\ \A s \in Ssps : out[s] \in {"ok", "failed", "off"} /\ out'[s] = "no"
      /\ \A s \in Ssps : pool'[s] = IF Lags(s) THEN "lagging" ELSE pool[s]
      /\ \A s \in Ssps : buf'[s] = IF out[s] = "failed" /\ (Lags(s) \/ Buffered(s))
                                   THEN Append(buf[s], sent + 1) ELSE buf[s]
  BY DEF FanOutDone
<1>2. sent \in Nat /\ sent + 1 \in Event
  <2>1. out["blue"] # "no"  BY <1>1 DEF Ssps
  <2> QED  BY <2>1, PromotionAssumption DEF Order, Typed, CountersTyped, Event, Ssps
<1>3. ASSUME NEW s \in Ssps, Up(s)' PROVE InTurn(s)'
  <2>1. InTurn(s)  BY <1>1, <1>3 DEF Order, InTurns, Up
  <2>2. PICK a \in Nat, m \in Nat : PendingAt(s, a, m)  BY <2>1 DEF InTurn
  <2>3. Due(s)' = sent + 1  BY <1>1 DEF Due
  <2>4. CASE out[s] \in {"ok", "off"}
    <3>1. ~Lags(s) /\ buf'[s] = buf[s] /\ pool'[s] = pool[s]  BY <1>1, <2>4 DEF Lags
    <3>2. SameTasks(s)  BY <3>1, FanOutDoneTasks
    <3>3. (Idle(s)' <=> Idle(s)) /\ AtMostOne(s)'  BY <2>1, <3>2, SameTasksFacts DEF InTurn
    <3>4. Due(s) = sent + 1  BY <2>4 DEF Due
    <3>5. PendingAt(s, a, m)'
      BY <1>1, <2>2, <2>3, <3>1, <3>2, <3>3, <3>4 DEF PendingAt, SameTasks, KeepsTask
    <3> QED  BY <1>1, <2>1, <3>1, <3>3, <3>5, NowInTurn DEF InTurn
  <2>5. CASE out[s] = "failed" /\ pool[s] = "ready"
    <3>1. Lags(s) /\ buf'[s] = Append(buf[s], sent + 1) /\ pool'[s] = "lagging" /\ Due(s) = sent
      BY <1>1, <2>5 DEF Lags, Due
    <3>2. Idle(s) /\ buf[s] = <<>>  BY <2>1, <2>5 DEF InTurn
    <3>3. OneMore(s)  BY <3>1, FanOutDoneTasks
    <3>4. /\ ~Idle(s)' /\ AtMostOne(s)'
          /\ \A t \in Tasks : task'[t].ssp = s => task'[t].batch = <<>>
      BY <3>2, <3>3, OneMoreFacts
    <3>5. RunOf(buf[s], m, sent) /\ m = a  BY <2>2, <2>5, <3>1, <3>2 DEF PendingAt
    <3>6. RunOf(buf'[s], m, sent + 1)  BY <1>2, <3>1, <3>5, RunAppend
    <3>7. RunOf(<<>>, a, m)  BY <3>5, RunEmpty
    <3>8. PendingAt(s, a, m)'  BY <1>1, <2>2, <2>3, <3>4, <3>6, <3>7 DEF PendingAt
    <3> QED  BY <1>1, <3>1, <3>4, <3>8, NowInTurn
  <2>6. CASE out[s] = "failed" /\ pool[s] # "ready"
    <3>1. ~Lags(s) /\ pool'[s] = pool[s] /\ Due(s) = sent  BY <1>1, <2>6 DEF Lags, Due
    <3>2. SameTasks(s)  BY <3>1, FanOutDoneTasks
    <3>3. (Idle(s)' <=> Idle(s)) /\ AtMostOne(s)'  BY <2>1, <3>2, SameTasksFacts DEF InTurn
    <3>4. ASSUME pool[s] # "retired" PROVE RunOf(buf'[s], m, sent + 1)
      <4>1. buf'[s] = Append(buf[s], sent + 1)
        BY <1>1, <2>1, <2>6, <3>4 DEF InTurn, Buffered
      <4>2. RunOf(buf[s], m, sent)  BY <2>2, <3>1, <3>4 DEF PendingAt
      <4> QED  BY <1>2, <4>1, <4>2, RunAppend
    <3>5. PendingAt(s, a, m)'
      BY <1>1, <2>2, <2>3, <3>1, <3>2, <3>3, <3>4 DEF PendingAt, SameTasks, KeepsTask
    <3> QED  BY <1>1, <2>1, <2>6, <3>1, <3>3, <3>5, NowInTurn DEF InTurn
  <2> QED  BY <1>1, <2>4, <2>5, <2>6
<1>4. Onward  BY <1>1 DEF Onward
<1> QED  BY <1>3, <1>4 DEF InTurns

(* The tasks of the others stay; t is the only one for its SSP. *)
LEMMA OwnTask ==
    ASSUME NEW t \in Tasks, NEW r \in Ssps, task[t].ssp = r, task'[t].ssp \in {r, "none"},
           \A u \in Tasks \ {t} : task'[u] = task[u]
    PROVE  /\ \A s \in Ssps \ {r} : SameTasks(s)
           /\ AtMostOne(r) => AtMostOne(r)' /\ \A u \in Tasks \ {t} : task'[u].ssp # r
<1>1. "none" \notin Ssps  BY DEF Ssps
<1>2. \A s \in Ssps \ {r} : SameTasks(s)  BY <1>1 DEF SameTasks, KeepsTask
<1>3. ASSUME AtMostOne(r) PROVE \A u \in Tasks \ {t} : task'[u].ssp # r
  BY <1>3 DEF AtMostOne
<1>4. AtMostOne(r) => AtMostOne(r)'  BY <1>3 DEF AtMostOne
<1> QED  BY <1>2, <1>3, <1>4

LEMMA RedeliverOrder ==
    ASSUME Order, NEW t \in Tasks, Redeliver(t)
    PROVE  Onward /\ InTurns'
<1>1. PICK r \in Ssps : r = task[t].ssp
  BY NobodysOff DEF Redeliver, Order, Typed, QueuesTyped
<1>2. /\ task[t].batch = <<>> /\ UNCHANGED <<sent, out, node>>
      /\ \/ pool[r] # "lagging" /\ task' = [task EXCEPT ![t] = Off] /\ UNCHANGED <<pool, buf>>
         \/ /\ pool[r] = "lagging" /\ buf[r] = <<>>
            /\ pool' = [pool EXCEPT ![r] = "ready"]
            /\ task' = [task EXCEPT ![t] = Off]
            /\ UNCHANGED buf
         \/ /\ pool[r] = "lagging" /\ buf[r] # <<>>
            /\ task' = [task EXCEPT ![t].batch = buf[r]]
            /\ buf' = [buf EXCEPT ![r] = <<>>]
            /\ UNCHANGED pool
  BY <1>1 DEF Redeliver
<1>3. /\ \A s \in Ssps \ {r} : pool'[s] = pool[s] /\ buf'[s] = buf[s]
      /\ \A u \in Tasks \ {t} : task'[u] = task[u]
      /\ task'[t].ssp \in {r, "none"}
  BY <1>1, <1>2 DEF Order, Typed, PoolTyped, QueuesTyped, Off
<1>4. /\ \A s \in Ssps \ {r} : SameTasks(s)
      /\ AtMostOne(r) => AtMostOne(r)' /\ \A u \in Tasks \ {t} : task'[u].ssp # r
  BY <1>1, <1>3, OwnTask
<1>5. ASSUME NEW s \in Ssps, Up(s)', s # r PROVE InTurn(s)'
  <2>1. InTurn(s)  BY <1>2, <1>5 DEF Order, InTurns, Up
  <2>2. SameFor(s)  BY <1>2, <1>3, <1>4, <1>5 DEF SameFor, SameTasks, KeepsTask
  <2> QED  BY <2>1, <2>2, SameInTurn
<1>6. ASSUME Up(r) PROVE InTurn(r)'
  <2>1. InTurn(r)  BY <1>6 DEF Order, InTurns
  <2>2. PICK a \in Nat, m \in Nat : PendingAt(r, a, m)  BY <2>1 DEF InTurn
  <2>3. AtMostOne(r)' /\ \A u \in Tasks \ {t} : task'[u].ssp # r  BY <1>4, <2>1 DEF InTurn
  <2>4. m = a  BY <1>1, <1>2, <2>2, RunEmpty DEF PendingAt
  <2>5. Due(r)' = Due(r) /\ Due(r) \in Nat
    BY <1>2 DEF Due, Order, Typed, CountersTyped
  <2>6. pool[r] # "ready"  BY <1>1, <2>1 DEF InTurn, Idle
  <2>7. CASE pool[r] # "lagging" /\ task' = [task EXCEPT ![t] = Off] /\ UNCHANGED <<pool, buf>>
    <3>1. \A u \in Tasks : task'[u].ssp # r  BY <2>3, <2>7 DEF Off, Ssps, Order, Typed, QueuesTyped
    <3>2. PendingAt(r, a, m)'  BY <1>2, <2>2, <2>4, <2>5, <2>7, <3>1 DEF PendingAt
    <3> QED  BY <1>2, <2>1, <2>3, <2>6, <2>7, <3>1, <3>2, NowInTurn DEF InTurn
  <2>8. CASE /\ pool[r] = "lagging" /\ buf[r] = <<>>
             /\ pool' = [pool EXCEPT ![r] = "ready"]
             /\ task' = [task EXCEPT ![t] = Off]
             /\ UNCHANGED buf
    <3>1. Idle(r)'  BY <2>3, <2>8 DEF Idle, Off, Ssps, Order, Typed, QueuesTyped
    <3>2. pool'[r] = "ready"  BY <2>8 DEF Order, Typed, PoolTyped
    <3>3. \A u \in Tasks : task'[u].ssp # r  BY <3>1 DEF Idle
    <3>4. PendingAt(r, a, m)'  BY <1>2, <2>2, <2>4, <2>5, <2>8, <3>3 DEF PendingAt
    <3> QED  BY <1>2, <2>1, <2>3, <2>8, <3>1, <3>2, <3>3, <3>4, NowInTurn DEF InTurn
  <2>9. CASE /\ pool[r] = "lagging" /\ buf[r] # <<>>
             /\ task' = [task EXCEPT ![t].batch = buf[r]]
             /\ buf' = [buf EXCEPT ![r] = <<>>]
             /\ UNCHANGED pool
    <3>1. task'[t].ssp = r /\ task'[t].batch = buf[r] /\ buf'[r] = <<>>
      BY <1>1, <2>9 DEF Order, Typed, QueuesTyped
    <3>2. out[r] \notin {"sent", "ok", "failed"}  BY <2>1, <2>9 DEF InTurn
    <3>3. RunOf(buf[r], a, Due(r))  BY <2>2, <2>4, <2>9 DEF PendingAt
    <3>4. PICK d \in Nat : d = Due(r)  BY <2>5
    <3>5. RunOf(<<>>, d, d) /\ ~Idle(r)'  BY <3>1, RunEmpty DEF Idle
    <3>6. PendingAt(r, a, d)'  BY <1>2, <2>2, <2>3, <2>5, <3>1, <3>3, <3>4, <3>5 DEF PendingAt
    <3> QED  BY <1>2, <2>3, <2>9, <3>2, <3>6, NowInTurn
  <2> QED  BY <1>2, <2>7, <2>8, <2>9
<1>7. Onward  BY <1>2 DEF Onward
<1>8. InTurns'  BY <1>2, <1>5, <1>6 DEF InTurns, Up
<1> QED  BY <1>7, <1>8

LEMMA RedeliverOneTasks ==
    ASSUME Order, NEW t \in Tasks, RedeliverOne(t)
    PROVE  \A u \in Tasks : task'[u].ssp = task[u].ssp /\ (u # t => task'[u] = task[u])
<1>1. task \in [Tasks -> [ssp : Ssps \cup {"none"}, batch : Seq(Event)]]
  BY DEF Order, Typed, QueuesTyped
<1>2. CASE node[task[t].ssp].status = "ready"
  <2>1. task' = [task EXCEPT ![t].batch = Tail(@)]  BY <1>2 DEF RedeliverOne
  <2> QED  BY <1>1, <2>1
<1>3. CASE node[task[t].ssp].status # "ready"
  <2>1. task' = [task EXCEPT ![t].batch = <<>>]  BY <1>3 DEF RedeliverOne
  <2> QED  BY <1>1, <2>1
<1> QED  BY <1>2, <1>3

LEMMA RedeliverOneOrder ==
    ASSUME Order, NEW t \in Tasks, RedeliverOne(t)
    PROVE  Onward /\ InTurns'
<1>1. PICK r \in Ssps : r = task[t].ssp
  BY DEF RedeliverOne, Order, Typed, QueuesTyped
<1>2. /\ task[t].batch # <<>> /\ UNCHANGED <<sent, out, pool>>
      /\ IF node[r].status = "ready"
         THEN /\ Taken(r, Head(task[t].batch))
              /\ task' = [task EXCEPT ![t].batch = Tail(@)]
              /\ UNCHANGED buf
         ELSE /\ task' = [task EXCEPT ![t].batch = <<>>]
              /\ buf' = [buf EXCEPT ![r] = task[t].batch \o @]
              /\ UNCHANGED node
  BY <1>1 DEF RedeliverOne
<1>3. /\ \A s \in Ssps \ {r} : node'[s] = node[s] /\ buf'[s] = buf[s]
      /\ \A u \in Tasks \ {t} : task'[u] = task[u]
      /\ task'[t].ssp = r
      /\ \A s \in Ssps : node'[s].status = node[s].status
  <2>1. \A s \in Ssps : node'[s].status = node[s].status /\ (s # r => node'[s] = node[s])
    <3>1. CASE node' = node  BY <3>1
    <3>2. ASSUME NEW e, node' = [node EXCEPT ![r].circuit = e]
          PROVE  \A s \in Ssps : node'[s].status = node[s].status /\ (s # r => node'[s] = node[s])
      BY <3>2 DEF Order, Typed, NodesTyped
    <3> QED  BY <1>2, <3>1, <3>2 DEF Taken
  <2>2. \A s \in Ssps \ {r} : buf'[s] = buf[s]  BY <1>2 DEF Order, Typed, QueuesTyped
  <2>3. (\A u \in Tasks \ {t} : task'[u] = task[u]) /\ task'[t].ssp = r
    BY <1>1, RedeliverOneTasks
  <2> QED  BY <2>1, <2>2, <2>3
<1>4. /\ \A s \in Ssps \ {r} : SameTasks(s)
      /\ AtMostOne(r) => AtMostOne(r)' /\ \A u \in Tasks \ {t} : task'[u].ssp # r
  BY <1>1, <1>3, OwnTask
<1>5. ASSUME NEW s \in Ssps, Up(s)', s # r PROVE InTurn(s)'
  <2>1. InTurn(s)  BY <1>3, <1>5 DEF Order, InTurns, Up
  <2>2. SameFor(s)  BY <1>2, <1>3, <1>4, <1>5 DEF SameFor, SameTasks, KeepsTask
  <2> QED  BY <2>1, <2>2, SameInTurn
<1>6. ASSUME Up(r)
      PROVE  InTurn(r)' /\ node'[r].circuit \in {node[r].circuit, node[r].circuit + 1}
  <2>1. InTurn(r)  BY <1>6 DEF Order, InTurns
  <2>2. PICK a \in Nat, m \in Nat : PendingAt(r, a, m)  BY <2>1 DEF InTurn
  <2>3. AtMostOne(r)' /\ \A u \in Tasks \ {t} : task'[u].ssp # r  BY <1>4, <2>1 DEF InTurn
  <2>4. RunOf(task[t].batch, a, m)  BY <1>1, <2>2 DEF PendingAt
  <2>5. Due(r)' = Due(r) /\ Due(r) \in Nat
    BY <1>2 DEF Due, Order, Typed, CountersTyped
  <2>6. pool[r] # "ready" /\ ~Idle(r)'  BY <1>1, <1>3, <2>1 DEF InTurn, Idle
  <2>7. out[r] \notin {"sent", "ok", "failed"}  BY <1>1, <1>2, <2>1 DEF InTurn
  <2>8. CASE node[r].status = "ready"
    <3>1. Head(task[t].batch) = a + 1 /\ RunOf(Tail(task[t].batch), a + 1, m)
      BY <1>2, <2>4, RunHead
    <3>2. task'[t].batch = Tail(task[t].batch) /\ buf' = buf
      BY <1>2, <2>8 DEF Order, Typed, QueuesTyped
    <3>3. PICK k \in Nat : k = a + 1  OBVIOUS
    <3>4. node'[r].circuit = k  BY <1>2, <2>8, <3>1, <3>3 DEF Taken, Order, Typed, NodesTyped
    <3>5. PendingAt(r, k, m)'
      BY <1>2, <2>2, <2>3, <2>5, <2>6, <3>1, <3>2, <3>3, <3>4 DEF PendingAt
    <3>6. InTurn(r)'  BY <1>2, <2>1, <2>3, <2>6, <2>7, <3>5, NowInTurn DEF InTurn
    <3>7. node'[r].circuit \in {node[r].circuit, node[r].circuit + 1}
      BY <2>2, <3>3, <3>4 DEF PendingAt
    <3> QED  BY <3>6, <3>7
  <2>9. CASE node[r].status # "ready"
    <3>1. task'[t].batch = <<>> /\ buf'[r] = task[t].batch \o buf[r] /\ node' = node
      BY <1>2, <2>9 DEF Order, Typed, QueuesTyped
    <3>2. ASSUME pool[r] # "retired" PROVE RunOf(buf'[r], a, Due(r))
      <4>1. RunOf(buf[r], m, Due(r))  BY <2>2, <3>2 DEF PendingAt
      <4> QED  BY <2>4, <2>5, <3>1, <4>1, RunConcat
    <3>3. RunOf(<<>>, a, a)  BY RunEmpty
    <3>4. PendingAt(r, a, a)'
      BY <1>2, <2>2, <2>3, <2>5, <3>1, <3>2, <3>3 DEF PendingAt
    <3>5. InTurn(r)'  BY <1>2, <2>1, <2>3, <2>6, <2>7, <3>4, NowInTurn DEF InTurn
    <3> QED  BY <3>1, <3>5
  <2> QED  BY <2>8, <2>9
<1>7. Onward  BY <1>3, <1>6 DEF Onward
<1>8. InTurns'  BY <1>3, <1>5, <1>6 DEF InTurns, Up
<1> QED  BY <1>7, <1>8

LEMMA SspComesOrder ==
    ASSUME Order, NEW r \in Ssps, RegisterSsp(r) \/ (r = "blue" /\ Evict)
    PROVE  Onward /\ InTurns'
<1>1. /\ UNCHANGED <<sent, out, task>> /\ ~Up(r) /\ ~Up(r)'
      /\ \A s \in Ssps \ {r} : node'[s] = node[s] /\ pool'[s] = pool[s] /\ buf'[s] = buf[s]
  BY DEF RegisterSsp, Evict, Up, Order, Typed, NodesTyped, PoolTyped, QueuesTyped
<1>2. ASSUME NEW s \in Ssps, Up(s)' PROVE InTurn(s)'
  <2>1. s # r /\ InTurn(s)  BY <1>1, <1>2 DEF Order, InTurns, Up
  <2>2. SameFor(s)  BY <1>1, <2>1 DEF SameFor
  <2> QED  BY <2>1, <2>2, SameInTurn
<1>3. Onward  BY <1>1 DEF Onward
<1> QED  BY <1>2, <1>3 DEF InTurns

(* A boot finds no redelivery task of the SSP left. *)
LEMMA BootIdle ==
    ASSUME Order, NEW r \in Ssps, BootEnds(r)
    PROVE  Idle(r) /\ node[r].status = "loaded" /\ (r = "blue" => Abandonless)
<1>1. node[r].status = "loaded" /\ ("stale" \in Faults \/ Idle(r))  BY DEF BootEnds, Idle
<1>2. CASE r = "green"  BY <1>1, <1>2 DEF Order, Slots
<1>3. CASE r = "blue"
  BY <1>1, <1>3 DEF Order, Lone, LoneFirst, Up, Abandonless
<1> QED  BY <1>1, <1>2, <1>3 DEF Ssps

LEMMA BootEndsOrder ==
    ASSUME Order, NEW r \in Ssps, BootEnds(r)
    PROVE  Onward /\ InTurns'
<1> DEFINE now == IF \A s \in Ssps : out[s] = "no" THEN sent ELSE sent + 1
<1>1. /\ UNCHANGED <<sent, out, task>>
      /\ \A s \in Ssps \ {r} : node'[s] = node[s] /\ pool'[s] = pool[s] /\ buf'[s] = buf[s]
      /\ node'[r].circuit = now /\ pool'[r] = "ready" /\ buf'[r] = <<>>
  BY DEF BootEnds, Order, Typed, NodesTyped, PoolTyped, QueuesTyped
<1>2. Idle(r) /\ ~Up(r)  BY BootIdle DEF Up
<1>3. ASSUME NEW s \in Ssps, Up(s)', s # r PROVE InTurn(s)'
  <2>1. InTurn(s)  BY <1>1, <1>3 DEF Order, InTurns, Up
  <2>2. SameFor(s)  BY <1>1, <1>3 DEF SameFor
  <2> QED  BY <2>1, <2>2, SameInTurn
<1>4. InTurn(r)'
  <2>1. \A t \in Tasks : task'[t].ssp # r  BY <1>1, <1>2 DEF Idle
  <2>2. Idle(r)' /\ AtMostOne(r)'  BY <2>1 DEF Idle, AtMostOne
  <2>3. PICK d \in Nat : d = Due(r)  BY DEF Due, Order, Typed, CountersTyped
  <2>4. Due(r)' = d  BY <1>1, <2>3 DEF Due
  <2>5. now = d \/ now = d + 1
    <3>1. \A s \in Ssps : out[s] = "no" <=> out[r] = "no"  BY DEF Order, Slots, Ssps
    <3>2. sent \in Nat  BY DEF Order, Typed, CountersTyped
    <3> QED  BY <2>3, <3>1, <3>2 DEF Due
  <2>6. out[r] = "sent" => now = sent \/ now = sent + 1  OBVIOUS
  <2> HIDE DEF now
  <2>7. RunOf(<<>>, d, d)  BY RunEmpty
  <2>8. PendingAt(r, d, d)'  BY <1>1, <2>1, <2>4, <2>5, <2>7 DEF PendingAt
  <2> QED  BY <1>1, <2>1, <2>2, <2>6, <2>8, NowInTurn
<1>5. Onward  BY <1>1, <1>2 DEF Onward
<1> QED  BY <1>3, <1>4, <1>5 DEF InTurns

LEMMA MarkRetiringOrder ==
    ASSUME Order, MarkRetiring
    PROVE  Onward /\ InTurns'
<1>1. /\ UNCHANGED <<sent, out, task, buf, node>> /\ swap.at = "hold"
      /\ pool'["green"] = pool["green"]
      /\ pool'["blue"] = pool["blue"] \/ (pool["blue"] # "out" /\ pool'["blue"] = "retiring")
  BY DEF MarkRetiring, At, Order, Typed, PoolTyped, Ssps
<1>2. ASSUME NEW s \in Ssps, Up(s)' PROVE InTurn(s)'
  <2>1. InTurn(s)  BY <1>1, <1>2 DEF Order, InTurns, Up
  <2>2. CASE pool'[s] = pool[s]
    <3>1. SameFor(s)  BY <1>1, <2>2 DEF SameFor
    <3> QED  BY <2>1, <3>1, SameInTurn
  <2>3. CASE s = "blue" /\ pool'[s] = "retiring"
    <3>1. pool[s] # "retired"  BY <1>1, <2>3 DEF Order, Slots
    <3>2. PICK a \in Nat, m \in Nat : PendingAt(s, a, m)  BY <2>1 DEF InTurn
    <3>3. (Idle(s)' <=> Idle(s)) /\ AtMostOne(s)' /\ Due(s)' = Due(s)
      BY <1>1, <2>1 DEF Idle, AtMostOne, Due, InTurn
    <3>4. PendingAt(s, a, m)'  BY <1>1, <2>3, <3>1, <3>2, <3>3 DEF PendingAt
    <3> QED  BY <1>1, <2>1, <2>3, <3>1, <3>3, <3>4, NowInTurn DEF InTurn
  <2> QED  BY <1>1, <2>2, <2>3 DEF Ssps
<1>3. Onward  BY <1>1 DEF Onward
<1> QED  BY <1>2, <1>3 DEF InTurns

LEMMA CommitOrder ==
    ASSUME Order, Commit
    PROVE  Onward /\ InTurns'
<1>1. /\ UNCHANGED <<sent, out, task, node>>
      /\ pool'["green"] = pool["green"] /\ buf'["green"] = buf["green"]
      /\ pool'["blue"] = IF pool["blue"] = "out" THEN "out" ELSE "retired"
  BY DEF Commit, Order, Typed, PoolTyped, QueuesTyped, Ssps
<1>2. ASSUME NEW s \in Ssps, Up(s)' PROVE InTurn(s)'
  <2>1. InTurn(s)  BY <1>1, <1>2 DEF Order, InTurns, Up
  <2>2. CASE s = "green"
    <3>1. SameFor(s)  BY <1>1, <2>2 DEF SameFor
    <3> QED  BY <2>1, <3>1, SameInTurn
  <2>3. CASE s = "blue"
    <3>1. pool'[s] = "retired"  BY <1>1, <2>1, <2>3 DEF InTurn
    <3>2. PICK a \in Nat, m \in Nat : PendingAt(s, a, m)  BY <2>1 DEF InTurn
    <3>3. AtMostOne(s)'  BY <1>1, <2>1 DEF AtMostOne, InTurn
    <3>4. PendingAt(s, a, m)'  BY <1>1, <3>1, <3>2 DEF PendingAt
    <3> QED  BY <1>1, <2>1, <3>1, <3>3, <3>4, NowInTurn DEF InTurn
  <2> QED  BY <2>2, <2>3 DEF Ssps
<1>3. Onward  BY <1>1 DEF Onward
<1> QED  BY <1>2, <1>3 DEF InTurns

LEMMA UnretireTasks ==
    ASSUME Order, Unretire
    PROVE  /\ UNCHANGED <<sent, out, buf, node>> /\ SameTasks("green")
           /\ pool'["green"] = pool["green"]
           /\ IF pool["blue"] = "retiring" THEN pool'["blue"] = "lagging" /\ OneMore("blue")
              ELSE pool'["blue"] = pool["blue"] /\ SameTasks("blue")
<1>1. /\ UNCHANGED <<sent, out, buf, node>> /\ swap.at = "unretire"
      /\ IF pool["blue"] = "retiring"
         THEN pool' = [pool EXCEPT !["blue"] = "lagging"] /\ task' = Spawned(task, "blue")
         ELSE UNCHANGED <<pool, task>>
  BY DEF Unretire, At
<1>2. CASE pool["blue"] = "retiring"
  <2>1. AtMostOne("blue")  BY <1>1 DEF Order, Slots
  <2>2. \E t \in Tasks : task[t] = Off  BY <2>1, FreeSlot
  <2>3. OneMore("blue") /\ \A r \in Ssps \ {"blue"} : SameTasks(r)
    BY <1>1, <1>2, <2>2, SpawnedTasks DEF Order, Typed, Ssps
  <2> QED  BY <1>1, <1>2, <2>3 DEF Order, Typed, PoolTyped, Ssps
<1>3. CASE pool["blue"] # "retiring"
  BY <1>1, <1>3 DEF SameTasks, KeepsTask
<1> QED  BY <1>2, <1>3

LEMMA UnretireOrder ==
    ASSUME Order, Unretire
    PROVE  Onward /\ InTurns'
<1>1. /\ UNCHANGED <<sent, out, buf, node>> /\ SameTasks("green")
      /\ pool'["green"] = pool["green"]
      /\ IF pool["blue"] = "retiring" THEN pool'["blue"] = "lagging" /\ OneMore("blue")
         ELSE pool'["blue"] = pool["blue"] /\ SameTasks("blue")
  BY UnretireTasks
<1>2. swap.at = "unretire"  BY DEF Unretire, At
<1>3. ASSUME NEW s \in Ssps, Up(s)' PROVE InTurn(s)'
  <2>1. InTurn(s) /\ Up(s)  BY <1>1, <1>3 DEF Order, InTurns, Up
  <2>2. CASE s = "green" \/ pool["blue"] # "retiring"
    <3>1. pool'[s] = pool[s] /\ SameTasks(s)  BY <1>1, <2>2 DEF Ssps
    <3>2. SameFor(s)  BY <1>1, <3>1 DEF SameFor, SameTasks, KeepsTask
    <3> QED  BY <2>1, <3>2, SameInTurn
  <2>3. CASE s = "blue" /\ pool["blue"] = "retiring"
    <3>1. Idle(s)  BY <1>2, <2>1, <2>3 DEF Order, Lone, LoneDead, LoneFirst
    <3>2. /\ ~Idle(s)' /\ AtMostOne(s)'
          /\ \A t \in Tasks : task'[t].ssp = s => task'[t].batch = <<>>
      BY <1>1, <2>3, <3>1, OneMoreFacts
    <3>3. PICK a \in Nat, m \in Nat : PendingAt(s, a, m)  BY <2>1 DEF InTurn
    <3>4. m = a /\ RunOf(<<>>, a, m)  BY <2>3, <3>1, <3>3, RunEmpty DEF PendingAt
    <3>5. Due(s)' = Due(s)  BY <1>1 DEF Due
    <3>6. PendingAt(s, a, m)'  BY <1>1, <2>3, <3>2, <3>3, <3>4, <3>5 DEF PendingAt
    <3>7. pool'[s] = "lagging"  BY <1>1, <2>3
    <3>8. /\ out'[s] \in {"sent", "ok", "failed"} => buf'[s] = <<>>
          /\ out'[s] = "sent" => node'[s].circuit = sent' \/ node'[s].circuit = sent' + 1
      BY <1>1, <2>1, <2>3 DEF InTurn
    <3> QED  BY <3>2, <3>6, <3>7, <3>8, NowInTurn
  <2> QED  BY <2>2, <2>3 DEF Ssps
<1>4. Onward  BY <1>1 DEF Onward
<1> QED  BY <1>3, <1>4 DEF InTurns

(* No other action gives an SSP events. *)
LEMMA QuietOrder ==
    ASSUME Order,
           \/ Ingest \/ RegisterEnds \/ Arrive \/ Dies \/ Hold \/ FanOutIdle \/ Retire
           \/ RetireAnswered \/ RetireFails \/ Promote \/ Resume \/ UNCHANGED vars
           \/ \E s \in Ssps : Publish(s) \/ BootViews(s)
           \/ \E v \in Views : Register(v) \/ Release(v)
    PROVE  Onward /\ InTurns'
<1>1. UNCHANGED <<sent, out, pool, buf, task>>
  BY DEF Ingest, RegisterEnds, Arrive, Arrives, Dies, Hold, FanOutIdle, Retire, RetireAnswered,
         RetireFails, Promote, Resume, Publish, BootViews, Register, Release, scheduler, vars
<1>2. SameCircuits
  <2>1. CASE \/ Ingest \/ Hold \/ FanOutIdle \/ RetireAnswered \/ RetireFails
             \/ UNCHANGED vars \/ (\E s \in Ssps : Publish(s))
             \/ \E v \in Views : Register(v) \/ Release(v)
    <3>1. node' = node
      BY <2>1 DEF Ingest, Hold, FanOutIdle, RetireAnswered, RetireFails, Publish, Register,
                  Release, vars
    <3> QED  BY <3>1 DEF SameCircuits, Up
  <2>2. ASSUME NEW s \in Ssps, NEW R, node' = [node EXCEPT ![s].regs = R] PROVE SameCircuits
    BY <2>2 DEF Order, Typed, NodesTyped, SameCircuits, Up
  <2>3. ASSUME NEW R, node' = [node EXCEPT !["green"].regs = R, !["green"].standby = FALSE]
        PROVE  SameCircuits
    BY <2>3 DEF Order, Typed, NodesTyped, SameCircuits, Up, Ssps
  <2>4. ASSUME NEW x, node' = [node EXCEPT !["blue"].status = x], x \in {"ready", "retired"} => Up("blue")
        PROVE  SameCircuits
    <3>1. /\ \A s \in Ssps : node'[s].circuit = node[s].circuit
          /\ node'["blue"].status = x /\ node'["green"].status = node["green"].status
      BY <2>4 DEF Order, Typed, NodesTyped, Ssps
    <3> QED  BY <2>4, <3>1 DEF SameCircuits, Up, Ssps
  <2>5. CASE node' = node  BY <2>5 DEF SameCircuits, Up
  <2>6. CASE RegisterEnds
    <3>1. reg # NoReg => reg.ssp \in Ssps  BY DEF Order, Typed, ViewsTyped
    <3> QED  BY <2>2, <2>5, <2>6, <3>1 DEF RegisterEnds, Registered
  <2>7. ASSUME NEW m \in msgs, Arrives(m) PROVE SameCircuits
    BY <2>2, <2>5, <2>7 DEF Arrives, Registered, Unregistered
  <2>8. CASE Dies
    <3>1. \A s \in Ssps : node'[s].circuit = node[s].circuit /\ (s # "blue" => node'[s] = node[s])
      BY <2>8 DEF Dies, Order, Typed, NodesTyped
    <3>2. ~Up("blue")'  BY <2>8 DEF Dies, Order, Typed, NodesTyped, Up, Ssps
    <3> QED  BY <3>1, <3>2 DEF SameCircuits, Up
  <2>9. CASE Retire  BY <2>4, <2>5, <2>9 DEF Retire, Up
  <2>10. CASE Promote  BY <2>3, <2>5, <2>10 DEF Promote, Promoted
  <2>11. CASE Resume  BY <2>4, <2>5, <2>11 DEF Resume, Up
  <2>12. ASSUME NEW s \in Ssps, BootViews(s) PROVE SameCircuits
    BY <2>12 DEF BootViews, Order, Typed, NodesTyped, SameCircuits, Up
  <2> QED  BY <2>1, <2>6, <2>7, <2>8, <2>9, <2>10, <2>11, <2>12 DEF Arrive
<1> QED  BY <1>1, <1>2, QuietInTurn

LEMMA InTurnsStep ==
    ASSUME Order, [Next]_vars
    PROVE  Onward /\ InTurns'
<1>1. CASE FanOut  BY <1>1, FanOutOrder
<1>2. CASE FanOutDone  BY <1>2, FanOutDoneOrder
<1>3. ASSUME NEW s \in Ssps, Deliver(s) PROVE Onward /\ InTurns'  BY <1>3, DeliverOrder
<1>4. ASSUME NEW s \in Ssps, RegisterSsp(s) PROVE Onward /\ InTurns'  BY <1>4, SspComesOrder
<1>5. ASSUME NEW s \in Ssps, BootEnds(s) PROVE Onward /\ InTurns'  BY <1>5, BootEndsOrder
<1>6. ASSUME NEW t \in Tasks, Redeliver(t) PROVE Onward /\ InTurns'  BY <1>6, RedeliverOrder
<1>7. ASSUME NEW t \in Tasks, RedeliverOne(t) PROVE Onward /\ InTurns'  BY <1>7, RedeliverOneOrder
<1>8. CASE Evict  BY <1>8, SspComesOrder DEF Ssps
<1>9. CASE MarkRetiring  BY <1>9, MarkRetiringOrder
<1>10. CASE Commit  BY <1>10, CommitOrder
<1>11. CASE Unretire  BY <1>11, UnretireOrder
<1>12. CASE \/ Ingest \/ RegisterEnds \/ Arrive \/ Dies \/ Hold \/ FanOutIdle \/ Retire
            \/ RetireAnswered \/ RetireFails \/ Promote \/ Resume \/ UNCHANGED vars
            \/ \E s \in Ssps : Publish(s) \/ BootViews(s)
            \/ \E v \in Views : Register(v) \/ Release(v)
  BY <1>12, QuietOrder
<1> QED  BY <1>1, <1>2, <1>3, <1>4, <1>5, <1>6, <1>7, <1>8, <1>9, <1>10, <1>11, <1>12, Zenon
         DEF Next

StillSlots ==
    /\ pool' = pool /\ swap'.at = swap.at /\ \A t \in Tasks : task'[t].ssp = task[t].ssp
    /\ out'["blue"] = "no" <=> out'["green"] = "no"
    /\ \/ node'["green"].status = node["green"].status
       \/ {node["green"].status, node'["green"].status} \cap {"ready", "retired"} = {}

LEMMA StillSlotsStep ==
    ASSUME Slots, StillSlots PROVE Slots'
<1>1. \A s \in Ssps : (Idle(s)' <=> Idle(s)) /\ (AtMostOne(s)' <=> AtMostOne(s))
  BY DEF StillSlots, Idle, AtMostOne
<1> QED  BY <1>1 DEF Slots, StillSlots, Ssps

(* The steps outside the hand-over change an SSP's status only when it boots or blue dies. *)
LEMMA AsideStep ==
    ASSUME Order,
           \/ Ingest \/ FanOut \/ RegisterEnds \/ Arrive \/ Dies \/ UNCHANGED vars
           \/ \E s \in Ssps : Deliver(s) \/ Publish(s) \/ BootViews(s)
           \/ \E v \in Views : Register(v) \/ Release(v)
           \/ \E t \in Tasks : RedeliverOne(t)
    PROVE  /\ pool' = pool /\ swap' = swap
           /\ \A s \in Ssps :
                \/ node'[s].status = node[s].status
                \/ /\ node'[s].status \notin {"ready", "retired"}
                   /\ node[s].status \notin {"ready", "retired"} \/ (s = "blue" /\ Dies)
<1>1. pool' = pool /\ swap' = swap
  BY DEF Ingest, FanOut, RegisterEnds, Arrive, Arrives, Dies, Deliver, Publish, BootViews,
         Register, Release, RedeliverOne, scheduler, vars
<1> DEFINE Keeps == \A s \in Ssps : node'[s].status = node[s].status
<1>2. ASSUME NEW s \in Ssps, BootViews(s)
      PROVE  /\ node[s].status = "boot" /\ node'[s].status = "loaded"
             /\ \A r \in Ssps \ {s} : node'[r] = node[r]
  BY <1>2 DEF BootViews, Order, Typed, NodesTyped
<1>3. ASSUME NEW s \in Ssps, NEW R, node' = [node EXCEPT ![s].regs = R] PROVE Keeps
  BY <1>3 DEF Order, Typed, NodesTyped
<1>4. ASSUME NEW s \in Ssps, NEW e, Taken(s, e) PROVE Keeps
  BY <1>4 DEF Taken, Order, Typed, NodesTyped
<1>5. CASE RegisterEnds
  <2>1. reg # NoReg => reg.ssp \in Ssps  BY DEF Order, Typed, ViewsTyped
  <2>2. Keeps  BY <1>3, <1>5, <2>1 DEF RegisterEnds, Registered
  <2> QED  BY <1>1, <2>2
<1>6. ASSUME NEW m \in msgs, Arrives(m) PROVE Keeps
  BY <1>3, <1>6 DEF Arrives, Registered, Unregistered
<1>7. CASE Dies
  <2>1. node'["blue"].status = "gone" /\ node'["green"] = node["green"]
    BY <1>7 DEF Dies, Order, Typed, NodesTyped, Ssps
  <2> QED  BY <1>1, <1>7, <2>1 DEF Ssps
<1>8. ASSUME NEW s \in Ssps, Deliver(s) PROVE Keeps
  BY <1>4, <1>8 DEF Deliver
<1>9. ASSUME NEW t \in Tasks, RedeliverOne(t) PROVE Keeps
  <2>1. task[t].ssp \in Ssps  BY <1>9 DEF RedeliverOne, Order, Typed, QueuesTyped
  <2> QED  BY <1>4, <1>9, <2>1 DEF RedeliverOne
<1>10. CASE \/ Ingest \/ FanOut \/ UNCHANGED vars \/ (\E s \in Ssps : Publish(s))
            \/ \E v \in Views : Register(v) \/ Release(v)
  <2>1. node' = node  BY <1>10 DEF Ingest, FanOut, Publish, Register, Release, vars
  <2> QED  BY <1>1, <2>1
<1> QED  BY <1>1, <1>2, <1>5, <1>6, <1>7, <1>8, <1>9, <1>10 DEF Arrive

LEMMA StillSlotsActions ==
    ASSUME Order,
           \/ Ingest \/ FanOut \/ RegisterEnds \/ Arrive \/ Dies \/ UNCHANGED vars
           \/ \E s \in Ssps : Deliver(s) \/ Publish(s) \/ BootViews(s)
           \/ \E v \in Views : Register(v) \/ Release(v)
           \/ \E t \in Tasks : RedeliverOne(t)
    PROVE  Slots'
<1>0. Slots /\ (out["blue"] = "no" <=> out["green"] = "no")  BY DEF Order, Slots
<1>1. pool' = pool /\ swap' = swap  BY AsideStep
<1>2. \A t \in Tasks : task'[t].ssp = task[t].ssp
  <2>1. CASE \E t \in Tasks : RedeliverOne(t)
    BY <2>1, RedeliverOneTasks
  <2>2. CASE \/ Ingest \/ FanOut \/ RegisterEnds \/ Arrive \/ Dies \/ UNCHANGED vars
             \/ \E s \in Ssps : Deliver(s) \/ Publish(s) \/ BootViews(s)
             \/ \E v \in Views : Register(v) \/ Release(v)
    BY <2>2 DEF Ingest, FanOut, RegisterEnds, Arrive, Arrives, Dies, Deliver, Publish, BootViews,
                Register, Release, scheduler, vars
  <2> QED  BY <2>1, <2>2
<1>3. out'["blue"] = "no" <=> out'["green"] = "no"
  <2>1. CASE FanOut  BY <2>1 DEF FanOut, Ssps
  <2>2. ASSUME NEW s \in Ssps, Deliver(s) PROVE \A r \in Ssps : out'[r] = "no" <=> out[r] = "no"
    BY <2>2 DEF Deliver, Order, Typed, CountersTyped
  <2>3. CASE \/ Ingest \/ RegisterEnds \/ Arrive \/ Dies \/ UNCHANGED vars
             \/ \E s \in Ssps : Publish(s) \/ BootViews(s)
             \/ \E v \in Views : Register(v) \/ Release(v)
             \/ \E t \in Tasks : RedeliverOne(t)
    <3>1. out' = out
      BY <2>3 DEF Ingest, RegisterEnds, Arrive, Arrives, Dies, Publish, BootViews, Register,
                  Release, RedeliverOne, vars
    <3> QED  BY <1>0, <3>1
  <2> QED  BY <1>0, <2>1, <2>2, <2>3 DEF Ssps
<1>4. \/ node'["green"].status = node["green"].status
      \/ {node["green"].status, node'["green"].status} \cap {"ready", "retired"} = {}
  BY AsideStep DEF Ssps
<1>5. StillSlots  BY <1>1, <1>2, <1>3, <1>4 DEF StillSlots
<1> QED  BY <1>0, <1>5, StillSlotsStep

(* A swap that has begun and is not over moves on. *)
LEMMA SwapSlots ==
    ASSUME Order, Hold \/ FanOutIdle \/ Retire \/ RetireAnswered \/ RetireFails \/ Promote
                  \/ Resume \/ MarkRetiring \/ Commit
    PROVE  Slots'
<1>0. Slots  BY DEF Order
<1>1. /\ swap.at \notin {"none", "done", "failed"} /\ UNCHANGED <<out, task>>
      /\ pool'["green"] = pool["green"]
  BY DEF Hold, FanOutIdle, Retire, RetireAnswered, RetireFails, Promote, Resume, MarkRetiring,
         Commit, At, scheduler, Order, Typed, PoolTyped, Ssps
<1>2. node["green"].status = "ready" /\ pool["blue"] # "retired"  BY <1>0, <1>1 DEF Slots
<1>3. node'["green"].status = node["green"].status
  <2> USE DEF Order, Typed, NodesTyped, Ssps
  <2>1. CASE Retire  BY <2>1 DEF Retire
  <2>2. CASE Promote  BY <2>2 DEF Promote, Promoted
  <2>3. CASE Resume  BY <2>3 DEF Resume
  <2> QED
    BY <2>1, <2>2, <2>3 DEF Hold, FanOutIdle, RetireAnswered, RetireFails, MarkRetiring, Commit
<1>4. \/ pool'["blue"] = pool["blue"]
      \/ pool'["blue"] = "retiring"
      \/ pool'["blue"] = "retired" /\ swap'.at = "done"
  <2>1. CASE MarkRetiring  BY <2>1 DEF MarkRetiring, Order, Typed, PoolTyped, Ssps
  <2>2. CASE Commit
    BY <2>2 DEF Commit, To, Order, Typed, PoolTyped, SwapTyped, Ssps
  <2> QED
    BY <2>1, <2>2 DEF Hold, FanOutIdle, Retire, RetireAnswered, RetireFails, Promote, Resume,
                      scheduler
<1>5. \A s \in Ssps : (Idle(s)' <=> Idle(s)) /\ (AtMostOne(s)' <=> AtMostOne(s))
  BY <1>1 DEF Idle, AtMostOne
<1> QED  BY <1>0, <1>1, <1>2, <1>3, <1>4, <1>5 DEF Slots, Ssps

LEMMA FanOutDoneSlots ==
    ASSUME Order, FanOutDone
    PROVE  Slots'
<1>0. Slots  BY DEF Order
<1>1. /\ UNCHANGED <<node, swap>> /\ \A s \in Ssps : out'[s] = "no"
      /\ \A s \in Ssps : pool'[s] = IF Lags(s) THEN "lagging" ELSE pool[s]
  BY DEF FanOutDone
<1>2. CASE Lags("blue")
  <2>1. pool["blue"] = "ready" /\ AtMostOne("blue")  BY <1>0, <1>2 DEF Lags, Slots
  <2>2. OneMore("blue")  BY <1>2, FanOutDoneTasks DEF Ssps
  <2>3. PICK t \in Tasks : /\ task[t] = Off /\ task'[t] = [ssp |-> "blue", batch |-> <<>>]
                           /\ \A u \in Tasks \ {t} : KeepsTask("blue", u)
    BY <2>2 DEF OneMore
  <2>4. \E u \in Tasks : task'[u].ssp # "blue"
    <3>1. 1 \in Tasks /\ 2 \in Tasks /\ 3 \in Tasks  BY DEF Tasks
    <3>2. \A u \in Tasks \ {t} : task'[u].ssp = "blue" <=> task[u].ssp = "blue"
      BY <2>3 DEF KeepsTask
    <3> QED  BY <2>1, <3>1, <3>2 DEF AtMostOne
  <2>5. swap.at # "failed" => Idle("blue")  BY <1>0, <2>1 DEF Slots
  <2>6. swap.at # "failed" => AtMostOne("blue")'  BY <2>2, <2>5, OneMoreFacts DEF Ssps
  <2>7. pool'["blue"] = "lagging"  BY <1>1, <1>2 DEF Ssps
  <2>8. node["green"].status # "ready" => SameTasks("green") /\ pool'["green"] = pool["green"]
    BY <1>0, <1>1, FanOutDoneTasks DEF Lags, Slots, Ssps
  <2>9. node["green"].status # "ready" => Idle("green")'  BY <1>0, <2>8, SameTasksFacts DEF Slots, Ssps
  <2> QED  BY <1>0, <1>1, <2>4, <2>6, <2>7, <2>8, <2>9 DEF Slots, Ssps
<1>3. CASE ~Lags("blue")
  <2>1. SameTasks("blue") /\ pool'["blue"] = pool["blue"]  BY <1>1, <1>3, FanOutDoneTasks DEF Ssps
  <2>2. (Idle("blue")' <=> Idle("blue")) /\ (AtMostOne("blue") => AtMostOne("blue")')
    BY <2>1, SameTasksFacts DEF Ssps
  <2>3. \E u \in Tasks : task'[u].ssp # "blue"  BY <1>0, <2>1 DEF Slots, SameTasks, KeepsTask
  <2>4. node["green"].status # "ready" => SameTasks("green") /\ pool'["green"] = pool["green"]
    BY <1>0, <1>1, FanOutDoneTasks DEF Lags, Slots, Ssps
  <2>5. node["green"].status # "ready" => Idle("green")'  BY <1>0, <2>4, SameTasksFacts DEF Slots, Ssps
  <2> QED  BY <1>0, <1>1, <2>1, <2>2, <2>3, <2>4, <2>5 DEF Slots, Ssps
<1> QED  BY <1>2, <1>3

LEMMA RedeliverSlots ==
    ASSUME Order, NEW t \in Tasks, Redeliver(t)
    PROVE  Slots'
<1>0. Slots  BY DEF Order
<1>1. PICK r \in Ssps : r = task[t].ssp
  BY NobodysOff DEF Redeliver, Order, Typed, QueuesTyped
<1>2. UNCHANGED <<out, node, swap>>  BY DEF Redeliver
<1>3. /\ \A u \in Tasks \ {t} : task'[u] = task[u]
      /\ task'[t].ssp \in {r, "none"}
      /\ \A s \in Ssps : \/ pool'[s] = pool[s]
                         \/ s = r /\ pool[s] = "lagging" /\ pool'[s] = "ready" /\ task'[t] = Off
  BY <1>1 DEF Redeliver, Order, Typed, PoolTyped, QueuesTyped, Off
<1>4. \A u \in Tasks : task'[u].ssp \in {task[u].ssp, "none"}  BY <1>1, <1>3
<1>5. \A s \in Ssps : (Idle(s) => Idle(s)') /\ (AtMostOne(s) => AtMostOne(s)')
  BY <1>4 DEF Idle, AtMostOne, Ssps
<1>6. \E u \in Tasks : task'[u].ssp # "blue"  BY <1>0, <1>4 DEF Slots
<1>7. ASSUME r = "blue", task'[t] = Off
      PROVE  AtMostOne("blue")' /\ (AtMostOne("blue") => Idle("blue")')
  <2>1. PICK w \in Tasks : task[w].ssp # "blue"  BY <1>0 DEF Slots
  <2>2. w # t /\ task'[w].ssp # "blue" /\ task'[t].ssp # "blue"
    <3>1. Off.ssp = "none"  BY DEF Off
    <3>2. task'[t].ssp = "none"  BY <1>7, <3>1
    <3>3. w # t  BY <1>1, <1>7, <2>1
    <3>4. task'[w] = task[w]  BY <1>3, <3>3
    <3> QED  BY <2>1, <3>2, <3>3, <3>4
  <2>3. AtMostOne("blue")'  BY <2>2 DEF AtMostOne, Tasks
  <2>4. AtMostOne("blue") => Idle("blue")'  BY <1>1, <1>3, <1>7, <2>2 DEF AtMostOne, Idle
  <2> QED  BY <2>3, <2>4
<1>8. node["green"].status # "ready" => pool'["green"] = pool["green"] /\ Idle("green")'
  BY <1>0, <1>3, <1>5 DEF Slots, Ssps
<1>9. pool'["green"] \notin {"retiring", "retired"} /\ (pool'["blue"] = "retired" => pool["blue"] = "retired")
  BY <1>0, <1>3 DEF Slots, Ssps
<1>10. pool'["blue"] = "ready" => AtMostOne("blue")'
  BY <1>0, <1>3, <1>5, <1>7 DEF Slots, Ssps
<1>11. swap.at # "failed" => AtMostOne("blue")' /\ (pool'["blue"] = "ready" => Idle("blue")')
  BY <1>0, <1>3, <1>5, <1>7 DEF Slots, Ssps
<1> QED  BY <1>0, <1>2, <1>6, <1>8, <1>9, <1>10, <1>11 DEF Slots

LEMMA SspComesSlots ==
    ASSUME Order, NEW r \in Ssps, RegisterSsp(r) \/ (r = "blue" /\ Evict)
    PROVE  Slots'
<1>0. Slots  BY DEF Order
<1>1. /\ UNCHANGED <<out, task, swap>>
      /\ pool'[r] \in {"coming", "out"}
      /\ \A s \in Ssps \ {r} : node'[s] = node[s] /\ pool'[s] = pool[s]
      /\ r = "green" => node[r].status = "gone" /\ node'[r].status = "boot"
  BY DEF RegisterSsp, Evict, Order, Typed, NodesTyped, PoolTyped, Ssps
<1>2. \A s \in Ssps : (Idle(s)' <=> Idle(s)) /\ (AtMostOne(s)' <=> AtMostOne(s))
  BY <1>1 DEF Idle, AtMostOne
<1> QED  BY <1>0, <1>1, <1>2 DEF Slots, Ssps

LEMMA BootEndsSlots ==
    ASSUME Order, NEW r \in Ssps, BootEnds(r)
    PROVE  Slots'
<1>0. Slots  BY DEF Order
<1>1. /\ UNCHANGED <<out, task>>
      /\ pool'[r] = "ready" /\ node'[r].status = "ready"
      /\ \A s \in Ssps \ {r} : node'[s] = node[s] /\ pool'[s] = pool[s]
      /\ swap'.at = swap.at \/ (r = "green" /\ swap'.at = "wait")
  BY DEF BootEnds, Order, Typed, NodesTyped, PoolTyped, SwapTyped, Ssps
<1>2. Idle(r) /\ node[r].status = "loaded"  BY BootIdle
<1>3. \A s \in Ssps : (Idle(s)' <=> Idle(s)) /\ (AtMostOne(s)' <=> AtMostOne(s))
  BY <1>1 DEF Idle, AtMostOne
<1>4. Idle(r) => AtMostOne(r)  BY DEF Idle, AtMostOne
<1> QED  BY <1>0, <1>1, <1>2, <1>3, <1>4 DEF Slots, Ssps

LEMMA UnretireSlots ==
    ASSUME Order, Unretire
    PROVE  Slots'
<1>0. Slots  BY DEF Order
<1>1. /\ UNCHANGED <<sent, out, buf, node>> /\ SameTasks("green")
      /\ pool'["green"] = pool["green"]
      /\ IF pool["blue"] = "retiring" THEN pool'["blue"] = "lagging" /\ OneMore("blue")
         ELSE pool'["blue"] = pool["blue"] /\ SameTasks("blue")
  BY UnretireTasks
<1>2. swap.at = "unretire" /\ swap'.at = "failed"
  BY DEF Unretire, At, To, Order, Typed, SwapTyped
<1>3. node["green"].status = "ready" /\ AtMostOne("blue") /\ pool["blue"] # "retired"
  BY <1>0, <1>2 DEF Slots
<1>4. CASE pool["blue"] = "retiring"
  <2>1. PICK t \in Tasks : /\ task[t] = Off /\ task'[t] = [ssp |-> "blue", batch |-> <<>>]
                           /\ \A u \in Tasks \ {t} : KeepsTask("blue", u)
    BY <1>1, <1>4 DEF OneMore
  <2>2. \E u \in Tasks : task'[u].ssp # "blue"
    <3>1. 1 \in Tasks /\ 2 \in Tasks /\ 3 \in Tasks  BY DEF Tasks
    <3>2. \A u \in Tasks \ {t} : task'[u].ssp = "blue" <=> task[u].ssp = "blue"
      BY <2>1 DEF KeepsTask
    <3> QED  BY <1>3, <3>1, <3>2 DEF AtMostOne
  <2> QED  BY <1>0, <1>1, <1>2, <1>3, <1>4, <2>2 DEF Slots
<1>5. CASE pool["blue"] # "retiring"
  <2>1. AtMostOne("blue")'  BY <1>1, <1>3, <1>5, SameTasksFacts DEF Ssps
  <2>2. \E u \in Tasks : task'[u].ssp # "blue"  BY <1>0, <1>1, <1>5 DEF Slots, SameTasks, KeepsTask
  <2> QED  BY <1>0, <1>1, <1>2, <1>3, <1>5, <2>1, <2>2 DEF Slots
<1> QED  BY <1>4, <1>5

LEMMA SlotsStep ==
    ASSUME Order, [Next]_vars
    PROVE  Slots'
<1>1. CASE FanOutDone  BY <1>1, FanOutDoneSlots
<1>2. ASSUME NEW s \in Ssps, RegisterSsp(s) PROVE Slots'  BY <1>2, SspComesSlots
<1>3. ASSUME NEW s \in Ssps, BootEnds(s) PROVE Slots'  BY <1>3, BootEndsSlots
<1>4. ASSUME NEW t \in Tasks, Redeliver(t) PROVE Slots'  BY <1>4, RedeliverSlots
<1>5. CASE Evict  BY <1>5, SspComesSlots DEF Ssps
<1>6. CASE Hold \/ FanOutIdle \/ Retire \/ RetireAnswered \/ RetireFails \/ Promote
           \/ Resume \/ MarkRetiring \/ Commit
  BY <1>6, SwapSlots
<1>7. CASE Unretire  BY <1>7, UnretireSlots
<1>8. CASE \/ Ingest \/ FanOut \/ RegisterEnds \/ Arrive \/ Dies \/ UNCHANGED vars
           \/ \E s \in Ssps : Deliver(s) \/ Publish(s) \/ BootViews(s)
           \/ \E v \in Views : Register(v) \/ Release(v)
           \/ \E t \in Tasks : RedeliverOne(t)
  BY <1>8, StillSlotsActions
<1> QED  BY <1>1, <1>2, <1>3, <1>4, <1>5, <1>6, <1>7, <1>8, Zenon DEF Next

(* Blue's role in a swap, as far as a step that is not part of one leaves it. *)
LEMMA LoneDeadStep ==
    ASSUME Order, Abandonless, LoneDead, [Next]_vars
    PROVE  LoneDead'
<1> USE DEF Abandonless
<1>0. ~Fault("retire") /\ ~Fault("refuse") /\ ~Fault("promote")  BY DEF Fault
<1>1. CASE FanOutDone \/ \E t \in Tasks : Redeliver(t)
  <2>1. node' = node /\ swap' = swap  BY <1>1 DEF FanOutDone, Redeliver
  <2>2. pool'["blue"] = "retiring" => pool["blue"] = "retiring"
    BY <1>1 DEF FanOutDone, Redeliver, Order, Typed, PoolTyped, Ssps
  <2> QED  BY <2>1, <2>2 DEF LoneDead, Up
<1>2. ASSUME NEW s \in Ssps, RegisterSsp(s) PROVE LoneDead'
  <2>1. swap' = swap  BY <1>2 DEF RegisterSsp
  <2>2. IF s = "blue" THEN node'["blue"].status = "boot"
        ELSE node'["blue"] = node["blue"] /\ pool'["blue"] = pool["blue"]
    BY <1>2 DEF RegisterSsp, Order, Typed, NodesTyped, PoolTyped, Ssps
  <2> QED  BY <2>1, <2>2 DEF LoneDead, Up
<1>3. ASSUME NEW s \in Ssps, BootEnds(s) PROVE LoneDead'
  <2>1. IF s = "blue" THEN swap' = swap /\ node'["blue"].status = "ready" /\ pool'["blue"] = "ready"
        ELSE node'["blue"] = node["blue"] /\ pool'["blue"] = pool["blue"]
    BY <1>3 DEF BootEnds, Order, Typed, NodesTyped, PoolTyped, Ssps
  <2>2. s = "green" => swap.at = "none" /\ swap'.at \in {"none", "wait"}
    BY <1>3, BootIdle DEF BootEnds, Order, Slots, Typed, SwapTyped
  <2> QED  BY <2>1, <2>2 DEF LoneDead, Up, Ssps
<1>4. CASE Evict
  <2>1. node' = node /\ swap' = swap /\ pool'["blue"] = "out"
    BY <1>4 DEF Evict, Order, Typed, PoolTyped, Ssps
  <2> QED  BY <2>1 DEF LoneDead, Up
<1>5. CASE Hold \/ FanOutIdle \/ RetireAnswered \/ MarkRetiring \/ Commit \/ Unretire
  <2>1. node' = node  BY <1>5 DEF Hold, FanOutIdle, RetireAnswered, MarkRetiring, Commit, Unretire
  <2>2. \/ swap.at \in {"wait", "hold", "idle"} /\ swap'.at \notin {"abandon", "unretire"}
        \/ swap.at = "drain" /\ swap'.at = "promote"
        \/ swap.at = "commit" /\ swap'.at = "done"
        \/ swap.at = "unretire" /\ swap'.at = "failed"
    <3>1. swap \in [at : Phases, pred : BOOLEAN, upto : Nat, trusted : BOOLEAN,
                    digests : [Views -> 0 .. NoEdges]]
      BY DEF Order, Typed, SwapTyped
    <3>2. CASE Hold  BY <3>1, <3>2 DEF Hold, At
    <3>3. CASE FanOutIdle  BY <3>1, <3>3 DEF FanOutIdle, At, To
    <3>4. CASE RetireAnswered  BY <3>1, <3>4 DEF RetireAnswered, At, To
    <3>5. CASE MarkRetiring  BY <3>1, <3>5 DEF MarkRetiring, At, To
    <3>6. CASE Commit  BY <3>1, <3>6 DEF Commit, At, To
    <3>7. CASE Unretire  BY <3>1, <3>7 DEF Unretire, At, To
    <3> QED  BY <1>5, <3>2, <3>3, <3>4, <3>5, <3>6, <3>7
  <2> QED  BY <2>1, <2>2 DEF LoneDead
<1>6. CASE Retire
  <2>1. swap.at = "retire" /\ pool' = pool  BY <1>6 DEF Retire, At, scheduler
  <2>2. node["blue"].status # "retired"  BY <2>1 DEF LoneDead
  <2>3. \/ node'["blue"].status = "retired" /\ swap'.at = "drain"
        \/ node["blue"].status # "ready" /\ node' = node /\ swap'.at = "abandon"
    BY <1>6 DEF Retire, To, Order, Typed, NodesTyped, SwapTyped, Ssps
  <2> QED  BY <2>2, <2>3 DEF LoneDead, Up
<1>7. CASE Promote
  <2>1. swap.at = "promote" /\ swap'.at = "commit" /\ node'["blue"] = node["blue"]
    BY <1>0, <1>7 DEF Promote, Promoted, At, To, Order, Typed, SwapTyped, NodesTyped, Ssps
  <2> QED  BY <2>1 DEF LoneDead
<1>8. CASE Resume
  <2>1. swap.at = "abandon" /\ swap'.at = "unretire" /\ pool' = pool
    BY <1>8 DEF Resume, At, To, scheduler, Order, Typed, SwapTyped
  <2>2. node["blue"].status # "retired"  BY <2>1 DEF LoneDead
  <2>3. node'["blue"].status = node["blue"].status
    BY <1>8, <2>2 DEF Resume, Order, Typed, NodesTyped, Ssps
  <2> QED  BY <2>1, <2>2, <2>3 DEF LoneDead, Up
<1>9. CASE RetireFails  BY <1>0, <1>9 DEF RetireFails
<1>10. CASE \/ Ingest \/ FanOut \/ RegisterEnds \/ Arrive \/ Dies \/ UNCHANGED vars
            \/ \E s \in Ssps : Deliver(s) \/ Publish(s) \/ BootViews(s)
            \/ \E v \in Views : Register(v) \/ Release(v)
            \/ \E t \in Tasks : RedeliverOne(t)
  <2>1. pool' = pool /\ swap' = swap  BY <1>10, AsideStep
  <2>2. node'["blue"].status = node["blue"].status \/ node'["blue"].status \notin {"ready", "retired"}
    BY <1>10, AsideStep DEF Ssps
  <2> QED  BY <2>1, <2>2 DEF LoneDead, Up
<1> QED  BY <1>1, <1>2, <1>3, <1>4, <1>5, <1>6, <1>7, <1>8, <1>9, <1>10, Zenon DEF Next

LEMMA LoneFirstStep ==
    ASSUME Order, Lagless, LoneFirst, [Next]_vars
    PROVE  LoneFirst'
<1>0. ~Fault("drop") /\ ~Fault("died") /\ ~Fault("restart")  BY DEF Lagless, Fault
<1>1. ~Dies  BY <1>0 DEF Dies
<1>2. InTurn("blue") /\ Up("blue") /\ AtMostOne("blue")
  BY DEF LoneFirst, Order, InTurns, InTurn, Ssps
<1>3. swap \in [at : Phases, pred : BOOLEAN, upto : Nat, trusted : BOOLEAN,
                digests : [Views -> 0 .. NoEdges]]
  BY DEF Order, Typed, SwapTyped
<1>4. /\ pool \in [Ssps -> PoolStates] /\ "blue" \in Ssps /\ "green" \in Ssps
      /\ node \in [Ssps -> [status : Statuses, standby : BOOLEAN, circuit : 0 .. MaxEvents,
                            regs : SUBSET Views]]
  BY DEF Order, Typed, PoolTyped, NodesTyped, Ssps
<1>5. CASE FanOutDone
  <2>1. /\ node' = node /\ swap' = swap /\ out'["blue"] = "no"
        /\ pool'["blue"] = IF Lags("blue") THEN "lagging" ELSE pool["blue"]
    BY <1>4, <1>5 DEF FanOutDone
  <2>2. swap.at # "failed" => ~Lags("blue")  BY DEF LoneFirst, Lags
  <2>3. swap.at # "failed" => SameTasks("blue")  BY <1>4, <1>5, <2>2, FanOutDoneTasks
  <2>4. swap.at # "failed" => Idle("blue")'  BY <1>4, <2>3, SameTasksFacts DEF LoneFirst
  <2>5. swap.at # "failed" => pool'["blue"] = pool["blue"]  BY <2>1, <2>2
  <2> QED  BY <2>1, <2>4, <2>5 DEF LoneFirst, Up
<1>6. ASSUME NEW t \in Tasks, Redeliver(t) PROVE LoneFirst'
  <2>1. UNCHANGED <<node, swap, out, sent>>  BY <1>6 DEF Redeliver
  <2>2. task[t].ssp \in Ssps
    BY <1>6, NobodysOff DEF Redeliver, Order, Typed, QueuesTyped
  <2>3. swap.at # "failed" => task[t].ssp = "green"  BY <2>2 DEF LoneFirst, Idle, Ssps
  <2>4. swap.at # "failed" => pool'["blue"] = pool["blue"]
    BY <1>4, <1>6, <2>3 DEF Redeliver
  <2>5. \A u \in Tasks : task'[u].ssp \in {task[u].ssp, "none"}
    BY <1>6 DEF Redeliver, Order, Typed, QueuesTyped, Off
  <2>6. swap.at # "failed" => Idle("blue")'  BY <2>5 DEF LoneFirst, Idle
  <2> QED  BY <2>1, <2>4, <2>6 DEF LoneFirst, Up
<1>7. ASSUME NEW s \in Ssps, RegisterSsp(s) \/ BootEnds(s) PROVE LoneFirst'
  <2>1. s = "green" /\ node[s].status \in {"gone", "loaded"}
    BY <1>2, <1>7 DEF RegisterSsp, BootEnds, Up, Ssps
  <2>2. swap.at = "none"  BY <2>1 DEF Order, Slots
  <2>3. /\ UNCHANGED <<sent, out, task>> /\ node'["blue"] = node["blue"]
        /\ pool'["blue"] = pool["blue"] /\ swap'.at \in {"none", "wait"}
    BY <1>3, <1>4, <1>7, <2>1, <2>2 DEF RegisterSsp, BootEnds
  <2>4. Idle("blue")'  BY <2>2, <2>3 DEF LoneFirst, Idle
  <2> QED  BY <2>2, <2>3, <2>4 DEF LoneFirst, Up
<1>8. CASE Evict  BY <1>2, <1>8 DEF Evict, Up
<1>9. CASE Hold
  <2>1. /\ UNCHANGED <<sent, out, task, pool, node>> /\ swap.at = "wait"
        /\ swap'.at \in {"hold", "failed"} /\ swap'.pred = Serving("blue")
    BY <1>3, <1>9 DEF Hold, At, scheduler
  <2>2. Serving("blue") /\ pool["blue"] = "ready" /\ Idle("blue")'
    BY <2>1 DEF LoneFirst, Serving, Idle
  <2> QED  BY <2>1, <2>2 DEF LoneFirst, Up
<1>10. CASE MarkRetiring
  <2>1. swap.at = "hold" /\ swap.pred /\ pool["blue"] = "ready"  BY <1>10 DEF MarkRetiring, At, LoneFirst
  <2>2. /\ UNCHANGED <<sent, out, task, node>> /\ pool'["blue"] = "retiring"
        /\ swap'.at = "idle" /\ swap'.upto = events
    BY <1>3, <1>4, <1>10, <2>1 DEF MarkRetiring
  <2>3. out["blue"] = "sent" => sent < events  BY <1>4 DEF Order, Typed, CountersTyped
  <2>4. Idle("blue")'  BY <2>1, <2>2 DEF LoneFirst, Idle
  <2> QED  BY <2>1, <2>2, <2>3, <2>4 DEF LoneFirst, Up
<1>11. CASE FanOutIdle
  <2>1. /\ UNCHANGED <<sent, out, task, node, pool>> /\ swap.at = "idle" /\ swap'.at = "retire"
        /\ sent >= swap.upto
    BY <1>3, <1>11 DEF FanOutIdle, At, To, scheduler
  <2>2. out["blue"] # "sent"
    BY <1>3, <2>1 DEF LoneFirst, Order, Typed, CountersTyped
  <2>3. Idle("blue")'  BY <2>1 DEF LoneFirst, Idle
  <2> QED  BY <2>1, <2>2, <2>3 DEF LoneFirst, Up
<1>12. CASE Retire
  <2>1. UNCHANGED <<sent, out, task, pool>> /\ swap.at = "retire"
    BY <1>12 DEF Retire, At, scheduler
  <2>2. node["blue"].status = "ready" /\ out["blue"] # "sent"
    BY <2>1 DEF LoneFirst, Up
  <2>3. node'["blue"].status = "retired" /\ swap'.at = "drain"
    BY <1>3, <1>4, <1>12, <2>2 DEF Retire, To
  <2>4. Idle("blue")'  BY <2>1 DEF LoneFirst, Idle
  <2> QED  BY <2>1, <2>2, <2>3, <2>4 DEF LoneFirst, Up
<1>13. CASE RetireAnswered \/ RetireFails \/ Promote
  <2>1. /\ UNCHANGED <<sent, out, task, pool>> /\ node'["blue"] = node["blue"]
        /\ swap.at \in {"retire", "drain", "promote"}
        /\ swap'.at \in {"promote", "commit", "abandon", "failed"}
    <3>1. CASE RetireAnswered  BY <1>3, <3>1 DEF RetireAnswered, At, To, scheduler
    <3>2. CASE RetireFails  BY <1>3, <3>2 DEF RetireFails, To, scheduler
    <3>3. CASE Promote
      BY <1>3, <1>4, <3>3 DEF Promote, Promoted, GivenUp, At, To, scheduler
    <3> QED  BY <1>13, <3>1, <3>2, <3>3
  <2>2. Idle("blue")'  BY <2>1 DEF LoneFirst, Idle
  <2> QED  BY <2>1, <2>2 DEF LoneFirst, Up
<1>14. CASE Commit
  <2>1. UNCHANGED <<sent, out, task, node>> /\ swap.at = "commit" /\ swap'.at = "done"
    BY <1>3, <1>14 DEF Commit, At, To
  <2>2. Idle("blue")'  BY <2>1 DEF LoneFirst, Idle
  <2>3. pool'["blue"] = "retired"  BY <1>4, <1>14, <2>1 DEF Commit, LoneFirst
  <2> QED  BY <2>1, <2>2, <2>3 DEF LoneFirst, Up
<1>15. CASE Resume
  <2>1. /\ UNCHANGED <<sent, out, task, pool>> /\ swap.at = "abandon" /\ swap'.at = "unretire"
    BY <1>3, <1>15 DEF Resume, At, To, scheduler
  <2>2. node'["blue"].status = node["blue"].status \/ node'["blue"].status = "ready"
    BY <1>4, <1>15 DEF Resume
  <2>3. Idle("blue")'  BY <2>1 DEF LoneFirst, Idle
  <2> QED  BY <2>1, <2>2, <2>3 DEF LoneFirst, Up
<1>16. CASE Unretire
  <2>1. node' = node /\ swap'.at = "failed"  BY <1>3, <1>16 DEF Unretire, To
  <2> QED  BY <2>1 DEF LoneFirst, Up
<1>17. CASE \/ Ingest \/ FanOut \/ RegisterEnds \/ Arrive \/ UNCHANGED vars
            \/ \E s \in Ssps : Deliver(s) \/ Publish(s) \/ BootViews(s)
            \/ \E v \in Views : Register(v) \/ Release(v)
            \/ \E t \in Tasks : RedeliverOne(t)
  <2>1. pool' = pool /\ swap' = swap /\ node'["blue"].status = node["blue"].status
    BY <1>1, <1>2, <1>17, AsideStep DEF Ssps, Up
  <2>2. sent' = sent
    BY <1>17 DEF Ingest, FanOut, RegisterEnds, Arrive, Arrives, Deliver, Publish, BootViews,
                 Register, Release, RedeliverOne, vars
  <2>3. \A t \in Tasks : task'[t].ssp = task[t].ssp
    <3>1. CASE \E t \in Tasks : RedeliverOne(t)  BY <3>1, RedeliverOneTasks
    <3>2. CASE \/ Ingest \/ FanOut \/ RegisterEnds \/ Arrive \/ UNCHANGED vars
               \/ \E s \in Ssps : Deliver(s) \/ Publish(s) \/ BootViews(s)
               \/ \E v \in Views : Register(v) \/ Release(v)
      BY <3>2 DEF Ingest, FanOut, RegisterEnds, Arrive, Arrives, Deliver, Publish, BootViews,
                  Register, Release, scheduler, vars
    <3> QED  BY <1>17, <3>1, <3>2
  <2>4. \/ out'["blue"] = out["blue"]
        \/ FanOut /\ out'["blue"] = IF pool["blue"] = "ready" THEN "sent" ELSE "off"
        \/ Deliver("blue")
    <3>1. CASE FanOut  BY <1>4, <3>1 DEF FanOut
    <3>2. ASSUME NEW s \in Ssps, Deliver(s)
          PROVE  s = "blue" \/ out'["blue"] = out["blue"]
      BY <1>4, <3>2 DEF Deliver, Order, Typed, CountersTyped
    <3>3. CASE \/ Ingest \/ RegisterEnds \/ Arrive \/ UNCHANGED vars
               \/ \E s \in Ssps : Publish(s) \/ BootViews(s)
               \/ \E v \in Views : Register(v) \/ Release(v)
               \/ \E t \in Tasks : RedeliverOne(t)
      BY <3>3 DEF Ingest, RegisterEnds, Arrive, Arrives, Publish, BootViews,
                  Register, Release, RedeliverOne, vars
    <3> QED  BY <1>17, <3>1, <3>2, <3>3
  <2>5. swap.at # "failed" =>
          /\ out'["blue"] # "failed"
          /\ out'["blue"] = "sent" => \/ out["blue"] = "sent"
                                      \/ pool["blue"] = "ready" /\ node["blue"].status = "ready"
    <3>1. CASE out'["blue"] = out["blue"]  BY <3>1 DEF LoneFirst
    <3>2. CASE FanOut /\ out'["blue"] = IF pool["blue"] = "ready" THEN "sent" ELSE "off"
      <4>1. ASSUME swap.at # "failed", pool["blue"] = "ready" PROVE node["blue"].status = "ready"
        BY <1>2, <1>3, <4>1 DEF LoneFirst, Up, Phases
      <4> QED  BY <3>2, <4>1
    <3>3. CASE Deliver("blue")
      BY <1>0, <1>4, <3>3 DEF Deliver, LoneFirst, Order, Typed, CountersTyped
    <3> QED  BY <2>4, <3>1, <3>2, <3>3
  <2>6. swap.at # "failed" => Idle("blue")'  BY <2>3 DEF LoneFirst, Idle
  <2> QED  BY <2>1, <2>2, <2>5, <2>6 DEF LoneFirst, Up
<1> QED
  BY <1>1, <1>5, <1>6, <1>7, <1>8, <1>9, <1>10, <1>11, <1>12, <1>13, <1>14, <1>15, <1>16, <1>17,
     Zenon DEF Next

LEMMA OrderInit ==
    ASSUME Init, Abandonless \/ Lagless PROVE Order
<1>1. Typed  BY TypedInit
<1>2. /\ sent = 0 /\ out = [s \in Ssps |-> "no"] /\ swap.at = "none"
      /\ pool = [s \in Ssps |-> IF s = "blue" THEN "ready" ELSE "out"]
      /\ buf = [s \in Ssps |-> <<>>] /\ task = [t \in Tasks |-> Off]
      /\ node["blue"].status = "ready" /\ node["green"].status = "gone"
      /\ node["blue"].circuit = 0
  BY DEF Init, Ssps
<1>3. \A t \in Tasks, s \in Ssps : task[t].ssp # s  BY <1>2 DEF Off, Ssps
<1>4. \A s \in Ssps : Idle(s) /\ AtMostOne(s)  BY <1>3 DEF Idle, AtMostOne
<1>5. Slots
  <2>1. 1 \in Tasks  BY DEF Tasks
  <2> QED  BY <1>2, <1>3, <1>4, <2>1 DEF Slots, Ssps
<1>6. InTurn("blue")
  <2>1. RunOf(<<>>, 0, 0)  BY RunEmpty
  <2>2. Due("blue") = 0  BY <1>2 DEF Due, Ssps
  <2>3. PendingAt("blue", 0, 0)  BY <1>2, <1>3, <1>4, <2>1, <2>2 DEF PendingAt, Ssps
  <2> QED  BY <1>2, <1>4, <2>3 DEF InTurn, Ssps
<1>7. InTurns  BY <1>2, <1>6 DEF InTurns, Up, Ssps
<1>8. LoneDead /\ LoneFirst  BY <1>2, <1>4 DEF LoneDead, LoneFirst, Up, Ssps
<1> QED  BY <1>1, <1>5, <1>7, <1>8 DEF Order, Lone

LEMMA OrderStep ==
    ASSUME Order, [Next]_vars PROVE Order' /\ Onward
<1>1. Typed'  BY TypedStep DEF Order
<1>2. Slots'  BY SlotsStep
<1>3. Onward /\ InTurns'  BY InTurnsStep
<1>4. Lone'
  <2>1. Abandonless' = Abandonless /\ Lagless' = Lagless  BY DEF Abandonless, Lagless
  <2>2. CASE Abandonless /\ LoneDead  BY <2>2, <2>1, LoneDeadStep DEF Lone
  <2>3. CASE Lagless /\ LoneFirst  BY <2>3, <2>1, LoneFirstStep DEF Lone
  <2> QED  BY <2>2, <2>3 DEF Order, Lone
<1> QED  BY <1>1, <1>2, <1>3, <1>4 DEF Order

(* An SSP that is up is given the events in order, each once or again but none skipped, by the
   live path, the queues and the redelivery tasks between them (fan_out_event and
   redeliver_to_lagging_ssp of ingest.rs, abandon of ssp_handover.rs), for any number of faults:
   if swaps are abandoned only because blue is dead and no redelivery outlasts a boot, or if
   blue neither dies nor refuses a delivery.  Otherwise an abandoned swap starts a second
   redelivery task beside the one of the lag, and the two take turns with the queue. *)
THEOREM EventsTakenInOrder ==
    ASSUME Abandonless \/ Lagless
    PROVE  Spec => EventsInOrder
<1>1. Init => Order  BY OrderInit
<1>2. Order /\ [Next]_vars => Order'  BY OrderStep
<1>3. Order /\ [Next]_vars =>
        [\A s \in Ssps : node[s].status \in {"ready", "retired"} =>
           node'[s].circuit \in {node[s].circuit, node[s].circuit + 1}]_vars
  BY OrderStep DEF Onward, Up
<1> QED  BY <1>1, <1>2, <1>3, PTL DEF Spec, EventsInOrder
=============================================================================
