------------------------- MODULE PushMessagesProofs -------------------------
(***************************************************************************)
(* The accounts of a push message are right for any hosts, devices, queue  *)
(* capacity, number of attempts, faults and lost answers; no fault is      *)
(* excluded.                                                               *)
(*                                                                         *)
(* None of the properties is inductive: the count that is written at the   *)
(* end has been carried through a batch of sends, its tally, the progress  *)
(* entry and any number of retries, beside those of other claims.  The     *)
(* inductive invariant says that the sends that are out are one per claim  *)
(* and device, and none is acknowledged (SlotInv); that a device received  *)
(* the push once for each claim that was acknowledged, beside the lost     *)
(* answers (Received); that every claim but the last one was paid for by a *)
(* fault, and the last one too once nobody carries it (Credit); that no    *)
(* count is above the acknowledged sends of its host (Tallied); and, as    *)
(* long as no claim was taken from a live host and no retry ran early,     *)
(* that one host has work in hand, and its books balance (Exact).          *)
(***************************************************************************)
EXTENDS PushMessages, FiniteSetTheorems, TLAPS

N == Cardinality(Devices)
Statuses == {"absent", "pending", "sending"} \cup Ended
Phases == {"idle", "claim", "send", "book"}
BatchType ==
    [pc : Phases, round : Nat, todo : SUBSET Job, again : SUBSET Job,
     jobs : Nat, delivered : Nat, retrying : Nat]

(* what a batch is at each stage, *)
Sized(b) ==
    /\ IsFiniteSet(b.todo) /\ IsFiniteSet(b.again)
    /\ Cardinality(b.again) <= b.jobs /\ b.retrying <= b.jobs
    /\ b.pc \in {"idle", "claim"} => b.jobs = 0 /\ b.delivered = 0
    /\ b.pc # "send" => b.todo = {} /\ b.again = {}
    /\ b.pc # "book" => b.retrying = 0

(* and on each path: a call sends to each device once. *)
BatchOK(p, b) ==
    /\ Sized(b)
    /\ p \in Calls => b.jobs + Cardinality(b.todo) <= N
    /\ p = "tick" => b.pc # "claim"

Types ==
    /\ msg \in [st : Statuses, delivered : Nat]
    /\ work \in [Hosts -> [Paths -> BatchType]]
    /\ queue \in [Hosts -> SUBSET Job]
    /\ prog \in [Hosts -> [delivered : Nat, outstanding : Nat]]
    /\ round \in Nat /\ spent \in Nat
    /\ got \in [Devices -> Nat] /\ lost \in [Devices -> Nat]
    /\ hits \in [Hosts -> SUBSET (Nat \X Devices)]

WorkOK == \A h \in Hosts, p \in Paths : BatchOK(p, work[h][p])
QueueOK == \A h \in Hosts : IsFiniteSet(queue[h]) /\ Cardinality(queue[h]) <= QueueCap
ProgOK ==
    \A h \in Hosts :
        /\ prog[h].outstanding <= N
        /\ prog[h] # None => prog[h].outstanding > 0

TypeInv == Types /\ WorkOK /\ QueueOK /\ ProgOK

(* Where a send that is out may be. *)
Places == Paths \cup {"queue"}
At(h, x) == IF x = "queue" THEN queue[h] ELSE work[h][x].todo \cup work[h][x].again

Unique ==
    \A h, g \in Hosts, x, y \in Places :
        \A i \in At(h, x), j \in At(g, y) : Slot(i) = Slot(j) => h = g /\ x = y /\ i = j
Open ==
    \A h, g \in Hosts, x \in Places :
        \A j \in At(h, x) : j.round \in 1 .. round /\ Slot(j) \notin hits[g]
Parted == \A h \in Hosts, p \in Paths : work[h][p].todo \cap work[h][p].again = {}
Hit == \A h \in Hosts : hits[h] \subseteq (1 .. round) \X Devices
OwnRound == \A h \in Hosts, p \in Calls : \A j \in At(h, p) : j.round = work[h][p].round

SlotInv == Unique /\ Open /\ Parted /\ Hit /\ OwnRound

(* Each device received the push once for each claim in which it acknowledged it, and once
   more for each lost answer. *)
AckRounds(d) == {k \in 1 .. round : \E h \in Hosts : <<k, d>> \in hits[h]}
Received == \A d \in Devices : got[d] <= lost[d] + Cardinality(AckRounds(d))

(* The retries a call has queued; a call that will wait for retries that are not there is
   a stray.  The claim is carried by a call that is not, or by a progress entry that waits
   for no more retries than there are. *)
Mine(h, p) == {j \in queue[h] : j.round = work[h][p].round}
Covered(h, p) == work[h][p].retrying <= Cardinality(Mine(h, p))
Stray(h, p) == work[h][p].pc = "book" /\ ~Covered(h, p)
Strays == \E h \in Hosts, p \in Calls : Stray(h, p)
Carrying(h, p) == work[h][p].pc = "send" \/ (work[h][p].pc = "book" /\ Covered(h, p))
Alive(h) ==
    LET t == work[h]["tick"] IN
    /\ prog[h].outstanding > 0
    /\ prog[h].outstanding + t.retrying <= Cardinality(queue[h]) + t.jobs + Cardinality(t.todo)
Carried == \E h \in Hosts : Alive(h) \/ \E p \in Calls : Carrying(h, p)

Credit ==
    /\ round <= spent + 1
    /\ msg.st \in {"absent", "pending"} => round <= spent /\ (Strays => round + 1 <= spent)
    /\ msg.st = "sending" /\ (Strays \/ ~Carried) => round <= spent

(* The counts a host keeps are of sends acknowledged to it. *)
Counts(h) ==
    prog[h].delivered + work[h]["event"].delivered + work[h]["sweep"].delivered
        + work[h]["tick"].delivered
Tallied ==
    /\ \A h \in Hosts : Counts(h) <= Cardinality(hits[h])
    /\ msg.delivered = 0 \/ \E h \in Hosts : msg.delivered <= Cardinality(hits[h])

(* The books of the one host that has work in hand. *)
Working(h, p) == work[h][p].pc \in {"send", "book"}
Busy(h) == queue[h] # {} \/ \E p \in Paths : Working(h, p)
Acks == Cardinality(Acknowledged)

CallBooks(h, p) ==
    Working(h, p) =>
        /\ work[h][p].delivered = Acks /\ work[h][p].round = round
        /\ work[h][p].pc = "send" => queue[h] = {}
        /\ queue[h] # {} => work[h][p].retrying = Cardinality(queue[h])
TickBooks(h) ==
    LET t == work[h]["tick"] IN
    Working(h, "tick") =>
        /\ prog[h].delivered + t.delivered = Acks /\ prog[h].outstanding > 0
        /\ prog[h].outstanding + t.retrying = Cardinality(queue[h]) + t.jobs + Cardinality(t.todo)
QueueBooks(h) ==
    queue[h] # {} /\ (\A p \in Paths : ~Working(h, p)) =>
        prog[h].delivered = Acks /\ prog[h].outstanding = Cardinality(queue[h])
Exactly(h) ==
    /\ \A p, q \in Paths : Working(h, p) /\ Working(h, q) => p = q
    /\ \A x \in Places : \A j \in At(h, x) : j.round = round
    /\ \A p \in Calls : CallBooks(h, p)
    /\ TickBooks(h) /\ QueueBooks(h)
Exact ==
    /\ \A h \in Hosts : Busy(h) => msg.st = "sending" /\ Exactly(h)
    /\ \A h, g \in Hosts : Busy(h) /\ Busy(g) => h = g
    /\ msg.st \in {"sent", "failed"} => msg.delivered = Acks

Inv == TypeInv /\ SlotInv /\ Received /\ Credit /\ Tallied /\ (~mixed => Exact)

-----------------------------------------------------------------------------
(* Sets of jobs and of devices. *)

LEMMA Bounds ==
    /\ N \in Nat /\ MaxAttempts \in Nat /\ QueueCap \in Nat
    /\ \A S \in SUBSET Devices : IsFiniteSet(S) /\ Cardinality(S) \in Nat /\ Cardinality(S) <= N
  BY PushAssumption, FS_CardinalityType, FS_Subset DEF N

LEMMA Paths3 ==
    /\ Paths = {"event", "sweep", "tick"} /\ Calls = {"event", "sweep"}
    /\ Calls \subseteq Paths /\ Paths \subseteq Places /\ "queue" \in Places
    /\ "queue" \notin Paths /\ "tick" \notin Calls
  BY DEF Paths, Calls, Places

LEMMA Sizes ==
    ASSUME NEW S, IsFiniteSet(S)
    PROVE  /\ Cardinality(S) \in Nat /\ Cardinality(S) = 0 <=> S = {}
           /\ \A T \in SUBSET S : IsFiniteSet(T) /\ Cardinality(T) \in Nat /\ Cardinality(T) <= Cardinality(S)
           /\ \A T \in SUBSET S : Cardinality(S) = Cardinality(T) + Cardinality(S \ T)
           /\ \A x \in S : IsFiniteSet(S \ {x}) /\ Cardinality(S \ {x}) = Cardinality(S) - 1
           /\ \A x : x \notin S => IsFiniteSet(S \cup {x}) /\ Cardinality(S \cup {x}) = Cardinality(S) + 1
  <1>1. Cardinality(S) \in Nat /\ (Cardinality(S) = 0 <=> S = {})
    BY FS_CardinalityType, FS_EmptySet
  <1>2. \A T \in SUBSET S : IsFiniteSet(T) /\ Cardinality(T) \in Nat /\ Cardinality(T) <= Cardinality(S)
    BY FS_Subset, FS_CardinalityType
  <1>3. ASSUME NEW T \in SUBSET S
        PROVE  Cardinality(S) = Cardinality(T) + Cardinality(S \ T)
    <2>1. Cardinality(S \ T) = Cardinality(S) - Cardinality(S \cap T)
      BY FS_Difference
    <2>2. S \cap T = T
      OBVIOUS
    <2>3. Cardinality(T) \in Nat
      BY <1>2
    <2> QED
      BY <2>1, <2>2, <2>3, <1>1
  <1>4. \A x \in S : IsFiniteSet(S \ {x}) /\ Cardinality(S \ {x}) = Cardinality(S) - 1
    BY FS_RemoveElement
  <1>5. \A x : x \notin S => IsFiniteSet(S \cup {x}) /\ Cardinality(S \cup {x}) = Cardinality(S) + 1
    BY FS_AddElement
  <1> QED
    BY <1>1, <1>2, <1>3, <1>4, <1>5

LEMMA NothingIsSmall == IsFiniteSet({}) /\ Cardinality({}) = 0
  BY FS_EmptySet

LEMMA SizeOfUnion ==
    ASSUME NEW S, NEW T, IsFiniteSet(S), IsFiniteSet(T)
    PROVE  /\ IsFiniteSet(S \cup T)
           /\ Cardinality(S \cup T) <= Cardinality(S) + Cardinality(T)
           /\ S \cap T = {} => Cardinality(S \cup T) = Cardinality(S) + Cardinality(T)
  <1>1. /\ IsFiniteSet(S \cup T)
        /\ Cardinality(S \cup T) = Cardinality(S) + Cardinality(T) - Cardinality(S \cap T)
    BY FS_Union
  <1>2. IsFiniteSet(S \cap T)
    BY FS_Subset
  <1>3. Cardinality(S \cap T) \in Nat /\ Cardinality(S) \in Nat /\ Cardinality(T) \in Nat
    BY <1>2, FS_CardinalityType
  <1>4. S \cap T = {} => Cardinality(S \cap T) = 0
    BY FS_EmptySet
  <1> QED
    BY <1>1, <1>3, <1>4

(* A job that is queued again keeps its claim and its device. *)
LEMMA NextTryIs ==
    ASSUME NEW j \in Job, j.attempt < MaxAttempts
    PROVE  /\ NextTry(j) \in Job
           /\ NextTry(j).round = j.round /\ NextTry(j).dev = j.dev /\ Slot(NextTry(j)) = Slot(j)
  <1>1. /\ NextTry(j) = [round |-> j.round, dev |-> j.dev, attempt |-> j.attempt + 1]
    BY DEF NextTry, Job
  <1> QED
    BY <1>1, Bounds DEF Job, Slot

LEMMA SizeOfImage ==
    ASSUME NEW Q, IsFiniteSet(Q)
    PROVE  LET I == {NextTry(j) : j \in Q} IN
           /\ IsFiniteSet(I) /\ Cardinality(I) <= Cardinality(Q)
           /\ (\A i, j \in Q : NextTry(i) = NextTry(j) => i = j) => Cardinality(I) = Cardinality(Q)
  <1> DEFINE I == {NextTry(j) : j \in Q}
             f == [j \in Q |-> NextTry(j)]
  <1>1. f \in Surjection(Q, I)
    BY DEF Surjection
  <1>2. IsFiniteSet(I) /\ Cardinality(I) <= Cardinality(Q)
    BY <1>1, FS_Surjection
  <1>3. ASSUME \A i, j \in Q : NextTry(i) = NextTry(j) => i = j
        PROVE  Cardinality(I) = Cardinality(Q)
    <2>1. f \in Injection(Q, I)
      BY <1>3 DEF Injection, IsInjective
    <2> QED
      BY <1>1, <2>1, FS_Surjection
  <1> QED
    BY <1>2, <1>3

-----------------------------------------------------------------------------
(* Batches, and the steps that replace one. *)

LEMMA BatchIs ==
    ASSUME NEW pc \in Phases, NEW k \in Nat, NEW S \in SUBSET Job
    PROVE  LET b == Batch(pc, k, S) IN
           /\ b \in BatchType
           /\ b.pc = pc /\ b.round = k /\ b.todo = S /\ b.again = {}
           /\ b.jobs = 0 /\ b.delivered = 0 /\ b.retrying = 0
           /\ IsFiniteSet(S) /\ (pc # "send" => S = {}) => Sized(b)
  BY NothingIsSmall DEF Batch, BatchType, Sized

LEMMA NoBatchIs ==
    /\ NoBatch \in BatchType
    /\ NoBatch.pc = "idle" /\ NoBatch.todo = {} /\ NoBatch.again = {}
    /\ NoBatch.jobs = 0 /\ NoBatch.delivered = 0 /\ NoBatch.retrying = 0
    /\ \A p : BatchOK(p, NoBatch)
  <1>1. "idle" \in Phases /\ 0 \in Nat /\ {} \in SUBSET Job
    BY DEF Phases
  <1>2. /\ NoBatch \in BatchType
        /\ NoBatch.pc = "idle" /\ NoBatch.todo = {} /\ NoBatch.again = {}
        /\ NoBatch.jobs = 0 /\ NoBatch.delivered = 0 /\ NoBatch.retrying = 0
        /\ Sized(NoBatch)
    BY <1>1, BatchIs, NothingIsSmall DEF NoBatch
  <1> QED
    BY <1>2, NothingIsSmall, Bounds DEF BatchOK

(* A call that looks at the row has no jobs. *)
LEMMA ClaimingIs ==
    ASSUME NEW p \in Calls, NEW b \in BatchType, BatchOK(p, b), b.pc \in {"idle", "claim"}
    PROVE  LET c == [b EXCEPT !.pc = "claim"] IN
           /\ c \in BatchType /\ BatchOK(p, c) /\ c.pc = "claim"
           /\ c.todo = {} /\ c.again = {} /\ b.todo = {} /\ b.again = {}
           /\ c.delivered = 0 /\ b.delivered = 0 /\ c.retrying = 0 /\ c.round = b.round
  <1> DEFINE c == [b EXCEPT !.pc = "claim"]
  <1>1. /\ c \in BatchType /\ c.pc = "claim" /\ c.round = b.round
        /\ c.todo = b.todo /\ c.again = b.again /\ c.jobs = b.jobs
        /\ c.delivered = b.delivered /\ c.retrying = b.retrying
    BY DEF BatchType, Phases
  <1>2. b.todo = {} /\ b.again = {} /\ b.delivered = 0 /\ b.jobs = 0 /\ b.retrying = 0
    BY DEF BatchOK, Sized
  <1>3. BatchOK(p, c)
    BY <1>1, <1>2, Paths3 DEF BatchOK, Sized
  <1> QED
    BY <1>1, <1>2, <1>3

LEMMA AnsweredIs ==
    ASSUME NEW p \in Paths, NEW b \in BatchType, BatchOK(p, b), b.pc = "send",
           NEW j \in b.todo, NEW r \in Outcomes
    PROVE  LET a == Answered(b, j, r) IN
           /\ a \in BatchType /\ BatchOK(p, a)
           /\ a.pc = "send" /\ a.round = b.round /\ a.todo = b.todo \ {j}
           /\ a.again \subseteq b.again \cup {j}
           /\ r \in {"ok", "no"} => a.again = b.again
           /\ a.jobs = b.jobs + 1 /\ a.retrying = 0
           /\ a.delivered = IF r = "ok" THEN b.delivered + 1 ELSE b.delivered
           /\ Cardinality(a.todo) = Cardinality(b.todo) - 1
  <1> DEFINE a == Answered(b, j, r)
  <1>1. j \in Job
    BY DEF BatchType
  <1>2. /\ a.pc = b.pc /\ a.round = b.round /\ a.todo = b.todo \ {j}
        /\ a.again = IF r \in {"retry", "lost"} THEN b.again \cup {j} ELSE b.again
        /\ a.jobs = b.jobs + 1
        /\ a.delivered = IF r = "ok" THEN b.delivered + 1 ELSE b.delivered
        /\ a.retrying = b.retrying
    BY DEF Answered, BatchType
  <1>3. a \in BatchType
    <2>1. /\ b.pc \in Phases /\ b.round \in Nat /\ b.todo \in SUBSET Job /\ b.again \in SUBSET Job
          /\ b.jobs \in Nat /\ b.delivered \in Nat /\ b.retrying \in Nat
      BY DEF BatchType
    <2> DEFINE A == IF r \in {"retry", "lost"} THEN b.again \cup {j} ELSE b.again
               D == IF r = "ok" THEN b.delivered + 1 ELSE b.delivered
               T == b.todo \ {j}
               n == b.jobs + 1
    <2>2. A \in SUBSET Job /\ D \in Nat /\ T \in SUBSET Job /\ n \in Nat
      BY <1>1, <2>1
    <2>3. a = [b EXCEPT !.todo = T, !.again = A, !.jobs = n, !.delivered = D]
      BY DEF Answered
    <2> HIDE DEF A, D, T, n, a
    <2> QED
      BY <2>1, <2>2, <2>3 DEF BatchType
  <1>4. /\ IsFiniteSet(b.todo) /\ IsFiniteSet(b.again)
        /\ Cardinality(b.again) <= b.jobs /\ b.retrying = 0 /\ b.jobs \in Nat
        /\ p \in Calls => b.jobs + Cardinality(b.todo) <= N
    BY DEF BatchOK, Sized, BatchType
  <1>5. /\ IsFiniteSet(a.todo) /\ Cardinality(a.todo) = Cardinality(b.todo) - 1
        /\ Cardinality(b.todo) \in Nat
    BY <1>2, <1>4, Sizes
  <1>6. /\ IsFiniteSet(b.again \cup {j})
        /\ Cardinality(b.again \cup {j}) <= Cardinality(b.again) + 1 /\ Cardinality(b.again) \in Nat
    <2>1. CASE j \in b.again
      <3>1. b.again \cup {j} = b.again
        BY <2>1
      <3> QED
        BY <3>1, <1>4, Sizes
    <2>2. CASE j \notin b.again
      BY <2>2, <1>4, Sizes
    <2> QED
      BY <2>1, <2>2
  <1>7. IsFiniteSet(a.again) /\ Cardinality(a.again) <= a.jobs
    <2>1. a.again = b.again \/ a.again = b.again \cup {j}
      BY <1>2
    <2>2. a.jobs = b.jobs + 1
      BY <1>2
    <2> DEFINE A == a.again
    <2>0. Cardinality(b.again) <= Cardinality(b.again) + 1
      BY <1>6
    <2>3. IsFiniteSet(A) /\ Cardinality(A) <= Cardinality(b.again) + 1
      BY <2>0, <2>1, <1>4, <1>6, Zenon
    <2> HIDE DEF A
    <2>4. Cardinality(A) \in Nat
      BY <2>3, FS_CardinalityType
    <2> QED
      BY <2>2, <2>3, <2>4, <1>4, <1>6 DEF A
  <1>8. BatchOK(p, a)
    BY <1>2, <1>4, <1>5, <1>7, Bounds DEF BatchOK, Sized
  <1> QED
    BY <1>2, <1>3, <1>4, <1>5, <1>8

Settled(b, Q) == [b EXCEPT !.pc = "book", !.again = {}, !.retrying = Cardinality(Q)]

LEMMA SettledIs ==
    ASSUME NEW p \in Paths, NEW b \in BatchType, BatchOK(p, b), b.pc = "send", b.todo = {},
           NEW Q \in SUBSET MayRetry(b)
    PROVE  /\ Settled(b, Q) \in BatchType /\ BatchOK(p, Settled(b, Q))
           /\ Settled(b, Q).pc = "book" /\ Settled(b, Q).round = b.round
           /\ Settled(b, Q).todo = {} /\ Settled(b, Q).again = {}
           /\ Settled(b, Q).jobs = b.jobs /\ Settled(b, Q).delivered = b.delivered
           /\ Settled(b, Q).retrying = Cardinality(Q)
           /\ IsFiniteSet(Q) /\ Cardinality(Q) \in Nat
  <1>1. /\ IsFiniteSet(b.again) /\ Cardinality(b.again) <= b.jobs /\ b.jobs \in Nat
        /\ p \in Calls => b.jobs + Cardinality(b.todo) <= N
    BY DEF BatchOK, Sized, BatchType
  <1>2. IsFiniteSet(Q) /\ Cardinality(Q) \in Nat /\ Cardinality(Q) <= Cardinality(b.again)
    BY <1>1, Sizes DEF MayRetry
  <1>3. Cardinality(b.again) \in Nat
    BY <1>1, Sizes
  <1>4. Settled(b, Q) \in BatchType
    BY <1>2 DEF BatchType, Phases, Settled
  <1>5. /\ Settled(b, Q).pc = "book" /\ Settled(b, Q).round = b.round
        /\ Settled(b, Q).todo = {} /\ Settled(b, Q).again = {}
        /\ Settled(b, Q).jobs = b.jobs /\ Settled(b, Q).delivered = b.delivered
        /\ Settled(b, Q).retrying = Cardinality(Q)
    BY DEF BatchType, Settled
  <1>6. BatchOK(p, Settled(b, Q))
    BY <1>1, <1>2, <1>3, <1>5, NothingIsSmall DEF BatchOK, Sized
  <1> QED
    BY <1>2, <1>4, <1>5, <1>6

(* What a host's path has is b now, and nothing else has changed in work. *)
Puts(h, p, b) ==
    /\ work' \in [Hosts -> [Paths -> BatchType]]
    /\ work'[h][p] = b
    /\ \A g \in Hosts, q \in Paths : g # h \/ q # p => work'[g][q] = work[g][q]

LEMMA PutBatch ==
    ASSUME TypeInv, NEW h \in Hosts, NEW p \in Paths, NEW b \in BatchType, BatchOK(p, b),
           work' = [work EXCEPT ![h][p] = b]
    PROVE  Puts(h, p, b) /\ WorkOK'
  <1>1. Puts(h, p, b)
    BY DEF TypeInv, Types, Puts
  <1>2. WorkOK'
    BY <1>1 DEF TypeInv, WorkOK, Puts
  <1> QED
    BY <1>1, <1>2

LEMMA Ready ==
    ASSUME TypeInv, NEW h \in Hosts, NEW p \in Paths
    PROVE  /\ work[h][p] \in BatchType /\ BatchOK(p, work[h][p])
           /\ work[h][p].pc \notin {"send"} => work[h][p].todo = {} /\ work[h][p].again = {}
           /\ IsFiniteSet(work[h][p].todo) /\ IsFiniteSet(work[h][p].again)
           /\ work[h][p].pc # "book" => work[h][p].retrying = 0
           /\ work[h][p].retrying <= work[h][p].jobs
           /\ work[h][p].pc \in {"idle", "claim"} => work[h][p].jobs = 0 /\ work[h][p].delivered = 0
           /\ p = "tick" => work[h][p].pc # "claim"
           /\ work[h][p].pc \in Phases /\ work[h][p].round \in Nat
           /\ work[h][p].todo \subseteq Job /\ work[h][p].again \subseteq Job
           /\ work[h][p].jobs \in Nat /\ work[h][p].delivered \in Nat /\ work[h][p].retrying \in Nat
           /\ Cardinality(work[h][p].todo) \in Nat
  <1>1. work[h][p] \in BatchType /\ BatchOK(p, work[h][p])
    BY DEF TypeInv, Types, WorkOK
  <1>2. IsFiniteSet(work[h][p].todo) /\ IsFiniteSet(work[h][p].again)
    BY <1>1 DEF BatchOK, Sized
  <1> QED
    BY <1>1, <1>2, Sizes DEF BatchOK, Sized, BatchType

-----------------------------------------------------------------------------
(* What each action does to the batches, and that it keeps the types. *)

LEMMA InitType == Init => TypeInv
  <1> SUFFICES ASSUME Init PROVE TypeInv
    OBVIOUS
  <1>1. Types
    BY NoBatchIs DEF Init, Types, Statuses, None
  <1>2. WorkOK
    BY NoBatchIs DEF Init, WorkOK
  <1>3. QueueOK
    BY NothingIsSmall, Bounds DEF Init, QueueOK
  <1>4. ProgOK
    BY Bounds DEF Init, ProgOK, None
  <1> QED
    BY <1>1, <1>2, <1>3, <1>4 DEF TypeInv

(* Only the row's status changes, and what counts faults. *)
RowStep ==
    /\ \E s \in Statuses : msg' = [msg EXCEPT !.st = s]
    /\ UNCHANGED <<work, queue, prog, seen, round, got, lost, hits>>
    /\ spent' \in Nat

LEMMA RowType == ASSUME TypeInv, RowStep PROVE TypeInv' /\ msg'.delivered = msg.delivered
  <1>1. msg' \in [st : Statuses, delivered : Nat] /\ msg'.delivered = msg.delivered
    BY DEF TypeInv, Types, RowStep
  <1>2. Types'
    BY <1>1 DEF TypeInv, Types, RowStep
  <1>3. WorkOK'
    BY DEF TypeInv, WorkOK, RowStep
  <1>4. QueueOK' /\ ProgOK'
    BY DEF TypeInv, QueueOK, ProgOK, RowStep
  <1> QED
    BY <1>1, <1>2, <1>3, <1>4 DEF TypeInv

LEMMA RowSteps ==
    ASSUME TypeInv, NEW h \in Hosts
    PROVE  /\ Commit => RowStep /\ spent' = spent /\ msg.st = "absent" /\ msg'.st = "pending"
           /\ Cancel => RowStep /\ spent' = spent /\ msg.st = "pending" /\ msg'.st = "cancelled"
           /\ ResetStuck(h) => RowStep /\ spent' = spent /\ msg.st = "sending" /\ msg'.st = "pending"
           /\ ResetSlow(h) => RowStep /\ spent' = spent + 1 /\ msg.st = "sending" /\ msg'.st = "pending"
  <1>1. /\ msg \in [st : Statuses, delivered : Nat] /\ spent \in Nat
        /\ "pending" \in Statuses /\ "cancelled" \in Statuses
    BY DEF TypeInv, Types, Statuses, Ended
  <1>2. Commit => RowStep /\ spent' = spent /\ msg.st = "absent" /\ msg'.st = "pending"
    BY <1>1 DEF Commit, RowStep, histVars
  <1>3. Cancel => RowStep /\ spent' = spent /\ msg.st = "pending" /\ msg'.st = "cancelled"
    BY <1>1 DEF Cancel, RowStep, histVars
  <1>4. ResetStuck(h) => RowStep /\ spent' = spent /\ msg.st = "sending" /\ msg'.st = "pending"
    BY <1>1 DEF ResetStuck, RowStep, histVars
  <1>5. ResetSlow(h) => RowStep /\ spent' = spent + 1 /\ msg.st = "sending" /\ msg'.st = "pending"
    BY <1>1 DEF ResetSlow, RowStep, Fault
  <1> QED
    BY <1>2, <1>3, <1>4, <1>5

(* A call takes the message up, or finds that it has nothing to do. *)
QuietStep(h, p) ==
    /\ p \in Calls /\ work[h][p].pc \in {"idle", "claim"}
    /\ \E b \in BatchType : Puts(h, p, b) /\ b.pc \in {"idle", "claim"}
    /\ WorkOK'
    /\ UNCHANGED <<msg, queue, prog, histVars, spent>>

LEMMA QuietSteps ==
    ASSUME TypeInv, NEW h \in Hosts, NEW p \in Calls
    PROVE  /\ Observe(h) => QuietStep(h, "event")
           /\ Sweep(h) => QuietStep(h, "sweep")
           /\ NotClaimed(h, p) => QuietStep(h, p)
  <1>1. /\ "event" \in Calls /\ "sweep" \in Calls /\ p \in Paths
        /\ "event" \in Paths /\ "sweep" \in Paths
    BY Paths3
  <1>2. ASSUME NEW q \in Calls, work' = [work EXCEPT ![h][q].pc = "claim"],
               work[h][q].pc \in {"idle", "claim"},
               UNCHANGED <<msg, queue, prog, histVars, spent>>
        PROVE  QuietStep(h, q)
    <2> DEFINE b == [work[h][q] EXCEPT !.pc = "claim"]
    <2>1. q \in Paths
      BY Paths3
    <2>2. b \in BatchType /\ BatchOK(q, b) /\ b.pc = "claim"
      BY <1>2, <2>1, Ready, ClaimingIs
    <2>3. work' = [work EXCEPT ![h][q] = b]
      BY <1>2
    <2>4. Puts(h, q, b) /\ WorkOK'
      <3> HIDE DEF b
      <3> QED
        BY <2>1, <2>2, <2>3, PutBatch
    <2> QED
      BY <1>2, <2>2, <2>4 DEF QuietStep
  <1>3. Observe(h) => QuietStep(h, "event")
    BY <1>1, <1>2 DEF Observe
  <1>4. Sweep(h) => QuietStep(h, "sweep")
    BY <1>1, <1>2 DEF Sweep, Ticking
  <1>5. ASSUME NotClaimed(h, p) PROVE QuietStep(h, p)
    <2>1. Puts(h, p, NoBatch) /\ WorkOK'
      BY <1>1, <1>5, NoBatchIs, PutBatch DEF NotClaimed
    <2> QED
      BY <1>5, <2>1, NoBatchIs DEF NotClaimed, QuietStep
  <1> QED
    BY <1>3, <1>4, <1>5

LEMMA QuietType ==
    ASSUME TypeInv, NEW h \in Hosts, NEW p, QuietStep(h, p)
    PROVE  TypeInv'
  <1>1. Types'
    BY DEF TypeInv, Types, QuietStep, Puts, histVars
  <1>2. QueueOK' /\ ProgOK'
    BY DEF TypeInv, QueueOK, ProgOK, QuietStep
  <1> QED
    BY <1>1, <1>2 DEF TypeInv, QuietStep

-----------------------------------------------------------------------------
FirstTries(k, D) == {[round |-> k, dev |-> d, attempt |-> 0] : d \in D}

LEMMA FirstTriesAre ==
    ASSUME NEW k \in Nat, NEW D \in SUBSET Devices
    PROVE  /\ FirstTries(k, D) \in SUBSET Job
           /\ IsFiniteSet(FirstTries(k, D)) /\ Cardinality(FirstTries(k, D)) <= N
           /\ \A j \in FirstTries(k, D) : j.round = k
           /\ \A i, j \in FirstTries(k, D) : Slot(i) = Slot(j) => i = j
  <1> DEFINE f == [d \in D |-> [round |-> k, dev |-> d, attempt |-> 0]]
  <1>1. f \in Surjection(D, FirstTries(k, D))
    BY DEF Surjection, FirstTries
  <1>2. IsFiniteSet(D) /\ Cardinality(D) <= N /\ Cardinality(D) \in Nat
    BY Bounds
  <1>3. IsFiniteSet(FirstTries(k, D)) /\ Cardinality(FirstTries(k, D)) <= Cardinality(D)
    BY <1>1, <1>2, FS_Surjection
  <1>4. Cardinality(FirstTries(k, D)) \in Nat
    BY <1>3, FS_CardinalityType
  <1>5. FirstTries(k, D) \in SUBSET Job
    BY Bounds DEF FirstTries, Job
  <1>6. /\ \A j \in FirstTries(k, D) : j.round = k
        /\ \A i, j \in FirstTries(k, D) : Slot(i) = Slot(j) => i = j
    BY DEF FirstTries, Slot
  <1> QED
    BY <1>2, <1>3, <1>4, <1>5, <1>6, Bounds

ClaimStep(h, p) ==
    /\ p \in Calls /\ work[h][p].pc = "claim" /\ msg.st = "pending"
    /\ msg'.st = "sending" /\ msg'.delivered = msg.delivered
    /\ round' = round + 1
    /\ \E D \in SUBSET Devices : Puts(h, p, Batch("send", round + 1, FirstTries(round + 1, D)))
    /\ UNCHANGED <<queue, prog, got, lost, hits, mixed, spent>>

LEMMA ClaimType ==
    ASSUME TypeInv, NEW h \in Hosts, NEW p \in Calls, Claim(h, p)
    PROVE  ClaimStep(h, p) /\ TypeInv'
  <1>1. PICK D \in SUBSET Devices :
           work' = [work EXCEPT ![h][p] = Batch("send", round + 1, FirstTries(round + 1, D))]
    BY DEF Claim, FirstTries
  <1> DEFINE S == FirstTries(round + 1, D)
             b == Batch("send", round + 1, S)
  <1>2. round + 1 \in Nat /\ "send" \in Phases /\ p \in Paths
    BY Paths3 DEF TypeInv, Types, Phases
  <1>3. S \in SUBSET Job /\ IsFiniteSet(S) /\ Cardinality(S) <= N
    BY <1>2, FirstTriesAre
  <1>4. Cardinality(S) \in Nat
    BY <1>3, FS_CardinalityType
  <1>5. /\ b \in BatchType /\ Sized(b)
        /\ b.pc = "send" /\ b.round = round + 1 /\ b.todo = S /\ b.jobs = 0
    <2> HIDE DEF S
    <2> QED
      BY <1>2, <1>3, BatchIs
  <1>6. BatchOK(p, b)
    <2> HIDE DEF S, b
    <2> QED
      BY <1>3, <1>4, <1>5, Paths3 DEF BatchOK
  <1>7. Puts(h, p, b) /\ WorkOK'
    <2> HIDE DEF b
    <2> QED
      BY <1>1, <1>2, <1>5, <1>6, PutBatch DEF b
  <1>8. /\ msg' \in [st : Statuses, delivered : Nat]
        /\ msg'.st = "sending" /\ msg'.delivered = msg.delivered
    BY DEF Claim, TypeInv, Types, Statuses
  <1>9. ClaimStep(h, p)
    BY <1>7, <1>8 DEF Claim, Claimable, ClaimStep
  <1>10. work' \in [Hosts -> [Paths -> BatchType]]
    BY <1>7 DEF Puts
  <1>11. Types'
    BY <1>2, <1>8, <1>10 DEF Claim, TypeInv, Types
  <1>12. QueueOK' /\ ProgOK'
    BY DEF Claim, TypeInv, QueueOK, ProgOK
  <1> QED
    BY <1>7, <1>9, <1>11, <1>12 DEF TypeInv

-----------------------------------------------------------------------------
LEMMA JobIs ==
    ASSUME NEW j \in Job
    PROVE  j.round \in Nat /\ j.dev \in Devices /\ Slot(j) = <<j.round, j.dev>>
  BY DEF Job, Slot

LEMMA SendType ==
    ASSUME TypeInv, NEW h \in Hosts, NEW p \in Paths, NEW j \in work[h][p].todo,
           NEW r \in Outcomes, Send(h, p, j, r)
    PROVE  /\ Puts(h, p, Answered(work[h][p], j, r))
           /\ j \in Job /\ work[h][p].pc = "send"
           /\ TypeInv'
  <1> DEFINE a == Answered(work[h][p], j, r)
  <1>1. /\ work[h][p] \in BatchType /\ BatchOK(p, work[h][p]) /\ work[h][p].pc = "send"
        /\ j \in Job
    BY Ready DEF Send
  <1>2. a \in BatchType /\ BatchOK(p, a)
    BY <1>1, AnsweredIs
  <1>3. work' = [work EXCEPT ![h][p] = a]
    BY DEF Send
  <1>4. Puts(h, p, a) /\ WorkOK'
    <2> HIDE DEF a
    <2> QED
      BY <1>2, <1>3, PutBatch
  <1>5. j.dev \in Devices /\ Slot(j) \in Nat \X Devices
    BY <1>1, JobIs
  <1>6. /\ got \in [Devices -> Nat] /\ lost \in [Devices -> Nat]
        /\ hits \in [Hosts -> SUBSET (Nat \X Devices)]
    BY DEF TypeInv, Types
  <1>7. got' \in [Devices -> Nat]
    BY <1>5, <1>6 DEF Send
  <1>8. lost' \in [Devices -> Nat]
    BY <1>5, <1>6 DEF Send
  <1>9. hits' \in [Hosts -> SUBSET (Nat \X Devices)]
    <2>1. CASE r = "ok"
      <3>1. hits' = [hits EXCEPT ![h] = @ \cup {Slot(j)}]
        BY <2>1 DEF Send
      <3>2. hits[h] \cup {Slot(j)} \in SUBSET (Nat \X Devices)
        BY <1>5, <1>6
      <3> QED
        BY <1>6, <3>1, <3>2
    <2>2. CASE r # "ok"
      BY <1>6, <2>2 DEF Send
    <2> QED
      BY <2>1, <2>2
  <1>10. work' \in [Hosts -> [Paths -> BatchType]]
    BY <1>4 DEF Puts
  <1>11. Types'
    BY <1>7, <1>8, <1>9, <1>10 DEF Send, TypeInv, Types
  <1>12. QueueOK' /\ ProgOK'
    BY DEF Send, TypeInv, QueueOK, ProgOK
  <1> QED
    BY <1>1, <1>4, <1>11, <1>12 DEF TypeInv

Requeued(Q) == {NextTry(j) : j \in Q}

LEMMA SettleType ==
    ASSUME TypeInv, NEW h \in Hosts, NEW p \in Paths, NEW Q \in SUBSET MayRetry(work[h][p]),
           Settle(h, p, Q)
    PROVE  /\ Puts(h, p, Settled(work[h][p], Q))
           /\ work[h][p].pc = "send" /\ work[h][p].todo = {}
           /\ queue' = [queue EXCEPT ![h] = @ \cup Requeued(Q)]
           /\ Requeued(Q) \subseteq Job /\ IsFiniteSet(Q) /\ Cardinality(Q) \in Nat
           /\ UNCHANGED <<msg, prog, histVars, spent>>
           /\ TypeInv'
  <1> DEFINE b == Settled(work[h][p], Q)
  <1>1. /\ work[h][p] \in BatchType /\ BatchOK(p, work[h][p])
        /\ work[h][p].pc = "send" /\ work[h][p].todo = {}
    BY Ready DEF Settle
  <1>2. b \in BatchType /\ BatchOK(p, b) /\ IsFiniteSet(Q) /\ Cardinality(Q) \in Nat
    BY <1>1, SettledIs
  <1>3. work' = [work EXCEPT ![h][p] = b]
    BY DEF Settle, Settled
  <1>4. Puts(h, p, b) /\ WorkOK'
    <2> HIDE DEF b
    <2> QED
      BY <1>2, <1>3, PutBatch
  <1>5. queue' = [queue EXCEPT ![h] = @ \cup Requeued(Q)]
    BY DEF Settle, Requeued
  <1>6. Requeued(Q) \subseteq Job
    <2>1. \A j \in Q : j \in Job /\ j.attempt < MaxAttempts
      BY <1>1 DEF MayRetry, BatchType
    <2> QED
      BY <2>1, NextTryIs DEF Requeued
  <1>7. UNCHANGED <<msg, prog, histVars, spent>>
    BY DEF Settle
  <1>8. /\ queue \in [Hosts -> SUBSET Job]
        /\ IsFiniteSet(queue[h]) /\ Cardinality(queue[h]) <= QueueCap
    BY DEF TypeInv, Types, QueueOK
  <1>9. queue' \in [Hosts -> SUBSET Job]
    BY <1>5, <1>6, <1>8
  <1>10. IsFiniteSet(queue'[h]) /\ Cardinality(queue'[h]) <= QueueCap
    <2>1. IsFiniteSet(Requeued(Q)) /\ Cardinality(Requeued(Q)) <= Cardinality(Q)
      BY <1>2, SizeOfImage DEF Requeued
    <2>2. queue'[h] = queue[h] \cup Requeued(Q)
      BY <1>5, <1>8
    <2>3. /\ IsFiniteSet(queue'[h])
          /\ Cardinality(queue'[h]) <= Cardinality(queue[h]) + Cardinality(Requeued(Q))
      BY <1>8, <2>1, <2>2, SizeOfUnion
    <2>4. /\ Cardinality(queue[h]) \in Nat /\ Cardinality(Requeued(Q)) \in Nat
          /\ Cardinality(queue'[h]) \in Nat
      BY <1>8, <2>1, <2>3, FS_CardinalityType
    <2> DEFINE m == Cardinality(MayRetry(work[h][p]))
    <2>5. m \in Nat
      <3>1. MayRetry(work[h][p]) \subseteq work[h][p].again /\ IsFiniteSet(work[h][p].again)
        BY Ready DEF MayRetry
      <3> QED
        BY <3>1, Sizes
    <2>6. Cardinality(Q) = IF m + Cardinality(queue[h]) <= QueueCap THEN m
                           ELSE QueueCap - Cardinality(queue[h])
      BY DEF Settle, Fitting
    <2> HIDE DEF m
    <2>7. Cardinality(queue[h]) + Cardinality(Q) <= QueueCap
      BY <1>2, <2>4, <2>5, <2>6, Bounds
    <2> QED
      BY <1>2, <2>1, <2>3, <2>4, <2>7, Bounds
  <1>11. QueueOK'
    BY <1>5, <1>8, <1>10 DEF TypeInv, QueueOK
  <1>12. work' \in [Hosts -> [Paths -> BatchType]]
    BY <1>4 DEF Puts
  <1>13. Types'
    BY <1>7, <1>9, <1>12 DEF TypeInv, Types, histVars
  <1>14. ProgOK'
    BY <1>7 DEF TypeInv, ProgOK
  <1> QED
    BY <1>1, <1>2, <1>4, <1>5, <1>6, <1>7, <1>11, <1>13, <1>14 DEF TypeInv

LEMMA FinishedIs ==
    ASSUME NEW n \in Nat
    PROVE  /\ Finished(n) \in [st : Statuses, delivered : Nat]
           /\ Finished(n).st \in {"sent", "failed"} /\ Finished(n).delivered = n
  <1>1. CASE n > 0
    BY <1>1 DEF Finished, Statuses, Ended
  <1>2. CASE ~(n > 0)
    BY <1>2 DEF Finished, Statuses, Ended
  <1> QED
    BY <1>1, <1>2

(* A call ends: its batch is gone, and its outcome is written, kept, or lost. *)
EndStep(h, p) ==
    /\ work[h][p].pc = "book" /\ Puts(h, p, NoBatch)
    /\ UNCHANGED <<queue, histVars>>

LEMMA RecordType ==
    ASSUME TypeInv, NEW h \in Hosts, NEW p \in Calls, RecordCall(h, p)
    PROVE  EndStep(h, p) /\ spent' = spent /\ TypeInv'
  <1> DEFINE b == work[h][p]
  <1>1. p \in Paths
    BY Paths3
  <1>2. /\ b.retrying \in Nat /\ b.delivered \in Nat /\ b.jobs \in Nat
        /\ b.retrying <= b.jobs /\ b.jobs + Cardinality(b.todo) <= N /\ Cardinality(b.todo) \in Nat
    BY <1>1, Ready DEF BatchOK
  <1>3. Puts(h, p, NoBatch) /\ WorkOK'
    BY <1>1, NoBatchIs, PutBatch DEF RecordCall
  <1>4. work' \in [Hosts -> [Paths -> BatchType]]
    BY <1>3 DEF Puts
  <1>5. EndStep(h, p) /\ spent' = spent /\ UNCHANGED <<queue, histVars, spent>>
    BY <1>3 DEF RecordCall, EndStep
  <1>6. msg' \in [st : Statuses, delivered : Nat]
    BY <1>2, FinishedIs DEF RecordCall, TypeInv, Types
  <1> DEFINE e == [delivered |-> b.delivered, outstanding |-> b.retrying]
  <1>7. UNCHANGED prog \/ (b.retrying > 0 /\ prog' = [prog EXCEPT ![h] = e])
    BY DEF RecordCall
  <1>8. prog' \in [Hosts -> [delivered : Nat, outstanding : Nat]]
    <2>1. e \in [delivered : Nat, outstanding : Nat]
      BY <1>2
    <2>2. prog \in [Hosts -> [delivered : Nat, outstanding : Nat]]
      BY DEF TypeInv, Types
    <2> HIDE DEF e
    <2> QED
      BY <1>7, <2>1, <2>2
  <1>9. ProgOK'
    BY <1>2, <1>7, Bounds DEF TypeInv, Types, ProgOK
  <1>10. Types'
    BY <1>4, <1>5, <1>6, <1>8 DEF TypeInv, Types, histVars
  <1>11. QueueOK'
    BY <1>5 DEF TypeInv, QueueOK
  <1> QED
    BY <1>3, <1>5, <1>9, <1>10, <1>11 DEF TypeInv

LEMMA FinishFailsType ==
    ASSUME TypeInv, NEW h \in Hosts, NEW p \in Calls, FinishFails(h, p)
    PROVE  EndStep(h, p) /\ UNCHANGED <<msg, prog>> /\ spent' = spent + 1 /\ TypeInv'
  <1>1. p \in Paths
    BY Paths3
  <1>2. Puts(h, p, NoBatch) /\ WorkOK'
    BY <1>1, NoBatchIs, PutBatch DEF FinishFails
  <1>3. work' \in [Hosts -> [Paths -> BatchType]]
    BY <1>2 DEF Puts
  <1>4. EndStep(h, p) /\ UNCHANGED <<msg, prog>> /\ spent' = spent + 1
    BY <1>2 DEF FinishFails, EndStep, Fault
  <1>5. Types'
    BY <1>3, <1>4 DEF FinishFails, TypeInv, Types, histVars
  <1>6. QueueOK' /\ ProgOK'
    BY DEF FinishFails, TypeInv, QueueOK, ProgOK
  <1> QED
    BY <1>2, <1>4, <1>5, <1>6 DEF TypeInv

-----------------------------------------------------------------------------
LEMMA TakeType ==
    ASSUME TypeInv, NEW h \in Hosts, NEW D \in SUBSET queue[h], Take(h, D), spent' \in Nat
    PROVE  /\ Puts(h, "tick", Batch("send", 0, D))
           /\ queue' = [queue EXCEPT ![h] = @ \ D]
           /\ work[h]["tick"].pc = "idle" /\ work[h]["sweep"].pc = "idle"
           /\ IsFiniteSet(D) /\ D \subseteq Job
           /\ UNCHANGED <<msg, prog, round, got, lost, hits>>
           /\ TypeInv'
  <1>1. /\ queue \in [Hosts -> SUBSET Job]
        /\ IsFiniteSet(queue[h]) /\ Cardinality(queue[h]) <= QueueCap
    BY DEF TypeInv, Types, QueueOK
  <1>2. D \in SUBSET Job /\ IsFiniteSet(D)
    BY <1>1, Sizes
  <1> DEFINE b == Batch("send", 0, D)
  <1>3. b \in BatchType /\ BatchOK("tick", b)
    BY <1>2, BatchIs, Paths3 DEF Phases, BatchOK
  <1>4. Puts(h, "tick", b) /\ WorkOK'
    <2>1. "tick" \in Paths /\ work' = [work EXCEPT ![h]["tick"] = b]
      BY Paths3 DEF Take
    <2> HIDE DEF b
    <2> QED
      BY <1>3, <2>1, PutBatch
  <1>5. queue' = [queue EXCEPT ![h] = @ \ D] /\ UNCHANGED <<msg, prog, round, got, lost, hits>>
    BY DEF Take
  <1>6. work[h]["tick"].pc = "idle" /\ work[h]["sweep"].pc = "idle"
    BY DEF Take, Ticking
  <1>7. IsFiniteSet(queue[h] \ D) /\ Cardinality(queue[h] \ D) <= QueueCap
    <2>1. /\ IsFiniteSet(queue[h] \ D) /\ Cardinality(queue[h] \ D) \in Nat
          /\ Cardinality(queue[h] \ D) <= Cardinality(queue[h]) /\ Cardinality(queue[h]) \in Nat
      BY <1>1, Sizes
    <2> QED
      BY <1>1, <2>1, Bounds
  <1>8. QueueOK'
    BY <1>1, <1>5, <1>7 DEF TypeInv, QueueOK
  <1>9. work' \in [Hosts -> [Paths -> BatchType]]
    BY <1>4 DEF Puts
  <1>10. Types'
    BY <1>1, <1>5, <1>9 DEF TypeInv, Types
  <1>11. ProgOK'
    BY <1>5 DEF TypeInv, ProgOK
  <1> QED
    BY <1>2, <1>4, <1>5, <1>6, <1>8, <1>10, <1>11 DEF TypeInv

(* What the tick leaves: nothing to account to, an entry that waits on, or no entry. *)
ResolveStep(h) ==
    LET t == work[h]["tick"]
        left == StillOut(prog[h], t)
        n == prog[h].delivered + t.delivered
    IN
    /\ t.pc = "book" /\ Puts(h, "tick", NoBatch)
    /\ UNCHANGED <<queue, histVars>>
    /\ \/ prog[h] = None /\ UNCHANGED <<msg, prog, spent>>
       \/ /\ left > 0 /\ UNCHANGED <<msg, spent>>
          /\ prog' = [prog EXCEPT ![h] = [delivered |-> n, outstanding |-> left]]
       \/ /\ left = 0 /\ prog[h] # None
          /\ prog' = [prog EXCEPT ![h] = None]
          /\ (msg' = Finished(n) /\ UNCHANGED spent) \/ (spent' = spent + 1 /\ UNCHANGED msg)

LEMMA StillOutIs ==
    ASSUME NEW o \in Nat, NEW d \in Nat, NEW t \in BatchType, t.retrying <= t.jobs
    PROVE  LET e == [delivered |-> d, outstanding |-> o]
               left == StillOut(e, t) IN
           /\ left \in Nat /\ left <= o
           /\ left = 0 => o + t.retrying <= t.jobs
           /\ left > 0 => left = o + t.retrying - t.jobs
  <1>1. t.jobs \in Nat /\ t.retrying \in Nat
    BY DEF BatchType
  <1> QED
    BY <1>1 DEF StillOut

LEMMA ProgIs ==
    ASSUME TypeInv, NEW h \in Hosts
    PROVE  /\ prog[h].delivered \in Nat /\ prog[h].outstanding \in Nat
           /\ prog[h] = [delivered |-> prog[h].delivered, outstanding |-> prog[h].outstanding]
           /\ prog[h].outstanding <= N
           /\ prog[h] # None <=> prog[h].outstanding > 0
  <1>1. prog[h] \in [delivered : Nat, outstanding : Nat]
    BY DEF TypeInv, Types
  <1>2. prog[h].outstanding <= N /\ (prog[h] # None => prog[h].outstanding > 0)
    BY DEF TypeInv, ProgOK
  <1>3. prog[h].outstanding > 0 => prog[h] # None
    BY DEF None
  <1> QED
    BY <1>1, <1>2, <1>3

LEMMA ResolveType ==
    ASSUME TypeInv, NEW h \in Hosts, Resolve(h)
    PROVE  ResolveStep(h) /\ TypeInv'
  <1> DEFINE t == work[h]["tick"]
             left == StillOut(prog[h], t)
             n == prog[h].delivered + t.delivered
  <1>1. /\ "tick" \in Paths /\ t \in BatchType /\ t.retrying <= t.jobs /\ t.delivered \in Nat
    BY Ready, Paths3
  <1>2. left \in Nat /\ left <= prog[h].outstanding /\ n \in Nat
    <2>1. \A o, d \in Nat : prog[h] = [delivered |-> d, outstanding |-> o] => left \in Nat /\ left <= o
      BY <1>1, StillOutIs
    <2>2. /\ prog[h].delivered \in Nat /\ prog[h].outstanding \in Nat
          /\ prog[h] = [delivered |-> prog[h].delivered, outstanding |-> prog[h].outstanding]
      BY ProgIs
    <2>3. n \in Nat
      BY <1>1, <2>2
    <2> HIDE DEF left
    <2>4. left \in Nat /\ left <= prog[h].outstanding
      BY <2>1, <2>2, Zenon
    <2> QED
      BY <2>3, <2>4
  <1>3. Puts(h, "tick", NoBatch) /\ WorkOK'
    BY <1>1, NoBatchIs, PutBatch DEF Resolve
  <1>4. ResolveStep(h)
    BY <1>3 DEF Resolve, ResolveStep, Fault
  <1>5. work' \in [Hosts -> [Paths -> BatchType]]
    BY <1>3 DEF Puts
  <1> DEFINE e == [delivered |-> n, outstanding |-> left]
  <1>6. /\ e \in [delivered : Nat, outstanding : Nat] /\ e.outstanding = left
        /\ None \in [delivered : Nat, outstanding : Nat] /\ None.outstanding = 0
    BY <1>2 DEF None
  <1>7. prog' = prog \/ prog' = [prog EXCEPT ![h] = None]
          \/ (left > 0 /\ prog' = [prog EXCEPT ![h] = e])
    BY DEF Resolve
  <1>8. prog \in [Hosts -> [delivered : Nat, outstanding : Nat]]
    BY DEF TypeInv, Types
  <1>9. prog' \in [Hosts -> [delivered : Nat, outstanding : Nat]]
    <2> HIDE DEF e
    <2> QED
      BY <1>6, <1>7, <1>8
  <1>10. ProgOK'
    <2>1. \A g \in Hosts : prog[g].outstanding <= N /\ (prog[g] # None => prog[g].outstanding > 0)
      BY DEF TypeInv, ProgOK
    <2>2. prog[h].outstanding \in Nat /\ N \in Nat
      BY ProgIs, Bounds
    <2>3. \A g \in Hosts : \/ prog'[g] = prog[g] \/ prog'[g] = None
                           \/ g = h /\ prog'[g] = e /\ left > 0
      <3> HIDE DEF e, left
      <3> QED
        BY <1>7, <1>8
    <2> HIDE DEF e, left
    <2> QED
      BY <1>2, <1>6, <2>1, <2>2, <2>3 DEF ProgOK
  <1>11. msg' \in [st : Statuses, delivered : Nat]
    <2>1. msg' = msg \/ msg' = Finished(n)
      BY DEF Resolve
    <2> QED
      BY <1>2, <2>1, FinishedIs DEF TypeInv, Types
  <1>12. spent' \in Nat
    BY <1>4 DEF ResolveStep, TypeInv, Types
  <1>13. UNCHANGED <<queue, round, got, lost, hits>>
    BY DEF Resolve, histVars
  <1>14. Types'
    BY <1>5, <1>9, <1>11, <1>12, <1>13 DEF TypeInv, Types
  <1>15. QueueOK'
    BY <1>13 DEF TypeInv, QueueOK
  <1> QED
    BY <1>3, <1>4, <1>10, <1>14, <1>15 DEF TypeInv

LEMMA TurnedOffType ==
    ASSUME TypeInv, NEW h \in Hosts, TurnedOff(h)
    PROVE  /\ queue' = [queue EXCEPT ![h] = {}] /\ spent' = spent + 1
           /\ UNCHANGED <<msg, work, prog, histVars>>
           /\ TypeInv'
  <1>1. /\ queue' = [queue EXCEPT ![h] = {}] /\ spent' = spent + 1
        /\ UNCHANGED <<msg, work, prog, histVars>>
    BY DEF TurnedOff, Fault
  <1>2. queue \in [Hosts -> SUBSET Job]
    BY DEF TypeInv, Types
  <1>3. Types'
    BY <1>1, <1>2 DEF TypeInv, Types, histVars
  <1>4. QueueOK'
    BY <1>1, <1>2, NothingIsSmall, Bounds DEF TypeInv, QueueOK
  <1>5. WorkOK' /\ ProgOK'
    BY <1>1 DEF TypeInv, WorkOK, ProgOK
  <1> QED
    BY <1>1, <1>3, <1>4, <1>5 DEF TypeInv

LEMMA CrashType ==
    ASSUME TypeInv, NEW h \in Hosts, Crash(h)
    PROVE  /\ \A p \in Paths : work'[h][p] = NoBatch
           /\ \A g \in Hosts : g # h => work'[g] = work[g]
           /\ work' \in [Hosts -> [Paths -> BatchType]]
           /\ queue' = [queue EXCEPT ![h] = {}] /\ prog' = [prog EXCEPT ![h] = None]
           /\ spent' = spent + 1
           /\ UNCHANGED <<msg, histVars>>
           /\ TypeInv'
  <1>1. /\ queue' = [queue EXCEPT ![h] = {}] /\ prog' = [prog EXCEPT ![h] = None]
        /\ spent' = spent + 1
        /\ UNCHANGED <<msg, histVars>>
    BY DEF Crash, Fault
  <1>2. /\ queue \in [Hosts -> SUBSET Job] /\ prog \in [Hosts -> [delivered : Nat, outstanding : Nat]]
        /\ work \in [Hosts -> [Paths -> BatchType]]
    BY DEF TypeInv, Types
  <1> DEFINE w == [p \in Paths |-> NoBatch]
  <1>3. work' = [work EXCEPT ![h] = w] /\ w \in [Paths -> BatchType] /\ \A p \in Paths : w[p] = NoBatch
    BY NoBatchIs DEF Crash
  <1>4. /\ work' \in [Hosts -> [Paths -> BatchType]]
        /\ work'[h] = w /\ \A g \in Hosts : g # h => work'[g] = work[g]
    <2> HIDE DEF w
    <2> QED
      BY <1>2, <1>3
  <1>5. WorkOK'
    <2> HIDE DEF w
    <2> QED
      BY <1>3, <1>4, NoBatchIs DEF TypeInv, WorkOK
  <1>6. None \in [delivered : Nat, outstanding : Nat] /\ None.outstanding = 0
    BY DEF None
  <1>7. prog' \in [Hosts -> [delivered : Nat, outstanding : Nat]]
    BY <1>1, <1>2, <1>6
  <1>8. Types'
    BY <1>1, <1>2, <1>4, <1>7 DEF TypeInv, Types, histVars
  <1>9. QueueOK'
    BY <1>1, <1>2, NothingIsSmall, Bounds DEF TypeInv, QueueOK
  <1>10. ProgOK'
    BY <1>1, <1>2, <1>6, Bounds DEF TypeInv, ProgOK
  <1> QED
    BY <1>1, <1>3, <1>4, <1>5, <1>8, <1>9, <1>10 DEF TypeInv

-----------------------------------------------------------------------------
(* The sends that are out: one for a claim and a device, and none acknowledged. *)

LEMMA AtPath ==
    ASSUME NEW h, NEW p \in Paths
    PROVE  /\ At(h, p) = work[h][p].todo \cup work[h][p].again
           /\ At(h, "queue") = queue[h]
           /\ At(h, p)' = work'[h][p].todo \cup work'[h][p].again
           /\ At(h, "queue")' = queue'[h]
  BY Paths3 DEF At

LEMMA PlacesAre == \A x \in Places : x = "queue" \/ x \in Paths
  BY DEF Places

(* Sends leave, *)
LEMMA SlotsDrop ==
    ASSUME SlotInv,
           \A g \in Hosts, p \in Paths :
               work'[g][p] = work[g][p] \/ (work'[g][p].todo = {} /\ work'[g][p].again = {}),
           \A g \in Hosts : queue'[g] \subseteq queue[g],
           round' = round, hits' = hits
    PROVE  SlotInv'
  <1>1. ASSUME NEW g \in Hosts, NEW x \in Places PROVE At(g, x)' \subseteq At(g, x)
    BY PlacesAre DEF At
  <1>2. Unique'
    BY <1>1 DEF SlotInv, Unique
  <1>3. Open'
    BY <1>1 DEF SlotInv, Open
  <1>4. Parted'
    BY DEF SlotInv, Parted
  <1>5. Hit'
    BY DEF SlotInv, Hit
  <1>6. OwnRound'
    <2> SUFFICES ASSUME NEW g \in Hosts, NEW p \in Calls, NEW j \in At(g, p)'
                 PROVE  j.round = work'[g][p].round
      BY DEF OwnRound
    <2>1. p \in Paths
      BY Paths3
    <2>2. work'[g][p] = work[g][p] /\ j \in At(g, p)
      BY <2>1, AtPath
    <2> QED
      BY <2>2 DEF SlotInv, OwnRound
  <1> QED
    BY <1>2, <1>3, <1>4, <1>5, <1>6 DEF SlotInv

(* or move from one place of a host to another. *)
LEMMA SlotsMoved ==
    ASSUME SlotInv, NEW h \in Hosts, NEW x \in Places, NEW y \in Places, x # y,
           \A g \in Hosts, z \in Places : g # h \/ z # x => At(g, z)' \subseteq At(g, z),
           \A j \in At(h, x)' : \/ j \in At(h, x)
                                \/ \E i \in At(h, y) : /\ i \notin At(h, y)'
                                                       /\ Slot(i) = Slot(j) /\ i.round = j.round,
           \A i, j \in At(h, x)' : Slot(i) = Slot(j) => i = j,
           round' = round, hits' = hits
    PROVE  Unique' /\ Open' /\ Hit'
  <1>1. ASSUME NEW g \in Hosts, NEW z \in Places, NEW j \in At(g, z)'
        PROVE  \E y0 \in Places : \E i \in At(g, y0) :
                   /\ Slot(i) = Slot(j) /\ i.round = j.round
                   /\ \/ y0 = z /\ i = j
                      \/ g = h /\ z = x /\ y0 = y /\ i \notin At(h, y)'
    <2>1. CASE g # h \/ z # x
      <3>1. j \in At(g, z)
        BY <2>1
      <3> QED
        BY <3>1
    <2>2. CASE g = h /\ z = x
      <3>1. CASE j \in At(h, x)
        BY <2>2, <3>1
      <3>2. CASE j \notin At(h, x)
        <4>1. PICK i \in At(h, y) : /\ i \notin At(h, y)' /\ Slot(i) = Slot(j) /\ i.round = j.round
          BY <2>2, <3>2
        <4> QED
          BY <2>2, <4>1
      <3> QED
        BY <3>1, <3>2
    <2> QED
      BY <2>1, <2>2
  <1>2. Unique'
    <2> SUFFICES ASSUME NEW f \in Hosts, NEW g \in Hosts, NEW u \in Places, NEW v \in Places,
                        NEW i \in At(f, u)', NEW j \in At(g, v)', Slot(i) = Slot(j)
                 PROVE  f = g /\ u = v /\ i = j
      BY DEF Unique, Slot
    <2>1. PICK u0, i0 :
             /\ u0 \in Places /\ i0 \in At(f, u0)
             /\ Slot(i0) = Slot(i)
             /\ \/ u0 = u /\ i0 = i
                \/ f = h /\ u = x /\ u0 = y /\ i0 \notin At(h, y)'
      BY <1>1
    <2>2. PICK v0, j0 :
             /\ v0 \in Places /\ j0 \in At(g, v0)
             /\ Slot(j0) = Slot(j)
             /\ \/ v0 = v /\ j0 = j
                \/ g = h /\ v = x /\ v0 = y /\ j0 \notin At(h, y)'
      BY <1>1
    <2>3. f = g /\ u0 = v0 /\ i0 = j0
      BY <2>1, <2>2 DEF SlotInv, Unique
    <2> QED
      BY <2>1, <2>2, <2>3
  <1>3. Open'
    <2> SUFFICES ASSUME NEW f \in Hosts, NEW g \in Hosts, NEW z \in Places, NEW j \in At(f, z)'
                 PROVE  j.round \in 1 .. round /\ Slot(j) \notin hits[g]
      BY DEF Open, Slot
    <2>1. PICK z0, i : z0 \in Places /\ i \in At(f, z0) /\ Slot(i) = Slot(j) /\ i.round = j.round
      BY <1>1
    <2> QED
      BY <2>1 DEF SlotInv, Open
  <1>4. Hit'
    BY DEF SlotInv, Hit
  <1> QED
    BY <1>2, <1>3, <1>4

LEMMA InitSlots == Init => SlotInv
  <1> SUFFICES ASSUME Init PROVE SlotInv
    OBVIOUS
  <1>1. \A h \in Hosts, x \in Places : At(h, x) = {}
    BY PlacesAre, NoBatchIs DEF Init, At
  <1>2. Unique /\ Open /\ OwnRound
    BY <1>1, Paths3 DEF Unique, Open, OwnRound
  <1>3. Parted
    BY NoBatchIs DEF Init, Parted
  <1>4. Hit
    BY DEF Init, Hit
  <1> QED
    BY <1>2, <1>3, <1>4 DEF SlotInv

LEMMA RowSlots == ASSUME SlotInv, RowStep PROVE SlotInv'
  BY SlotsDrop DEF RowStep

LEMMA QuietSlots ==
    ASSUME TypeInv, SlotInv, NEW h \in Hosts, NEW p, QuietStep(h, p)
    PROVE  SlotInv'
  <1>1. TypeInv' /\ p \in Paths
    BY QuietType, Paths3 DEF QuietStep
  <1>2. PICK b \in BatchType : Puts(h, p, b) /\ b.pc \in {"idle", "claim"}
    BY DEF QuietStep
  <1>3. BatchOK(p, b)
    BY <1>1, <1>2 DEF TypeInv, WorkOK, Puts
  <1>4. b.todo = {} /\ b.again = {}
    BY <1>2, <1>3 DEF BatchOK, Sized
  <1>5. round' = round /\ hits' = hits /\ queue' = queue
    BY DEF QuietStep, histVars
  <1> QED
    BY <1>2, <1>4, <1>5, SlotsDrop DEF Puts

LEMMA EndSlots ==
    ASSUME SlotInv, NEW h \in Hosts, NEW p \in Paths, EndStep(h, p)
    PROVE  SlotInv'
  <1>1. round' = round /\ hits' = hits /\ queue' = queue
    BY DEF EndStep, histVars
  <1> QED
    BY <1>1, NoBatchIs, SlotsDrop DEF EndStep, Puts

LEMMA ResolveEnds ==
    ASSUME NEW h \in Hosts, ResolveStep(h)
    PROVE  EndStep(h, "tick")
  BY DEF ResolveStep, EndStep

LEMMA TurnedOffSlots ==
    ASSUME TypeInv, SlotInv, NEW h \in Hosts, TurnedOff(h)
    PROVE  SlotInv'
  <1>1. /\ queue' = [queue EXCEPT ![h] = {}] /\ work' = work /\ round' = round /\ hits' = hits
    BY TurnedOffType DEF histVars
  <1> QED
    BY <1>1, SlotsDrop DEF TypeInv, Types

LEMMA CrashSlots ==
    ASSUME TypeInv, SlotInv, NEW h \in Hosts, Crash(h)
    PROVE  SlotInv'
  <1>1. /\ queue' = [queue EXCEPT ![h] = {}] /\ round' = round /\ hits' = hits
        /\ \A p \in Paths : work'[h][p] = NoBatch
        /\ \A g \in Hosts : g # h => work'[g] = work[g]
    BY CrashType DEF histVars
  <1> QED
    BY <1>1, NoBatchIs, SlotsDrop DEF TypeInv, Types

LEMMA ClaimSlots ==
    ASSUME TypeInv, SlotInv, NEW h \in Hosts, NEW p \in Calls, Claim(h, p)
    PROVE  SlotInv'
  <1>1. ClaimStep(h, p) /\ p \in Paths /\ p \in Places
    BY ClaimType, Paths3
  <1>2. PICK D \in SUBSET Devices : Puts(h, p, Batch("send", round + 1, FirstTries(round + 1, D)))
    BY <1>1 DEF ClaimStep
  <1> DEFINE S == FirstTries(round + 1, D)
             b == Batch("send", round + 1, S)
  <1>3. round \in Nat /\ round + 1 \in Nat /\ "send" \in Phases
    BY DEF TypeInv, Types, Phases
  <1>4. /\ S \in SUBSET Job
        /\ \A j \in S : j.round = round + 1
        /\ \A i, j \in S : Slot(i) = Slot(j) => i = j
    BY <1>3, FirstTriesAre
  <1>5. b.todo = S /\ b.again = {} /\ b.round = round + 1
    <2> HIDE DEF S
    <2> QED
      BY <1>3, <1>4, BatchIs
  <1>6. Puts(h, p, b) /\ round' = round + 1 /\ hits' = hits /\ queue' = queue
    BY <1>1, <1>2 DEF ClaimStep
  <1> HIDE DEF S, b
  <1>7. At(h, p)' = S
    <2>1. work'[h][p].todo = S /\ work'[h][p].again = {}
      BY <1>5, <1>6 DEF Puts
    <2>2. At(h, p)' = work'[h][p].todo \cup work'[h][p].again
      BY <1>1, AtPath
    <2> QED
      BY <2>1, <2>2
  <1>8. ASSUME NEW g \in Hosts, NEW x \in Places, g # h \/ x # p
        PROVE  At(g, x)' = At(g, x)
    BY <1>6, <1>8, PlacesAre DEF At, Puts
  <1>9. ASSUME NEW g \in Hosts, NEW x \in Places, NEW j \in At(g, x)
        PROVE  /\ j.round \in 1 .. round
               /\ \A i \in S : i.round # j.round /\ Slot(i) # Slot(j)
    <2>1. j.round \in 1 .. round
      BY <1>9 DEF SlotInv, Open
    <2>2. \A i \in S : i.round = round + 1
      BY <1>4
    <2>3. \A i \in S : i.round # j.round
      BY <2>1, <2>2, <1>3
    <2> QED
      BY <2>1, <2>3 DEF Slot
  <1>10. Unique'
    <2> SUFFICES ASSUME NEW f \in Hosts, NEW g \in Hosts, NEW u \in Places, NEW v \in Places,
                        NEW i \in At(f, u)', NEW j \in At(g, v)', Slot(i) = Slot(j)
                 PROVE  f = g /\ u = v /\ i = j
      BY DEF Unique, Slot
    <2>1. CASE f = h /\ u = p /\ g = h /\ v = p
      BY <1>4, <1>7, <2>1
    <2>2. CASE (f # h \/ u # p) /\ (g # h \/ v # p)
      BY <1>8, <2>2 DEF SlotInv, Unique
    <2>3. CASE (f # h \/ u # p) /\ g = h /\ v = p
      BY <1>7, <1>8, <1>9, <2>3
    <2>4. CASE f = h /\ u = p /\ (g # h \/ v # p)
      BY <1>7, <1>8, <1>9, <2>4
    <2> QED
      BY <2>1, <2>2, <2>3, <2>4
  <1>11. Open'
    <2> SUFFICES ASSUME NEW f \in Hosts, NEW g \in Hosts, NEW x \in Places, NEW j \in At(f, x)'
                 PROVE  j.round \in 1 .. round' /\ Slot(j) \notin hits[g]
      BY <1>6 DEF Open, Slot
    <2>1. CASE f = h /\ x = p
      <3>1. j \in S /\ j.round = round + 1 /\ Slot(j) = <<round + 1, j.dev>>
        BY <2>1, <1>4, <1>7 DEF Slot
      <3>2. hits[g] \subseteq (1 .. round) \X Devices
        BY DEF SlotInv, Hit
      <3> QED
        BY <3>1, <3>2, <1>3, <1>6
    <2>2. CASE f # h \/ x # p
      BY <2>2, <1>3, <1>6, <1>8 DEF SlotInv, Open
    <2> QED
      BY <2>1, <2>2
  <1>12. Parted'
    BY <1>5, <1>6 DEF SlotInv, Parted, Puts
  <1>13. Hit'
    <2>1. 1 .. round \subseteq 1 .. round'
      BY <1>3, <1>6
    <2> QED
      BY <2>1, <1>6 DEF SlotInv, Hit
  <1>14. OwnRound'
    <2> SUFFICES ASSUME NEW g \in Hosts, NEW q \in Calls, NEW j \in At(g, q)'
                 PROVE  j.round = work'[g][q].round
      BY DEF OwnRound
    <2>1. q \in Paths /\ q \in Places
      BY Paths3
    <2>2. CASE g = h /\ q = p
      BY <2>2, <1>4, <1>5, <1>6, <1>7 DEF Puts
    <2>3. CASE g # h \/ q # p
      BY <2>1, <2>3, <1>6, <1>8 DEF Puts, SlotInv, OwnRound
    <2> QED
      BY <2>2, <2>3
  <1> QED
    BY <1>10, <1>11, <1>12, <1>13, <1>14 DEF SlotInv

(* A send that is not acknowledged yet is answered. *)
LEMMA SendFacts ==
    ASSUME TypeInv, SlotInv, NEW h \in Hosts, NEW p \in Paths, NEW j \in work[h][p].todo,
           NEW r \in Outcomes, Send(h, p, j, r)
    PROVE  /\ j \in Job /\ j \in At(h, p) /\ j.round \in 1 .. round /\ j.dev \in Devices
           /\ Slot(j) = <<j.round, j.dev>> /\ \A g \in Hosts : Slot(j) \notin hits[g]
           /\ work'[h][p].pc = "send" /\ work'[h][p].round = work[h][p].round
           /\ work'[h][p].todo = work[h][p].todo \ {j}
           /\ work'[h][p].again \subseteq work[h][p].again \cup {j}
           /\ r = "ok" => work'[h][p].again = work[h][p].again
           /\ work'[h][p].jobs = work[h][p].jobs + 1 /\ work'[h][p].retrying = 0
           /\ work'[h][p].delivered = IF r = "ok" THEN work[h][p].delivered + 1 ELSE work[h][p].delivered
           /\ Cardinality(work'[h][p].todo) = Cardinality(work[h][p].todo) - 1
           /\ At(h, p)' \subseteq At(h, p)
           /\ r = "ok" => j \notin At(h, p)'
           /\ \A g \in Hosts, x \in Places : g # h \/ x # p => At(g, x)' = At(g, x)
           /\ hits' = IF r = "ok" THEN [hits EXCEPT ![h] = @ \cup {Slot(j)}] ELSE hits
           /\ \A g \in Hosts, q \in Paths : g # h \/ q # p => work'[g][q] = work[g][q]
           /\ UNCHANGED <<msg, queue, prog, round, mixed, spent>>
  <1> DEFINE a == Answered(work[h][p], j, r)
  <1>1. Puts(h, p, a) /\ j \in Job /\ work[h][p].pc = "send"
    BY SendType
  <1>2. work[h][p] \in BatchType /\ BatchOK(p, work[h][p])
    BY Ready
  <1>3. /\ a.pc = "send" /\ a.round = work[h][p].round /\ a.todo = work[h][p].todo \ {j}
        /\ a.again \subseteq work[h][p].again \cup {j}
        /\ r \in {"ok", "no"} => a.again = work[h][p].again
        /\ a.jobs = work[h][p].jobs + 1 /\ a.retrying = 0
        /\ a.delivered = IF r = "ok" THEN work[h][p].delivered + 1 ELSE work[h][p].delivered
        /\ Cardinality(a.todo) = Cardinality(work[h][p].todo) - 1
    BY <1>1, <1>2, AnsweredIs
  <1>4. work'[h][p] = a
    BY <1>1 DEF Puts
  <1> HIDE DEF a
  <1>5. j \in At(h, p) /\ p \in Places
    BY AtPath, Paths3
  <1>6. j.round \in 1 .. round /\ \A g \in Hosts : Slot(j) \notin hits[g]
    BY <1>5 DEF SlotInv, Open
  <1>7. j.dev \in Devices /\ Slot(j) = <<j.round, j.dev>>
    BY <1>1, JobIs
  <1>8. UNCHANGED <<msg, queue, prog, round, mixed, spent>>
    BY DEF Send
  <1>9. \A g \in Hosts, q \in Paths : g # h \/ q # p => work'[g][q] = work[g][q]
    BY <1>1 DEF Puts
  <1>10. \A g \in Hosts, x \in Places : g # h \/ x # p => At(g, x)' = At(g, x)
    BY <1>8, <1>9, PlacesAre DEF At
  <1>11. At(h, p)' \subseteq At(h, p)
    BY <1>3, <1>4, AtPath
  <1>12. r = "ok" => j \notin At(h, p)'
    <2>1. j \notin work[h][p].again
      BY DEF SlotInv, Parted
    <2> QED
      BY <2>1, <1>3, <1>4, AtPath
  <1>13. hits' = IF r = "ok" THEN [hits EXCEPT ![h] = @ \cup {Slot(j)}] ELSE hits
    BY DEF Send
  <1> QED
    BY <1>1, <1>3, <1>4, <1>5, <1>6, <1>7, <1>8, <1>9, <1>10, <1>11, <1>12, <1>13

LEMMA SendSlots ==
    ASSUME TypeInv, SlotInv, NEW h \in Hosts, NEW p \in Paths, NEW j \in work[h][p].todo,
           NEW r \in Outcomes, Send(h, p, j, r)
    PROVE  SlotInv'
  <1>1. /\ j \in At(h, p) /\ j.round \in 1 .. round /\ j.dev \in Devices
        /\ Slot(j) = <<j.round, j.dev>> /\ p \in Places
        /\ round' = round
    BY SendFacts, Paths3
  <1>2. /\ At(h, p)' \subseteq At(h, p) /\ (r = "ok" => j \notin At(h, p)')
        /\ \A g \in Hosts, x \in Places : g # h \/ x # p => At(g, x)' = At(g, x)
    BY SendFacts
  <1>3. /\ hits' = IF r = "ok" THEN [hits EXCEPT ![h] = @ \cup {Slot(j)}] ELSE hits
        /\ hits \in [Hosts -> SUBSET (Nat \X Devices)]
    BY SendFacts DEF TypeInv, Types
  <1>4. \A g \in Hosts, x \in Places : At(g, x)' \subseteq At(g, x)
    BY <1>2
  <1>5. Unique'
    BY <1>4 DEF SlotInv, Unique
  <1>6. ASSUME NEW g \in Hosts
        PROVE  hits'[g] = hits[g] \/ (r = "ok" /\ hits'[g] = hits[g] \cup {Slot(j)})
    BY <1>3
  <1>7. Open'
    <2> SUFFICES ASSUME NEW f \in Hosts, NEW g \in Hosts, NEW x \in Places, NEW i \in At(f, x)'
                 PROVE  i.round \in 1 .. round /\ Slot(i) \notin hits'[g]
      BY <1>1 DEF Open, Slot
    <2>1. i \in At(f, x)
      BY <1>4
    <2>2. i.round \in 1 .. round /\ Slot(i) \notin hits[g]
      BY <2>1 DEF SlotInv, Open
    <2>3. ASSUME r = "ok", Slot(i) = Slot(j) PROVE FALSE
      <3>1. f = h /\ x = p /\ i = j
        BY <1>1, <2>1, <2>3 DEF SlotInv, Unique
      <3> QED
        BY <1>2, <2>3, <3>1
    <2> QED
      BY <1>6, <2>2, <2>3
  <1>8. Parted'
    <2> SUFFICES ASSUME NEW g \in Hosts, NEW q \in Paths
                 PROVE  work'[g][q].todo \cap work'[g][q].again = {}
      BY DEF Parted
    <2>1. work[g][q].todo \cap work[g][q].again = {}
      BY DEF SlotInv, Parted
    <2>2. CASE g # h \/ q # p
      <3>1. work'[g][q] = work[g][q]
        BY <2>2, SendFacts
      <3> QED
        BY <2>1, <3>1
    <2>3. CASE g = h /\ q = p
      <3>1. /\ work'[h][p].todo = work[h][p].todo \ {j}
            /\ work'[h][p].again \subseteq work[h][p].again \cup {j}
        BY SendFacts
      <3> QED
        BY <2>1, <2>3, <3>1
    <2> QED
      BY <2>2, <2>3
  <1>9. Hit'
    <2>1. Slot(j) \in (1 .. round) \X Devices
      BY <1>1
    <2> QED
      BY <1>1, <1>6, <2>1 DEF SlotInv, Hit
  <1>10. OwnRound'
    <2> SUFFICES ASSUME NEW g \in Hosts, NEW q \in Calls, NEW i \in At(g, q)'
                 PROVE  i.round = work'[g][q].round
      BY DEF OwnRound
    <2>1. q \in Paths /\ q \in Places /\ i \in At(g, q)
      BY <1>4, Paths3
    <2>2. i.round = work[g][q].round
      BY <2>1 DEF SlotInv, OwnRound
    <2>3. work'[g][q].round = work[g][q].round
      BY <2>1, SendFacts
    <2> QED
      BY <2>2, <2>3
  <1> QED
    BY <1>5, <1>7, <1>8, <1>9, <1>10 DEF SlotInv

(* The retries that are queued are as many as the call keeps account of, and not there
   yet. *)
LEMMA SettleFacts ==
    ASSUME TypeInv, SlotInv, NEW h \in Hosts, NEW p \in Paths,
           NEW Q \in SUBSET MayRetry(work[h][p]), Settle(h, p, Q)
    PROVE  /\ work[h][p].pc = "send" /\ work[h][p].todo = {} /\ work[h][p].retrying = 0
           /\ work'[h][p].pc = "book" /\ work'[h][p].round = work[h][p].round
           /\ work'[h][p].todo = {} /\ work'[h][p].again = {}
           /\ work'[h][p].jobs = work[h][p].jobs /\ work'[h][p].delivered = work[h][p].delivered
           /\ work'[h][p].retrying = Cardinality(Requeued(Q))
           /\ \A g \in Hosts, q \in Paths : g # h \/ q # p => work'[g][q] = work[g][q]
           /\ queue'[h] = queue[h] \cup Requeued(Q) /\ queue[h] \cap Requeued(Q) = {}
           /\ \A g \in Hosts : g # h => queue'[g] = queue[g]
           /\ IsFiniteSet(Requeued(Q)) /\ Cardinality(Requeued(Q)) \in Nat
           /\ Cardinality(queue'[h]) = Cardinality(queue[h]) + Cardinality(Requeued(Q))
           /\ \A i \in Requeued(Q) : \E j \in work[h][p].again : Slot(i) = Slot(j) /\ i.round = j.round
           /\ \A i, j \in Requeued(Q) : Slot(i) = Slot(j) => i = j
           /\ UNCHANGED <<msg, prog, histVars, spent>>
  <1>1. /\ Puts(h, p, Settled(work[h][p], Q))
        /\ work[h][p].pc = "send" /\ work[h][p].todo = {}
        /\ queue' = [queue EXCEPT ![h] = @ \cup Requeued(Q)]
        /\ IsFiniteSet(Q) /\ Cardinality(Q) \in Nat
        /\ UNCHANGED <<msg, prog, histVars, spent>>
    BY SettleType
  <1>2. work[h][p] \in BatchType /\ BatchOK(p, work[h][p]) /\ work[h][p].retrying = 0
    BY <1>1, Ready
  <1> DEFINE b == Settled(work[h][p], Q)
  <1>3. /\ b.pc = "book" /\ b.round = work[h][p].round /\ b.todo = {} /\ b.again = {}
        /\ b.jobs = work[h][p].jobs /\ b.delivered = work[h][p].delivered
        /\ b.retrying = Cardinality(Q)
    BY <1>1, <1>2, SettledIs
  <1>4. work'[h][p] = b /\ \A g \in Hosts, q \in Paths : g # h \/ q # p => work'[g][q] = work[g][q]
    BY <1>1 DEF Puts
  <1> HIDE DEF b
  <1>5. queue'[h] = queue[h] \cup Requeued(Q) /\ \A g \in Hosts : g # h => queue'[g] = queue[g]
    BY <1>1 DEF TypeInv, Types
  <1>6. \A j \in Q : j \in Job /\ j.attempt < MaxAttempts /\ j \in work[h][p].again /\ j \in At(h, p)
    BY <1>2, AtPath DEF MayRetry, BatchType
  <1>7. \A j \in Q : Slot(NextTry(j)) = Slot(j) /\ NextTry(j).round = j.round
    BY <1>6, NextTryIs
  <1>8. p \in Places /\ "queue" \in Places /\ p # "queue"
    BY Paths3
  <1>9. \A i, j \in Q : Slot(i) = Slot(j) => i = j
    BY <1>6, <1>8 DEF SlotInv, Unique
  <1>10. \A i, j \in Q : Slot(NextTry(i)) = Slot(NextTry(j)) => i = j
    BY <1>7, <1>9
  <1>11. \A i, j \in Requeued(Q) : Slot(i) = Slot(j) => i = j
    BY <1>10 DEF Requeued
  <1>12. IsFiniteSet(Requeued(Q)) /\ Cardinality(Requeued(Q)) = Cardinality(Q)
    <2>1. \A i, j \in Q : NextTry(i) = NextTry(j) => i = j
      BY <1>10
    <2> QED
      BY <1>1, <2>1, SizeOfImage DEF Requeued
  <1>13. queue[h] \cap Requeued(Q) = {}
    <2> SUFFICES ASSUME NEW j \in Q, NextTry(j) \in queue[h] PROVE FALSE
      BY DEF Requeued
    <2>1. NextTry(j) \in At(h, "queue")
      BY AtPath
    <2> QED
      BY <2>1, <1>6, <1>7, <1>8 DEF SlotInv, Unique
  <1>14. Cardinality(queue'[h]) = Cardinality(queue[h]) + Cardinality(Requeued(Q))
    <2>1. IsFiniteSet(queue[h])
      BY DEF TypeInv, QueueOK
    <2> QED
      BY <2>1, <1>5, <1>12, <1>13, SizeOfUnion
  <1>15. \A i \in Requeued(Q) : \E j \in work[h][p].again : Slot(i) = Slot(j) /\ i.round = j.round
    BY <1>6, <1>7 DEF Requeued
  <1> QED
    BY <1>1, <1>2, <1>3, <1>4, <1>5, <1>11, <1>12, <1>13, <1>14, <1>15

LEMMA SettleSlots ==
    ASSUME TypeInv, SlotInv, NEW h \in Hosts, NEW p \in Paths,
           NEW Q \in SUBSET MayRetry(work[h][p]), Settle(h, p, Q)
    PROVE  SlotInv'
  <1>1. /\ work'[h][p].todo = {} /\ work'[h][p].again = {}
        /\ \A g \in Hosts, q \in Paths : g # h \/ q # p => work'[g][q] = work[g][q]
        /\ queue'[h] = queue[h] \cup Requeued(Q)
        /\ \A g \in Hosts : g # h => queue'[g] = queue[g]
        /\ \A i \in Requeued(Q) : \E j \in work[h][p].again : Slot(i) = Slot(j) /\ i.round = j.round
        /\ \A i, j \in Requeued(Q) : Slot(i) = Slot(j) => i = j
    BY SettleFacts
  <1>2. round' = round /\ hits' = hits
    BY SettleFacts DEF histVars
  <1>3. p \in Places /\ "queue" \in Places /\ p # "queue"
    BY Paths3
  <1>4. At(h, p)' = {} /\ At(h, "queue")' = queue[h] \cup Requeued(Q) /\ At(h, "queue") = queue[h]
    BY <1>1, AtPath
  <1>5. \A g \in Hosts, z \in Places : g # h \/ z # "queue" => At(g, z)' \subseteq At(g, z)
    BY <1>1, PlacesAre DEF At
  <1>6. ASSUME NEW i \in Requeued(Q)
        PROVE  \E j \in At(h, p) : j \notin At(h, p)' /\ Slot(j) = Slot(i) /\ j.round = i.round
    <2>1. PICK j \in work[h][p].again : Slot(i) = Slot(j) /\ i.round = j.round
      BY <1>1
    <2>2. j \in At(h, p)
      BY AtPath
    <2> QED
      BY <2>1, <2>2, <1>4
  <1>7. \A i, j \in At(h, "queue")' : Slot(i) = Slot(j) => i = j
    <2> SUFFICES ASSUME NEW i \in queue[h] \cup Requeued(Q), NEW j \in queue[h] \cup Requeued(Q),
                        Slot(i) = Slot(j)
                 PROVE  i = j
      BY <1>4
    <2>1. CASE i \in queue[h] /\ j \in queue[h]
      BY <1>3, <1>4, <2>1 DEF SlotInv, Unique
    <2>2. ASSUME NEW a \in queue[h], NEW c \in Requeued(Q), Slot(a) = Slot(c) PROVE FALSE
      <3>1. PICK k \in At(h, p) : Slot(k) = Slot(c)
        BY <1>6
      <3> QED
        BY <1>3, <1>4, <2>2, <3>1 DEF SlotInv, Unique
    <2>3. CASE i \in Requeued(Q) /\ j \in Requeued(Q)
      BY <1>1, <2>3
    <2> QED
      BY <2>1, <2>2, <2>3
  <1>8. Unique' /\ Open' /\ Hit'
    <2>1. \A j \in At(h, "queue")' :
             \/ j \in At(h, "queue")
             \/ \E i \in At(h, p) : i \notin At(h, p)' /\ Slot(i) = Slot(j) /\ i.round = j.round
      BY <1>4, <1>6
    <2> QED
      BY <1>2, <1>3, <1>5, <1>7, <2>1, SlotsMoved
  <1>9. Parted'
    BY <1>1 DEF SlotInv, Parted
  <1>10. OwnRound'
    <2> SUFFICES ASSUME NEW g \in Hosts, NEW q \in Calls, NEW i \in At(g, q)'
                 PROVE  i.round = work'[g][q].round
      BY DEF OwnRound
    <2>1. q \in Paths /\ q \in Places /\ q # "queue"
      BY Paths3
    <2>2. g # h \/ q # p
      BY <1>4
    <2>3. work'[g][q] = work[g][q] /\ i \in At(g, q)
      BY <1>1, <1>5, <2>1, <2>2
    <2> QED
      BY <2>3 DEF SlotInv, OwnRound
  <1> QED
    BY <1>8, <1>9, <1>10 DEF SlotInv

LEMMA TakeFacts ==
    ASSUME TypeInv, NEW h \in Hosts, NEW D \in SUBSET queue[h], Take(h, D), spent' \in Nat
    PROVE  /\ work[h]["tick"].pc = "idle" /\ work[h]["sweep"].pc = "idle"
           /\ work'[h]["tick"].pc = "send" /\ work'[h]["tick"].todo = D
           /\ work'[h]["tick"].again = {} /\ work'[h]["tick"].jobs = 0
           /\ work'[h]["tick"].delivered = 0 /\ work'[h]["tick"].retrying = 0
           /\ \A g \in Hosts, q \in Paths : g # h \/ q # "tick" => work'[g][q] = work[g][q]
           /\ queue'[h] = queue[h] \ D
           /\ \A g \in Hosts : g # h => queue'[g] = queue[g]
           /\ Cardinality(queue[h]) = Cardinality(queue'[h]) + Cardinality(D)
           /\ IsFiniteSet(D) /\ Cardinality(D) \in Nat /\ Cardinality(queue'[h]) \in Nat
           /\ UNCHANGED <<msg, prog, round, got, lost, hits>>
  <1>1. /\ Puts(h, "tick", Batch("send", 0, D))
        /\ queue' = [queue EXCEPT ![h] = @ \ D]
        /\ work[h]["tick"].pc = "idle" /\ work[h]["sweep"].pc = "idle"
        /\ IsFiniteSet(D) /\ D \subseteq Job
        /\ UNCHANGED <<msg, prog, round, got, lost, hits>>
    BY TakeType
  <1>2. LET b == Batch("send", 0, D) IN
        /\ b.pc = "send" /\ b.todo = D /\ b.again = {}
        /\ b.jobs = 0 /\ b.delivered = 0 /\ b.retrying = 0
    BY <1>1, BatchIs DEF Phases
  <1>3. /\ work'[h]["tick"] = Batch("send", 0, D)
        /\ \A g \in Hosts, q \in Paths : g # h \/ q # "tick" => work'[g][q] = work[g][q]
    BY <1>1 DEF Puts
  <1>4. queue'[h] = queue[h] \ D /\ \A g \in Hosts : g # h => queue'[g] = queue[g]
    BY <1>1 DEF TypeInv, Types
  <1>5. /\ Cardinality(queue[h]) = Cardinality(D) + Cardinality(queue[h] \ D)
        /\ Cardinality(D) \in Nat /\ Cardinality(queue[h] \ D) \in Nat
    <2>1. IsFiniteSet(queue[h])
      BY DEF TypeInv, QueueOK
    <2> QED
      BY <2>1, Sizes
  <1>6. /\ Cardinality(queue[h]) = Cardinality(queue'[h]) + Cardinality(D)
        /\ Cardinality(D) \in Nat /\ Cardinality(queue'[h]) \in Nat
    BY <1>4, <1>5
  <1>7. /\ work'[h]["tick"].pc = "send" /\ work'[h]["tick"].todo = D
        /\ work'[h]["tick"].again = {} /\ work'[h]["tick"].jobs = 0
        /\ work'[h]["tick"].delivered = 0 /\ work'[h]["tick"].retrying = 0
    BY <1>2, <1>3
  <1> QED
    BY <1>1, <1>3, <1>4, <1>6, <1>7

LEMMA TakeSlots ==
    ASSUME TypeInv, SlotInv, NEW h \in Hosts, NEW D \in SUBSET queue[h], Take(h, D), spent' \in Nat
    PROVE  SlotInv'
  <1>1. /\ work[h]["tick"].pc = "idle"
        /\ work'[h]["tick"].todo = D /\ work'[h]["tick"].again = {}
        /\ \A g \in Hosts, q \in Paths : g # h \/ q # "tick" => work'[g][q] = work[g][q]
        /\ queue'[h] = queue[h] \ D
        /\ \A g \in Hosts : g # h => queue'[g] = queue[g]
        /\ round' = round /\ hits' = hits
    BY TakeFacts
  <1>2. "tick" \in Paths /\ "tick" \in Places /\ "queue" \in Places /\ "tick" # "queue"
    BY Paths3
  <1>3. /\ At(h, "tick")' = D /\ At(h, "queue")' = queue[h] \ D /\ At(h, "queue") = queue[h]
    BY <1>1, <1>2, AtPath
  <1>4. \A g \in Hosts, z \in Places : g # h \/ z # "tick" => At(g, z)' \subseteq At(g, z)
    BY <1>1, PlacesAre DEF At
  <1>5. Unique' /\ Open' /\ Hit'
    <2>1. \A j \in At(h, "tick")' :
             \E i \in At(h, "queue") : i \notin At(h, "queue")' /\ Slot(i) = Slot(j) /\ i.round = j.round
      BY <1>3
    <2>2. \A i, j \in At(h, "tick")' : Slot(i) = Slot(j) => i = j
      BY <1>2, <1>3 DEF SlotInv, Unique
    <2> QED
      BY <1>1, <1>2, <1>4, <2>1, <2>2, SlotsMoved
  <1>6. Parted'
    BY <1>1 DEF SlotInv, Parted
  <1>7. OwnRound'
    <2> SUFFICES ASSUME NEW g \in Hosts, NEW q \in Calls, NEW i \in At(g, q)'
                 PROVE  i.round = work'[g][q].round
      BY DEF OwnRound
    <2>1. q \in Paths /\ q \in Places /\ q # "tick"
      BY Paths3
    <2>2. work'[g][q] = work[g][q] /\ i \in At(g, q)
      BY <1>1, <1>4, <2>1
    <2> QED
      BY <2>2 DEF SlotInv, OwnRound
  <1> QED
    BY <1>5, <1>6, <1>7 DEF SlotInv

-----------------------------------------------------------------------------
(* Received, and Tallied: what was acknowledged is counted once. *)

LEMMA HitsFinite ==
    ASSUME TypeInv, SlotInv
    PROVE  /\ \A h \in Hosts : IsFiniteSet(hits[h]) /\ Cardinality(hits[h]) \in Nat
           /\ IsFiniteSet(UNION {hits[h] : h \in Hosts})
           /\ \A d \in Devices : /\ IsFiniteSet(AckRounds(d)) /\ Cardinality(AckRounds(d)) \in Nat
                                 /\ Cardinality(AckRounds(d)) <= round
           /\ IsFiniteSet(Acknowledged) /\ Acks \in Nat
  <1>1. round \in Nat
    BY DEF TypeInv, Types
  <1>2. IsFiniteSet(1 .. round) /\ Cardinality(1 .. round) = round
    <2>1. 1 \in Int /\ round \in Int /\ (1 > round => round = 0)
      BY <1>1
    <2>2. /\ IsFiniteSet(1 .. round)
          /\ Cardinality(1 .. round) = IF 1 > round THEN 0 ELSE round - 1 + 1
      BY <2>1, FS_Interval
    <2> QED
      BY <1>1, <2>1, <2>2
  <1>3. IsFiniteSet((1 .. round) \X Devices)
    BY <1>2, FS_Product, PushAssumption
  <1>4. \A h \in Hosts : hits[h] \subseteq (1 .. round) \X Devices
    BY DEF SlotInv, Hit
  <1>5. \A h \in Hosts : IsFiniteSet(hits[h]) /\ Cardinality(hits[h]) \in Nat
    BY <1>3, <1>4, Sizes
  <1>6. IsFiniteSet(UNION {hits[h] : h \in Hosts})
    <2>1. UNION {hits[h] : h \in Hosts} \subseteq (1 .. round) \X Devices
      BY <1>4
    <2> QED
      BY <1>3, <2>1, FS_Subset
  <1>7. ASSUME NEW d \in Devices
        PROVE  /\ IsFiniteSet(AckRounds(d)) /\ Cardinality(AckRounds(d)) \in Nat
               /\ Cardinality(AckRounds(d)) <= round
    <2>1. AckRounds(d) \subseteq 1 .. round
      BY DEF AckRounds
    <2> QED
      BY <2>1, <1>2, Sizes
  <1>8. IsFiniteSet(Acknowledged) /\ Acks \in Nat
    <2>1. Acknowledged \subseteq Devices
      BY DEF Acknowledged
    <2> QED
      BY <2>1, Bounds DEF Acks
  <1> QED
    BY <1>5, <1>6, <1>7, <1>8

LEMMA InitReceived == Init => Received
  <1> SUFFICES ASSUME Init, NEW d \in Devices PROVE got[d] <= lost[d] + Cardinality(AckRounds(d))
    BY DEF Received
  <1>1. AckRounds(d) = {} /\ got[d] = 0 /\ lost[d] = 0
    BY DEF Init, AckRounds
  <1> QED
    BY <1>1, NothingIsSmall

LEMMA SameReceived ==
    ASSUME Received, got' = got, lost' = lost, hits' = hits, round' = round
    PROVE  Received'
  <1>1. \A d \in Devices : AckRounds(d)' = AckRounds(d)
    BY DEF AckRounds
  <1> QED
    BY <1>1 DEF Received

LEMMA ClaimReceived ==
    ASSUME TypeInv, SlotInv, Received, NEW h \in Hosts, NEW p, ClaimStep(h, p)
    PROVE  Received'
  <1>1. got' = got /\ lost' = lost /\ hits' = hits /\ round' = round + 1 /\ round \in Nat
    BY DEF ClaimStep, TypeInv, Types
  <1>2. ASSUME NEW d \in Devices PROVE AckRounds(d)' = AckRounds(d)
    <2>1. \A g \in Hosts : <<round + 1, d>> \notin hits[g]
      BY <1>1 DEF SlotInv, Hit
    <2>2. \A k \in 1 .. (round + 1) : k \in 1 .. round \/ k = round + 1
      BY <1>1
    <2>3. \A k \in 1 .. round : k \in 1 .. (round + 1)
      BY <1>1
    <2> QED
      BY <1>1, <2>1, <2>2, <2>3 DEF AckRounds
  <1> QED
    BY <1>1, <1>2 DEF Received

LEMMA SendReceived ==
    ASSUME TypeInv, SlotInv, Received, NEW h \in Hosts, NEW p \in Paths, NEW j \in work[h][p].todo,
           NEW r \in Outcomes, Send(h, p, j, r)
    PROVE  Received'
  <1>1. /\ j.round \in 1 .. round /\ j.dev \in Devices /\ Slot(j) = <<j.round, j.dev>>
        /\ \A g \in Hosts : Slot(j) \notin hits[g]
        /\ round' = round
        /\ hits' = IF r = "ok" THEN [hits EXCEPT ![h] = @ \cup {Slot(j)}] ELSE hits
    BY SendFacts
  <1>2. /\ got \in [Devices -> Nat] /\ lost \in [Devices -> Nat]
        /\ hits \in [Hosts -> SUBSET (Nat \X Devices)]
    BY DEF TypeInv, Types
  <1> SUFFICES ASSUME NEW d \in Devices
               PROVE  got'[d] <= lost'[d] + Cardinality(AckRounds(d)')
    BY DEF Received
  <1>3. /\ got[d] <= lost[d] + Cardinality(AckRounds(d))
        /\ Cardinality(AckRounds(d)) \in Nat /\ IsFiniteSet(AckRounds(d))
    BY HitsFinite DEF Received
  <1>4. r # "ok" => AckRounds(d)' = AckRounds(d)
    BY <1>1 DEF AckRounds
  <1>5. CASE r \in {"no", "retry"}
    <2>1. got' = got /\ lost' = lost
      BY <1>5 DEF Send
    <2> QED
      BY <1>3, <1>4, <1>5, <2>1
  <1>6. CASE r = "lost"
    <2>1. got' = [got EXCEPT ![j.dev] = @ + 1] /\ lost' = [lost EXCEPT ![j.dev] = @ + 1]
      BY <1>6 DEF Send
    <2>2. AckRounds(d)' = AckRounds(d)
      BY <1>4, <1>6
    <2> QED
      BY <1>1, <1>2, <1>3, <2>1, <2>2
  <1>7. CASE r = "ok"
    <2>1. got' = [got EXCEPT ![j.dev] = @ + 1] /\ lost' = lost
      BY <1>7 DEF Send
    <2>2. \A g \in Hosts : hits'[g] = IF g = h THEN hits[h] \cup {Slot(j)} ELSE hits[g]
      BY <1>1, <1>2, <1>7
    <2>3. CASE d = j.dev
      <3>1. j.round \notin AckRounds(d)
        BY <1>1, <2>3 DEF AckRounds
      <3>2. AckRounds(d)' = AckRounds(d) \cup {j.round}
        BY <1>1, <2>2, <2>3 DEF AckRounds
      <3>3. Cardinality(AckRounds(d)') = Cardinality(AckRounds(d)) + 1
        BY <3>1, <3>2, <1>3, FS_AddElement
      <3> QED
        BY <1>1, <1>2, <1>3, <2>1, <2>3, <3>3
    <2>4. CASE d # j.dev
      <3>1. AckRounds(d)' = AckRounds(d)
        BY <1>1, <2>2, <2>4 DEF AckRounds
      <3> QED
        BY <1>1, <1>2, <1>3, <2>1, <2>4, <3>1
    <2> QED
      BY <2>3, <2>4
  <1> QED
    BY <1>5, <1>6, <1>7 DEF Outcomes

LEMMA ReceivedOnce ==
    ASSUME TypeInv, SlotInv, Received, Credit
    PROVE  OncePerFault
  <1> SUFFICES ASSUME NEW d \in Devices PROVE got[d] <= 1 + spent + lost[d]
    BY DEF OncePerFault
  <1>1. got[d] <= lost[d] + Cardinality(AckRounds(d))
    BY DEF Received
  <1>2. Cardinality(AckRounds(d)) <= round /\ Cardinality(AckRounds(d)) \in Nat
    BY HitsFinite
  <1>3. got[d] \in Nat /\ lost[d] \in Nat /\ round \in Nat /\ spent \in Nat
    BY DEF TypeInv, Types
  <1>4. round <= spent + 1
    BY DEF Credit
  <1> QED
    BY <1>1, <1>2, <1>3, <1>4

LEMMA CountsAre ==
    ASSUME TypeInv, NEW h \in Hosts
    PROVE  /\ Counts(h) \in Nat /\ prog[h].delivered \in Nat /\ prog[h].delivered <= Counts(h)
           /\ \A p \in Paths : work[h][p].delivered \in Nat /\ work[h][p].delivered <= Counts(h)
           /\ prog[h].delivered + work[h]["tick"].delivered <= Counts(h)
  <1>1. \A p \in Paths : work[h][p].delivered \in Nat
    BY Ready
  <1>2. prog[h].delivered \in Nat
    BY ProgIs
  <1>3. /\ work[h]["event"].delivered \in Nat /\ work[h]["sweep"].delivered \in Nat
        /\ work[h]["tick"].delivered \in Nat
    BY <1>1, Paths3
  <1> QED
    BY <1>2, <1>3, Paths3 DEF Counts

(* The counts are handed on, and none is made up. *)
LEMMA TalliedKept ==
    ASSUME TypeInv, SlotInv, Tallied, TypeInv', hits' = hits,
           \A g \in Hosts : Counts(g)' <= Counts(g),
           msg'.delivered = msg.delivered \/ \E g \in Hosts : msg'.delivered <= Counts(g)
    PROVE  Tallied'
  <1>1. \A g \in Hosts : Counts(g) \in Nat /\ Counts(g)' \in Nat /\ Cardinality(hits[g]) \in Nat
    <2>1. \A g \in Hosts : Counts(g) \in Nat
      BY CountsAre
    <2>2. ASSUME NEW g \in Hosts PROVE Counts(g)' \in Nat
      <3>1. /\ prog'[g] \in [delivered : Nat, outstanding : Nat]
            /\ \A q \in Paths : work'[g][q] \in BatchType
        BY DEF TypeInv, Types
      <3>2. /\ work'[g]["event"].delivered \in Nat /\ work'[g]["sweep"].delivered \in Nat
            /\ work'[g]["tick"].delivered \in Nat /\ prog'[g].delivered \in Nat
        BY <3>1, Paths3 DEF BatchType
      <3> QED
        BY <3>2 DEF Counts
    <2> QED
      BY <2>1, <2>2, HitsFinite
  <1>2. \A g \in Hosts : Counts(g) <= Cardinality(hits[g])
    BY DEF Tallied
  <1>3. \A g \in Hosts : Counts(g)' <= Cardinality(hits'[g])
    BY <1>1, <1>2
  <1>4. msg'.delivered = 0 \/ \E g \in Hosts : msg'.delivered <= Cardinality(hits'[g])
    <2>1. CASE msg'.delivered = msg.delivered
      BY <2>1 DEF Tallied
    <2>2. CASE \E g \in Hosts : msg'.delivered <= Counts(g)
      <3>1. PICK g \in Hosts : msg'.delivered <= Counts(g)
        BY <2>2
      <3>2. msg'.delivered \in Nat
        BY DEF TypeInv, Types
      <3> QED
        BY <1>1, <1>2, <3>1, <3>2
    <2> QED
      BY <2>1, <2>2
  <1> QED
    BY <1>3, <1>4 DEF Tallied

LEMMA InitTallied == Init => Tallied
  <1> SUFFICES ASSUME Init PROVE Tallied
    OBVIOUS
  <1>1. \A h \in Hosts : Counts(h) = 0 /\ hits[h] = {}
    BY NoBatchIs, Paths3 DEF Init, Counts, None
  <1>2. msg.delivered = 0
    BY DEF Init
  <1> QED
    BY <1>1, <1>2, NothingIsSmall DEF Tallied

LEMMA RowTallied == ASSUME TypeInv, SlotInv, Tallied, RowStep PROVE Tallied'
  <1>1. TypeInv' /\ msg'.delivered = msg.delivered
    BY RowType
  <1>2. \A g \in Hosts : Counts(g)' = Counts(g)
    BY DEF RowStep, Counts
  <1>3. \A g \in Hosts : Counts(g)' <= Counts(g)
    BY <1>2, CountsAre
  <1>4. hits' = hits
    BY DEF RowStep
  <1> QED
    BY <1>1, <1>3, <1>4, TalliedKept

(* One batch of a host changes, and perhaps its progress entry. *)
LEMMA CountsStep ==
    ASSUME TypeInv, TypeInv', NEW h \in Hosts, NEW p \in Paths,
           \A g \in Hosts, q \in Paths : g # h \/ q # p => work'[g][q] = work[g][q],
           \A g \in Hosts : g # h => prog'[g] = prog[g],
           prog'[h].delivered + work'[h][p].delivered <= prog[h].delivered + work[h][p].delivered
    PROVE  \A g \in Hosts : Counts(g)' <= Counts(g)
  <1> SUFFICES ASSUME NEW g \in Hosts PROVE Counts(g)' <= Counts(g)
    OBVIOUS
  <1>1. /\ work[g]["event"].delivered \in Nat /\ work[g]["sweep"].delivered \in Nat
        /\ work[g]["tick"].delivered \in Nat /\ prog[g].delivered \in Nat
    BY CountsAre, Paths3
  <1>2. /\ work'[g]["event"].delivered \in Nat /\ work'[g]["sweep"].delivered \in Nat
        /\ work'[g]["tick"].delivered \in Nat /\ prog'[g].delivered \in Nat
    <2>1. /\ prog'[g] \in [delivered : Nat, outstanding : Nat]
          /\ \A q \in Paths : work'[g][q] \in BatchType
      BY DEF TypeInv, Types
    <2> QED
      BY <2>1, Paths3 DEF BatchType
  <1>3. CASE g # h
    <2>1. /\ work'[g]["event"] = work[g]["event"] /\ work'[g]["sweep"] = work[g]["sweep"]
          /\ work'[g]["tick"] = work[g]["tick"] /\ prog'[g] = prog[g]
      BY <1>3, Paths3
    <2> QED
      BY <2>1, <1>1 DEF Counts
  <1>4. CASE g = h
    <2>1. p = "event" \/ p = "sweep" \/ p = "tick"
      BY Paths3
    <2>2. CASE p = "event"
      <3>1. work'[h]["sweep"] = work[h]["sweep"] /\ work'[h]["tick"] = work[h]["tick"]
        BY <2>2, Paths3
      <3> QED
        BY <3>1, <2>2, <1>1, <1>2, <1>4 DEF Counts
    <2>3. CASE p = "sweep"
      <3>1. work'[h]["event"] = work[h]["event"] /\ work'[h]["tick"] = work[h]["tick"]
        BY <2>3, Paths3
      <3> QED
        BY <3>1, <2>3, <1>1, <1>2, <1>4 DEF Counts
    <2>4. CASE p = "tick"
      <3>1. work'[h]["event"] = work[h]["event"] /\ work'[h]["sweep"] = work[h]["sweep"]
        BY <2>4, Paths3
      <3> QED
        BY <3>1, <2>4, <1>1, <1>2, <1>4 DEF Counts
    <2> QED
      BY <2>1, <2>2, <2>3, <2>4
  <1> QED
    BY <1>3, <1>4

(* The row and the entries stay, and so does the count of the batch, or it is dropped. *)
LEMMA BatchTallied ==
    ASSUME TypeInv, SlotInv, Tallied, TypeInv', NEW h \in Hosts, NEW p \in Paths,
           \A g \in Hosts, q \in Paths : g # h \/ q # p => work'[g][q] = work[g][q],
           work'[h][p].delivered = work[h][p].delivered \/ work'[h][p].delivered = 0,
           prog' = prog, msg'.delivered = msg.delivered, hits' = hits
    PROVE  Tallied'
  <1>1. work[h][p].delivered \in Nat /\ prog[h].delivered \in Nat
    BY CountsAre
  <1>2. prog'[h].delivered + work'[h][p].delivered <= prog[h].delivered + work[h][p].delivered
    BY <1>1
  <1>3. \A g \in Hosts : Counts(g)' <= Counts(g)
    BY <1>2, CountsStep
  <1> QED
    BY <1>3, TalliedKept

LEMMA QuietTallied ==
    ASSUME TypeInv, SlotInv, Tallied, NEW h \in Hosts, NEW p, QuietStep(h, p)
    PROVE  Tallied'
  <1>1. TypeInv' /\ p \in Paths
    BY QuietType, Paths3 DEF QuietStep
  <1>2. PICK b \in BatchType : Puts(h, p, b) /\ b.pc \in {"idle", "claim"}
    BY DEF QuietStep
  <1>3. work'[h][p] = b /\ BatchOK(p, b)
    BY <1>1, <1>2 DEF TypeInv, WorkOK, Puts
  <1>4. work'[h][p].delivered = 0
    BY <1>2, <1>3 DEF BatchOK, Sized
  <1>5. prog' = prog /\ msg' = msg /\ hits' = hits
    BY DEF QuietStep, histVars
  <1>6. \A g \in Hosts, q \in Paths : g # h \/ q # p => work'[g][q] = work[g][q]
    BY <1>2 DEF Puts
  <1> QED
    BY <1>1, <1>4, <1>5, <1>6, BatchTallied

LEMMA ClaimTallied ==
    ASSUME TypeInv, SlotInv, Tallied, NEW h \in Hosts, NEW p \in Calls, Claim(h, p)
    PROVE  Tallied'
  <1>1. ClaimStep(h, p) /\ TypeInv' /\ p \in Paths
    BY ClaimType, Paths3
  <1>2. PICK D \in SUBSET Devices : Puts(h, p, Batch("send", round + 1, FirstTries(round + 1, D)))
    BY <1>1 DEF ClaimStep
  <1>3. work'[h][p].delivered = 0
    BY <1>2 DEF Puts, Batch
  <1>4. prog' = prog /\ msg'.delivered = msg.delivered /\ hits' = hits
    BY <1>1 DEF ClaimStep
  <1>5. \A g \in Hosts, q \in Paths : g # h \/ q # p => work'[g][q] = work[g][q]
    BY <1>2 DEF Puts
  <1> QED
    BY <1>1, <1>3, <1>4, <1>5, BatchTallied

LEMMA SettleTallied ==
    ASSUME TypeInv, SlotInv, Tallied, NEW h \in Hosts, NEW p \in Paths,
           NEW Q \in SUBSET MayRetry(work[h][p]), Settle(h, p, Q)
    PROVE  Tallied'
  <1>1. TypeInv'
    BY SettleType
  <1>2. /\ work'[h][p].delivered = work[h][p].delivered
        /\ \A g \in Hosts, q \in Paths : g # h \/ q # p => work'[g][q] = work[g][q]
    BY SettleFacts
  <1>3. prog' = prog /\ msg' = msg /\ hits' = hits
    BY SettleFacts DEF histVars
  <1> QED
    BY <1>1, <1>2, <1>3, BatchTallied

LEMMA TakeTallied ==
    ASSUME TypeInv, SlotInv, Tallied, NEW h \in Hosts, NEW D \in SUBSET queue[h], Take(h, D),
           spent' \in Nat
    PROVE  Tallied'
  <1>1. TypeInv' /\ "tick" \in Paths
    BY TakeType, Paths3
  <1>2. /\ work'[h]["tick"].delivered = 0
        /\ \A g \in Hosts, q \in Paths : g # h \/ q # "tick" => work'[g][q] = work[g][q]
        /\ prog' = prog /\ msg' = msg /\ hits' = hits
    BY TakeFacts
  <1> QED
    BY <1>1, <1>2, BatchTallied

LEMMA EndTallied ==
    ASSUME TypeInv, SlotInv, Tallied, TypeInv', NEW h \in Hosts, NEW p \in Paths, EndStep(h, p),
           \A g \in Hosts : g # h => prog'[g] = prog[g],
           prog'[h].delivered <= prog[h].delivered + work[h][p].delivered,
           msg'.delivered = msg.delivered \/ msg'.delivered <= Counts(h)
    PROVE  Tallied'
  <1>1. /\ work'[h][p].delivered = 0 /\ hits' = hits
        /\ \A g \in Hosts, q \in Paths : g # h \/ q # p => work'[g][q] = work[g][q]
    BY NoBatchIs DEF EndStep, Puts, histVars
  <1>2. prog'[h].delivered \in Nat /\ prog[h].delivered \in Nat /\ work[h][p].delivered \in Nat
    <2>1. prog'[h] \in [delivered : Nat, outstanding : Nat]
      BY DEF TypeInv, Types
    <2> QED
      BY <2>1, CountsAre
  <1>3. prog'[h].delivered + work'[h][p].delivered <= prog[h].delivered + work[h][p].delivered
    BY <1>1, <1>2
  <1>4. \A g \in Hosts : Counts(g)' <= Counts(g)
    BY <1>1, <1>3, CountsStep
  <1> QED
    BY <1>1, <1>4, TalliedKept

LEMMA RecordTallied ==
    ASSUME TypeInv, SlotInv, Tallied, NEW h \in Hosts, NEW p \in Calls, RecordCall(h, p)
    PROVE  Tallied'
  <1>1. EndStep(h, p) /\ TypeInv' /\ p \in Paths
    BY RecordType, Paths3
  <1>2. /\ work[h][p].delivered \in Nat /\ work[h][p].delivered <= Counts(h)
        /\ prog[h].delivered \in Nat
    BY <1>1, CountsAre
  <1>3. \/ msg' = Finished(work[h][p].delivered) /\ prog' = prog
        \/ /\ msg' = msg
           /\ prog' = [prog EXCEPT ![h] = [delivered |-> work[h][p].delivered,
                                           outstanding |-> work[h][p].retrying]]
    BY DEF RecordCall
  <1>4. prog \in [Hosts -> [delivered : Nat, outstanding : Nat]]
    BY DEF TypeInv, Types
  <1>5. CASE msg' = Finished(work[h][p].delivered) /\ prog' = prog
    <2>1. msg'.delivered <= Counts(h)
      BY <1>2, <1>5, FinishedIs
    <2>2. prog'[h].delivered <= prog[h].delivered + work[h][p].delivered
      BY <1>2, <1>5
    <2> QED
      BY <1>1, <1>5, <2>1, <2>2, EndTallied
  <1>6. CASE /\ msg' = msg
             /\ prog' = [prog EXCEPT ![h] = [delivered |-> work[h][p].delivered,
                                             outstanding |-> work[h][p].retrying]]
    <2>1. \A g \in Hosts : g # h => prog'[g] = prog[g]
      BY <1>4, <1>6
    <2>2. prog'[h].delivered = work[h][p].delivered
      BY <1>4, <1>6
    <2>3. prog'[h].delivered <= prog[h].delivered + work[h][p].delivered
      BY <1>2, <2>2
    <2> QED
      BY <1>1, <1>6, <2>1, <2>3, EndTallied
  <1> QED
    BY <1>3, <1>5, <1>6

LEMMA FinishFailsTallied ==
    ASSUME TypeInv, SlotInv, Tallied, NEW h \in Hosts, NEW p \in Calls, FinishFails(h, p)
    PROVE  Tallied'
  <1>1. EndStep(h, p) /\ prog' = prog /\ msg' = msg /\ TypeInv' /\ p \in Paths
    BY FinishFailsType, Paths3
  <1>2. prog'[h].delivered <= prog[h].delivered + work[h][p].delivered
    BY <1>1, CountsAre
  <1> QED
    BY <1>1, <1>2, EndTallied

LEMMA ResolveTallied ==
    ASSUME TypeInv, SlotInv, Tallied, NEW h \in Hosts, Resolve(h)
    PROVE  Tallied'
  <1> DEFINE n == prog[h].delivered + work[h]["tick"].delivered
  <1>1. ResolveStep(h) /\ EndStep(h, "tick") /\ TypeInv' /\ "tick" \in Paths
    BY ResolveType, ResolveEnds, Paths3
  <1>2. /\ work[h]["tick"].delivered \in Nat /\ prog[h].delivered \in Nat
        /\ n \in Nat /\ n <= Counts(h)
    BY <1>1, CountsAre
  <1>3. msg' = msg \/ msg' = Finished(n)
    BY <1>1 DEF ResolveStep
  <1>4. msg'.delivered = msg.delivered \/ msg'.delivered <= Counts(h)
    BY <1>2, <1>3, FinishedIs
  <1>5. \/ prog' = prog \/ prog' = [prog EXCEPT ![h] = None]
        \/ \E o : prog' = [prog EXCEPT ![h] = [delivered |-> n, outstanding |-> o]]
    BY <1>1 DEF ResolveStep
  <1>6. prog \in [Hosts -> [delivered : Nat, outstanding : Nat]]
    BY DEF TypeInv, Types
  <1>7. /\ \A g \in Hosts : g # h => prog'[g] = prog[g]
        /\ prog'[h].delivered \in {0, prog[h].delivered, n}
    BY <1>5, <1>6 DEF None
  <1>8. prog'[h].delivered <= prog[h].delivered + work[h]["tick"].delivered
    BY <1>2, <1>7
  <1> QED
    BY <1>1, <1>4, <1>7, <1>8, EndTallied

LEMMA TurnedOffTallied ==
    ASSUME TypeInv, SlotInv, Tallied, NEW h \in Hosts, TurnedOff(h)
    PROVE  Tallied'
  <1>1. UNCHANGED <<msg, work, prog, histVars>> /\ TypeInv' /\ "tick" \in Paths
    BY TurnedOffType, Paths3
  <1>2. hits' = hits /\ msg' = msg /\ work' = work /\ prog' = prog
    BY <1>1 DEF histVars
  <1> QED
    BY <1>1, <1>2, BatchTallied

LEMMA CrashTallied ==
    ASSUME TypeInv, SlotInv, Tallied, NEW h \in Hosts, Crash(h)
    PROVE  Tallied'
  <1>1. /\ \A p \in Paths : work'[h][p] = NoBatch
        /\ \A g \in Hosts : g # h => work'[g] = work[g]
        /\ prog' = [prog EXCEPT ![h] = None]
        /\ msg' = msg /\ hits' = hits /\ TypeInv'
    BY CrashType DEF histVars
  <1>2. prog \in [Hosts -> [delivered : Nat, outstanding : Nat]]
    BY DEF TypeInv, Types
  <1>3. ASSUME NEW g \in Hosts PROVE Counts(g)' <= Counts(g)
    <2>1. Counts(g) \in Nat
      BY CountsAre
    <2>2. CASE g = h
      <3>1. Counts(g)' = 0
        BY <1>1, <1>2, <2>2, NoBatchIs, Paths3 DEF Counts, None
      <3> QED
        BY <2>1, <3>1
    <2>3. CASE g # h
      <3>1. Counts(g)' = Counts(g)
        BY <1>1, <1>2, <2>3 DEF Counts
      <3> QED
        BY <2>1, <3>1
    <2> QED
      BY <2>2, <2>3
  <1> QED
    BY <1>1, <1>3, TalliedKept

LEMMA SendTallied ==
    ASSUME TypeInv, SlotInv, Tallied, NEW h \in Hosts, NEW p \in Paths, NEW j \in work[h][p].todo,
           NEW r \in Outcomes, Send(h, p, j, r)
    PROVE  Tallied'
  <1>1. /\ \A g \in Hosts, q \in Paths : g # h \/ q # p => work'[g][q] = work[g][q]
        /\ prog' = prog /\ msg' = msg
        /\ work'[h][p].delivered = IF r = "ok" THEN work[h][p].delivered + 1 ELSE work[h][p].delivered
        /\ hits' = IF r = "ok" THEN [hits EXCEPT ![h] = @ \cup {Slot(j)}] ELSE hits
        /\ Slot(j) \notin hits[h]
    BY SendFacts
  <1>2. TypeInv'
    BY SendType
  <1>3. CASE r # "ok"
    BY <1>1, <1>2, <1>3, BatchTallied
  <1>4. CASE r = "ok"
    <2>1. hits \in [Hosts -> SUBSET (Nat \X Devices)]
      BY DEF TypeInv, Types
    <2>2. hits'[h] = hits[h] \cup {Slot(j)} /\ \A g \in Hosts : g # h => hits'[g] = hits[g]
      BY <1>1, <1>4, <2>1
    <2>3. \A g \in Hosts : Cardinality(hits[g]) \in Nat /\ IsFiniteSet(hits[g])
      BY HitsFinite
    <2>4. Cardinality(hits'[h]) = Cardinality(hits[h]) + 1
      BY <1>1, <2>2, <2>3, FS_AddElement
    <2>5. \A g \in Hosts : g # h => Counts(g)' = Counts(g)
      BY <1>1, Paths3 DEF Counts
    <2>6. Counts(h)' = Counts(h) + 1
      <3>1. /\ work[h]["event"].delivered \in Nat /\ work[h]["sweep"].delivered \in Nat
            /\ work[h]["tick"].delivered \in Nat /\ prog[h].delivered \in Nat
        BY CountsAre, Paths3
      <3>2. work'[h][p].delivered = work[h][p].delivered + 1
        BY <1>1, <1>4
      <3>3. p = "event" \/ p = "sweep" \/ p = "tick"
        BY Paths3
      <3>4. CASE p = "event"
        BY <1>1, <3>1, <3>2, <3>4, Paths3 DEF Counts
      <3>5. CASE p = "sweep"
        BY <1>1, <3>1, <3>2, <3>5, Paths3 DEF Counts
      <3>6. CASE p = "tick"
        BY <1>1, <3>1, <3>2, <3>6, Paths3 DEF Counts
      <3> QED
        BY <3>3, <3>4, <3>5, <3>6
    <2>7. ASSUME NEW g \in Hosts
          PROVE  Counts(g)' <= Cardinality(hits'[g]) /\ Cardinality(hits[g]) <= Cardinality(hits'[g])
      <3>1. Counts(g) <= Cardinality(hits[g]) /\ Counts(g) \in Nat /\ Cardinality(hits[g]) \in Nat
        BY <2>3, CountsAre DEF Tallied
      <3>2. CASE g = h
        BY <2>4, <2>6, <3>1, <3>2
      <3>3. CASE g # h
        BY <2>2, <2>5, <3>1, <3>3
      <3> QED
        BY <3>2, <3>3
    <2>8. msg'.delivered = 0 \/ \E g \in Hosts : msg'.delivered <= Cardinality(hits'[g])
      <3>1. CASE msg.delivered = 0
        BY <1>1, <3>1
      <3>2. CASE msg.delivered # 0
        <4>1. PICK g \in Hosts : msg.delivered <= Cardinality(hits[g])
          BY <3>2 DEF Tallied
        <4>2. msg.delivered \in Nat
          BY DEF TypeInv, Types
        <4>3. Cardinality(hits'[g]) \in Nat
          <5>1. CASE g = h
            BY <5>1, <2>3, <2>4
          <5>2. CASE g # h
            BY <5>2, <2>2, <2>3
          <5> QED
            BY <5>1, <5>2
        <4>4. msg.delivered <= Cardinality(hits'[g])
          BY <4>1, <4>2, <4>3, <2>3, <2>7
        <4> QED
          BY <4>4, <1>1
      <3> QED
        BY <3>1, <3>2
    <2> QED
      BY <2>7, <2>8 DEF Tallied
  <1> QED
    BY <1>3, <1>4

LEMMA NoMoreThanAcknowledged ==
    ASSUME TypeInv, SlotInv, Tallied
    PROVE  msg.delivered <= Cardinality(UNION {hits[h] : h \in Hosts})
  <1> DEFINE U == UNION {hits[h] : h \in Hosts}
  <1>1. IsFiniteSet(U)
    BY HitsFinite
  <1>2. Cardinality(U) \in Nat /\ \A g \in Hosts : Cardinality(hits[g]) <= Cardinality(U)
    <2>1. \A g \in Hosts : hits[g] \subseteq U
      OBVIOUS
    <2> HIDE DEF U
    <2> QED
      BY <1>1, <2>1, Sizes
  <1>3. msg.delivered \in Nat /\ \A g \in Hosts : Cardinality(hits[g]) \in Nat
    BY HitsFinite DEF TypeInv, Types
  <1> QED
    BY <1>2, <1>3 DEF Tallied

-----------------------------------------------------------------------------
(* Credit: every claim but the last one was paid for by a fault. *)

LEMMA CreditKept ==
    ASSUME TypeInv, Credit, round' = round, spent' = spent,
           \/ msg'.st = msg.st \/ msg'.st \in Ended \/ (msg.st = "absent" /\ msg'.st = "pending"),
           Strays' => Strays,
           msg.st = "sending" /\ Carried => Carried' \/ Strays
    PROVE  Credit'
  <1>1. round \in Nat /\ spent \in Nat
    BY DEF TypeInv, Types
  <1>2. msg'.st \in {"absent", "pending"} => msg.st \in {"absent", "pending"}
    BY DEF Ended
  <1>3. msg'.st = "sending" => msg.st = "sending"
    BY DEF Ended
  <1> QED
    BY <1>1, <1>2, <1>3 DEF Credit

LEMMA CreditOfFault ==
    ASSUME TypeInv, Credit, round' = round, spent' = spent + 1,
           \/ msg'.st = msg.st
           \/ msg.st = "sending" /\ msg'.st = "pending" /\ (Strays' => Strays)
    PROVE  Credit'
  <1>1. round \in Nat /\ spent \in Nat
    BY DEF TypeInv, Types
  <1> QED
    BY <1>1 DEF Credit

LEMMA InitCredit == Init => Credit
  <1> SUFFICES ASSUME Init PROVE Credit
    OBVIOUS
  <1>1. ~Strays
    BY NoBatchIs, Paths3 DEF Init, Strays, Stray
  <1> QED
    BY <1>1 DEF Init, Credit

LEMMA SameCredit ==
    ASSUME work' = work, queue' = queue, prog' = prog
    PROVE  (Strays' <=> Strays) /\ (Carried' <=> Carried)
  <1>1. \A h, p : Covered(h, p)' <=> Covered(h, p)
    BY DEF Covered, Mine
  <1>2. Strays' <=> Strays
    BY <1>1 DEF Strays, Stray
  <1>3. \A h : Alive(h)' <=> Alive(h)
    BY DEF Alive
  <1>4. Carried' <=> Carried
    BY <1>1, <1>3 DEF Carried, Carrying
  <1> QED
    BY <1>2, <1>4

(* Nobody has anything in hand: nobody carries the claim. *)
LEMMA NobodyCarries ==
    ASSUME TypeInv, ~InHand
    PROVE  ~Strays /\ ~Carried
  <1>1. \A h \in Hosts : queue[h] = {} /\ \A p \in Paths : work[h][p].pc \notin {"send", "book"}
    BY DEF InHand
  <1>2. ~Strays
    BY <1>1, Paths3 DEF Strays, Stray
  <1>3. ASSUME NEW h \in Hosts PROVE ~Alive(h) /\ \A p \in Calls : ~Carrying(h, p)
    <2>1. work[h]["tick"].pc \in {"idle", "claim"} /\ work[h]["tick"].pc # "send"
      BY <1>1, Ready, Paths3 DEF Phases
    <2>2. /\ work[h]["tick"].jobs = 0 /\ work[h]["tick"].todo = {}
          /\ work[h]["tick"].retrying \in Nat /\ prog[h].outstanding \in Nat
      BY <2>1, Ready, ProgIs, Paths3
    <2>3. Cardinality(queue[h]) = 0 /\ Cardinality(work[h]["tick"].todo) = 0
      BY <1>1, <2>2, NothingIsSmall
    <2>4. ~Alive(h)
      BY <2>2, <2>3 DEF Alive
    <2> QED
      BY <1>1, <2>4, Paths3 DEF Carrying
  <1> QED
    BY <1>2, <1>3 DEF Carried

LEMMA StuckIsLost ==
    ASSUME TypeInv, Credit
    PROVE  StuckMeansLost
  BY NobodyCarries DEF StuckMeansLost, Credit

LEMMA RowCredit ==
    ASSUME TypeInv, Credit, NEW h \in Hosts,
           Commit \/ Cancel \/ ResetStuck(h) \/ ResetSlow(h)
    PROVE  Credit'
  <1>1. RowStep
    BY RowSteps
  <1>2. round' = round /\ (Strays' <=> Strays) /\ (Carried' <=> Carried)
    BY <1>1, SameCredit DEF RowStep
  <1>3. CASE Commit
    BY <1>2, <1>3, RowSteps, CreditKept
  <1>4. CASE Cancel
    BY <1>2, <1>4, RowSteps, CreditKept DEF Ended
  <1>5. CASE ResetSlow(h)
    BY <1>2, <1>5, RowSteps, CreditOfFault
  <1>6. CASE ResetStuck(h)
    <2>1. ~Strays /\ ~Carried /\ msg.st = "sending"
      BY <1>6, NobodyCarries DEF ResetStuck
    <2>2. spent' = spent /\ msg'.st = "pending"
      BY <1>6, RowSteps
    <2>3. round <= spent /\ round <= spent + 1
      BY <2>1 DEF Credit
    <2> QED
      BY <1>2, <2>1, <2>2, <2>3 DEF Credit
  <1> QED
    BY <1>3, <1>4, <1>5, <1>6

(* A call's batch changes that is nobody's carrier. *)
LEMMA OtherCalls ==
    ASSUME NEW g \in Hosts, NEW q \in Calls, work'[g][q] = work[g][q], queue'[g] = queue[g]
    PROVE  (Stray(g, q)' <=> Stray(g, q)) /\ (Carrying(g, q)' <=> Carrying(g, q))
  <1>1. Covered(g, q)' <=> Covered(g, q)
    BY DEF Covered, Mine
  <1> QED
    BY <1>1 DEF Stray, Carrying

LEMMA OtherTicks ==
    ASSUME NEW g \in Hosts, work'[g]["tick"] = work[g]["tick"], queue'[g] = queue[g],
           prog'[g] = prog[g]
    PROVE  Alive(g)' <=> Alive(g)
  BY DEF Alive

LEMMA QuietCredit ==
    ASSUME TypeInv, Credit, NEW h \in Hosts, NEW p, QuietStep(h, p)
    PROVE  Credit'
  <1>1. PICK b \in BatchType : Puts(h, p, b) /\ b.pc \in {"idle", "claim"}
    BY DEF QuietStep
  <1>2. /\ work'[h][p].pc \in {"idle", "claim"} /\ work[h][p].pc \in {"idle", "claim"}
        /\ p \in Calls /\ queue' = queue /\ prog' = prog
        /\ round' = round /\ spent' = spent /\ msg' = msg
        /\ \A g \in Hosts, q \in Paths : g # h \/ q # p => work'[g][q] = work[g][q]
    BY <1>1 DEF QuietStep, Puts, histVars
  <1>3. ASSUME NEW g \in Hosts, NEW q \in Calls
        PROVE  (Stray(g, q)' => Stray(g, q)) /\ (Carrying(g, q) => Carrying(g, q)')
    <2>1. CASE g = h /\ q = p
      BY <1>2, <2>1 DEF Stray, Carrying
    <2>2. CASE g # h \/ q # p
      BY <1>2, <2>2, OtherCalls, Paths3
    <2> QED
      BY <2>1, <2>2
  <1>4. \A g \in Hosts : Alive(g)' <=> Alive(g)
    BY <1>2, OtherTicks, Paths3
  <1>5. (Strays' => Strays) /\ (Carried => Carried')
    BY <1>3, <1>4 DEF Strays, Carried
  <1> QED
    BY <1>2, <1>5, CreditKept

LEMMA ClaimCredit ==
    ASSUME TypeInv, Credit, NEW h \in Hosts, NEW p \in Calls, Claim(h, p)
    PROVE  Credit'
  <1>1. ClaimStep(h, p)
    BY ClaimType
  <1>2. PICK D \in SUBSET Devices : Puts(h, p, Batch("send", round + 1, FirstTries(round + 1, D)))
    BY <1>1 DEF ClaimStep
  <1>3. work'[h][p].pc = "send"
    BY <1>2 DEF Puts, Batch
  <1>4. /\ queue' = queue /\ round' = round + 1 /\ spent' = spent
        /\ msg.st = "pending" /\ msg'.st = "sending"
        /\ \A g \in Hosts, q \in Paths : g # h \/ q # p => work'[g][q] = work[g][q]
    BY <1>1, <1>2 DEF ClaimStep, Puts
  <1>5. Carried'
    BY <1>3 DEF Carried, Carrying
  <1>6. ASSUME NEW g \in Hosts, NEW q \in Calls, Stray(g, q)' PROVE Stray(g, q)
    <2>1. g # h \/ q # p
      BY <1>3, <1>6 DEF Stray
    <2> QED
      BY <1>4, <1>6, <2>1, OtherCalls, Paths3
  <1>7. Strays' => Strays
    BY <1>6 DEF Strays
  <1>8. round \in Nat /\ spent \in Nat
    BY DEF TypeInv, Types
  <1> QED
    BY <1>4, <1>5, <1>7, <1>8 DEF Credit

LEMMA SendCredit ==
    ASSUME TypeInv, SlotInv, Credit, NEW h \in Hosts, NEW p \in Paths, NEW j \in work[h][p].todo,
           NEW r \in Outcomes, Send(h, p, j, r)
    PROVE  Credit'
  <1>1. /\ work'[h][p].pc = "send" /\ work'[h][p].jobs = work[h][p].jobs + 1
        /\ work'[h][p].retrying = 0
        /\ Cardinality(work'[h][p].todo) = Cardinality(work[h][p].todo) - 1
        /\ \A g \in Hosts, q \in Paths : g # h \/ q # p => work'[g][q] = work[g][q]
        /\ UNCHANGED <<msg, queue, prog, round, mixed, spent>>
    BY SendFacts
  <1>2. work[h][p].pc = "send"
    BY DEF Send
  <1>3. ASSUME NEW g \in Hosts, NEW q \in Calls
        PROVE  (Stray(g, q)' => Stray(g, q)) /\ (Carrying(g, q) => Carrying(g, q)')
    <2>1. CASE g = h /\ q = p
      BY <1>1, <2>1 DEF Stray, Carrying
    <2>2. CASE g # h \/ q # p
      BY <1>1, <2>2, OtherCalls, Paths3
    <2> QED
      BY <2>1, <2>2
  <1>4. ASSUME NEW g \in Hosts, Alive(g) PROVE Alive(g)'
    <2>1. CASE g = h /\ p = "tick"
      <3>1. /\ work[h]["tick"].jobs \in Nat /\ Cardinality(work[h]["tick"].todo) \in Nat
            /\ work[h]["tick"].retrying = 0
        BY <1>2, <2>1, Ready, Paths3
      <3>2. Cardinality(queue[h]) \in Nat /\ prog[h].outstanding \in Nat
        BY FS_CardinalityType, ProgIs DEF TypeInv, QueueOK
      <3> QED
        BY <1>1, <1>4, <2>1, <3>1, <3>2 DEF Alive
    <2>2. CASE g # h \/ p # "tick"
      BY <1>1, <1>4, <2>2, OtherTicks, Paths3
    <2> QED
      BY <2>1, <2>2
  <1>5. (Strays' => Strays) /\ (Carried => Carried')
    BY <1>3, <1>4 DEF Strays, Carried
  <1> QED
    BY <1>1, <1>5, CreditKept

LEMMA MineFinite ==
    ASSUME TypeInv, NEW h \in Hosts, NEW p
    PROVE  /\ IsFiniteSet(queue[h]) /\ Cardinality(queue[h]) \in Nat
           /\ IsFiniteSet(Mine(h, p)) /\ Cardinality(Mine(h, p)) \in Nat
           /\ Cardinality(Mine(h, p)) <= Cardinality(queue[h])
  <1>1. IsFiniteSet(queue[h])
    BY DEF TypeInv, QueueOK
  <1>2. Mine(h, p) \subseteq queue[h]
    BY DEF Mine
  <1> QED
    BY <1>1, <1>2, Sizes

(* A call whose retries are still queued stays covered. *)
LEMMA StillCovered ==
    ASSUME TypeInv, TypeInv', NEW g \in Hosts, NEW q \in Calls, work'[g][q] = work[g][q],
           Mine(g, q) \subseteq queue'[g]
    PROVE  (Stray(g, q)' => Stray(g, q)) /\ (Carrying(g, q) => Carrying(g, q)')
  <1>1. Mine(g, q) \subseteq Mine(g, q)'
    BY DEF Mine
  <1>2. IsFiniteSet(queue'[g])
    BY DEF TypeInv, QueueOK
  <1>3. Mine(g, q)' \subseteq queue'[g]
    BY DEF Mine
  <1>4. IsFiniteSet(Mine(g, q)') /\ Cardinality(Mine(g, q)') \in Nat
    BY <1>2, <1>3, Sizes
  <1>5. Cardinality(Mine(g, q)) <= Cardinality(Mine(g, q)') /\ Cardinality(Mine(g, q)) \in Nat
    BY <1>1, <1>4, Sizes
  <1>6. work[g][q].retrying \in Nat
    BY Ready, Paths3
  <1>7. Covered(g, q) => Covered(g, q)'
    BY <1>4, <1>5, <1>6 DEF Covered
  <1> QED
    BY <1>7 DEF Stray, Carrying

LEMMA SettleCredit ==
    ASSUME TypeInv, SlotInv, Credit, NEW h \in Hosts, NEW p \in Paths,
           NEW Q \in SUBSET MayRetry(work[h][p]), Settle(h, p, Q)
    PROVE  Credit'
  <1>1. /\ work[h][p].pc = "send" /\ work[h][p].todo = {} /\ work[h][p].retrying = 0
        /\ work'[h][p].pc = "book" /\ work'[h][p].round = work[h][p].round
        /\ work'[h][p].todo = {} /\ work'[h][p].jobs = work[h][p].jobs
        /\ work'[h][p].retrying = Cardinality(Requeued(Q))
        /\ \A g \in Hosts, q \in Paths : g # h \/ q # p => work'[g][q] = work[g][q]
    BY SettleFacts
  <1>2. /\ queue'[h] = queue[h] \cup Requeued(Q)
        /\ \A g \in Hosts : g # h => queue'[g] = queue[g]
        /\ Cardinality(Requeued(Q)) \in Nat
        /\ Cardinality(queue'[h]) = Cardinality(queue[h]) + Cardinality(Requeued(Q))
        /\ \A i \in Requeued(Q) : \E j \in work[h][p].again : i.round = j.round
    BY SettleFacts
  <1>3. prog' = prog /\ msg' = msg /\ spent' = spent /\ round' = round
    BY SettleFacts DEF histVars
  <1>4. TypeInv'
    BY SettleType
  <1>5. ASSUME p \in Calls PROVE ~Stray(h, p)' /\ Carrying(h, p)'
    <2>1. \A i \in Requeued(Q) : i.round = work[h][p].round
      <3>1. \A j \in work[h][p].again : j \in At(h, p)
        BY AtPath
      <3>2. \A j \in work[h][p].again : j.round = work[h][p].round
        BY <1>5, <3>1 DEF SlotInv, OwnRound
      <3> QED
        BY <1>2, <3>2
    <2>2. Requeued(Q) \subseteq Mine(h, p)'
      BY <1>1, <1>2, <2>1 DEF Mine
    <2>3. IsFiniteSet(queue'[h])
      BY <1>4 DEF TypeInv, QueueOK
    <2>4. Mine(h, p)' \subseteq queue'[h]
      BY DEF Mine
    <2>5. IsFiniteSet(Mine(h, p)')
      BY <2>3, <2>4, Sizes
    <2>6. Cardinality(Requeued(Q)) <= Cardinality(Mine(h, p)')
      BY <2>2, <2>5, Sizes
    <2>7. Covered(h, p)'
      BY <1>1, <2>6 DEF Covered
    <2> QED
      BY <1>1, <2>7 DEF Stray, Carrying
  <1>6. ASSUME NEW g \in Hosts, NEW q \in Calls
        PROVE  (Stray(g, q)' => Stray(g, q)) /\ (Carrying(g, q) => Carrying(g, q)')
    <2>1. CASE g = h /\ q = p
      BY <1>5, <2>1
    <2>2. CASE g # h \/ q # p
      <3>1. work'[g][q] = work[g][q]
        BY <1>1, <2>2, Paths3
      <3>2. Mine(g, q) \subseteq queue'[g]
        BY <1>2 DEF Mine
      <3> QED
        BY <1>4, <3>1, <3>2, StillCovered
    <2> QED
      BY <2>1, <2>2
  <1>7. Alive(h) => Alive(h)'
    <2>1. /\ Cardinality(queue[h]) \in Nat /\ prog[h].outstanding \in Nat
          /\ work[h]["tick"].jobs \in Nat /\ Cardinality(work[h]["tick"].todo) \in Nat
          /\ work[h]["tick"].retrying \in Nat
      BY MineFinite, ProgIs, Ready, Paths3
    <2>2. /\ work'[h]["tick"].jobs = work[h]["tick"].jobs
          /\ Cardinality(work'[h]["tick"].todo) = Cardinality(work[h]["tick"].todo)
          /\ work'[h]["tick"].retrying <= work[h]["tick"].retrying + Cardinality(Requeued(Q))
          /\ work'[h]["tick"].retrying \in Nat
      <3>1. CASE p = "tick"
        <4>1. /\ work'[h]["tick"].jobs = work[h]["tick"].jobs
              /\ work'[h]["tick"].todo = work[h]["tick"].todo
              /\ work'[h]["tick"].retrying = Cardinality(Requeued(Q))
              /\ work[h]["tick"].retrying = 0
          BY <1>1, <3>1
        <4> QED
          BY <4>1, <1>2
      <3>2. CASE p # "tick"
        <4>1. work'[h]["tick"] = work[h]["tick"]
          BY <1>1, <3>2, Paths3
        <4> QED
          BY <4>1, <2>1, <1>2
      <3> QED
        BY <3>1, <3>2
    <2>3. prog'[h] = prog[h]
      BY <1>3
    <2> QED
      BY <1>2, <2>1, <2>2, <2>3 DEF Alive
  <1>9. ASSUME NEW g \in Hosts, Alive(g) PROVE Alive(g)'
    <2>1. CASE g # h
      BY <1>1, <1>2, <1>3, <1>9, <2>1, OtherTicks, Paths3
    <2> QED
      BY <1>7, <1>9, <2>1
  <1>8. (Strays' => Strays) /\ (Carried => Carried')
    BY <1>6, <1>9 DEF Strays, Carried
  <1> QED
    BY <1>3, <1>8, CreditKept

LEMMA TakeCredit ==
    ASSUME TypeInv, Credit, NEW h \in Hosts, NEW D \in SUBSET (queue[h] \ Young(h)), Take(h, D),
           spent' = spent
    PROVE  Credit'
  <1>1. D \in SUBSET queue[h] /\ spent' \in Nat
    BY DEF TypeInv, Types
  <1>2. /\ work[h]["tick"].pc = "idle" /\ work[h]["sweep"].pc = "idle"
        /\ work'[h]["tick"].todo = D /\ work'[h]["tick"].jobs = 0 /\ work'[h]["tick"].retrying = 0
        /\ \A g \in Hosts, q \in Paths : g # h \/ q # "tick" => work'[g][q] = work[g][q]
        /\ queue'[h] = queue[h] \ D
        /\ \A g \in Hosts : g # h => queue'[g] = queue[g]
        /\ Cardinality(queue[h]) = Cardinality(queue'[h]) + Cardinality(D)
        /\ Cardinality(D) \in Nat /\ Cardinality(queue'[h]) \in Nat
        /\ UNCHANGED <<msg, prog, round>>
    BY <1>1, TakeFacts
  <1>3. TypeInv'
    BY <1>1, TakeType
  <1>4. ASSUME NEW g \in Hosts, NEW q \in Calls
        PROVE  (Stray(g, q)' => Stray(g, q)) /\ (Carrying(g, q) => Carrying(g, q)')
    <2>1. work'[g][q] = work[g][q]
      BY <1>2, Paths3
    <2>2. CASE g # h
      BY <1>2, <2>1, <2>2, OtherCalls
    <2>3. CASE g = h /\ work[h][q].pc = "book"
      <3>1. q = "event"
        BY <1>2, <2>3, Paths3
      <3>2. Mine(h, q) \subseteq queue[h] \ D
        BY <2>3, <3>1 DEF Mine, Young
      <3> QED
        BY <1>2, <1>3, <2>1, <2>3, <3>2, StillCovered
    <2>4. CASE g = h /\ work[h][q].pc # "book"
      BY <2>1, <2>4 DEF Stray, Carrying
    <2> QED
      BY <2>2, <2>3, <2>4
  <1>5. ASSUME NEW g \in Hosts, Alive(g) PROVE Alive(g)'
    <2>1. Alive(h) => Alive(h)'
      <3>1. work[h]["tick"].jobs = 0 /\ work[h]["tick"].retrying = 0 /\ work[h]["tick"].todo = {}
        BY <1>2, Ready, Paths3
      <3>2. Cardinality(work[h]["tick"].todo) = 0 /\ prog[h].outstanding \in Nat
        BY <3>1, NothingIsSmall, ProgIs
      <3>3. prog'[h] = prog[h] /\ Cardinality(work'[h]["tick"].todo) = Cardinality(D)
        BY <1>2
      <3>4. Alive(h) => prog[h].outstanding > 0 /\ prog[h].outstanding <= Cardinality(queue[h])
        BY <1>2, <3>1, <3>2 DEF Alive
      <3> QED
        BY <1>2, <3>2, <3>3, <3>4 DEF Alive
    <2>2. CASE g # h
      BY <1>2, <1>5, <2>2, OtherTicks, Paths3
    <2> QED
      BY <1>5, <2>1, <2>2
  <1>6. (Strays' => Strays) /\ (Carried => Carried')
    BY <1>4, <1>5 DEF Strays, Carried
  <1> QED
    BY <1>2, <1>6, CreditKept

(* A call's end is one carrier or stray fewer. *)
LEMMA EndCredit ==
    ASSUME NEW h \in Hosts, NEW p \in Paths, EndStep(h, p)
    PROVE  /\ Strays' => Strays
           /\ \A g \in Hosts, q \in Calls : g # h \/ q # p => (Carrying(g, q) => Carrying(g, q)')
           /\ \A g \in Hosts, q \in Paths : g # h \/ q # p => work'[g][q] = work[g][q]
           /\ work'[h][p] = NoBatch /\ queue' = queue /\ round' = round
  <1>1. /\ work'[h][p] = NoBatch /\ queue' = queue /\ round' = round
        /\ \A g \in Hosts, q \in Paths : g # h \/ q # p => work'[g][q] = work[g][q]
    BY DEF EndStep, Puts, histVars
  <1>2. ASSUME NEW g \in Hosts, NEW q \in Calls, g # h \/ q # p
        PROVE  (Stray(g, q)' <=> Stray(g, q)) /\ (Carrying(g, q) => Carrying(g, q)')
    BY <1>1, <1>2, OtherCalls, Paths3
  <1>3. p \in Calls => ~Stray(h, p)'
    BY <1>1, NoBatchIs DEF Stray
  <1>4. Strays' => Strays
    BY <1>2, <1>3 DEF Strays
  <1> QED
    BY <1>1, <1>2, <1>4

LEMMA RecordCredit ==
    ASSUME TypeInv, Credit, NEW h \in Hosts, NEW p \in Calls, RecordCall(h, p)
    PROVE  Credit'
  <1>1. EndStep(h, p) /\ spent' = spent /\ p \in Paths /\ p # "tick"
    BY RecordType, Paths3
  <1>2. /\ Strays' => Strays
        /\ \A g \in Hosts, q \in Calls : g # h \/ q # p => (Carrying(g, q) => Carrying(g, q)')
        /\ \A g \in Hosts, q \in Paths : g # h \/ q # p => work'[g][q] = work[g][q]
        /\ queue' = queue /\ round' = round
    BY <1>1, EndCredit
  <1> DEFINE b == work[h][p]
  <1>3. b.retrying \in Nat /\ b.delivered \in Nat /\ b.pc = "book"
    BY <1>1, Ready DEF RecordCall
  <1>4. CASE b.retrying = 0
    <2>1. msg' = Finished(b.delivered)
      BY <1>3, <1>4 DEF RecordCall
    <2>2. msg'.st \in Ended
      BY <1>3, <2>1, FinishedIs DEF Ended
    <2>3. msg.st = "sending" /\ Carried => Carried' \/ msg'.st # "sending"
      BY <2>2 DEF Ended
    <2>4. round \in Nat /\ spent \in Nat /\ round <= spent + 1
      BY DEF TypeInv, Types, Credit
    <2> QED
      BY <1>1, <1>2, <2>2, <2>4 DEF Credit, Ended
  <1>5. CASE b.retrying > 0
    <2>1. /\ prog' = [prog EXCEPT ![h] = [delivered |-> b.delivered, outstanding |-> b.retrying]]
          /\ msg' = msg
      BY <1>3, <1>5 DEF RecordCall
    <2>2. prog'[h].outstanding = b.retrying
      BY <2>1 DEF TypeInv, Types
    <2>3. Covered(h, p) => Alive(h)'
      <3>1. work'[h]["tick"] = work[h]["tick"]
        BY <1>1, <1>2, Paths3
      <3>2. /\ work[h]["tick"].retrying <= work[h]["tick"].jobs
            /\ work[h]["tick"].retrying \in Nat /\ work[h]["tick"].jobs \in Nat
            /\ Cardinality(work[h]["tick"].todo) \in Nat
        BY Ready, Paths3
      <3>3. /\ Cardinality(Mine(h, p)) <= Cardinality(queue[h])
            /\ Cardinality(Mine(h, p)) \in Nat /\ Cardinality(queue[h]) \in Nat
        BY MineFinite
      <3> QED
        BY <1>2, <1>3, <1>5, <2>2, <3>1, <3>2, <3>3 DEF Alive, Covered
    <2>4. ~Covered(h, p) => Strays
      BY <1>3 DEF Strays, Stray
    <2>5. Carried' \/ Strays
      BY <2>3, <2>4 DEF Carried
    <2> QED
      BY <1>1, <1>2, <2>1, <2>5, CreditKept
  <1> QED
    BY <1>3, <1>4, <1>5

LEMMA ResolveCredit ==
    ASSUME TypeInv, Credit, NEW h \in Hosts, Resolve(h)
    PROVE  Credit'
  <1> DEFINE t == work[h]["tick"]
             left == StillOut(prog[h], t)
             n == prog[h].delivered + t.delivered
  <1>1. ResolveStep(h) /\ EndStep(h, "tick") /\ "tick" \in Paths /\ "tick" \notin Calls
    BY ResolveType, ResolveEnds, Paths3
  <1>2. /\ Strays' => Strays
        /\ \A g \in Hosts, q \in Calls : g # h \/ q # "tick" => (Carrying(g, q) => Carrying(g, q)')
        /\ \A g \in Hosts, q \in Paths : g # h \/ q # "tick" => work'[g][q] = work[g][q]
        /\ work'[h]["tick"] = NoBatch /\ queue' = queue /\ round' = round
    BY <1>1, EndCredit
  <1>3. \A g \in Hosts, q \in Calls : Carrying(g, q) => Carrying(g, q)'
    BY <1>1, <1>2
  <1>4. prog \in [Hosts -> [delivered : Nat, outstanding : Nat]]
    BY DEF TypeInv, Types
  <1>5. ASSUME NEW g \in Hosts, g # h, Alive(g),
               prog' = prog \/ \E e : prog' = [prog EXCEPT ![h] = e]
        PROVE  Alive(g)'
    <2>1. prog'[g] = prog[g]
      BY <1>4, <1>5
    <2>2. work'[g]["tick"] = work[g]["tick"] /\ queue'[g] = queue[g]
      BY <1>1, <1>2, <1>5
    <2> QED
      BY <1>5, <2>1, <2>2, OtherTicks
  <1>6. CASE prog[h] = None /\ UNCHANGED <<msg, prog, spent>>
    <2>1. ~Alive(h)
      BY <1>6, ProgIs DEF Alive
    <2>2. \A g \in Hosts : Alive(g) => Alive(g)'
      BY <1>5, <1>6, <2>1
    <2>3. Carried => Carried'
      BY <1>3, <2>2 DEF Carried
    <2> QED
      BY <1>2, <1>6, <2>3, CreditKept
  <1>7. CASE /\ left > 0 /\ UNCHANGED <<msg, spent>>
             /\ prog' = [prog EXCEPT ![h] = [delivered |-> n, outstanding |-> left]]
    <2>1. prog'[h].outstanding = left
      BY <1>4, <1>7
    <2>2. /\ t \in BatchType /\ t.retrying <= t.jobs /\ t.todo = {}
          /\ t.jobs \in Nat /\ t.retrying \in Nat
      BY <1>1, Ready DEF ResolveStep
    <2>3. /\ prog[h].delivered \in Nat /\ prog[h].outstanding \in Nat
          /\ prog[h] = [delivered |-> prog[h].delivered, outstanding |-> prog[h].outstanding]
          /\ Cardinality(queue[h]) \in Nat
      BY ProgIs, MineFinite
    <2>4. \A o, d \in Nat : prog[h] = [delivered |-> d, outstanding |-> o] =>
              left = o + t.retrying - t.jobs
      <3> SUFFICES ASSUME NEW o \in Nat, NEW d \in Nat,
                          prog[h] = [delivered |-> d, outstanding |-> o]
                   PROVE  left = o + t.retrying - t.jobs
        OBVIOUS
      <3>1. left > 0
        BY <1>7
      <3> QED
        BY <2>2, <3>1, StillOutIs
    <2>5. left = prog[h].outstanding + t.retrying - t.jobs
      <3> HIDE DEF left, t
      <3> QED
        BY <2>3, <2>4, Zenon
    <2>6. Alive(h) => Alive(h)'
      <3>1. Cardinality(t.todo) = 0 /\ Cardinality(NoBatch.todo) = 0
        BY <2>2, NoBatchIs, NothingIsSmall
      <3>2. Alive(h) => prog[h].outstanding + t.retrying <= Cardinality(queue[h]) + t.jobs
        BY <2>2, <2>3, <3>1 DEF Alive
      <3> HIDE DEF left, t
      <3> QED
        BY <1>2, <1>7, <2>1, <2>2, <2>3, <2>5, <3>1, <3>2, NoBatchIs DEF Alive
    <2>7. \A g \in Hosts : Alive(g) => Alive(g)'
      BY <1>5, <1>7, <2>6
    <2>8. Carried => Carried'
      BY <1>3, <2>7 DEF Carried
    <2> QED
      BY <1>2, <1>7, <2>8, CreditKept
  <1>8. CASE msg' = Finished(n) /\ UNCHANGED spent
    <2>1. t.delivered \in Nat /\ prog[h].delivered \in Nat
      BY <1>1, CountsAre
    <2>2. msg'.st \in {"sent", "failed"}
      BY <1>8, <2>1, FinishedIs
    <2>3. round \in Nat /\ spent \in Nat /\ round <= spent + 1
      BY DEF TypeInv, Types, Credit
    <2> QED
      BY <1>2, <1>8, <2>2, <2>3 DEF Credit
  <1>9. CASE spent' = spent + 1 /\ UNCHANGED msg
    BY <1>2, <1>9, CreditOfFault
  <1> QED
    BY <1>1, <1>6, <1>7, <1>8, <1>9 DEF ResolveStep

LEMMA FaultCredit ==
    ASSUME TypeInv, Credit, NEW h \in Hosts,
           \/ TurnedOff(h) \/ Crash(h) \/ TakeEarly(h) \/ \E p \in Calls : FinishFails(h, p)
    PROVE  Credit'
  <1>1. spent' = spent + 1 /\ msg' = msg /\ round' = round
    BY DEF TurnedOff, Crash, TakeEarly, Take, FinishFails, Fault, histVars
  <1> QED
    BY <1>1, CreditOfFault

-----------------------------------------------------------------------------
(* Exact: the books of the one host that has work in hand. *)

LEMMA SameAcks ==
    ASSUME hits' = hits, round' = round
    PROVE  Acks' = Acks
  <1>1. Acknowledged' = Acknowledged
    BY DEF Acknowledged
  <1> QED
    BY <1>1 DEF Acks

LEMMA SameBooks ==
    ASSUME NEW g \in Hosts, \A q \in Paths : work'[g][q] = work[g][q],
           queue'[g] = queue[g], prog'[g] = prog[g], round' = round, Acks' = Acks
    PROVE  (Busy(g)' <=> Busy(g)) /\ (Exactly(g) => Exactly(g)')
  <1>1. \A q \in Paths : Working(g, q)' <=> Working(g, q)
    BY DEF Working
  <1>2. Busy(g)' <=> Busy(g)
    BY <1>1 DEF Busy
  <1>3. \A x \in Places : At(g, x)' = At(g, x)
    BY PlacesAre DEF At
  <1>4. \A q \in Calls : CallBooks(g, q) => CallBooks(g, q)'
    BY <1>1, Paths3 DEF CallBooks
  <1>5. TickBooks(g) => TickBooks(g)'
    BY <1>1, Paths3 DEF TickBooks
  <1>6. QueueBooks(g) => QueueBooks(g)'
    BY <1>1 DEF QueueBooks
  <1>7. Exactly(g) => Exactly(g)'
    BY <1>1, <1>3, <1>4, <1>5, <1>6 DEF Exactly
  <1> QED
    BY <1>2, <1>7

LEMMA ExactKept ==
    ASSUME Exact, msg' = msg, Acks' = Acks,
           \A g \in Hosts : (Busy(g)' => Busy(g)) /\ (Exactly(g) => Exactly(g)')
    PROVE  Exact'
  BY DEF Exact

(* Only one host has work in hand, so only its books matter. *)
LEMMA ExactOfBusy ==
    ASSUME Exact, NEW h \in Hosts, Busy(h),
           \A g \in Hosts : g # h => (Busy(g)' => Busy(g)),
           Busy(h)' => msg'.st = "sending" /\ Exactly(h)',
           msg'.st \in {"sent", "failed"} => msg'.delivered = Acks'
    PROVE  Exact'
  <1>1. \A g \in Hosts : g # h => ~Busy(g)'
    BY DEF Exact
  <1> QED
    BY <1>1 DEF Exact

LEMMA OthersIdle ==
    ASSUME NEW h \in Hosts,
           \A g \in Hosts, q \in Paths : g # h => work'[g][q] = work[g][q],
           \A g \in Hosts : g # h => queue'[g] = queue[g]
    PROVE  \A g \in Hosts : g # h => (Busy(g)' <=> Busy(g))
  BY DEF Busy, Working

LEMMA InitExact == Init => Exact
  <1> SUFFICES ASSUME Init PROVE Exact
    OBVIOUS
  <1>1. \A h \in Hosts : ~Busy(h)
    BY NoBatchIs DEF Init, Busy, Working
  <1> QED
    BY <1>1 DEF Init, Exact

LEMMA RowExact ==
    ASSUME TypeInv, Exact, NEW h \in Hosts, Commit \/ Cancel \/ ResetStuck(h)
    PROVE  Exact'
  <1>1. RowStep /\ msg'.st \in {"pending", "cancelled"}
    BY RowSteps
  <1>2. \A g \in Hosts : ~Busy(g)
    <2>1. CASE Commit \/ Cancel
      BY <2>1 DEF Commit, Cancel, Exact
    <2>2. CASE ResetStuck(h)
      BY <2>2 DEF ResetStuck, InHand, Busy, Working
    <2> QED
      BY <2>1, <2>2
  <1>3. \A g \in Hosts : ~Busy(g)'
    BY <1>1, <1>2 DEF RowStep, Busy, Working
  <1> QED
    BY <1>1, <1>3 DEF Exact

LEMMA QuietExact ==
    ASSUME TypeInv, Exact, NEW h \in Hosts, NEW p, QuietStep(h, p)
    PROVE  Exact'
  <1>1. TypeInv' /\ p \in Paths /\ p \in Calls /\ p # "tick" /\ p # "queue"
    BY QuietType, Paths3 DEF QuietStep
  <1>2. PICK b \in BatchType : Puts(h, p, b) /\ b.pc \in {"idle", "claim"}
    BY DEF QuietStep
  <1>3. /\ work'[h][p].pc \in {"idle", "claim"} /\ work[h][p].pc \in {"idle", "claim"}
        /\ queue' = queue /\ prog' = prog /\ round' = round /\ msg' = msg /\ hits' = hits
        /\ \A g \in Hosts, q \in Paths : g # h \/ q # p => work'[g][q] = work[g][q]
    BY <1>2 DEF QuietStep, Puts, histVars
  <1>4. Acks' = Acks
    BY <1>3, SameAcks
  <1>5. /\ \A q \in Paths : Working(h, q)' <=> Working(h, q)
        /\ ~Working(h, p) /\ ~Working(h, p)'
    BY <1>3 DEF Working
  <1>6. Busy(h)' => Busy(h)
    BY <1>3, <1>5 DEF Busy
  <1>7. \A x \in Places : At(h, x)' \subseteq At(h, x)
    <2>1. work'[h][p].todo = {} /\ work'[h][p].again = {}
      BY <1>1, <1>3 DEF TypeInv, WorkOK, BatchOK, Sized
    <2> QED
      BY <1>3, <2>1, PlacesAre DEF At
  <1>8. Exactly(h) => Exactly(h)'
    <2>1. \A q \in Calls : CallBooks(h, q) => CallBooks(h, q)'
      <3> SUFFICES ASSUME NEW q \in Calls, CallBooks(h, q), Working(h, q)' PROVE CallBooks(h, q)'
        BY DEF CallBooks
      <3>1. q # p /\ q \in Paths
        BY <1>5, Paths3
      <3>2. work'[h][q] = work[h][q] /\ Working(h, q)
        BY <1>3, <1>5, <3>1
      <3> QED
        BY <1>3, <1>4, <3>2 DEF CallBooks
    <2>2. work'[h]["tick"] = work[h]["tick"] /\ (Working(h, "tick")' <=> Working(h, "tick"))
      BY <1>1, <1>3, <1>5, Paths3
    <2>3. TickBooks(h) => TickBooks(h)'
      BY <1>3, <1>4, <2>2 DEF TickBooks
    <2>4. QueueBooks(h) => QueueBooks(h)'
      BY <1>3, <1>4, <1>5 DEF QueueBooks
    <2> QED
      BY <1>3, <1>5, <1>7, <2>1, <2>3, <2>4 DEF Exactly
  <1>9. \A g \in Hosts : (Busy(g)' => Busy(g)) /\ (Exactly(g) => Exactly(g)')
    <2> SUFFICES ASSUME NEW g \in Hosts, g # h
                 PROVE  (Busy(g)' => Busy(g)) /\ (Exactly(g) => Exactly(g)')
      BY <1>6, <1>8
    <2>1. \A q \in Paths : work'[g][q] = work[g][q]
      BY <1>3
    <2> QED
      BY <1>3, <1>4, <2>1, SameBooks
  <1> QED
    BY <1>3, <1>4, <1>9, ExactKept

(* A host with nothing in hand has no send anywhere. *)
LEMMA IdleHost ==
    ASSUME TypeInv, NEW h \in Hosts, ~Busy(h)
    PROVE  /\ queue[h] = {} /\ \A p \in Paths : ~Working(h, p)
           /\ \A x \in Places : At(h, x) = {}
  <1>1. queue[h] = {} /\ \A p \in Paths : ~Working(h, p)
    BY DEF Busy
  <1>2. \A p \in Paths : work[h][p].todo = {} /\ work[h][p].again = {}
    BY <1>1, Ready DEF Working
  <1> QED
    BY <1>1, <1>2, PlacesAre DEF At

LEMMA ClaimExact ==
    ASSUME TypeInv, SlotInv, Exact, NEW h \in Hosts, NEW p \in Calls, Claim(h, p)
    PROVE  Exact'
  <1>1. ClaimStep(h, p) /\ p \in Paths /\ p # "tick" /\ p # "queue"
    BY ClaimType, Paths3
  <1>2. PICK D \in SUBSET Devices : Puts(h, p, Batch("send", round + 1, FirstTries(round + 1, D)))
    BY <1>1 DEF ClaimStep
  <1>3. /\ round \in Nat /\ round' = round + 1 /\ queue' = queue /\ prog' = prog /\ hits' = hits
        /\ msg.st = "pending" /\ msg'.st = "sending"
        /\ \A g \in Hosts, q \in Paths : g # h \/ q # p => work'[g][q] = work[g][q]
    BY <1>1, <1>2 DEF ClaimStep, Puts, TypeInv, Types
  <1>4. /\ work'[h][p].pc = "send" /\ work'[h][p].round = round + 1
        /\ work'[h][p].todo = FirstTries(round + 1, D) /\ work'[h][p].again = {}
        /\ work'[h][p].delivered = 0
    BY <1>2 DEF Puts, Batch
  <1>5. \A g \in Hosts : ~Busy(g)
    BY <1>3 DEF Exact
  <1>6. \A g \in Hosts : g # h => ~Busy(g)'
    BY <1>3, <1>5, OthersIdle
  <1>7. Acks' = 0
    <2>1. \A d \in Devices, g \in Hosts : <<round + 1, d>> \notin hits[g]
      BY <1>3 DEF SlotInv, Hit
    <2>2. Acknowledged' = {}
      BY <1>3, <2>1 DEF Acknowledged
    <2> QED
      BY <2>2, NothingIsSmall DEF Acks
  <1>8. queue[h] = {} /\ (\A q \in Paths : ~Working(h, q)) /\ \A x \in Places : At(h, x) = {}
    BY <1>5, IdleHost
  <1>9. \A q \in Paths : Working(h, q)' => q = p
    BY <1>3, <1>8 DEF Working
  <1>10. \A x \in Places : \A j \in At(h, x)' : j.round = round'
    <2> SUFFICES ASSUME NEW x \in Places, NEW j \in At(h, x)' PROVE j.round = round + 1
      BY <1>3
    <2>1. CASE x = p
      <3>1. j \in FirstTries(round + 1, D)
        BY <1>1, <1>4, <2>1, AtPath
      <3> QED
        BY <1>3, <3>1, FirstTriesAre
    <2>2. CASE x # p
      <3>1. At(h, x)' = At(h, x)
        BY <1>3, <2>2, PlacesAre DEF At
      <3> QED
        BY <1>8, <3>1
    <2> QED
      BY <2>1, <2>2
  <1>11. \A q \in Calls : CallBooks(h, q)'
    <2> SUFFICES ASSUME NEW q \in Calls, Working(h, q)' PROVE CallBooks(h, q)'
      BY DEF CallBooks
    <2>1. q = p
      BY <1>9, Paths3
    <2> QED
      BY <2>1, <1>3, <1>4, <1>7, <1>8 DEF CallBooks
  <1>12. TickBooks(h)' /\ QueueBooks(h)'
    <2>1. ~Working(h, "tick")'
      BY <1>1, <1>9, Paths3
    <2>2. queue'[h] = {}
      BY <1>3, <1>8
    <2> QED
      BY <2>1, <2>2 DEF TickBooks, QueueBooks
  <1>13. Exactly(h)'
    BY <1>9, <1>10, <1>11, <1>12 DEF Exactly
  <1> QED
    BY <1>3, <1>6, <1>13 DEF Exact

LEMMA SendAcks ==
    ASSUME TypeInv, SlotInv, NEW h \in Hosts, NEW p \in Paths, NEW j \in work[h][p].todo,
           NEW r \in Outcomes, Send(h, p, j, r), j.round = round
    PROVE  Acks \in Nat /\ Acks' = IF r = "ok" THEN Acks + 1 ELSE Acks
  <1>1. /\ j.dev \in Devices /\ Slot(j) = <<j.round, j.dev>>
        /\ \A g \in Hosts : Slot(j) \notin hits[g]
        /\ hits' = IF r = "ok" THEN [hits EXCEPT ![h] = @ \cup {Slot(j)}] ELSE hits
        /\ round' = round
    BY SendFacts
  <1>2. IsFiniteSet(Acknowledged) /\ Acks \in Nat
    BY HitsFinite
  <1>3. CASE r # "ok"
    BY <1>1, <1>2, <1>3, SameAcks
  <1>4. CASE r = "ok"
    <2>1. hits \in [Hosts -> SUBSET (Nat \X Devices)]
      BY DEF TypeInv, Types
    <2>2. \A g \in Hosts : hits'[g] = IF g = h THEN hits[h] \cup {<<round, j.dev>>} ELSE hits[g]
      BY <1>1, <1>4, <2>1
    <2>3. j.dev \notin Acknowledged
      BY <1>1 DEF Acknowledged
    <2>4. Acknowledged' = Acknowledged \cup {j.dev}
      BY <1>1, <2>2 DEF Acknowledged
    <2> QED
      BY <1>2, <1>4, <2>3, <2>4, FS_AddElement DEF Acks
  <1> QED
    BY <1>3, <1>4

LEMMA SendExact ==
    ASSUME TypeInv, SlotInv, Exact, NEW h \in Hosts, NEW p \in Paths, NEW j \in work[h][p].todo,
           NEW r \in Outcomes, Send(h, p, j, r)
    PROVE  Exact'
  <1>1. /\ j \in At(h, p)
        /\ work'[h][p].pc = "send" /\ work'[h][p].round = work[h][p].round
        /\ work'[h][p].jobs = work[h][p].jobs + 1 /\ work'[h][p].retrying = 0
        /\ work'[h][p].delivered = IF r = "ok" THEN work[h][p].delivered + 1 ELSE work[h][p].delivered
        /\ Cardinality(work'[h][p].todo) = Cardinality(work[h][p].todo) - 1
        /\ At(h, p)' \subseteq At(h, p)
        /\ \A g \in Hosts, x \in Places : g # h \/ x # p => At(g, x)' = At(g, x)
        /\ \A g \in Hosts, q \in Paths : g # h \/ q # p => work'[g][q] = work[g][q]
        /\ UNCHANGED <<msg, queue, prog, round, mixed, spent>>
    BY SendFacts
  <1>2. work[h][p].pc = "send" /\ Working(h, p) /\ Busy(h)
    BY DEF Send, Working, Busy
  <1>3. msg.st = "sending" /\ Exactly(h)
    BY <1>2 DEF Exact
  <1>4. j.round = round
    BY <1>1, <1>3, Paths3 DEF Exactly
  <1>5. Acks \in Nat /\ Acks' = IF r = "ok" THEN Acks + 1 ELSE Acks
    BY <1>4, SendAcks
  <1>6. (\A q \in Paths : Working(h, q)' <=> Working(h, q)) /\ Working(h, p)'
    BY <1>1, <1>2 DEF Working
  <1>7. \A q \in Paths : Working(h, q)' => q = p
    BY <1>2, <1>3, <1>6 DEF Exactly
  <1>8. \A x \in Places : \A i \in At(h, x)' : i.round = round'
    <2>1. \A x \in Places : At(h, x)' \subseteq At(h, x)
      BY <1>1
    <2> QED
      BY <1>1, <1>3, <2>1 DEF Exactly
  <1>9. \A q \in Calls : CallBooks(h, q)'
    <2> SUFFICES ASSUME NEW q \in Calls, Working(h, q)' PROVE CallBooks(h, q)'
      BY DEF CallBooks
    <2>1. q = p /\ p \in Calls
      BY <1>7, Paths3
    <2>2. work[h][p].delivered = Acks /\ work[h][p].round = round /\ queue[h] = {}
      BY <1>2, <1>3, <2>1 DEF Exactly, CallBooks
    <2> QED
      BY <1>1, <1>5, <2>1, <2>2 DEF CallBooks
  <1>10. TickBooks(h)'
    <2> SUFFICES ASSUME Working(h, "tick")' PROVE TickBooks(h)'
      BY DEF TickBooks
    <2>1. p = "tick"
      BY <1>7, Paths3
    <2>2. LET t == work[h]["tick"] IN
          /\ prog[h].delivered + t.delivered = Acks /\ prog[h].outstanding > 0
          /\ prog[h].outstanding + t.retrying = Cardinality(queue[h]) + t.jobs + Cardinality(t.todo)
      BY <1>2, <1>3, <2>1 DEF Exactly, TickBooks
    <2>3. /\ work[h]["tick"].jobs \in Nat /\ Cardinality(work[h]["tick"].todo) \in Nat
          /\ work[h]["tick"].retrying = 0 /\ work[h]["tick"].delivered \in Nat
          /\ prog[h].delivered \in Nat /\ prog[h].outstanding \in Nat
          /\ Cardinality(queue[h]) \in Nat
      BY <1>2, <2>1, Ready, ProgIs, MineFinite
    <2>4. prog'[h].delivered + work'[h]["tick"].delivered = Acks'
      BY <1>1, <1>5, <2>1, <2>2, <2>3
    <2>5. prog'[h].outstanding > 0
          /\ prog'[h].outstanding + work'[h]["tick"].retrying
               = Cardinality(queue'[h]) + work'[h]["tick"].jobs + Cardinality(work'[h]["tick"].todo)
      BY <1>1, <2>1, <2>2, <2>3
    <2> QED
      BY <2>4, <2>5 DEF TickBooks
  <1>11. QueueBooks(h)'
    BY <1>6 DEF QueueBooks
  <1>12. Exactly(h)'
    BY <1>7, <1>8, <1>9, <1>10, <1>11 DEF Exactly
  <1>13. \A g \in Hosts : g # h => (Busy(g)' <=> Busy(g))
    BY <1>1, OthersIdle
  <1> QED
    BY <1>1, <1>2, <1>3, <1>12, <1>13, ExactOfBusy

LEMMA SettleExact ==
    ASSUME TypeInv, SlotInv, Exact, NEW h \in Hosts, NEW p \in Paths,
           NEW Q \in SUBSET MayRetry(work[h][p]), Settle(h, p, Q)
    PROVE  Exact'
  <1>1. /\ work[h][p].pc = "send" /\ work[h][p].todo = {} /\ work[h][p].retrying = 0
        /\ work'[h][p].pc = "book" /\ work'[h][p].round = work[h][p].round
        /\ work'[h][p].todo = {} /\ work'[h][p].again = {}
        /\ work'[h][p].jobs = work[h][p].jobs /\ work'[h][p].delivered = work[h][p].delivered
        /\ work'[h][p].retrying = Cardinality(Requeued(Q))
        /\ \A g \in Hosts, q \in Paths : g # h \/ q # p => work'[g][q] = work[g][q]
    BY SettleFacts
  <1>2. /\ queue'[h] = queue[h] \cup Requeued(Q)
        /\ \A g \in Hosts : g # h => queue'[g] = queue[g]
        /\ Cardinality(Requeued(Q)) \in Nat
        /\ Cardinality(queue'[h]) = Cardinality(queue[h]) + Cardinality(Requeued(Q))
        /\ \A i \in Requeued(Q) : \E j \in work[h][p].again : i.round = j.round
    BY SettleFacts
  <1>3. prog' = prog /\ msg' = msg /\ round' = round /\ hits' = hits
    BY SettleFacts DEF histVars
  <1>4. Acks' = Acks
    BY <1>3, SameAcks
  <1>5. Working(h, p) /\ Working(h, p)' /\ Busy(h)
    BY <1>1 DEF Working, Busy
  <1>6. msg.st = "sending" /\ Exactly(h)
    BY <1>5 DEF Exact
  <1>7. \A q \in Paths : Working(h, q)' => q = p
    <2>1. \A q \in Paths : Working(h, q)' => Working(h, q)
      BY <1>1, <1>5 DEF Working
    <2> QED
      BY <1>5, <1>6, <2>1 DEF Exactly
  <1>8. \A x \in Places : \A i \in At(h, x)' : i.round = round'
    <2> SUFFICES ASSUME NEW x \in Places, NEW i \in At(h, x)' PROVE i.round = round
      BY <1>3
    <2>1. \A y \in Places : \A j \in At(h, y) : j.round = round
      BY <1>6 DEF Exactly
    <2>2. CASE x = "queue"
      <3>1. i \in queue[h] \/ i \in Requeued(Q)
        BY <1>2, <2>2 DEF At
      <3>2. \A j \in queue[h] : j.round = round
        BY <2>1, Paths3 DEF At
      <3>3. \A j \in work[h][p].again : j.round = round
        BY <2>1, Paths3 DEF At
      <3> QED
        BY <1>2, <3>1, <3>2, <3>3
    <2>3. CASE x # "queue"
      <3>1. x \in Paths
        BY <2>3, PlacesAre
      <3>2. i \in At(h, x)
        BY <1>1, <3>1, AtPath
      <3> QED
        BY <2>1, <3>2
    <2> QED
      BY <2>2, <2>3
  <1>9. \A q \in Calls : CallBooks(h, q)'
    <2> SUFFICES ASSUME NEW q \in Calls, Working(h, q)' PROVE CallBooks(h, q)'
      BY DEF CallBooks
    <2>1. q = p /\ p \in Calls
      BY <1>7, Paths3
    <2>2. work[h][p].delivered = Acks /\ work[h][p].round = round /\ queue[h] = {}
      BY <1>1, <1>5, <1>6, <2>1 DEF Exactly, CallBooks
    <2>3. queue'[h] = Requeued(Q)
      BY <1>2, <2>2
    <2> QED
      BY <1>1, <1>3, <1>4, <2>1, <2>2, <2>3 DEF CallBooks
  <1>10. TickBooks(h)'
    <2> SUFFICES ASSUME Working(h, "tick")' PROVE TickBooks(h)'
      BY DEF TickBooks
    <2>1. p = "tick"
      BY <1>7, Paths3
    <2>2. LET t == work[h]["tick"] IN
          /\ prog[h].delivered + t.delivered = Acks /\ prog[h].outstanding > 0
          /\ prog[h].outstanding + t.retrying = Cardinality(queue[h]) + t.jobs + Cardinality(t.todo)
      BY <1>5, <1>6, <2>1 DEF Exactly, TickBooks
    <2>3. /\ work[h]["tick"].jobs \in Nat /\ Cardinality(work[h]["tick"].todo) = 0
          /\ prog[h].outstanding \in Nat /\ Cardinality(queue[h]) \in Nat
      BY <1>1, <2>1, Ready, ProgIs, MineFinite, NothingIsSmall
    <2>4. Cardinality(work'[h]["tick"].todo) = 0
      BY <1>1, <2>1, NothingIsSmall
    <2>5. prog'[h].delivered + work'[h]["tick"].delivered = Acks' /\ prog'[h].outstanding > 0
      BY <1>1, <1>3, <1>4, <2>1, <2>2
    <2>6. prog'[h].outstanding + work'[h]["tick"].retrying
            = Cardinality(queue'[h]) + work'[h]["tick"].jobs + Cardinality(work'[h]["tick"].todo)
      BY <1>1, <1>2, <1>3, <2>1, <2>2, <2>3, <2>4
    <2> QED
      BY <2>5, <2>6 DEF TickBooks
  <1>11. QueueBooks(h)'
    BY <1>5 DEF QueueBooks
  <1>12. Exactly(h)'
    BY <1>7, <1>8, <1>9, <1>10, <1>11 DEF Exactly
  <1>13. \A g \in Hosts : g # h => (Busy(g)' <=> Busy(g))
    BY <1>1, <1>2, OthersIdle
  <1> QED
    BY <1>3, <1>4, <1>5, <1>6, <1>12, <1>13, ExactOfBusy

(* The one batch of a host ends: what is left is its queue. *)
LEMMA EndBusy ==
    ASSUME TypeInv, Exact, NEW h \in Hosts, NEW p \in Paths, EndStep(h, p)
    PROVE  /\ Busy(h) /\ Working(h, p) /\ msg.st = "sending" /\ Exactly(h)
           /\ queue' = queue /\ round' = round /\ Acks' = Acks
           /\ \A q \in Paths : ~Working(h, q)'
           /\ Busy(h)' <=> queue[h] # {}
           /\ \A g \in Hosts : g # h => (Busy(g)' <=> Busy(g))
           /\ \A x \in Places : At(h, x)' \subseteq At(h, x)
  <1>1. /\ work'[h][p] = NoBatch /\ queue' = queue /\ round' = round /\ hits' = hits
        /\ \A g \in Hosts, q \in Paths : g # h \/ q # p => work'[g][q] = work[g][q]
        /\ work[h][p].pc = "book"
    BY DEF EndStep, Puts, histVars
  <1>2. Busy(h) /\ Working(h, p)
    BY <1>1 DEF Busy, Working
  <1>3. msg.st = "sending" /\ Exactly(h)
    BY <1>2 DEF Exact
  <1>4. \A q \in Paths : ~Working(h, q)'
    <2> SUFFICES ASSUME NEW q \in Paths PROVE ~Working(h, q)'
      OBVIOUS
    <2>1. CASE q = p
      BY <1>1, <2>1, NoBatchIs DEF Working
    <2>2. CASE q # p
      <3>1. ~Working(h, q)
        BY <1>2, <1>3, <2>2 DEF Exactly
      <3> QED
        BY <1>1, <2>2, <3>1 DEF Working
    <2> QED
      BY <2>1, <2>2
  <1>5. Busy(h)' <=> queue[h] # {}
    BY <1>1, <1>4 DEF Busy
  <1>6. \A g \in Hosts : g # h => (Busy(g)' <=> Busy(g))
    BY <1>1, OthersIdle
  <1>7. \A x \in Places : At(h, x)' \subseteq At(h, x)
    BY <1>1, NoBatchIs, PlacesAre DEF At
  <1>8. Acks' = Acks
    BY <1>1, SameAcks
  <1> QED
    BY <1>1, <1>2, <1>3, <1>4, <1>5, <1>6, <1>7, <1>8

LEMMA EndExact ==
    ASSUME TypeInv, Exact, NEW h \in Hosts, NEW p \in Paths, EndStep(h, p),
           queue[h] # {} => /\ msg'.st = "sending"
                            /\ prog'[h].delivered = Acks /\ prog'[h].outstanding = Cardinality(queue[h]),
           msg'.st \in {"sent", "failed"} => msg'.delivered = Acks
    PROVE  Exact'
  <1>1. /\ Busy(h) /\ Exactly(h) /\ queue' = queue /\ round' = round /\ Acks' = Acks
        /\ \A q \in Paths : ~Working(h, q)'
        /\ Busy(h)' <=> queue[h] # {}
        /\ \A g \in Hosts : g # h => (Busy(g)' <=> Busy(g))
        /\ \A x \in Places : At(h, x)' \subseteq At(h, x)
    BY EndBusy
  <1>2. ASSUME queue[h] # {} PROVE Exactly(h)'
    <2>1. \A x \in Places : \A j \in At(h, x)' : j.round = round'
      BY <1>1 DEF Exactly
    <2>2. (\A q \in Calls : CallBooks(h, q)') /\ TickBooks(h)'
      BY <1>1, Paths3 DEF CallBooks, TickBooks
    <2>3. QueueBooks(h)'
      BY <1>1, <1>2 DEF QueueBooks
    <2> QED
      BY <1>1, <2>1, <2>2, <2>3 DEF Exactly
  <1> QED
    BY <1>1, <1>2, ExactOfBusy

LEMMA RecordExact ==
    ASSUME TypeInv, Exact, NEW h \in Hosts, NEW p \in Calls, RecordCall(h, p)
    PROVE  Exact'
  <1>1. EndStep(h, p) /\ p \in Paths
    BY RecordType, Paths3
  <1>2. Working(h, p) /\ msg.st = "sending" /\ Exactly(h)
    BY <1>1, EndBusy
  <1>3. work[h][p].delivered = Acks /\ (queue[h] # {} => work[h][p].retrying = Cardinality(queue[h]))
    BY <1>2 DEF Exactly, CallBooks
  <1>4. work[h][p].retrying \in Nat /\ work[h][p].delivered \in Nat
    BY <1>1, Ready
  <1>5. CASE work[h][p].retrying = 0
    <2>1. msg' = Finished(work[h][p].delivered)
      BY <1>4, <1>5 DEF RecordCall
    <2>2. queue[h] = {}
      BY <1>3, <1>5, Sizes DEF TypeInv, QueueOK
    <2>3. msg'.delivered = Acks
      BY <1>3, <1>4, <2>1, FinishedIs
    <2> QED
      BY <1>1, <2>2, <2>3, EndExact
  <1>6. CASE work[h][p].retrying > 0
    <2>1. /\ prog' = [prog EXCEPT ![h] = [delivered |-> work[h][p].delivered,
                                          outstanding |-> work[h][p].retrying]]
          /\ msg' = msg
      BY <1>4, <1>6 DEF RecordCall
    <2>2. prog'[h].delivered = work[h][p].delivered /\ prog'[h].outstanding = work[h][p].retrying
      BY <2>1 DEF TypeInv, Types
    <2> QED
      BY <1>1, <1>2, <1>3, <2>1, <2>2, EndExact
  <1> QED
    BY <1>4, <1>5, <1>6

LEMMA FinishFailsExact ==
    ASSUME TypeInv, Exact, NEW h \in Hosts, NEW p \in Calls, FinishFails(h, p)
    PROVE  Exact'
  <1>1. EndStep(h, p) /\ p \in Paths /\ msg' = msg /\ work[h][p].retrying = 0
    BY FinishFailsType, Paths3 DEF FinishFails
  <1>2. Working(h, p) /\ msg.st = "sending" /\ Exactly(h)
    BY <1>1, EndBusy
  <1>3. queue[h] # {} => work[h][p].retrying = Cardinality(queue[h])
    BY <1>2 DEF Exactly, CallBooks
  <1>4. queue[h] = {}
    BY <1>1, <1>3, Sizes DEF TypeInv, QueueOK
  <1> QED
    BY <1>1, <1>2, <1>4, EndExact

LEMMA ResolveExact ==
    ASSUME TypeInv, Exact, NEW h \in Hosts, Resolve(h)
    PROVE  Exact'
  <1> DEFINE t == work[h]["tick"]
             left == StillOut(prog[h], t)
             n == prog[h].delivered + t.delivered
  <1>1. ResolveStep(h) /\ EndStep(h, "tick") /\ "tick" \in Paths
    BY ResolveType, ResolveEnds, Paths3
  <1>2. Working(h, "tick") /\ msg.st = "sending" /\ Exactly(h)
    BY <1>1, EndBusy
  <1>3. /\ n = Acks /\ prog[h].outstanding > 0
        /\ prog[h].outstanding + t.retrying = Cardinality(queue[h]) + t.jobs + Cardinality(t.todo)
    BY <1>2 DEF Exactly, TickBooks
  <1>4. /\ t \in BatchType /\ t.retrying <= t.jobs /\ t.todo = {}
        /\ t.jobs \in Nat /\ t.retrying \in Nat
    BY <1>1, Ready DEF ResolveStep
  <1>5. /\ prog[h].delivered \in Nat /\ prog[h].outstanding \in Nat
        /\ prog[h] = [delivered |-> prog[h].delivered, outstanding |-> prog[h].outstanding]
        /\ prog[h] # None /\ Cardinality(queue[h]) \in Nat /\ n \in Nat
        /\ Cardinality(queue[h]) = 0 <=> queue[h] = {}
    <2>1. IsFiniteSet(queue[h]) /\ t.delivered \in Nat
      BY <1>1, Ready DEF TypeInv, QueueOK
    <2> QED
      BY <1>3, <2>1, ProgIs, Sizes
  <1>6. Cardinality(t.todo) = 0
    BY <1>4, NothingIsSmall
  <1>7. (left = 0 => queue[h] = {}) /\ (left > 0 => left = Cardinality(queue[h]))
    <2>1. \A o, d \in Nat : prog[h] = [delivered |-> d, outstanding |-> o] =>
              /\ left = 0 => o + t.retrying <= t.jobs
              /\ left > 0 => left = o + t.retrying - t.jobs
      <3> SUFFICES ASSUME NEW o \in Nat, NEW d \in Nat,
                          prog[h] = [delivered |-> d, outstanding |-> o]
                   PROVE  /\ left = 0 => o + t.retrying <= t.jobs
                          /\ left > 0 => left = o + t.retrying - t.jobs
        OBVIOUS
      <3> QED
        BY <1>4, StillOutIs
    <2>2. /\ left = 0 => prog[h].outstanding + t.retrying <= t.jobs
          /\ left > 0 => left = prog[h].outstanding + t.retrying - t.jobs
      <3> HIDE DEF left, t
      <3> QED
        BY <1>5, <2>1, Zenon
    <2> HIDE DEF left, t, n
    <2> QED
      BY <1>3, <1>4, <1>5, <1>6, <2>2
  <1>8. CASE /\ left > 0 /\ UNCHANGED <<msg, spent>>
             /\ prog' = [prog EXCEPT ![h] = [delivered |-> n, outstanding |-> left]]
    <2>1. prog'[h].delivered = n /\ prog'[h].outstanding = left
      BY <1>8 DEF TypeInv, Types
    <2>2. left = Cardinality(queue[h]) /\ msg' = msg
      BY <1>7, <1>8
    <2> HIDE DEF left, n
    <2> QED
      BY <1>1, <1>2, <1>3, <2>1, <2>2, EndExact
  <1>9. CASE left = 0 /\ (msg' = Finished(n) \/ UNCHANGED msg)
    <2>1. queue[h] = {}
      BY <1>7, <1>9
    <2>2. msg'.st \in {"sent", "failed"} => msg'.delivered = Acks
      BY <1>2, <1>3, <1>5, <1>9, FinishedIs
    <2> QED
      BY <1>1, <2>1, <2>2, EndExact
  <1> QED
    BY <1>1, <1>5, <1>8, <1>9 DEF ResolveStep

LEMMA TakeExact ==
    ASSUME TypeInv, SlotInv, Exact, NEW h \in Hosts, NEW D \in (SUBSET (queue[h] \ Young(h))) \ {{}},
           Take(h, D), spent' = spent
    PROVE  Exact'
  <1>1. D \in SUBSET queue[h] /\ spent' \in Nat /\ queue[h] # {}
    BY DEF TypeInv, Types
  <1>2. /\ work[h]["tick"].pc = "idle" /\ work[h]["sweep"].pc = "idle"
        /\ work'[h]["tick"].pc = "send" /\ work'[h]["tick"].todo = D
        /\ work'[h]["tick"].again = {} /\ work'[h]["tick"].jobs = 0
        /\ work'[h]["tick"].delivered = 0 /\ work'[h]["tick"].retrying = 0
        /\ \A g \in Hosts, q \in Paths : g # h \/ q # "tick" => work'[g][q] = work[g][q]
        /\ queue'[h] = queue[h] \ D
        /\ \A g \in Hosts : g # h => queue'[g] = queue[g]
        /\ Cardinality(queue[h]) = Cardinality(queue'[h]) + Cardinality(D)
        /\ Cardinality(D) \in Nat /\ Cardinality(queue'[h]) \in Nat
        /\ msg' = msg /\ prog' = prog /\ round' = round /\ hits' = hits
    BY <1>1, TakeFacts
  <1>3. Busy(h) /\ msg.st = "sending" /\ Exactly(h)
    BY <1>1 DEF Busy, Exact
  <1>4. Acks' = Acks /\ Acks \in Nat
    BY <1>2, SameAcks, HitsFinite
  <1>5. \A q \in Paths : ~Working(h, q)
    <2>1. ~Working(h, "tick") /\ ~Working(h, "sweep")
      BY <1>2 DEF Working
    <2>2. ASSUME Working(h, "event") PROVE FALSE
      <3>1. work[h]["event"].round = round /\ work[h]["event"].pc # "send"
        BY <1>1, <1>3, <2>2, Paths3 DEF Exactly, CallBooks
      <3>2. work[h]["event"].pc = "book"
        BY <2>2, <3>1 DEF Working
      <3>3. \A j \in queue[h] : j.round = round
        BY <1>3, Paths3 DEF Exactly, At
      <3>4. queue[h] \subseteq Young(h)
        BY <3>1, <3>2, <3>3 DEF Young
      <3> QED
        BY <3>4
    <2> QED
      BY <2>1, <2>2, Paths3
  <1>6. prog[h].delivered = Acks /\ prog[h].outstanding = Cardinality(queue[h])
    BY <1>1, <1>3, <1>5 DEF Exactly, QueueBooks
  <1>7. \A q \in Paths : Working(h, q)' <=> q = "tick"
    BY <1>2, <1>5 DEF Working
  <1>8. \A x \in Places : \A i \in At(h, x)' : i.round = round'
    <2>1. \A j \in queue[h] : j.round = round
      BY <1>3, Paths3 DEF Exactly, At
    <2> SUFFICES ASSUME NEW x \in Places, NEW i \in At(h, x)' PROVE i.round = round
      BY <1>2
    <2>2. CASE x = "queue" \/ x = "tick"
      BY <1>2, <2>1, <2>2, Paths3 DEF At
    <2>3. CASE x # "queue" /\ x # "tick"
      <3>1. At(h, x)' = At(h, x)
        BY <1>2, <2>3, PlacesAre DEF At
      <3> QED
        BY <1>3, <3>1 DEF Exactly
    <2> QED
      BY <2>2, <2>3
  <1>9. \A q \in Calls : CallBooks(h, q)'
    BY <1>7, Paths3 DEF CallBooks
  <1>10. TickBooks(h)'
    <2>1. Cardinality(queue[h]) \in Nat /\ Cardinality(queue[h]) > 0
      <3>1. IsFiniteSet(queue[h])
        BY DEF TypeInv, QueueOK
      <3>2. Cardinality(queue[h]) \in Nat /\ Cardinality(queue[h]) # 0
        BY <1>1, <3>1, Sizes
      <3> QED
        BY <3>2
    <2>2. prog'[h] = prog[h] /\ Cardinality(work'[h]["tick"].todo) = Cardinality(D)
      BY <1>2
    <2> QED
      BY <1>2, <1>4, <1>6, <2>1, <2>2 DEF TickBooks
  <1>11. QueueBooks(h)'
    BY <1>7, Paths3 DEF QueueBooks
  <1>12. Exactly(h)'
    BY <1>7, <1>8, <1>9, <1>10, <1>11 DEF Exactly
  <1>13. \A g \in Hosts : g # h => (Busy(g)' <=> Busy(g))
    BY <1>2, OthersIdle
  <1> QED
    BY <1>2, <1>3, <1>12, <1>13, ExactOfBusy

LEMMA TurnedOffExact ==
    ASSUME TypeInv, Exact, NEW h \in Hosts, TurnedOff(h)
    PROVE  Exact'
  <1>1. /\ queue' = [queue EXCEPT ![h] = {}] /\ msg' = msg /\ work' = work /\ prog' = prog
        /\ round' = round /\ hits' = hits
    BY TurnedOffType DEF histVars
  <1>2. queue'[h] = {} /\ \A g \in Hosts : g # h => queue'[g] = queue[g]
    BY <1>1 DEF TypeInv, Types
  <1>3. Busy(h) /\ ~Ticking(h)
    BY DEF TurnedOff, Busy
  <1>4. msg.st = "sending" /\ Exactly(h) /\ Acks' = Acks
    BY <1>1, <1>3, SameAcks DEF Exact
  <1>5. \A q \in Paths : Working(h, q)' <=> Working(h, q)
    BY <1>1 DEF Working
  <1>6. \A x \in Places : At(h, x)' \subseteq At(h, x)
    BY <1>1, <1>2, PlacesAre DEF At
  <1>7. \A q \in Calls : CallBooks(h, q)'
    <2> SUFFICES ASSUME NEW q \in Calls PROVE CallBooks(h, q)'
      OBVIOUS
    <2>1. CallBooks(h, q) /\ q \in Paths
      BY <1>4, Paths3 DEF Exactly
    <2> QED
      BY <1>1, <1>2, <1>4, <1>5, <2>1 DEF CallBooks
  <1>8. TickBooks(h)'
    <2>1. ~Working(h, "tick")
      BY <1>3 DEF Ticking, Working
    <2> QED
      BY <1>5, <2>1, Paths3 DEF TickBooks
  <1>9. QueueBooks(h)'
    BY <1>2 DEF QueueBooks
  <1>10. Exactly(h)'
    BY <1>1, <1>4, <1>5, <1>6, <1>7, <1>8, <1>9 DEF Exactly
  <1>11. \A g \in Hosts : g # h => (Busy(g)' <=> Busy(g))
    BY <1>1, <1>2, OthersIdle
  <1> QED
    BY <1>1, <1>3, <1>4, <1>10, <1>11, ExactOfBusy

LEMMA CrashExact ==
    ASSUME TypeInv, Exact, NEW h \in Hosts, Crash(h)
    PROVE  Exact'
  <1>1. /\ \A p \in Paths : work'[h][p] = NoBatch
        /\ \A g \in Hosts : g # h => work'[g] = work[g]
        /\ queue' = [queue EXCEPT ![h] = {}] /\ prog' = [prog EXCEPT ![h] = None]
        /\ msg' = msg /\ round' = round /\ hits' = hits
    BY CrashType DEF histVars
  <1>2. /\ queue'[h] = {} /\ \A g \in Hosts : g # h => queue'[g] = queue[g] /\ prog'[g] = prog[g]
    BY <1>1 DEF TypeInv, Types
  <1>3. Acks' = Acks
    BY <1>1, SameAcks
  <1>4. ~Busy(h)'
    BY <1>1, <1>2, NoBatchIs DEF Busy, Working
  <1>5. ASSUME NEW g \in Hosts, g # h PROVE (Busy(g)' <=> Busy(g)) /\ (Exactly(g) => Exactly(g)')
    BY <1>1, <1>2, <1>3, <1>5, SameBooks
  <1> QED
    BY <1>1, <1>3, <1>4, <1>5 DEF Exact

-----------------------------------------------------------------------------
LEMMA InitInv == Init => Inv
  BY InitType, InitSlots, InitReceived, InitCredit, InitTallied, InitExact DEF Inv

(* The steps that leave the history alone. *)
LEMMA Together ==
    ASSUME Inv, TypeInv', SlotInv', Credit', Tallied', got' = got, lost' = lost, hits' = hits,
           round' = round, ~mixed' => Exact'
    PROVE  Inv'
  BY SameReceived DEF Inv

LEMMA RowInv ==
    ASSUME Inv, NEW h \in Hosts, Commit \/ Cancel \/ ResetStuck(h) \/ ResetSlow(h)
    PROVE  Inv'
  <1>1. RowStep
    BY RowSteps DEF Inv
  <1>2. TypeInv' /\ SlotInv' /\ Credit' /\ Tallied'
    BY <1>1, RowType, RowSlots, RowCredit, RowTallied DEF Inv
  <1>3. UNCHANGED <<got, lost, hits, round>>
    BY <1>1 DEF RowStep
  <1>4. ~mixed' => Exact'
    <2>1. CASE ResetSlow(h)
      BY <2>1 DEF ResetSlow
    <2>2. CASE Commit \/ Cancel \/ ResetStuck(h)
      BY <2>2, RowExact DEF Inv, Commit, Cancel, ResetStuck, histVars
    <2> QED
      BY <2>1, <2>2
  <1> QED
    BY <1>2, <1>3, <1>4, Together

LEMMA QuietInv ==
    ASSUME Inv, NEW h \in Hosts, NEW p, QuietStep(h, p)
    PROVE  Inv'
  <1>1. TypeInv' /\ SlotInv' /\ Credit' /\ Tallied'
    BY QuietType, QuietSlots, QuietCredit, QuietTallied DEF Inv
  <1>2. UNCHANGED <<got, lost, hits, round, mixed>>
    BY DEF QuietStep, histVars
  <1>3. ~mixed' => Exact'
    BY <1>2, QuietExact DEF Inv
  <1> QED
    BY <1>1, <1>2, <1>3, Together

LEMMA ClaimInv ==
    ASSUME Inv, NEW h \in Hosts, NEW p \in Calls, Claim(h, p)
    PROVE  Inv'
  <1>1. ClaimStep(h, p) /\ TypeInv' /\ SlotInv' /\ Credit' /\ Tallied'
    BY ClaimType, ClaimSlots, ClaimCredit, ClaimTallied DEF Inv
  <1>2. Received'
    BY <1>1, ClaimReceived DEF Inv
  <1>3. mixed' = mixed
    BY DEF Claim
  <1>4. ~mixed' => Exact'
    BY <1>3, ClaimExact DEF Inv
  <1> QED
    BY <1>1, <1>2, <1>4 DEF Inv

LEMMA SendInv ==
    ASSUME Inv, NEW h \in Hosts, NEW p \in Paths, NEW j \in work[h][p].todo, NEW r \in Outcomes,
           Send(h, p, j, r)
    PROVE  Inv'
  <1>1. TypeInv' /\ SlotInv' /\ Credit' /\ Tallied' /\ Received'
    BY SendType, SendSlots, SendCredit, SendTallied, SendReceived DEF Inv
  <1>2. mixed' = mixed
    BY DEF Send
  <1>3. ~mixed' => Exact'
    BY <1>2, SendExact DEF Inv
  <1> QED
    BY <1>1, <1>3 DEF Inv

LEMMA SettleInv ==
    ASSUME Inv, NEW h \in Hosts, NEW p \in Paths, NEW Q \in SUBSET MayRetry(work[h][p]),
           Settle(h, p, Q)
    PROVE  Inv'
  <1>1. TypeInv' /\ SlotInv' /\ Credit' /\ Tallied'
    BY SettleType, SettleSlots, SettleCredit, SettleTallied DEF Inv
  <1>2. UNCHANGED <<got, lost, hits, round, mixed>>
    BY DEF Settle, histVars
  <1>3. ~mixed' => Exact'
    BY <1>2, SettleExact DEF Inv
  <1> QED
    BY <1>1, <1>2, <1>3, Together

LEMMA CallEndsInv ==
    ASSUME Inv, NEW h \in Hosts, NEW p \in Calls, RecordCall(h, p) \/ FinishFails(h, p)
    PROVE  Inv'
  <1>1. TypeInv' /\ EndStep(h, p) /\ p \in Paths
    BY RecordType, FinishFailsType, Paths3 DEF Inv
  <1>2. SlotInv'
    BY <1>1, EndSlots DEF Inv
  <1>3. Credit' /\ Tallied'
    BY RecordCredit, FaultCredit, RecordTallied, FinishFailsTallied DEF Inv
  <1>4. UNCHANGED <<got, lost, hits, round, mixed>>
    BY <1>1 DEF EndStep, histVars
  <1>5. ~mixed' => Exact'
    BY <1>4, RecordExact, FinishFailsExact DEF Inv
  <1> QED
    BY <1>1, <1>2, <1>3, <1>4, <1>5, Together

LEMMA ResolveInv ==
    ASSUME Inv, NEW h \in Hosts, Resolve(h)
    PROVE  Inv'
  <1>1. TypeInv' /\ EndStep(h, "tick") /\ "tick" \in Paths
    BY ResolveType, ResolveEnds, Paths3 DEF Inv
  <1>2. SlotInv'
    BY <1>1, EndSlots DEF Inv
  <1>3. Credit' /\ Tallied'
    BY ResolveCredit, ResolveTallied DEF Inv
  <1>4. UNCHANGED <<got, lost, hits, round, mixed>>
    BY <1>1 DEF EndStep, histVars
  <1>5. ~mixed' => Exact'
    BY <1>4, ResolveExact DEF Inv
  <1> QED
    BY <1>1, <1>2, <1>3, <1>4, <1>5, Together

LEMMA TakeRetriesInv ==
    ASSUME Inv, NEW h \in Hosts, TakeRetries(h)
    PROVE  Inv'
  <1>1. PICK D \in (SUBSET (queue[h] \ Young(h))) \ {{}} : Take(h, D)
    BY DEF TakeRetries
  <1>2. D \in SUBSET queue[h] /\ mixed' = mixed /\ spent' = spent /\ spent' \in Nat
    BY DEF TakeRetries, Inv, TypeInv, Types
  <1>3. TypeInv' /\ SlotInv' /\ Credit' /\ Tallied'
    BY <1>1, <1>2, TakeType, TakeSlots, TakeCredit, TakeTallied DEF Inv
  <1>4. UNCHANGED <<got, lost, hits, round>>
    BY <1>1 DEF Take
  <1>5. ~mixed' => Exact'
    BY <1>1, <1>2, TakeExact DEF Inv
  <1> QED
    BY <1>3, <1>4, <1>5, Together

LEMMA TakeEarlyInv ==
    ASSUME Inv, NEW h \in Hosts, TakeEarly(h)
    PROVE  Inv'
  <1>1. PICK D \in SUBSET queue[h] : Take(h, D)
    BY DEF TakeEarly
  <1>2. mixed' = TRUE /\ spent' = spent + 1 /\ spent' \in Nat
    BY DEF TakeEarly, Fault, Inv, TypeInv, Types
  <1>3. TypeInv' /\ SlotInv' /\ Tallied'
    BY <1>1, <1>2, TakeType, TakeSlots, TakeTallied DEF Inv
  <1>4. Credit'
    BY FaultCredit DEF Inv
  <1>5. UNCHANGED <<got, lost, hits, round>>
    BY <1>1 DEF Take
  <1> QED
    BY <1>2, <1>3, <1>4, <1>5, Together

LEMMA LossInv ==
    ASSUME Inv, NEW h \in Hosts, TurnedOff(h) \/ Crash(h)
    PROVE  Inv'
  <1>1. TypeInv' /\ SlotInv' /\ Credit' /\ Tallied'
    BY TurnedOffType, CrashType, TurnedOffSlots, CrashSlots, FaultCredit, TurnedOffTallied,
       CrashTallied DEF Inv
  <1>2. UNCHANGED <<got, lost, hits, round, mixed>>
    BY DEF TurnedOff, Crash, histVars
  <1>3. ~mixed' => Exact'
    BY <1>2, TurnedOffExact, CrashExact DEF Inv
  <1> QED
    BY <1>1, <1>2, <1>3, Together

LEMMA StutterInv ==
    ASSUME Inv, UNCHANGED vars
    PROVE  Inv'
  <1>1. UNCHANGED <<msg, work, queue, prog, round, got, lost, hits, mixed, spent>>
    BY DEF vars, histVars
  <1>2. TypeInv'
    BY <1>1 DEF Inv, TypeInv, Types, WorkOK, QueueOK, ProgOK
  <1>3. SlotInv'
    BY <1>1, SlotsDrop DEF Inv
  <1>4. Credit'
    BY <1>1, SameCredit DEF Inv, Credit
  <1>5. Tallied'
    BY <1>1 DEF Inv, Tallied, Counts
  <1>6. ASSUME ~mixed' PROVE Exact'
    <2>1. Acks' = Acks
      BY <1>1, SameAcks
    <2>2. \A g \in Hosts : (Busy(g)' <=> Busy(g)) /\ (Exactly(g) => Exactly(g)')
      BY <1>1, <2>1, SameBooks
    <2> QED
      BY <1>1, <1>6, <2>1, <2>2, ExactKept DEF Inv
  <1> QED
    BY <1>1, <1>2, <1>3, <1>4, <1>5, <1>6, Together

LEMMA StepInv == ASSUME Inv, [Next]_vars PROVE Inv'
  <1>1. CASE UNCHANGED vars
    BY <1>1, StutterInv
  <1>2. CASE Commit \/ Cancel
    <2>1. CASE Hosts = {}
      <3>1. RowStep /\ TypeInv' /\ SlotInv' /\ Tallied' /\ spent' = spent
        <4>1. RowStep /\ spent' = spent
          BY <1>2 DEF Commit, Cancel, RowStep, histVars, Statuses, Ended, Inv, TypeInv, Types
        <4> QED
          BY <4>1, RowType, RowSlots, RowTallied DEF Inv
      <3>2. UNCHANGED <<got, lost, hits, round, work, queue, prog>>
        BY <3>1 DEF RowStep
      <3>3. (msg'.st = "pending" /\ msg.st = "absent") \/ msg'.st \in Ended
        BY <1>2 DEF Commit, Cancel, Inv, TypeInv, Types, Ended
      <3>4. Credit'
        BY <3>1, <3>2, <3>3, SameCredit, CreditKept DEF Inv
      <3>5. Exact'
        BY <1>2, <2>1 DEF Exact, Commit, Cancel, Inv, TypeInv, Types
      <3> QED
        BY <3>1, <3>2, <3>4, <3>5, Together
    <2>2. CASE Hosts # {}
      BY <1>2, <2>2, RowInv
    <2> QED
      BY <2>1, <2>2
  <1>3. ASSUME NEW h \in Hosts, Work(h) PROVE Inv'
    <2>1. CASE \E p \in Calls : Claim(h, p) \/ NotClaimed(h, p) \/ RecordCall(h, p)
      BY <2>1, ClaimInv, QuietSteps, QuietInv, CallEndsInv DEF Inv
    <2>2. CASE \E p \in Paths : \E j \in work[h][p].todo, r \in Outcomes : Send(h, p, j, r)
      BY <2>2, SendInv
    <2>3. CASE \E p \in Paths : \E Q \in SUBSET MayRetry(work[h][p]) : Settle(h, p, Q)
      BY <2>3, SettleInv
    <2>4. CASE Resolve(h)
      BY <2>4, ResolveInv
    <2> QED
      BY <1>3, <2>1, <2>2, <2>3, <2>4 DEF Work
  <1>4. ASSUME NEW h \in Hosts, Observe(h) \/ Sweep(h) PROVE Inv'
    BY <1>4, QuietSteps, QuietInv, Paths3 DEF Inv
  <1>5. ASSUME NEW h \in Hosts,
               \/ TakeRetries(h) \/ TakeEarly(h) \/ ResetStuck(h) \/ ResetSlow(h)
               \/ TurnedOff(h) \/ Crash(h) \/ \E p \in Calls : FinishFails(h, p)
        PROVE  Inv'
    BY <1>5, TakeRetriesInv, TakeEarlyInv, RowInv, LossInv, CallEndsInv
  <1> QED
    BY <1>1, <1>2, <1>3, <1>4, <1>5 DEF Next

LEMMA Invariance == Spec => []Inv
  BY InitInv, StepInv, PTL DEF Spec

-----------------------------------------------------------------------------
(* The batches, queues and progress entries have their types; no retry queue exceeds its
   capacity and no entry waits for more retries than there are devices (settle,
   resolve_messages). *)
THEOREM TypeCorrect == Spec => []TypeOK
  <1>1. Inv => TypeOK
    <2> SUFFICES ASSUME Inv PROVE TypeOK
      OBVIOUS
    <2>1. TypeInv
      BY DEF Inv
    <2>2. msg.st \in Statuses /\ msg.delivered \in Nat
      BY <2>1 DEF TypeInv, Types
    <2>3. ASSUME NEW h \in Hosts
          PROVE  /\ \A p \in Paths : /\ work[h][p].pc \in Phases /\ work[h][p].todo \subseteq Job
                                     /\ work[h][p].again \subseteq Job
                 /\ queue[h] \subseteq Job /\ Cardinality(queue[h]) <= QueueCap
                 /\ prog[h].outstanding <= N
      <3>1. queue[h] \subseteq Job
        BY <2>1 DEF TypeInv, Types
      <3> QED
        BY <2>1, <3>1, Ready DEF TypeInv, QueueOK, ProgOK
    <2> QED
      BY <2>2, <2>3 DEF TypeOK, Statuses, Phases, N
  <1> QED
    BY Invariance, <1>1, PTL

(* A device receives a message once, once more for each fault and once more for each lost
   answer, whatever fails and however often: a host lost or slow, a queue dropped, an
   outcome not written, a retry that comes early (process_message, sweep_messages). *)
THEOREM OncePerFaultAlways == Spec => []OncePerFault
  <1>1. Inv => OncePerFault
    BY ReceivedOnce DEF Inv
  <1> QED
    BY Invariance, <1>1, PTL

(* The count in an ended row is never above the acknowledged sends, and is exactly those of
   the last claim unless a claim was taken from a live host or a retry ran early
   (finish_message, resolve_messages). *)
THEOREM RecordsDeliveriesAlways == Spec => []RecordsDeliveries
  <1>1. Inv => RecordsDeliveries
    BY NoMoreThanAcknowledged DEF Inv, RecordsDeliveries, Exact, Acks
  <1> QED
    BY Invariance, <1>1, PTL

(* A message is stuck in sending, nobody working on it, only when something failed for
   every claim there was (resolve_messages, sweep_messages). *)
THEOREM OnlyLostIsStuck == Spec => []StuckMeansLost
  <1>1. Inv => StuckMeansLost
    BY StuckIsLost DEF Inv
  <1> QED
    BY Invariance, <1>1, PTL
=============================================================================
