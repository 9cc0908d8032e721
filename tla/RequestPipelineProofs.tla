------------------------- MODULE RequestPipelineProofs -------------------------
(***************************************************************************)
(* What RequestPipeline guarantees for any connections, workers, senders,  *)
(* capacity and numbers of requests and faults: its types, that the        *)
(* counters add up, that no denial is forgotten, how many notifications a  *)
(* cooldown lets through, that nobody waits for a permit in vain and that  *)
(* the cooldown silences nobody unheard.  All follows from                 *)
(* PipelineAssumption.                                                     *)
(***************************************************************************)
EXTENDS RequestPipeline, FiniteSetTheorems, TLAPS

(* The size of a subset of a finite set, after one element came or went.   *)
LEMMA Moves ==
    ASSUME NEW S, IsFiniteSet(S), NEW c \in S, NEW before \in SUBSET S, NEW after \in SUBSET S,
           \A d \in S : d # c => (d \in before <=> d \in after)
    PROVE  /\ Cardinality(before) \in Nat /\ Cardinality(after) \in Nat
           /\ Cardinality(after) = Cardinality(before)
                 - (IF c \in before THEN 1 ELSE 0) + (IF c \in after THEN 1 ELSE 0)
<1> DEFINE rest == before \ {c}
<1>1. IsFiniteSet(rest) /\ c \notin rest
  BY FS_Subset
<1>2. before = (IF c \in before THEN rest \cup {c} ELSE rest)
  OBVIOUS
<1>3. after = (IF c \in after THEN rest \cup {c} ELSE rest)
  OBVIOUS
<1> HIDE DEF rest
<1>4. Cardinality(rest) \in Nat /\ Cardinality(rest \cup {c}) = Cardinality(rest) + 1
  BY <1>1, FS_CardinalityType, FS_AddElement
<1>5. Cardinality(before) = Cardinality(rest) + (IF c \in before THEN 1 ELSE 0)
  <2>1. CASE c \in before
    BY <1>2, <1>4, <2>1
  <2>2. CASE c \notin before
    BY <1>2, <1>4, <2>2
  <2> QED
    BY <2>1, <2>2
<1>6. Cardinality(after) = Cardinality(rest) + (IF c \in after THEN 1 ELSE 0)
  <2>1. CASE c \in after
    BY <1>3, <1>4, <2>1
  <2>2. CASE c \notin after
    BY <1>3, <1>4, <2>2
  <2> QED
    BY <2>1, <2>2
<1> QED
  BY <1>4, <1>5, <1>6
-----------------------------------------------------------------------------
ConnStates ==
    [pc : {"closed", "waiting", "reading"}] \cup [pc : {"writing"}, answer : Answers]
      \cup [pc : Steps, sender : Senders]
WorkerStates == {Idle} \cup [pc : {"exists", "set", "send"}, sender : Senders]

(* The states a connection is counted in: as active, with a permit, as not *)
(* accounted for, as owing a lock to its sender.                           *)
Opened == {x \in ConnStates : x.pc # "closed"}
Holding == {x \in ConnStates : x.pc \notin {"closed", "waiting"}}
Unanswered == {x \in ConnStates : x.pc \in {"dns", "match", "adapt", "check"}}
Owing(s) == {x \in ConnStates : x.pc \in {"pushLock", "lock"} /\ x.sender = s}
Number(K) == Cardinality({c \in Connections : conn[c] \in K})

(* The workers that are past EXISTS for a sender.                          *)
Passed(s) == {x \in WorkerStates : x.pc \in {"set", "send"} /\ x.sender = s}
Notifiers(s) == Cardinality({w \in Workers : worker[w] \in Passed(s)})

(* The parts of the inductive invariant.                                   *)
ConnType == conn \in [Connections -> ConnStates]
LineType ==
    /\ line \in Seq(Connections)
    /\ \A i \in 1 .. Len(line) : conn[line[i]].pc = "waiting"
    /\ \A i, j \in 1 .. Len(line) : line[i] = line[j] => i = j
PermitType == permits \in Nat /\ permits + Number(Holding) = Capacity
StatsType == stats \in [Counters -> Nat] /\ stats.active = Number(Opened)
QueueType == tasks \in Seq(Events) /\ cooldown \subseteq Senders /\ faults \in Nat
WorkerType == worker \in [Workers -> WorkerStates]
HistoryType ==
    /\ doubled \in Nat /\ denied \in [Senders -> Nat] /\ lockTries \in [Senders -> Nat]
    /\ sent \in [Senders -> Nat]
Sums == stats.accepted + stats.rejected + stats.deferred + stats.errors
          = stats.requests - Number(Unanswered) + doubled
Locks == \A s \in Senders : denied[s] <= lockTries[s] + Number(Owing(s))

(* Without the cooldown key nobody was notified and no worker is about to; *)
(* with it, no further worker gets past EXISTS.                            *)
Cooling ==
    \A s \in Senders :
        IF s \in cooldown
          THEN sent[s] + Notifiers(s) <= Cardinality(Workers)
          ELSE sent[s] = 0 /\ \A w \in Workers : worker[w].pc = "send" => worker[w].sender # s

IInv == /\ ConnType /\ LineType /\ PermitType /\ StatsType /\ QueueType /\ WorkerType
        /\ HistoryType /\ Sums /\ Locks /\ Cooling

LEMMA NumberType ==
    ASSUME NEW K
    PROVE  Number(K) \in Nat /\ Number(K) <= Cardinality(Connections)
<1>1. {c \in Connections : conn[c] \in K} \subseteq Connections
  OBVIOUS
<1> QED
  BY <1>1, PipelineAssumption, FS_Subset, FS_CardinalityType DEF Number

LEMMA NotifiersType ==
    ASSUME NEW s
    PROVE  Notifiers(s) \in Nat /\ Notifiers(s) <= Cardinality(Workers)
             /\ Cardinality(Workers) \in Nat
<1>1. {w \in Workers : worker[w] \in Passed(s)} \subseteq Workers
  OBVIOUS
<1> QED
  BY <1>1, PipelineAssumption, FS_Subset, FS_CardinalityType DEF Notifiers

(* The invariant says what the runs check.                                 *)
LEMMA IInvImplies == IInv => TypeOK /\ Accounted /\ NoDenialForgotten /\ OnePerWorker
<1> SUFFICES ASSUME IInv PROVE TypeOK /\ Accounted /\ NoDenialForgotten /\ OnePerWorker
  OBVIOUS
<1> USE DEF IInv
<1>1. permits \in 0 .. Capacity
  BY NumberType, PipelineAssumption DEF PermitType
<1>2. stats \in [Counters -> Nat] /\ stats.active <= Cardinality(Connections)
  BY NumberType DEF StatsType
<1>3. TypeOK
  BY <1>1, <1>2 DEF TypeOK, ConnType, ConnStates, LineType, QueueType, WorkerType, WorkerStates,
                    HistoryType
<1>4. Pending = {c \in Connections : conn[c] \in Unanswered}
  BY DEF Pending, Unanswered, ConnType
<1>5. Accounted
  BY <1>4 DEF Accounted, Sums, Number
<1>6. ASSUME NEW s \in Senders
      PROVE  {c \in Connections : conn[c].pc \in {"pushLock", "lock"} /\ conn[c].sender = s}
               = {c \in Connections : conn[c] \in Owing(s)}
  BY DEF Owing, ConnType
<1>7. NoDenialForgotten
  BY <1>6 DEF NoDenialForgotten, Locks, Number
<1>8. OnePerWorker
  <2> SUFFICES ASSUME NEW s \in Senders PROVE sent[s] <= Cardinality(Workers)
    BY DEF OnePerWorker
  <2>1. sent[s] \in Nat
    BY DEF HistoryType
  <2>2. CASE s \in cooldown
    BY <2>1, <2>2, NotifiersType DEF Cooling
  <2>3. CASE s \notin cooldown
    BY <2>3, NotifiersType DEF Cooling
  <2> QED
    BY <2>2, <2>3
<1> QED
  BY <1>3, <1>5, <1>7, <1>8
-----------------------------------------------------------------------------
LEMMA InitEstablishes == Init => IInv
<1> SUFFICES ASSUME Init PROVE IInv
  OBVIOUS
<1>1. conn = [c \in Connections |-> [pc |-> "closed"]] /\ [pc |-> "closed"] \in ConnStates
  BY DEF Init, ConnStates
<1>2. ConnType
  BY <1>1 DEF ConnType
<1>3. \A c \in Connections : conn[c].pc = "closed"
  BY <1>1
<1>4. /\ {c \in Connections : conn[c] \in Opened} = {}
      /\ {c \in Connections : conn[c] \in Holding} = {}
      /\ {c \in Connections : conn[c] \in Unanswered} = {}
      /\ \A s : {c \in Connections : conn[c] \in Owing(s)} = {}
  BY <1>3 DEF Opened, Holding, Unanswered, Owing
<1>5. /\ Number(Opened) = 0 /\ Number(Holding) = 0 /\ Number(Unanswered) = 0
      /\ \A s : Number(Owing(s)) = 0
  BY <1>4, FS_EmptySet DEF Number
<1>6. LineType
  BY DEF Init, LineType
<1>7. PermitType /\ StatsType
  BY <1>5, PipelineAssumption DEF Init, PermitType, StatsType, Counters
<1>8. QueueType
  BY DEF Init, QueueType
<1>9. WorkerType
  BY DEF Init, WorkerType, WorkerStates
<1>10. HistoryType
  BY DEF Init, HistoryType
<1>11. Sums
  BY <1>5 DEF Init, Sums, Counters
<1>12. Locks
  BY <1>5 DEF Init, Locks
<1>13. Cooling
  BY DEF Init, Cooling, Idle
<1> QED
  BY <1>2, <1>6, <1>7, <1>8, <1>9, <1>10, <1>11, <1>12, <1>13 DEF IInv

(* A connection moves from one state to another.                           *)
One(x, K) == IF x \in K THEN 1 ELSE 0

LEMMA ConnMoves ==
    ASSUME ConnType, NEW c \in Connections, NEW new \in ConnStates,
           conn' = [conn EXCEPT ![c] = new]
    PROVE  /\ ConnType' /\ conn'[c] = new
           /\ \A d \in Connections : d # c => conn'[d] = conn[d]
           /\ Number(Opened)' = Number(Opened) - One(conn[c], Opened) + One(new, Opened)
           /\ Number(Holding)' = Number(Holding) - One(conn[c], Holding) + One(new, Holding)
           /\ Number(Unanswered)'
                = Number(Unanswered) - One(conn[c], Unanswered) + One(new, Unanswered)
           /\ \A s : Number(Owing(s))'
                = Number(Owing(s)) - One(conn[c], Owing(s)) + One(new, Owing(s))
<1>1. ConnType' /\ conn'[c] = new /\ \A d \in Connections : d # c => conn'[d] = conn[d]
  BY DEF ConnType
<1>2. ASSUME NEW K
      PROVE  Cardinality({d \in Connections : conn'[d] \in K})
               = Number(K) - One(conn[c], K) + One(new, K)
  <2> DEFINE before == {d \in Connections : conn[d] \in K}
             after == {d \in Connections : conn'[d] \in K}
  <2>1. /\ before \in SUBSET Connections /\ after \in SUBSET Connections
        /\ \A d \in Connections : d # c => (d \in before <=> d \in after)
        /\ (c \in before <=> conn[c] \in K) /\ (c \in after <=> new \in K)
    BY <1>1
  <2> HIDE DEF before, after
  <2>2. Cardinality(after) = Cardinality(before)
          - (IF c \in before THEN 1 ELSE 0) + (IF c \in after THEN 1 ELSE 0)
    BY <2>1, Moves, PipelineAssumption
  <2>3. Cardinality(after) = Cardinality(before) - One(conn[c], K) + One(new, K)
    BY <2>1, <2>2 DEF One
  <2> QED
    BY <2>3 DEF Number, before, after
<1>3. Number(Opened)' = Number(Opened) - One(conn[c], Opened) + One(new, Opened)
  BY <1>2 DEF Number
<1>4. Number(Holding)' = Number(Holding) - One(conn[c], Holding) + One(new, Holding)
  BY <1>2 DEF Number
<1>5. Number(Unanswered)'
        = Number(Unanswered) - One(conn[c], Unanswered) + One(new, Unanswered)
  BY <1>2 DEF Number
<1>6. ASSUME NEW s
      PROVE  Number(Owing(s))' = Number(Owing(s)) - One(conn[c], Owing(s)) + One(new, Owing(s))
  BY <1>2 DEF Number
<1> QED
  BY <1>1, <1>3, <1>4, <1>5, <1>6

LEMMA CoolingKept ==
    ASSUME Cooling, UNCHANGED <<cooldown, sent, worker>>
    PROVE  Cooling'
BY DEF Cooling, Notifiers

(* The arithmetic of the two balances.                                     *)
LEMMA Balance ==
    ASSUME NEW o \in Int, NEW p \in Int, NEW r \in Int, NEW q \in Int, NEW d \in Int,
           NEW e \in Int, NEW u \in Int, NEW x \in Int, NEW y \in Int,
           o = r - u + d, p + y + r + d = o + x + q + e
    PROVE  p = q - (u - x + y) + e
OBVIOUS

LEMMA Margin ==
    ASSUME NEW d \in Int, NEW e \in Int, NEW l \in Int, NEW m \in Int,
           NEW u \in Int, NEW x \in Int, NEW y \in Int,
           d <= l + u, e + l + x <= d + m + y
    PROVE  e <= m + (u - x + y)
OBVIOUS

(* A request moves on inside its connection: what its step has to keep     *)
(* balanced.                                                               *)
LEMMA RequestStep ==
    ASSUME IInv, NEW c \in Connections, NEW new \in Holding, conn[c] \in Holding,
           conn' = [conn EXCEPT ![c] = new],
           UNCHANGED <<line, permits, worker, cooldown, sent>>,
           stats' \in [Counters -> Nat], stats'.active = stats.active,
           tasks' \in Seq(Events), faults' \in Nat, HistoryType',
           stats'.accepted + stats'.rejected + stats'.deferred + stats'.errors
               + One(new, Unanswered) + stats.requests + doubled
             = stats.accepted + stats.rejected + stats.deferred + stats.errors
                 + One(conn[c], Unanswered) + stats'.requests + doubled',
           \A s \in Senders :
             denied'[s] + lockTries[s] + One(conn[c], Owing(s))
               <= denied[s] + lockTries'[s] + One(new, Owing(s))
    PROVE  IInv'
<1> USE DEF IInv
<1>1. new \in ConnStates
  BY DEF Holding
<1>2. /\ ConnType' /\ conn'[c] = new
      /\ \A d \in Connections : d # c => conn'[d] = conn[d]
      /\ Number(Opened)' = Number(Opened) - One(conn[c], Opened) + One(new, Opened)
      /\ Number(Holding)' = Number(Holding) - One(conn[c], Holding) + One(new, Holding)
      /\ Number(Unanswered)'
           = Number(Unanswered) - One(conn[c], Unanswered) + One(new, Unanswered)
      /\ \A s : Number(Owing(s))'
           = Number(Owing(s)) - One(conn[c], Owing(s)) + One(new, Owing(s))
  BY <1>1, ConnMoves
<1>3. One(conn[c], Holding) = 1 /\ One(new, Holding) = 1 /\ One(conn[c], Opened) = 1
        /\ One(new, Opened) = 1
  BY DEF One, Holding, Opened
<1>4. LineType'
  <2>1. \A i \in 1 .. Len(line) : line[i] \in Connections /\ line[i] # c
    BY DEF LineType, Holding
  <2> QED
    BY <1>2, <2>1 DEF LineType
<1>5. PermitType'
  BY <1>2, <1>3, NumberType DEF PermitType
<1>6. StatsType'
  BY <1>2, <1>3, NumberType DEF StatsType
<1>7. QueueType' /\ WorkerType'
  BY DEF QueueType, WorkerType
<1>8. Sums'
  <2>1. One(conn[c], Unanswered) \in Nat /\ One(new, Unanswered) \in Nat
    BY DEF One
  <2>2. stats \in [Counters -> Nat] /\ doubled \in Nat /\ doubled' \in Nat
    BY DEF StatsType, HistoryType
  <2>3. /\ stats.accepted \in Nat /\ stats.rejected \in Nat /\ stats.deferred \in Nat
        /\ stats.errors \in Nat /\ stats.requests \in Nat
        /\ stats'.accepted \in Nat /\ stats'.rejected \in Nat /\ stats'.deferred \in Nat
        /\ stats'.errors \in Nat /\ stats'.requests \in Nat
    BY <2>2 DEF Counters
  <2>4. Number(Unanswered) \in Nat
    BY NumberType
  <2>5. PICK u, x, y \in Nat :
          u = Number(Unanswered) /\ x = One(conn[c], Unanswered) /\ y = One(new, Unanswered)
    BY <2>1, <2>4
  <2>6. Number(Unanswered)' = u - x + y
    BY <1>2, <2>5
  <2>7. stats.accepted + stats.rejected + stats.deferred + stats.errors
          = stats.requests - u + doubled
    BY <2>5 DEF Sums
  <2>8. stats'.accepted + stats'.rejected + stats'.deferred + stats'.errors
          = stats'.requests - (u - x + y) + doubled'
    <3>0. PICK a \in Int, b \in Int, f \in Int, g \in Int :
            /\ a = stats.accepted /\ b = stats.rejected
            /\ f = stats.deferred /\ g = stats.errors
      BY <2>3
    <3>1. PICK a2 \in Int, b2 \in Int, f2 \in Int, g2 \in Int :
            /\ a2 = stats'.accepted /\ b2 = stats'.rejected
            /\ f2 = stats'.deferred /\ g2 = stats'.errors
      BY <2>3
    <3>2. PICK r \in Int, q \in Int : r = stats.requests /\ q = stats'.requests
      BY <2>3
    <3>3. PICK d \in Int, e \in Int : d = doubled /\ e = doubled'
      BY <2>2
    <3>4. a2 + b2 + f2 + g2 + y + r + d = a + b + f + g + x + q + e
      BY <2>5, <3>0, <3>1, <3>2, <3>3
    <3>5. a + b + f + g = r - u + d
      BY <2>7, <3>0, <3>2, <3>3
    <3>6. a2 + b2 + f2 + g2 = q - (u - x + y) + e
      <4>1. a + b + f + g \in Int /\ a2 + b2 + f2 + g2 \in Int
        OBVIOUS
      <4> HIDE DEF IInv
      <4> QED
        BY <3>4, <3>5, <4>1, Balance
    <3> QED
      BY <3>1, <3>2, <3>3, <3>6
  <2> QED
    BY <2>6, <2>8 DEF Sums
<1>9. Locks'
  <2> SUFFICES ASSUME NEW s \in Senders
               PROVE  denied'[s] <= lockTries'[s] + Number(Owing(s))'
    BY DEF Locks
  <2>1. /\ denied[s] \in Nat /\ denied'[s] \in Nat /\ lockTries[s] \in Nat
        /\ lockTries'[s] \in Nat /\ Number(Owing(s)) \in Nat
    BY NumberType DEF HistoryType
  <2>2. One(conn[c], Owing(s)) \in Nat /\ One(new, Owing(s)) \in Nat
    BY DEF One
  <2>3. PICK u, x, y \in Nat :
          /\ u = Number(Owing(s)) /\ x = One(conn[c], Owing(s)) /\ y = One(new, Owing(s))
    BY <2>1, <2>2
  <2>4. Number(Owing(s))' = u - x + y
    BY <1>2, <2>3
  <2>5. PICK d \in Int, e \in Int : d = denied[s] /\ e = denied'[s]
    BY <2>1
  <2>6. PICK l \in Int, m \in Int : l = lockTries[s] /\ m = lockTries'[s]
    BY <2>1
  <2>7. e + l + x <= d + m + y
    BY <2>3, <2>5, <2>6
  <2>8. d <= l + u
    BY <2>3, <2>5, <2>6 DEF Locks
  <2> HIDE DEF IInv
  <2>9. e <= m + (u - x + y)
    BY <2>7, <2>8, Margin
  <2> QED
    BY <2>4, <2>5, <2>6, <2>9
<1>10. Cooling'
  BY CoolingKept
<1> QED
  BY <1>2, <1>4, <1>5, <1>6, <1>7, <1>8, <1>9, <1>10

LEMMA GotoState ==
    ASSUME ConnType, NEW c \in Connections, conn[c].pc \in Steps, NEW step \in Steps,
           NEW new, new = [conn[c] EXCEPT !.pc = step]
    PROVE  /\ conn[c] \in Holding /\ new \in Holding /\ new.pc = step
           /\ new.sender = conn[c].sender /\ conn[c].sender \in Senders
<1>1. conn[c] \in [pc : Steps, sender : Senders]
  BY DEF ConnType, ConnStates, Steps
<1>2. new \in [pc : Steps, sender : Senders] /\ new.pc = step /\ new.sender = conn[c].sender
  BY <1>1
<1> QED
  BY <1>1, <1>2 DEF Holding, ConnStates, Steps

LEMMA AnswerState ==
    ASSUME NEW a \in Answers, NEW new, new = [pc |-> "writing", answer |-> a]
    PROVE  new \in Holding /\ new.pc = "writing"
BY DEF Holding, ConnStates
-----------------------------------------------------------------------------
(* A request is in no set of states of another kind.                       *)
LEMMA StateFacts ==
    ASSUME NEW x \in ConnStates
    PROVE  /\ x.pc \in {"reading", "writing"} \cup Steps => x \in Holding
           /\ x.pc \in {"dns", "match", "adapt", "check"} => One(x, Unanswered) = 1
           /\ x.pc \notin {"dns", "match", "adapt", "check"} => One(x, Unanswered) = 0
           /\ \A s : x.pc \in {"pushLock", "lock"} /\ x.sender = s => One(x, Owing(s)) = 1
           /\ \A s : x.pc \in {"pushLock", "lock"} /\ x.sender # s => One(x, Owing(s)) = 0
           /\ \A s : x.pc \notin {"pushLock", "lock"} => One(x, Owing(s)) = 0
BY DEF One, Holding, Unanswered, Owing, Steps

LEMMA CountedType ==
    ASSUME StatsType, NEW names, Counted(names)
    PROVE  /\ stats' \in [Counters -> Nat]
           /\ \A n \in Counters : stats'[n] = IF n \in names THEN stats[n] + 1 ELSE stats[n]
BY DEF Counted, StatsType

(* The outcomes that end a request or let it go on, before the limiter.    *)
LEMMA AnswerStep ==
    ASSUME IInv, NEW c \in Connections, NEW a \in Answers, NEW names \in SUBSET Counters,
           AnswerWith(c, a), Counted(names),
           UNCHANGED <<line, permits, redisVars, worker, historyVars>>, faults' \in Nat,
           \/ /\ conn[c].pc = "reading" /\ "requests" \in names
           \/ /\ conn[c].pc \in {"dns", "match", "adapt", "check"} /\ "requests" \notin names,
           "active" \notin names,
           \E n \in {"accepted", "rejected", "deferred", "errors"} :
              /\ n \in names
              /\ \A k \in {"accepted", "rejected", "deferred", "errors"} : k \in names => k = n
    PROVE  IInv'
<1> USE DEF IInv
<1>1. PICK new : new = [pc |-> "writing", answer |-> a]
  OBVIOUS
<1>2. new \in Holding /\ new \in ConnStates /\ new.pc = "writing"
        /\ conn' = [conn EXCEPT ![c] = new]
  BY <1>1, AnswerState DEF AnswerWith, Holding
<1>3. conn[c] \in ConnStates /\ conn[c] \in Holding
        /\ conn[c].pc \notin {"pushLock", "lock"}
  BY StateFacts DEF ConnType, Steps
<1>4. /\ One(new, Unanswered) = 0
      /\ \A s : One(new, Owing(s)) = 0 /\ One(conn[c], Owing(s)) = 0
  BY <1>2, <1>3, StateFacts
<1>5. One(conn[c], Unanswered) = IF conn[c].pc = "reading" THEN 0 ELSE 1
  BY <1>3, StateFacts
<1>6. stats' \in [Counters -> Nat] /\ stats \in [Counters -> Nat]
        /\ \A n \in Counters : stats'[n] = IF n \in names THEN stats[n] + 1 ELSE stats[n]
  BY CountedType DEF StatsType
<1>7. PICK n \in {"accepted", "rejected", "deferred", "errors"} :
        /\ n \in names
        /\ \A k \in {"accepted", "rejected", "deferred", "errors"} : k \in names => k = n
  OBVIOUS
<1>8. /\ stats.accepted \in Nat /\ stats.rejected \in Nat /\ stats.deferred \in Nat
      /\ stats.errors \in Nat /\ stats.requests \in Nat /\ stats.active \in Nat
  BY <1>6 DEF Counters
<1>9. /\ stats'.active = stats.active
      /\ stats'.accepted = stats.accepted + (IF n = "accepted" THEN 1 ELSE 0)
      /\ stats'.rejected = stats.rejected + (IF n = "rejected" THEN 1 ELSE 0)
      /\ stats'.deferred = stats.deferred + (IF n = "deferred" THEN 1 ELSE 0)
      /\ stats'.errors = stats.errors + (IF n = "errors" THEN 1 ELSE 0)
      /\ stats'.requests = stats.requests + (IF conn[c].pc = "reading" THEN 1 ELSE 0)
  BY <1>6, <1>7, <1>8 DEF Counters
<1>10. stats'.accepted + stats'.rejected + stats'.deferred + stats'.errors
         = stats.accepted + stats.rejected + stats.deferred + stats.errors + 1
  BY <1>7, <1>8, <1>9
<1>11. doubled \in Nat /\ doubled' = doubled /\ denied' = denied /\ lockTries' = lockTries
         /\ sent' = sent /\ tasks' = tasks /\ cooldown' = cooldown
         /\ line' = line /\ permits' = permits /\ worker' = worker
  BY DEF HistoryType, historyVars, redisVars
<1>12. stats'.accepted + stats'.rejected + stats'.deferred + stats'.errors
           + One(new, Unanswered) + stats.requests + doubled
         = stats.accepted + stats.rejected + stats.deferred + stats.errors
             + One(conn[c], Unanswered) + stats'.requests + doubled'
  BY <1>4, <1>5, <1>8, <1>9, <1>10, <1>11
<1>13. HistoryType' /\ tasks' \in Seq(Events)
  BY <1>11 DEF HistoryType, QueueType
<1>14. \A s \in Senders :
         denied'[s] + lockTries[s] + One(conn[c], Owing(s))
           <= denied[s] + lockTries'[s] + One(new, Owing(s))
  BY <1>4, <1>11 DEF HistoryType
<1> QED
  BY <1>2, <1>3, <1>6, <1>9, <1>11, <1>12, <1>13, <1>14, RequestStep
-----------------------------------------------------------------------------
(* The steps of a connection outside its requests.                         *)
LEMMA ConnectStep == ASSUME IInv, NEW c \in Connections, Connect(c) PROVE IInv'
<1> USE DEF IInv
<1>1. conn[c] \in [pc : {"closed"}]
  BY DEF Connect, ConnType, ConnStates, Steps
<1>2. PICK new : new = [conn[c] EXCEPT !.pc = "waiting"]
  OBVIOUS
<1>3. new \in [pc : {"waiting"}] /\ new.pc = "waiting" /\ new \in ConnStates
  BY <1>1, <1>2 DEF ConnStates
<1>4. conn' = [conn EXCEPT ![c] = new]
  BY <1>2 DEF Connect, Goto, ConnType
<1>5. /\ ConnType' /\ conn'[c] = new
      /\ \A d \in Connections : d # c => conn'[d] = conn[d]
      /\ Number(Opened)' = Number(Opened) - One(conn[c], Opened) + One(new, Opened)
      /\ Number(Holding)' = Number(Holding) - One(conn[c], Holding) + One(new, Holding)
      /\ Number(Unanswered)'
           = Number(Unanswered) - One(conn[c], Unanswered) + One(new, Unanswered)
      /\ \A s : Number(Owing(s))'
           = Number(Owing(s)) - One(conn[c], Owing(s)) + One(new, Owing(s))
  BY <1>3, <1>4, ConnMoves
<1>6. /\ One(conn[c], Opened) = 0 /\ One(new, Opened) = 1
      /\ One(conn[c], Holding) = 0 /\ One(new, Holding) = 0
      /\ One(conn[c], Unanswered) = 0 /\ One(new, Unanswered) = 0
      /\ \A s : One(conn[c], Owing(s)) = 0 /\ One(new, Owing(s)) = 0
  BY <1>1, <1>3 DEF One, Opened, Holding, Unanswered, Owing
<1>7. LineType'
  <2>1. line' = Append(line, c) /\ line \in Seq(Connections)
    BY DEF Connect, LineType
  <2>2. line' \in Seq(Connections) /\ Len(line') = Len(line) + 1 /\ line'[Len(line) + 1] = c
        /\ \A i \in 1 .. Len(line) : line'[i] = line[i] /\ line[i] \in Connections
    BY <2>1
  <2>3. \A i \in 1 .. Len(line) : line[i] # c
    BY <1>1 DEF LineType
  <2>4. \A i \in 1 .. Len(line') : i \in 1 .. Len(line) \/ i = Len(line) + 1
    BY <2>1, <2>2
  <2>5. \A i \in 1 .. Len(line') : conn'[line'[i]].pc = "waiting"
    BY <1>3, <1>5, <2>2, <2>3, <2>4 DEF LineType
  <2>6. \A i, j \in 1 .. Len(line') : line'[i] = line'[j] => i = j
    BY <2>2, <2>3, <2>4 DEF LineType
  <2> QED
    BY <2>2, <2>5, <2>6 DEF LineType
<1>8. PermitType'
  BY <1>5, <1>6, NumberType DEF PermitType, Connect
<1>9. /\ stats' \in [Counters -> Nat] /\ stats'.active = stats.active + 1
      /\ \A n \in Counters \ {"active"} : stats'[n] = stats[n]
  BY DEF Connect, StatsType, Counters
<1>10. StatsType'
  BY <1>5, <1>6, <1>9, NumberType DEF StatsType
<1>11. Number(Unanswered)' = Number(Unanswered)
         /\ \A s : Number(Owing(s))' = Number(Owing(s))
  BY <1>5, <1>6, NumberType
<1>12. /\ stats'.accepted = stats.accepted /\ stats'.rejected = stats.rejected
       /\ stats'.deferred = stats.deferred /\ stats'.errors = stats.errors
       /\ stats'.requests = stats.requests
  BY <1>9 DEF Counters
<1>13. UNCHANGED <<tasks, cooldown, worker, faults, denied, lockTries, sent, doubled>>
  BY DEF Connect, redisVars, historyVars
<1>14. Sums' /\ Locks'
  BY <1>11, <1>12, <1>13 DEF Sums, Locks
<1>15. QueueType' /\ WorkerType' /\ HistoryType'
  BY <1>13 DEF QueueType, WorkerType, HistoryType
<1> QED
  BY <1>5, <1>7, <1>8, <1>10, <1>13, <1>14, <1>15, CoolingKept

LEMMA AcquireStep == ASSUME IInv, NEW c \in Connections, Acquire(c) PROVE IInv'
<1> USE DEF IInv
<1>1. conn[c] \in [pc : {"waiting"}]
  BY DEF Acquire, ConnType, ConnStates, Steps, LineType
<1>2. PICK new : new = [conn[c] EXCEPT !.pc = "reading"]
  OBVIOUS
<1>3. new \in [pc : {"reading"}] /\ new.pc = "reading" /\ new \in ConnStates
  BY <1>1, <1>2 DEF ConnStates
<1>4. conn' = [conn EXCEPT ![c] = new]
  BY <1>2 DEF Acquire, Goto, ConnType
<1>5. /\ ConnType' /\ conn'[c] = new
      /\ \A d \in Connections : d # c => conn'[d] = conn[d]
      /\ Number(Opened)' = Number(Opened) - One(conn[c], Opened) + One(new, Opened)
      /\ Number(Holding)' = Number(Holding) - One(conn[c], Holding) + One(new, Holding)
      /\ Number(Unanswered)'
           = Number(Unanswered) - One(conn[c], Unanswered) + One(new, Unanswered)
      /\ \A s : Number(Owing(s))'
           = Number(Owing(s)) - One(conn[c], Owing(s)) + One(new, Owing(s))
  BY <1>3, <1>4, ConnMoves
<1>6. conn[c] \in ConnStates
  BY DEF ConnType
<1>7. /\ One(conn[c], Opened) = 1 /\ One(new, Opened) = 1
      /\ One(conn[c], Holding) = 0 /\ One(new, Holding) = 1
      /\ One(conn[c], Unanswered) = 0 /\ One(new, Unanswered) = 0
      /\ \A s : One(conn[c], Owing(s)) = 0 /\ One(new, Owing(s)) = 0
  BY <1>1, <1>3, <1>6 DEF One, Opened, Holding, Unanswered, Owing
<1>8. LineType'
  <2>1. line' = Tail(line) /\ line \in Seq(Connections) /\ line # << >> /\ line[1] = c
    BY DEF Acquire, LineType
  <2>2. line' \in Seq(Connections) /\ Len(line') = Len(line) - 1
        /\ \A i \in 1 .. Len(line') : line'[i] = line[i + 1] /\ i + 1 \in 1 .. Len(line)
    BY <2>1
  <2>3. \A i \in 1 .. Len(line') : line'[i] # c /\ line'[i] \in Connections
    BY <2>1, <2>2 DEF LineType
  <2>4. \A i \in 1 .. Len(line') : conn'[line'[i]].pc = "waiting"
    BY <1>5, <2>2, <2>3 DEF LineType
  <2>5. \A i, j \in 1 .. Len(line') : line'[i] = line'[j] => i = j
    BY <2>1, <2>2 DEF LineType
  <2> QED
    BY <2>2, <2>4, <2>5 DEF LineType
<1>9. PermitType'
  BY <1>5, <1>7, NumberType DEF PermitType, Acquire
<1>10. UNCHANGED <<stats, tasks, cooldown, worker, faults, denied, lockTries, sent, doubled>>
  BY DEF Acquire, redisVars, historyVars
<1>11. /\ Number(Unanswered)' = Number(Unanswered) /\ Number(Opened)' = Number(Opened)
       /\ \A s : Number(Owing(s))' = Number(Owing(s))
  BY <1>5, <1>7, NumberType
<1>12. StatsType' /\ Sums' /\ Locks'
  BY <1>10, <1>11 DEF Sums, Locks, StatsType
<1>13. QueueType' /\ WorkerType' /\ HistoryType'
  BY <1>10 DEF QueueType, WorkerType, HistoryType
<1> QED
  BY <1>5, <1>8, <1>9, <1>10, <1>12, <1>13, CoolingKept

LEMMA CloseStep == ASSUME IInv, NEW c \in Connections, Close(c) PROVE IInv'
<1> USE DEF IInv
<1>1. conn[c].pc \in {"reading", "writing"} /\ conn[c] \in ConnStates
  BY DEF Close, ConnType
<1>2. PICK new : new = [pc |-> "closed"]
  OBVIOUS
<1>3. new.pc = "closed" /\ new \in ConnStates
  BY <1>2 DEF ConnStates
<1>4. conn' = [conn EXCEPT ![c] = new]
  BY <1>2 DEF Close
<1>5. /\ ConnType' /\ conn'[c] = new
      /\ \A d \in Connections : d # c => conn'[d] = conn[d]
      /\ Number(Opened)' = Number(Opened) - One(conn[c], Opened) + One(new, Opened)
      /\ Number(Holding)' = Number(Holding) - One(conn[c], Holding) + One(new, Holding)
      /\ Number(Unanswered)'
           = Number(Unanswered) - One(conn[c], Unanswered) + One(new, Unanswered)
      /\ \A s : Number(Owing(s))'
           = Number(Owing(s)) - One(conn[c], Owing(s)) + One(new, Owing(s))
  BY <1>3, <1>4, ConnMoves
<1>6. /\ One(conn[c], Opened) = 1 /\ One(new, Opened) = 0
      /\ One(conn[c], Holding) = 1 /\ One(new, Holding) = 0
      /\ One(conn[c], Unanswered) = 0 /\ One(new, Unanswered) = 0
      /\ \A s : One(conn[c], Owing(s)) = 0 /\ One(new, Owing(s)) = 0
  BY <1>1, <1>3 DEF One, Opened, Holding, Unanswered, Owing
<1>7. LineType'
  <2>1. \A i \in 1 .. Len(line) : line[i] \in Connections /\ line[i] # c
    BY <1>1 DEF LineType
  <2>2. line' = line
    BY DEF Close
  <2> QED
    BY <1>5, <2>1, <2>2 DEF LineType
<1>8. PermitType'
  BY <1>5, <1>6, NumberType DEF PermitType, Close
<1>9. Number(Opened) \in Nat /\ Number(Opened)' \in Nat
  <2>1. {d \in Connections : conn'[d] \in Opened} \subseteq Connections
    OBVIOUS
  <2>2. Number(Opened)' \in Nat
    BY <2>1, PipelineAssumption, FS_Subset, FS_CardinalityType DEF Number
  <2> QED
    BY <2>2, NumberType
<1>10. stats.active > 0
  BY <1>5, <1>6, <1>9 DEF StatsType
<1>11. stats' = [stats EXCEPT !.active = stats.active - 1]
  BY <1>10 DEF Close
<1>12. stats.active \in Nat
  BY DEF StatsType, Counters
<1>13. stats.active - 1 \in Nat
  BY <1>10, <1>12
<1>14. /\ stats' \in [Counters -> Nat] /\ stats'.active = stats.active - 1
       /\ \A n \in Counters \ {"active"} : stats'[n] = stats[n]
  BY <1>11, <1>13 DEF StatsType, Counters
<1>15. StatsType'
  BY <1>5, <1>6, <1>9, <1>14 DEF StatsType
<1>16. Number(Unanswered)' = Number(Unanswered)
         /\ \A s : Number(Owing(s))' = Number(Owing(s))
  BY <1>5, <1>6, NumberType
<1>17. /\ stats'.accepted = stats.accepted /\ stats'.rejected = stats.rejected
       /\ stats'.deferred = stats.deferred /\ stats'.errors = stats.errors
       /\ stats'.requests = stats.requests
  BY <1>14 DEF Counters
<1>18. UNCHANGED <<tasks, cooldown, worker, faults, denied, lockTries, sent, doubled>>
  BY DEF Close, redisVars, historyVars
<1>19. Sums' /\ Locks'
  BY <1>16, <1>17, <1>18 DEF Sums, Locks
<1>20. QueueType' /\ WorkerType' /\ HistoryType'
  BY <1>18 DEF QueueType, WorkerType, HistoryType
<1> QED
  BY <1>5, <1>7, <1>8, <1>15, <1>18, <1>19, <1>20, CoolingKept
-----------------------------------------------------------------------------
(* The steps of a request.                                                 *)
LEMMA ChargedType == ASSUME IInv, NEW o, Charge(o) PROVE faults' \in Nat
BY DEF IInv, QueueType, Charge

LEMMA PushedType ==
    ASSUME IInv, NEW o, NEW kind \in {"lock", "notify"}, NEW s \in Senders
    PROVE  Pushed(o, kind, s) \in Seq(Events) /\ Times(o) \in {0, 1, 2}
<1>1. Times(o) \in {0, 1, 2}
  BY DEF Times
<1>2. [kind |-> kind, sender |-> s] \in Events
  BY DEF Events
<1>3. [i \in 1 .. Times(o) |-> [kind |-> kind, sender |-> s]] \in Seq(Events)
  BY <1>1, <1>2
<1>4. tasks \in Seq(Events)
  BY DEF IInv, QueueType
<1> QED
  BY <1>1, <1>3, <1>4 DEF Pushed

(* A request that goes on: none of its states is left out of the balances. *)
LEMMA GotoStep ==
    ASSUME IInv, NEW c \in Connections, NEW step \in Steps, conn[c].pc \in Steps,
           conn' = [conn EXCEPT ![c].pc = step],
           UNCHANGED <<line, permits, stats, worker, cooldown, sent, doubled>>,
           faults' \in Nat, tasks' \in Seq(Events), HistoryType',
           conn[c].pc \in {"dns", "match", "adapt"} <=> step \in {"match", "adapt", "check"},
           conn[c].pc # "check", step # "dns",
           \A s \in Senders :
             denied'[s] + lockTries[s]
                 + (IF conn[c].pc \in {"pushLock", "lock"} /\ conn[c].sender = s THEN 1 ELSE 0)
               <= denied[s] + lockTries'[s]
                 + (IF step \in {"pushLock", "lock"} /\ conn[c].sender = s THEN 1 ELSE 0)
    PROVE  IInv'
<1> USE DEF IInv
<1>1. PICK new : new = [conn[c] EXCEPT !.pc = step]
  OBVIOUS
<1>2. /\ conn[c] \in Holding /\ new \in Holding /\ new.pc = step
      /\ new.sender = conn[c].sender
  BY <1>1, GotoState
<1>3. conn' = [conn EXCEPT ![c] = new]
  BY <1>1 DEF ConnType
<1>4. conn[c] \in ConnStates /\ new \in ConnStates
  BY <1>2 DEF Holding
<1>5. One(conn[c], Unanswered) = One(new, Unanswered) /\ One(new, Unanswered) \in Nat
  <2>1. CASE step \in {"match", "adapt", "check"}
    BY <1>2, <1>4, <2>1, StateFacts
  <2>2. CASE step \notin {"match", "adapt", "check"}
    BY <1>2, <1>4, <2>2, StateFacts DEF Steps
  <2> QED
    BY <2>1, <2>2
<1>6. ASSUME NEW s \in Senders
      PROVE  denied'[s] + lockTries[s] + One(conn[c], Owing(s))
               <= denied[s] + lockTries'[s] + One(new, Owing(s))
  <2>1. One(conn[c], Owing(s))
          = IF conn[c].pc \in {"pushLock", "lock"} /\ conn[c].sender = s THEN 1 ELSE 0
    BY <1>4, StateFacts
  <2>2. One(new, Owing(s))
          = IF step \in {"pushLock", "lock"} /\ conn[c].sender = s THEN 1 ELSE 0
    BY <1>2, <1>4, StateFacts
  <2> HIDE DEF IInv
  <2> QED
    BY <2>1, <2>2
<1>7. stats \in [Counters -> Nat] /\ stats' = stats /\ doubled' = doubled /\ doubled \in Nat
  BY DEF StatsType, HistoryType
<1>8. stats'.accepted + stats'.rejected + stats'.deferred + stats'.errors
           + One(new, Unanswered) + stats.requests + doubled
         = stats.accepted + stats.rejected + stats.deferred + stats.errors
             + One(conn[c], Unanswered) + stats'.requests + doubled'
  BY <1>5, <1>7
<1> QED
  BY <1>2, <1>3, <1>6, <1>7, <1>8, RequestStep

(* Nobody's lock is concerned.                                             *)
LEMMA PassStep ==
    ASSUME IInv, NEW c \in Connections, NEW step \in Steps, conn[c].pc \in Steps,
           conn' = [conn EXCEPT ![c].pc = step],
           UNCHANGED <<line, permits, stats, redisVars, worker, historyVars>>, faults' \in Nat,
           conn[c].pc \in {"dns", "match", "adapt"}, step \in {"match", "adapt", "check"}
    PROVE  IInv'
<1>1. /\ UNCHANGED <<line, permits, stats, worker, cooldown, sent, doubled>>
      /\ tasks' = tasks /\ denied' = denied /\ lockTries' = lockTries
  BY DEF redisVars, historyVars
<1>2. tasks' \in Seq(Events) /\ HistoryType'
  BY <1>1 DEF IInv, QueueType, HistoryType, historyVars
<1>3. \A s \in Senders : denied[s] \in Nat /\ lockTries[s] \in Nat
  BY DEF IInv, HistoryType
<1>4. \A s \in Senders :
        denied'[s] + lockTries[s]
            + (IF conn[c].pc \in {"pushLock", "lock"} /\ conn[c].sender = s THEN 1 ELSE 0)
          <= denied[s] + lockTries'[s]
            + (IF step \in {"pushLock", "lock"} /\ conn[c].sender = s THEN 1 ELSE 0)
  BY <1>1, <1>3
<1> QED
  BY <1>1, <1>2, <1>4, GotoStep

LEMMA SuspectStep ==
    ASSUME IInv, NEW c \in Connections, NEW names \in SUBSET Counters, Suspect(c, names),
           UNCHANGED <<line, permits, redisVars, worker, historyVars>>, faults' \in Nat,
           \/ conn[c].pc = "reading" /\ names = {"requests"}
           \/ conn[c].pc = "dns" /\ names = {}
    PROVE  IInv'
<1>1. CASE Counted(names \cup {"suspect", "rejected"}) /\ AnswerWith(c, "reject")
  <2> DEFINE all == names \cup {"suspect", "rejected"}
  <2>1. /\ all \in SUBSET Counters /\ "rejected" \in all /\ "active" \notin all
        /\ \A k \in {"accepted", "rejected", "deferred", "errors"} : k \in all => k = "rejected"
        /\ \/ conn[c].pc = "reading" /\ "requests" \in all
           \/ conn[c].pc \in {"dns", "match", "adapt", "check"} /\ "requests" \notin all
    BY DEF Counters
  <2>2. Counted(all) /\ AnswerWith(c, "reject") /\ "reject" \in Answers
    BY <1>1 DEF Answers
  <2> HIDE DEF all
  <2> QED
    BY <2>1, <2>2, AnswerStep
<1>2. CASE Counted(names \cup {"suspect", "accepted"}) /\ AnswerWith(c, "dunno")
  <2> DEFINE all == names \cup {"suspect", "accepted"}
  <2>1. /\ all \in SUBSET Counters /\ "accepted" \in all /\ "active" \notin all
        /\ \A k \in {"accepted", "rejected", "deferred", "errors"} : k \in all => k = "accepted"
        /\ \/ conn[c].pc = "reading" /\ "requests" \in all
           \/ conn[c].pc \in {"dns", "match", "adapt", "check"} /\ "requests" \notin all
    BY DEF Counters
  <2>2. Counted(all) /\ AnswerWith(c, "dunno") /\ "dunno" \in Answers
    BY <1>2 DEF Answers
  <2> HIDE DEF all
  <2> QED
    BY <2>1, <2>2, AnswerStep
<1> QED
  BY <1>1, <1>2 DEF Suspect

LEMMA FailedStep ==
    ASSUME IInv, NEW c \in Connections, Failed(c),
           UNCHANGED <<line, permits, redisVars, worker, historyVars>>, faults' \in Nat,
           conn[c].pc \in {"dns", "match", "adapt", "check"}
    PROVE  IInv'
<1> DEFINE all == {"errors"}
<1>1. all \in SUBSET Counters /\ "errors" \in all /\ "active" \notin all /\ "requests" \notin all
        /\ \A k \in {"accepted", "rejected", "deferred", "errors"} : k \in all => k = "errors"
  BY DEF Counters
<1>2. Counted(all) /\ AnswerWith(c, "error") /\ "error" \in Answers
  BY DEF Failed, Answers
<1> HIDE DEF all
<1> QED
  BY <1>1, <1>2, AnswerStep

LEMMA AcceptedStep ==
    ASSUME IInv, NEW c \in Connections, Counted({"accepted"}), AnswerWith(c, "dunno"),
           UNCHANGED <<line, permits, redisVars, worker, historyVars>>, faults' \in Nat,
           conn[c].pc \in {"dns", "match", "adapt", "check"}
    PROVE  IInv'
<1> DEFINE all == {"accepted"}
<1>1. all \in SUBSET Counters /\ "accepted" \in all /\ "active" \notin all
        /\ "requests" \notin all
        /\ \A k \in {"accepted", "rejected", "deferred", "errors"} : k \in all => k = "accepted"
  BY DEF Counters
<1>2. Counted(all) /\ "dunno" \in Answers
  BY DEF Answers
<1> HIDE DEF all
<1> QED
  BY <1>1, <1>2, AnswerStep

LEMMA DeliverabilityStep == ASSUME IInv, NEW c \in Connections, Deliverability(c) PROVE IInv'
<1>1. conn[c].pc = "dns" /\ UNCHANGED <<line, permits, redisVars, worker, faults, historyVars>>
  BY DEF Deliverability
<1>2. faults' \in Nat
  BY <1>1 DEF IInv, QueueType
<1>3. CASE Suspect(c, {})
  <2>1. {} \in SUBSET Counters
    OBVIOUS
  <2> QED
    BY <1>1, <1>2, <1>3, <2>1, SuspectStep
<1>4. CASE Failed(c)
  BY <1>1, <1>2, <1>4, FailedStep
<1>5. CASE Goto(c, "match") /\ UNCHANGED stats
  BY <1>1, <1>2, <1>5, PassStep DEF Goto, Steps
<1> QED
  BY <1>3, <1>4, <1>5 DEF Deliverability

LEMMA MatchStep == ASSUME IInv, NEW c \in Connections, Match(c) PROVE IInv'
<1>1. conn[c].pc = "match" /\ UNCHANGED <<line, permits, redisVars, worker, faults, historyVars>>
  BY DEF Match
<1>2. faults' \in Nat
  BY <1>1 DEF IInv, QueueType
<1>3. CASE Counted({"accepted"}) /\ AnswerWith(c, "dunno")
  BY <1>1, <1>2, <1>3, AcceptedStep
<1>4. CASE Goto(c, "adapt") /\ UNCHANGED stats
  BY <1>1, <1>2, <1>4, PassStep DEF Goto, Steps
<1> QED
  BY <1>3, <1>4 DEF Match

LEMMA AdaptStep == ASSUME IInv, NEW c \in Connections, Adapt(c) PROVE IInv'
<1>1. conn[c].pc = "adapt" /\ UNCHANGED <<line, permits, redisVars, worker, historyVars>>
  BY DEF Adapt
<1>2. PICK o \in Outcomes :
        /\ Charge(o)
        /\ IF Raises(o)
             THEN Failed(c)
             ELSE \/ Counted({"accepted"}) /\ AnswerWith(c, "dunno")
                  \/ Goto(c, "check") /\ UNCHANGED stats
  BY DEF Adapt
<1>3. faults' \in Nat
  BY <1>2, ChargedType
<1>4. CASE Failed(c)
  BY <1>1, <1>3, <1>4, FailedStep
<1>5. CASE Counted({"accepted"}) /\ AnswerWith(c, "dunno")
  BY <1>1, <1>3, <1>5, AcceptedStep
<1>6. CASE Goto(c, "check") /\ UNCHANGED stats
  BY <1>1, <1>3, <1>6, PassStep DEF Goto, Steps
<1> QED
  BY <1>2, <1>4, <1>5, <1>6

LEMMA WriteStep == ASSUME IInv, NEW c \in Connections, Write(c) PROVE IInv'
<1> USE DEF IInv
<1>1. PICK new : new = [pc |-> "reading"]
  OBVIOUS
<1>2. new \in ConnStates /\ new.pc = "reading" /\ conn' = [conn EXCEPT ![c] = new]
  BY <1>1 DEF Write, ConnStates
<1>3. conn[c] \in ConnStates /\ conn[c].pc = "writing"
  BY DEF Write, ConnType
<1>4. /\ conn[c] \in Holding /\ new \in Holding
      /\ One(conn[c], Unanswered) = 0 /\ One(new, Unanswered) = 0
      /\ \A s : One(conn[c], Owing(s)) = 0 /\ One(new, Owing(s)) = 0
  BY <1>2, <1>3, StateFacts
<1>5. /\ stats' = stats /\ tasks' = tasks /\ faults' = faults /\ denied' = denied
      /\ lockTries' = lockTries /\ doubled' = doubled /\ sent' = sent
      /\ UNCHANGED <<line, permits, worker, cooldown, sent>>
  BY DEF Write, redisVars, historyVars
<1>6. /\ stats' \in [Counters -> Nat] /\ stats \in [Counters -> Nat]
      /\ tasks' \in Seq(Events) /\ faults' \in Nat
      /\ HistoryType' /\ doubled \in Nat
  BY <1>5 DEF StatsType, QueueType, HistoryType
<1>7. stats'.accepted + stats'.rejected + stats'.deferred + stats'.errors
           + One(new, Unanswered) + stats.requests + doubled
         = stats.accepted + stats.rejected + stats.deferred + stats.errors
             + One(conn[c], Unanswered) + stats'.requests + doubled'
  BY <1>4, <1>5
<1>8. \A s \in Senders :
         denied'[s] + lockTries[s] + One(conn[c], Owing(s))
           <= denied[s] + lockTries'[s] + One(new, Owing(s))
  BY <1>4, <1>5 DEF HistoryType
<1> QED
  BY <1>2, <1>4, <1>5, <1>6, <1>7, <1>8, RequestStep

LEMMA ReceiveStep ==
    ASSUME IInv, NEW c \in Connections, NEW s \in Senders, Receive(c, s) PROVE IInv'
<1> USE DEF IInv
<1>1. conn[c].pc = "reading" /\ conn[c] \in ConnStates
        /\ UNCHANGED <<line, permits, redisVars, worker, faults, historyVars>>
  BY DEF Receive, ConnType
<1>2. faults' \in Nat
  BY <1>1 DEF QueueType
<1>3. CASE Counted({"requests", "accepted"}) /\ AnswerWith(c, "dunno")
  <2> DEFINE all == {"requests", "accepted"}
  <2>1. /\ all \in SUBSET Counters /\ "accepted" \in all /\ "active" \notin all
        /\ \A k \in {"accepted", "rejected", "deferred", "errors"} : k \in all => k = "accepted"
        /\ "requests" \in all
    BY DEF Counters
  <2>2. Counted(all) /\ AnswerWith(c, "dunno") /\ "dunno" \in Answers
    BY <1>3 DEF Answers
  <2> HIDE DEF all, IInv
  <2> QED
    BY <1>1, <1>2, <2>1, <2>2, AnswerStep
<1>4. CASE Suspect(c, {"requests"})
  <2>1. {"requests"} \in SUBSET Counters
    BY DEF Counters
  <2> QED
    BY <1>1, <1>2, <1>4, <2>1, SuspectStep
<1>5. CASE Counted({"requests"}) /\ conn' = [conn EXCEPT ![c] = [pc |-> "dns", sender |-> s]]
  <2>1. PICK new : new = [pc |-> "dns", sender |-> s]
    OBVIOUS
  <2>2. new \in ConnStates /\ new.pc = "dns" /\ conn' = [conn EXCEPT ![c] = new]
    BY <1>5, <2>1 DEF ConnStates, Steps
  <2>3. /\ conn[c] \in Holding /\ new \in Holding
        /\ One(conn[c], Unanswered) = 0 /\ One(new, Unanswered) = 1
        /\ \A t : One(conn[c], Owing(t)) = 0 /\ One(new, Owing(t)) = 0
    BY <1>1, <2>2, StateFacts DEF Steps
  <2>4. /\ stats' \in [Counters -> Nat] /\ stats \in [Counters -> Nat]
        /\ \A n \in Counters : stats'[n] = IF n \in {"requests"} THEN stats[n] + 1 ELSE stats[n]
    BY <1>5, CountedType DEF StatsType
  <2>5. /\ stats'.accepted = stats.accepted /\ stats'.rejected = stats.rejected
        /\ stats'.deferred = stats.deferred /\ stats'.errors = stats.errors
        /\ stats'.active = stats.active /\ stats'.requests = stats.requests + 1
    BY <2>4 DEF Counters
  <2>6. /\ stats.accepted \in Nat /\ stats.rejected \in Nat /\ stats.deferred \in Nat
        /\ stats.errors \in Nat /\ stats.requests \in Nat
    BY <2>4 DEF Counters
  <2>7. /\ tasks' = tasks /\ denied' = denied /\ lockTries' = lockTries /\ doubled' = doubled
        /\ sent' = sent /\ UNCHANGED <<line, permits, worker, cooldown, sent>>
    BY <1>1 DEF redisVars, historyVars
  <2>8. tasks' \in Seq(Events) /\ HistoryType' /\ doubled \in Nat
    BY <2>7 DEF QueueType, HistoryType
  <2>9. stats'.accepted + stats'.rejected + stats'.deferred + stats'.errors
             + One(new, Unanswered) + stats.requests + doubled
           = stats.accepted + stats.rejected + stats.deferred + stats.errors
               + One(conn[c], Unanswered) + stats'.requests + doubled'
    <3>1. One(new, Unanswered) = 1 /\ One(conn[c], Unanswered) = 0 /\ doubled' = doubled
      BY <2>3, <2>7
    <3>2. doubled \in Nat
      BY <2>8
    <3> HIDE DEF IInv
    <3> QED
      BY <2>5, <2>6, <3>1, <3>2
  <2>10. \A t \in Senders :
           denied'[t] + lockTries[t] + One(conn[c], Owing(t))
             <= denied[t] + lockTries'[t] + One(new, Owing(t))
    BY <2>3, <2>7 DEF HistoryType
  <2> HIDE DEF IInv
  <2> QED
    BY <1>2, <2>2, <2>3, <2>4, <2>5, <2>7, <2>8, <2>9, <2>10, RequestStep
<1> QED
  BY <1>3, <1>4, <1>5 DEF Receive

LEMMA DeniedStep ==
    ASSUME IInv, NEW c \in Connections, NEW step \in {"pushLock", "pushNotify"},
           conn[c].pc = "check", Goto(c, step), Counted({"limited", "deferred"}),
           UNCHANGED <<line, permits, redisVars, worker, lockTries, sent, doubled>>,
           faults' \in Nat,
           IF step = "pushLock"
             THEN denied' = [denied EXCEPT ![conn[c].sender] = @ + 1]
             ELSE denied' = denied
    PROVE  IInv'
<1> USE DEF IInv
<1>1. PICK new : new = [conn[c] EXCEPT !.pc = step]
  OBVIOUS
<1>2. PICK s : s = conn[c].sender
  OBVIOUS
<1>3. /\ conn[c] \in Holding /\ new \in Holding /\ new.pc = step
      /\ new.sender = s /\ s \in Senders
  BY <1>1, <1>2, GotoState DEF Steps
<1>4. conn' = [conn EXCEPT ![c] = new]
  BY <1>1 DEF Goto, ConnType
<1>5. conn[c] \in ConnStates /\ new \in ConnStates
  BY <1>3 DEF Holding
<1>6. /\ One(conn[c], Unanswered) = 1 /\ One(new, Unanswered) = 0
      /\ \A t : One(conn[c], Owing(t)) = 0
      /\ \A t : One(new, Owing(t)) = IF step = "pushLock" /\ t = s THEN 1 ELSE 0
  BY <1>3, <1>5, StateFacts
<1>7. /\ stats' \in [Counters -> Nat] /\ stats \in [Counters -> Nat]
      /\ \A n \in Counters :
           stats'[n] = IF n \in {"limited", "deferred"} THEN stats[n] + 1 ELSE stats[n]
  BY CountedType DEF StatsType
<1>8. /\ stats'.accepted = stats.accepted /\ stats'.rejected = stats.rejected
      /\ stats'.deferred = stats.deferred + 1 /\ stats'.errors = stats.errors
      /\ stats'.active = stats.active /\ stats'.requests = stats.requests
  BY <1>7 DEF Counters
<1>9. /\ stats.accepted \in Nat /\ stats.rejected \in Nat /\ stats.deferred \in Nat
      /\ stats.errors \in Nat /\ stats.requests \in Nat
  BY <1>7 DEF Counters
<1>10. /\ tasks' = tasks /\ lockTries' = lockTries /\ doubled' = doubled
       /\ sent' = sent /\ UNCHANGED <<line, permits, worker, cooldown, sent>>
  BY DEF redisVars
<1>11. /\ denied \in [Senders -> Nat] /\ lockTries \in [Senders -> Nat] /\ doubled \in Nat
       /\ sent \in [Senders -> Nat]
  BY DEF HistoryType
<1>12. /\ denied' \in [Senders -> Nat]
       /\ \A t \in Senders :
            denied'[t] = IF step = "pushLock" /\ t = s THEN denied[t] + 1 ELSE denied[t]
  <2>1. CASE step = "pushLock"
    BY <1>2, <1>3, <1>11, <2>1
  <2>2. CASE step # "pushLock"
    BY <1>11, <2>2
  <2> QED
    BY <2>1, <2>2
<1>13. tasks' \in Seq(Events) /\ HistoryType'
  BY <1>10, <1>11, <1>12 DEF QueueType, HistoryType
<1>14. stats'.accepted + stats'.rejected + stats'.deferred + stats'.errors
            + One(new, Unanswered) + stats.requests + doubled
          = stats.accepted + stats.rejected + stats.deferred + stats.errors
              + One(conn[c], Unanswered) + stats'.requests + doubled'
  BY <1>6, <1>8, <1>9, <1>10, <1>11
<1>15. ASSUME NEW t \in Senders
       PROVE  denied'[t] + lockTries[t] + One(conn[c], Owing(t))
                <= denied[t] + lockTries'[t] + One(new, Owing(t))
  <2>1. denied[t] \in Nat /\ lockTries[t] \in Nat /\ lockTries'[t] = lockTries[t]
    BY <1>10, <1>11
  <2> HIDE DEF IInv
  <2> QED
    BY <1>6, <1>12, <2>1
<1> HIDE DEF IInv
<1> QED
  BY <1>3, <1>4, <1>7, <1>8, <1>10, <1>13, <1>14, <1>15, RequestStep

LEMMA CheckStep == ASSUME IInv, NEW c \in Connections, Check(c) PROVE IInv'
<1>1. /\ conn[c].pc = "check"
      /\ UNCHANGED <<line, permits, redisVars, worker, lockTries, sent, doubled>>
  BY DEF Check
<1>2. PICK o \in Outcomes :
        /\ Charge(o)
        /\ \/ Raises(o) /\ Failed(c) /\ UNCHANGED denied
           \/ /\ ~Raises(o)
              /\ Counted({"accepted"}) /\ AnswerWith(c, "dunno") /\ UNCHANGED denied
           \/ /\ ~Raises(o)
              /\ Counted({"limited", "deferred"})
              /\ \/ /\ Goto(c, "pushLock")
                    /\ denied' = [denied EXCEPT ![conn[c].sender] = @ + 1]
                 \/ Goto(c, "pushNotify") /\ UNCHANGED denied
  BY DEF Check
<1>3. faults' \in Nat
  BY <1>2, ChargedType
<1>4. CASE Failed(c) /\ UNCHANGED denied
  BY <1>1, <1>3, <1>4, FailedStep DEF historyVars
<1>5. CASE Counted({"accepted"}) /\ AnswerWith(c, "dunno") /\ UNCHANGED denied
  BY <1>1, <1>3, <1>5, AcceptedStep DEF historyVars
<1>6. CASE /\ Counted({"limited", "deferred"}) /\ Goto(c, "pushLock")
           /\ denied' = [denied EXCEPT ![conn[c].sender] = @ + 1]
  BY <1>1, <1>3, <1>6, DeniedStep
<1>7. CASE Counted({"limited", "deferred"}) /\ Goto(c, "pushNotify") /\ UNCHANGED denied
  BY <1>1, <1>3, <1>7, DeniedStep
<1> QED
  BY <1>2, <1>4, <1>5, <1>6, <1>7

LEMMA PushLockStep == ASSUME IInv, NEW c \in Connections, PushLock(c) PROVE IInv'
<1>1. /\ conn[c].pc = "pushLock"
      /\ UNCHANGED <<line, permits, stats, worker, cooldown, denied, sent, doubled>>
  BY DEF PushLock
<1>2. PICK s : s = conn[c].sender
  OBVIOUS
<1>3. s \in Senders /\ conn[c].pc \in Steps
  BY <1>1, <1>2, GotoState DEF Steps, IInv
<1>4. PICK o \in Outcomes :
        /\ Charge(o) /\ tasks' = Pushed(o, "lock", s)
        /\ lockTries' = [lockTries EXCEPT ![s] = @ + Times(o)]
        /\ Goto(c, IF Raises(o) THEN "lock" ELSE "pushNotify")
  BY <1>2 DEF PushLock
<1>5. PICK step : step = IF Raises(o) THEN "lock" ELSE "pushNotify"
  OBVIOUS
<1>6. step \in Steps /\ step \notin {"dns", "match", "adapt", "check"}
        /\ conn' = [conn EXCEPT ![c].pc = step]
  BY <1>4, <1>5 DEF Steps, Goto
<1>7. faults' \in Nat /\ tasks' \in Seq(Events) /\ Times(o) \in {0, 1, 2}
  BY <1>3, <1>4, ChargedType, PushedType
<1>8. step # "lock" => Times(o) \in {1, 2}
  BY <1>5 DEF Raises, Times
<1>9. denied \in [Senders -> Nat] /\ lockTries \in [Senders -> Nat] /\ denied' = denied
  BY <1>1 DEF IInv, HistoryType
<1>10. /\ lockTries' \in [Senders -> Nat]
       /\ \A t \in Senders :
            lockTries'[t] = IF t = s THEN lockTries[t] + Times(o) ELSE lockTries[t]
  BY <1>3, <1>4, <1>7, <1>9
<1>11. HistoryType'
  BY <1>1, <1>9, <1>10 DEF HistoryType, IInv
<1>12. ASSUME NEW t \in Senders
       PROVE  denied'[t] + lockTries[t]
                  + (IF conn[c].pc \in {"pushLock", "lock"} /\ conn[c].sender = t THEN 1 ELSE 0)
                <= denied[t] + lockTries'[t]
                  + (IF step \in {"pushLock", "lock"} /\ conn[c].sender = t THEN 1 ELSE 0)
  <2>1. denied[t] \in Nat /\ lockTries[t] \in Nat /\ denied'[t] = denied[t]
    BY <1>9
  <2>2. PICK n \in Nat : n = Times(o) /\ (step # "lock" => n >= 1)
    BY <1>7, <1>8
  <2>3. CASE t = s
    BY <1>1, <1>2, <1>10, <2>1, <2>2, <2>3
  <2>4. CASE t # s
    BY <1>1, <1>2, <1>10, <2>1, <2>4
  <2> QED
    BY <2>3, <2>4
<1>13. UNCHANGED <<line, permits, stats, worker, cooldown, sent, doubled>>
  BY <1>1
<1> QED
  BY <1>1, <1>3, <1>6, <1>7, <1>11, <1>12, <1>13, GotoStep

LEMMA LockNowStep == ASSUME IInv, NEW c \in Connections, LockNow(c) PROVE IInv'
<1>1. /\ conn[c].pc = "lock"
      /\ UNCHANGED <<line, permits, redisVars, worker, denied, sent>>
  BY DEF LockNow
<1>2. PICK s : s = conn[c].sender
  OBVIOUS
<1>3. s \in Senders /\ conn[c].pc \in Steps
  BY <1>1, <1>2, GotoState DEF Steps, IInv
<1>4. PICK o \in Outcomes :
        /\ Charge(o)
        /\ lockTries' = [lockTries EXCEPT ![s] = @ + 1]
        /\ IF Raises(o)
             THEN Failed(c) /\ doubled' = doubled + 1
             ELSE Goto(c, "pushNotify") /\ UNCHANGED <<stats, doubled>>
  BY <1>2 DEF LockNow
<1>5. faults' \in Nat
  BY <1>4, ChargedType
<1>6. /\ denied \in [Senders -> Nat] /\ lockTries \in [Senders -> Nat] /\ denied' = denied
      /\ doubled \in Nat /\ sent' = sent /\ sent \in [Senders -> Nat]
      /\ tasks' = tasks /\ tasks \in Seq(Events) /\ cooldown' = cooldown
  BY <1>1 DEF IInv, HistoryType, QueueType, redisVars
<1>7. /\ lockTries' \in [Senders -> Nat]
      /\ \A t \in Senders : lockTries'[t] = IF t = s THEN lockTries[t] + 1 ELSE lockTries[t]
  BY <1>3, <1>4, <1>6
<1>8. CASE Failed(c) /\ doubled' = doubled + 1
  <2>1. PICK new : new = [pc |-> "writing", answer |-> "error"]
    OBVIOUS
  <2>2. new \in Holding /\ new.pc = "writing" /\ conn' = [conn EXCEPT ![c] = new]
    BY <1>8, <2>1, AnswerState DEF Failed, AnswerWith, Answers
  <2>3. conn[c] \in ConnStates /\ new \in ConnStates
    BY <2>2 DEF IInv, ConnType, Holding
  <2>4. /\ conn[c] \in Holding
        /\ One(conn[c], Unanswered) = 0 /\ One(new, Unanswered) = 0
        /\ \A t : One(new, Owing(t)) = 0
        /\ \A t : One(conn[c], Owing(t)) = IF t = s THEN 1 ELSE 0
    BY <1>1, <1>2, <1>3, <2>2, <2>3, StateFacts
  <2>5. /\ stats' \in [Counters -> Nat] /\ stats \in [Counters -> Nat]
        /\ \A n \in Counters : stats'[n] = IF n \in {"errors"} THEN stats[n] + 1 ELSE stats[n]
    BY <1>8, CountedType DEF StatsType, IInv, Failed
  <2>6. /\ stats'.accepted = stats.accepted /\ stats'.rejected = stats.rejected
        /\ stats'.deferred = stats.deferred /\ stats'.errors = stats.errors + 1
        /\ stats'.active = stats.active /\ stats'.requests = stats.requests
    BY <2>5 DEF Counters
  <2>7. /\ stats.accepted \in Nat /\ stats.rejected \in Nat /\ stats.deferred \in Nat
        /\ stats.errors \in Nat /\ stats.requests \in Nat
    BY <2>5 DEF Counters
  <2>8. stats'.accepted + stats'.rejected + stats'.deferred + stats'.errors
             + One(new, Unanswered) + stats.requests + doubled
           = stats.accepted + stats.rejected + stats.deferred + stats.errors
               + One(conn[c], Unanswered) + stats'.requests + doubled'
    <3>1. One(new, Unanswered) = 0 /\ One(conn[c], Unanswered) = 0
      BY <2>4
    <3>2. doubled \in Nat /\ doubled' = doubled + 1
      BY <1>6, <1>8
    <3> QED
      BY <2>6, <2>7, <3>1, <3>2
  <2>9. ASSUME NEW t \in Senders
        PROVE  denied'[t] + lockTries[t] + One(conn[c], Owing(t))
                 <= denied[t] + lockTries'[t] + One(new, Owing(t))
    <3>1. denied[t] \in Nat /\ lockTries[t] \in Nat /\ denied'[t] = denied[t]
      BY <1>6
    <3> QED
      BY <1>7, <2>4, <3>1
  <2>10. HistoryType' /\ tasks' \in Seq(Events)
    BY <1>6, <1>7, <1>8 DEF HistoryType
  <2>11. UNCHANGED <<line, permits, worker, cooldown, sent>>
    BY <1>1, <1>6
  <2> QED
    BY <1>5, <2>2, <2>4, <2>5, <2>6, <2>8, <2>9, <2>10, <2>11, RequestStep
<1>9. CASE Goto(c, "pushNotify") /\ UNCHANGED <<stats, doubled>>
  <2>1. ASSUME NEW t \in Senders
        PROVE  denied'[t] + lockTries[t]
                   + (IF conn[c].pc \in {"pushLock", "lock"} /\ conn[c].sender = t
                        THEN 1 ELSE 0)
                 <= denied[t] + lockTries'[t]
                   + (IF "pushNotify" \in {"pushLock", "lock"} /\ conn[c].sender = t
                        THEN 1 ELSE 0)
    <3>1. denied[t] \in Nat /\ lockTries[t] \in Nat /\ denied'[t] = denied[t]
      BY <1>6
    <3> QED
      BY <1>2, <1>7, <3>1
  <2>2. /\ HistoryType' /\ tasks' \in Seq(Events) /\ "pushNotify" \in Steps
        /\ conn' = [conn EXCEPT ![c].pc = "pushNotify"]
    BY <1>6, <1>7, <1>9 DEF HistoryType, Steps, Goto
  <2>3. UNCHANGED <<line, permits, stats, worker, cooldown, sent, doubled>>
    BY <1>1, <1>6, <1>9
  <2> QED
    BY <1>1, <1>3, <1>5, <2>1, <2>2, <2>3, GotoStep
<1> QED
  BY <1>4, <1>8, <1>9

LEMMA PushNotifyStep == ASSUME IInv, NEW c \in Connections, PushNotify(c) PROVE IInv'
<1>1. /\ conn[c].pc = "pushNotify" /\ AnswerWith(c, "defer")
      /\ UNCHANGED <<line, permits, stats, worker, cooldown, historyVars>>
  BY DEF PushNotify
<1>2. PICK s : s = conn[c].sender
  OBVIOUS
<1>3. s \in Senders /\ conn[c] \in ConnStates
  BY <1>1, <1>2, GotoState DEF Steps, IInv, ConnType
<1>4. PICK o \in Outcomes : Charge(o) /\ tasks' = Pushed(o, "notify", s)
  BY <1>2 DEF PushNotify
<1>5. faults' \in Nat /\ tasks' \in Seq(Events)
  BY <1>3, <1>4, ChargedType, PushedType
<1>6. PICK new : new = [pc |-> "writing", answer |-> "defer"]
  OBVIOUS
<1>7. new \in Holding /\ new.pc = "writing" /\ conn' = [conn EXCEPT ![c] = new]
        /\ new \in ConnStates
  BY <1>1, <1>6, AnswerState DEF AnswerWith, Answers, Holding
<1>8. /\ conn[c] \in Holding
      /\ One(conn[c], Unanswered) = 0 /\ One(new, Unanswered) = 0
      /\ \A t : One(conn[c], Owing(t)) = 0 /\ One(new, Owing(t)) = 0
  BY <1>1, <1>3, <1>7, StateFacts DEF Steps
<1>9. /\ stats \in [Counters -> Nat] /\ stats' = stats /\ doubled \in Nat /\ doubled' = doubled
      /\ denied' = denied /\ lockTries' = lockTries /\ sent' = sent
      /\ denied \in [Senders -> Nat] /\ lockTries \in [Senders -> Nat]
  BY <1>1 DEF IInv, StatsType, HistoryType, historyVars
<1>10. HistoryType' /\ UNCHANGED <<line, permits, worker, cooldown, sent>>
         /\ stats' \in [Counters -> Nat] /\ stats'.active = stats.active
  BY <1>1, <1>9 DEF HistoryType, IInv
<1>11. stats'.accepted + stats'.rejected + stats'.deferred + stats'.errors
            + One(new, Unanswered) + stats.requests + doubled
          = stats.accepted + stats.rejected + stats.deferred + stats.errors
              + One(conn[c], Unanswered) + stats'.requests + doubled'
  BY <1>8, <1>9
<1>12. \A t \in Senders :
         denied'[t] + lockTries[t] + One(conn[c], Owing(t))
           <= denied[t] + lockTries'[t] + One(new, Owing(t))
  BY <1>8, <1>9
<1> QED
  BY <1>5, <1>7, <1>8, <1>10, <1>11, <1>12, RequestStep
-----------------------------------------------------------------------------
(* A worker moves from one state to another.                               *)
LEMMA WorkerMoves ==
    ASSUME WorkerType, NEW w \in Workers, NEW new \in WorkerStates,
           worker' = [worker EXCEPT ![w] = new]
    PROVE  /\ WorkerType' /\ worker'[w] = new
           /\ \A v \in Workers : v # w => worker'[v] = worker[v]
           /\ \A s : Notifiers(s)'
                = Notifiers(s) - One(worker[w], Passed(s)) + One(new, Passed(s))
<1>1. WorkerType' /\ worker'[w] = new /\ \A v \in Workers : v # w => worker'[v] = worker[v]
  BY DEF WorkerType
<1>2. ASSUME NEW s
      PROVE  Notifiers(s)' = Notifiers(s) - One(worker[w], Passed(s)) + One(new, Passed(s))
  <2> DEFINE before == {v \in Workers : worker[v] \in Passed(s)}
             after == {v \in Workers : worker'[v] \in Passed(s)}
  <2>1. /\ before \in SUBSET Workers /\ after \in SUBSET Workers
        /\ \A v \in Workers : v # w => (v \in before <=> v \in after)
        /\ (w \in before <=> worker[w] \in Passed(s)) /\ (w \in after <=> new \in Passed(s))
    BY <1>1
  <2> HIDE DEF before, after
  <2>2. Cardinality(after) = Cardinality(before)
          - (IF w \in before THEN 1 ELSE 0) + (IF w \in after THEN 1 ELSE 0)
    BY <2>1, Moves, PipelineAssumption
  <2>3. Cardinality(after) = Cardinality(before) - One(worker[w], Passed(s)) + One(new, Passed(s))
    BY <2>1, <2>2 DEF One
  <2> QED
    BY <2>3 DEF Notifiers, before, after
<1> QED
  BY <1>1, <1>2

(* What a step that leaves the requests alone still has to keep.           *)
LEMMA WorkerStep ==
    ASSUME IInv, UNCHANGED <<conn, line, permits, stats, denied, lockTries, doubled>>,
           QueueType', WorkerType', sent' \in [Senders -> Nat], Cooling'
    PROVE  IInv'
BY DEF IInv, ConnType, LineType, PermitType, StatsType, HistoryType, Sums, Locks, Number

LEMMA TakeStep == ASSUME IInv, NEW w \in Workers, Take(w) PROVE IInv'
<1> USE DEF IInv
<1>1. /\ worker[w] = Idle /\ tasks # << >> /\ tasks \in Seq(Events)
      /\ UNCHANGED <<conn, line, permits, stats, cooldown, historyVars>>
  BY DEF Take, QueueType
<1>2. PICK o \in Outcomes :
        /\ Charge(o)
        /\ tasks' = IF o = "lost" THEN tasks ELSE Tail(tasks)
        /\ worker' = IF o = "ok" /\ Head(tasks).kind = "notify"
                       THEN [worker EXCEPT ![w] = [pc |-> "exists", sender |-> Head(tasks).sender]]
                       ELSE worker
  BY DEF Take
<1>3. tasks' \in Seq(Events) /\ Head(tasks) \in Events
  BY <1>1, <1>2
<1>4. QueueType'
  BY <1>1, <1>2, <1>3, ChargedType DEF QueueType
<1>5. sent' = sent /\ sent \in [Senders -> Nat] /\ cooldown' = cooldown
        /\ UNCHANGED <<denied, lockTries, doubled>>
  BY <1>1 DEF HistoryType, historyVars
<1>6. CASE worker' = worker
  <2>1. WorkerType' /\ Cooling'
    BY <1>5, <1>6, CoolingKept DEF WorkerType
  <2> QED
    BY <1>1, <1>4, <1>5, <2>1, WorkerStep
<1>7. CASE worker' = [worker EXCEPT ![w] = [pc |-> "exists", sender |-> Head(tasks).sender]]
  <2>1. PICK new : new = [pc |-> "exists", sender |-> Head(tasks).sender]
    OBVIOUS
  <2>2. new \in WorkerStates /\ new.pc = "exists" /\ worker' = [worker EXCEPT ![w] = new]
    BY <1>3, <1>7, <2>1 DEF WorkerStates, Events
  <2>3. /\ WorkerType' /\ worker'[w] = new
        /\ \A v \in Workers : v # w => worker'[v] = worker[v]
        /\ \A s : Notifiers(s)'
             = Notifiers(s) - One(worker[w], Passed(s)) + One(new, Passed(s))
    BY <2>2, WorkerMoves
  <2>4. \A s : One(worker[w], Passed(s)) = 0 /\ One(new, Passed(s)) = 0
    BY <1>1, <2>2 DEF One, Passed, Idle
  <2>5. \A s : Notifiers(s)' = Notifiers(s)
    BY <2>3, <2>4, NotifiersType
  <2>6. Cooling'
    BY <1>5, <2>2, <2>3, <2>5 DEF Cooling
  <2> QED
    BY <1>1, <1>4, <1>5, <2>3, <2>6, WorkerStep
<1> QED
  BY <1>2, <1>6, <1>7

(* A worker at a notification, and the state a step brings it to.          *)
LEMMA NotifyState ==
    ASSUME WorkerType, NEW w \in Workers, worker[w].pc \in {"exists", "set", "send"},
           NEW pc \in {"exists", "set", "send"}, NEW new, new = [worker[w] EXCEPT !.pc = pc]
    PROVE  /\ new \in WorkerStates /\ new.pc = pc /\ new.sender = worker[w].sender
           /\ worker[w].sender \in Senders /\ Idle \in WorkerStates
           /\ \A s : One(Idle, Passed(s)) = 0
           /\ \A s : One(worker[w], Passed(s))
                = IF worker[w].pc \in {"set", "send"} /\ worker[w].sender = s THEN 1 ELSE 0
           /\ \A s : One(new, Passed(s))
                = IF pc \in {"set", "send"} /\ worker[w].sender = s THEN 1 ELSE 0
<1>1. worker[w] \in WorkerStates /\ worker[w] # Idle
  BY DEF WorkerType, Idle
<1>2. worker[w] \in [pc : {"exists", "set", "send"}, sender : Senders]
  BY <1>1 DEF WorkerStates
<1>3. new \in [pc : {"exists", "set", "send"}, sender : Senders] /\ new.pc = pc
        /\ new.sender = worker[w].sender
  BY <1>2
<1>4. new \in WorkerStates /\ Idle \in WorkerStates
  BY <1>3 DEF WorkerStates
<1>5. \A s : One(Idle, Passed(s)) = 0
  BY DEF One, Passed, Idle
<1>6. ASSUME NEW s
      PROVE  /\ One(worker[w], Passed(s))
                  = IF worker[w].pc \in {"set", "send"} /\ worker[w].sender = s THEN 1 ELSE 0
             /\ One(new, Passed(s))
                  = IF pc \in {"set", "send"} /\ worker[w].sender = s THEN 1 ELSE 0
  BY <1>1, <1>3, <1>4 DEF One, Passed
<1> QED
  BY <1>2, <1>3, <1>4, <1>5, <1>6

LEMMA ExistsNotifyStep == ASSUME IInv, NEW w \in Workers, ExistsNotify(w) PROVE IInv'
<1> USE DEF IInv
<1>1. /\ worker[w].pc = "exists"
      /\ UNCHANGED <<conn, line, permits, stats, redisVars, historyVars>>
  BY DEF ExistsNotify
<1>2. PICK s : s = worker[w].sender
  OBVIOUS
<1>3. PICK o \in Outcomes :
        /\ Charge(o)
        /\ worker' = IF Raises(o) \/ s \in cooldown
                       THEN [worker EXCEPT ![w] = Idle] ELSE [worker EXCEPT ![w].pc = "set"]
  BY <1>2 DEF ExistsNotify
<1>4. /\ sent' = sent /\ sent \in [Senders -> Nat] /\ cooldown' = cooldown /\ tasks' = tasks
      /\ UNCHANGED <<denied, lockTries, doubled>>
  BY <1>1 DEF HistoryType, historyVars, redisVars
<1>5. QueueType'
  BY <1>3, <1>4, ChargedType DEF QueueType
<1>6. PICK next : next = [worker[w] EXCEPT !.pc = "set"]
  OBVIOUS
<1>7. /\ next \in WorkerStates /\ next.pc = "set" /\ next.sender = s
      /\ s \in Senders /\ Idle \in WorkerStates
      /\ \A t : One(Idle, Passed(t)) = 0 /\ One(worker[w], Passed(t)) = 0
      /\ \A t : One(next, Passed(t)) = IF s = t THEN 1 ELSE 0
  BY <1>1, <1>2, <1>6, NotifyState
<1>8. CASE worker' = [worker EXCEPT ![w] = Idle]
  <2>1. /\ WorkerType' /\ worker'[w] = Idle
        /\ \A v \in Workers : v # w => worker'[v] = worker[v]
        /\ \A t : Notifiers(t)' = Notifiers(t) - One(worker[w], Passed(t)) + One(Idle, Passed(t))
    BY <1>7, <1>8, WorkerMoves
  <2>2. \A t : Notifiers(t)' = Notifiers(t)
    BY <1>7, <2>1, NotifiersType
  <2>3. Cooling'
    BY <1>4, <2>1, <2>2 DEF Cooling, Idle
  <2> QED
    BY <1>1, <1>4, <1>5, <2>1, <2>3, WorkerStep
<1>9. CASE s \notin cooldown /\ worker' = [worker EXCEPT ![w].pc = "set"]
  <2>1. worker' = [worker EXCEPT ![w] = next]
    BY <1>6, <1>9 DEF WorkerType
  <2>2. /\ WorkerType' /\ worker'[w] = next
        /\ \A v \in Workers : v # w => worker'[v] = worker[v]
        /\ \A t : Notifiers(t)' = Notifiers(t) - One(worker[w], Passed(t)) + One(next, Passed(t))
    BY <1>7, <2>1, WorkerMoves
  <2>3. \A t : t # s => Notifiers(t)' = Notifiers(t)
    BY <1>7, <2>2, NotifiersType
  <2>4. Cooling'
    BY <1>4, <1>7, <1>9, <2>2, <2>3 DEF Cooling
  <2> QED
    BY <1>1, <1>4, <1>5, <2>2, <2>4, WorkerStep
<1> QED
  BY <1>3, <1>8, <1>9

LEMMA SetNotifyStep == ASSUME IInv, NEW w \in Workers, SetNotify(w) PROVE IInv'
<1> USE DEF IInv
<1>1. /\ worker[w].pc = "set"
      /\ UNCHANGED <<conn, line, permits, stats, tasks, historyVars>>
  BY DEF SetNotify
<1>2. PICK s : s = worker[w].sender
  OBVIOUS
<1>3. PICK o \in Outcomes :
        /\ Charge(o)
        /\ cooldown' = IF o = "lost" THEN cooldown ELSE cooldown \cup {s}
        /\ worker' = IF Raises(o) THEN [worker EXCEPT ![w] = Idle]
                                  ELSE [worker EXCEPT ![w].pc = "send"]
  BY <1>2 DEF SetNotify
<1>4. /\ sent' = sent /\ sent \in [Senders -> Nat] /\ tasks' = tasks
      /\ UNCHANGED <<denied, lockTries, doubled>>
  BY <1>1 DEF HistoryType, historyVars
<1>5. PICK next : next = [worker[w] EXCEPT !.pc = "send"]
  OBVIOUS
<1>6. /\ next \in WorkerStates /\ next.pc = "send" /\ next.sender = s
      /\ s \in Senders /\ Idle \in WorkerStates
      /\ \A t : One(Idle, Passed(t)) = 0
      /\ \A t : One(worker[w], Passed(t)) = IF s = t THEN 1 ELSE 0
      /\ \A t : One(next, Passed(t)) = IF s = t THEN 1 ELSE 0
  BY <1>1, <1>2, <1>5, NotifyState
<1>7. QueueType'
  BY <1>3, <1>4, <1>6, ChargedType DEF QueueType
<1>8. \A t \in Senders : sent[t] \in Nat /\ Notifiers(t) \in Nat
        /\ Notifiers(t) <= Cardinality(Workers)
  BY <1>4, NotifiersType
<1>9. CASE Raises(o)
  <2>1. worker' = [worker EXCEPT ![w] = Idle]
    BY <1>3, <1>9
  <2>2. /\ WorkerType' /\ worker'[w] = Idle
        /\ \A v \in Workers : v # w => worker'[v] = worker[v]
        /\ \A t : Notifiers(t)' = Notifiers(t) - One(worker[w], Passed(t)) + One(Idle, Passed(t))
    BY <1>6, <2>1, WorkerMoves
  <2>3. /\ \A t \in Senders : t # s => Notifiers(t)' = Notifiers(t)
        /\ Notifiers(s)' = Notifiers(s) - 1
    BY <1>6, <1>8, <2>2
  <2>4. ASSUME NEW t \in Senders
        PROVE  IF t \in cooldown'
                 THEN sent'[t] + Notifiers(t)' <= Cardinality(Workers)
                 ELSE sent'[t] = 0
                        /\ \A v \in Workers : worker'[v].pc = "send" => worker'[v].sender # t
    <3>1. t # s => (t \in cooldown' <=> t \in cooldown)
      BY <1>3
    <3>2. \A v \in Workers : worker'[v].pc = "send" => worker'[v] = worker[v]
      BY <2>2 DEF Idle
    <3>3. CASE t \in cooldown
      <4>1. t \in cooldown'
        BY <1>3, <3>3
      <4>2. sent[t] + Notifiers(t) <= Cardinality(Workers)
        BY <3>3 DEF Cooling
      <4> QED
        BY <1>4, <1>8, <2>3, <4>1, <4>2, NotifiersType
    <3>4. CASE t \notin cooldown
      <4>1. sent[t] = 0 /\ \A v \in Workers : worker[v].pc = "send" => worker[v].sender # t
        BY <3>4 DEF Cooling
      <4>2. CASE t \in cooldown'
        BY <1>4, <1>6, <1>8, <2>3, <3>1, <3>4, <4>1, <4>2, NotifiersType
      <4>3. CASE t \notin cooldown'
        BY <1>4, <3>2, <4>1, <4>3
      <4> QED
        BY <4>2, <4>3
    <3> QED
      BY <3>3, <3>4
  <2>5. Cooling'
    BY <2>4 DEF Cooling
  <2> QED
    BY <1>1, <1>4, <1>7, <2>2, <2>5, WorkerStep
<1>10. CASE ~Raises(o)
  <2>1. worker' = [worker EXCEPT ![w] = next]
    BY <1>3, <1>5, <1>10 DEF WorkerType
  <2>2. /\ WorkerType' /\ worker'[w] = next
        /\ \A v \in Workers : v # w => worker'[v] = worker[v]
        /\ \A t : Notifiers(t)' = Notifiers(t) - One(worker[w], Passed(t)) + One(next, Passed(t))
    BY <1>6, <2>1, WorkerMoves
  <2>3. \A t \in Senders : Notifiers(t)' = Notifiers(t)
    BY <1>6, <1>8, <2>2
  <2>4. cooldown' = cooldown \cup {s}
    BY <1>3, <1>10 DEF Raises
  <2>5. ASSUME NEW t \in Senders
        PROVE  IF t \in cooldown'
                 THEN sent'[t] + Notifiers(t)' <= Cardinality(Workers)
                 ELSE sent'[t] = 0
                        /\ \A v \in Workers : worker'[v].pc = "send" => worker'[v].sender # t
    <3>1. CASE t \in cooldown
      <4>1. sent[t] + Notifiers(t) <= Cardinality(Workers)
        BY <3>1 DEF Cooling
      <4> QED
        BY <1>4, <2>3, <2>4, <3>1, <4>1
    <3>2. CASE t \notin cooldown
      <4>1. sent[t] = 0 /\ \A v \in Workers : worker[v].pc = "send" => worker[v].sender # t
        BY <3>2 DEF Cooling
      <4>2. CASE t = s
        BY <1>4, <1>8, <2>3, <2>4, <4>1, <4>2
      <4>3. CASE t # s
        BY <1>4, <1>6, <2>2, <2>4, <3>2, <4>1, <4>3
      <4> QED
        BY <4>2, <4>3
    <3> QED
      BY <3>1, <3>2
  <2>6. Cooling'
    BY <2>5 DEF Cooling
  <2> QED
    BY <1>1, <1>4, <1>7, <2>2, <2>6, WorkerStep
<1> QED
  BY <1>9, <1>10

LEMMA SendStep == ASSUME IInv, NEW w \in Workers, Send(w) PROVE IInv'
<1> USE DEF IInv
<1>1. /\ worker[w].pc = "send" /\ worker' = [worker EXCEPT ![w] = Idle]
      /\ UNCHANGED <<conn, line, permits, stats, redisVars, faults, denied, lockTries, doubled>>
  BY DEF Send
<1>2. PICK s : s = worker[w].sender
  OBVIOUS
<1>3. sent' = [sent EXCEPT ![s] = @ + 1]
  BY <1>2 DEF Send
<1>4. /\ s \in Senders /\ Idle \in WorkerStates
      /\ \A t : One(Idle, Passed(t)) = 0
      /\ \A t : One(worker[w], Passed(t)) = IF s = t THEN 1 ELSE 0
  BY <1>1, <1>2, NotifyState
<1>5. sent \in [Senders -> Nat] /\ cooldown' = cooldown /\ tasks' = tasks
  BY <1>1 DEF HistoryType, redisVars
<1>6. /\ sent' \in [Senders -> Nat]
      /\ \A t \in Senders : sent'[t] = IF t = s THEN sent[t] + 1 ELSE sent[t]
  BY <1>3, <1>4, <1>5
<1>7. /\ WorkerType' /\ worker'[w] = Idle
      /\ \A v \in Workers : v # w => worker'[v] = worker[v]
      /\ \A t : Notifiers(t)' = Notifiers(t) - One(worker[w], Passed(t)) + One(Idle, Passed(t))
  BY <1>1, <1>4, WorkerMoves
<1>8. \A t \in Senders : sent[t] \in Nat /\ Notifiers(t) \in Nat
  BY <1>5, NotifiersType
<1>9. s \in cooldown
  BY <1>1, <1>2, <1>4 DEF Cooling
<1>10. ASSUME NEW t \in Senders
       PROVE  IF t \in cooldown'
                THEN sent'[t] + Notifiers(t)' <= Cardinality(Workers)
                ELSE sent'[t] = 0
                       /\ \A v \in Workers : worker'[v].pc = "send" => worker'[v].sender # t
  <2>1. CASE t \in cooldown
    <3>1. sent[t] + Notifiers(t) <= Cardinality(Workers)
      BY <2>1 DEF Cooling
    <3>2. sent'[t] + Notifiers(t)' = sent[t] + Notifiers(t)
      BY <1>4, <1>6, <1>7, <1>8
    <3> QED
      BY <1>5, <2>1, <3>1, <3>2
  <2>2. CASE t \notin cooldown
    <3>1. sent[t] = 0 /\ \A v \in Workers : worker[v].pc = "send" => worker[v].sender # t
      BY <2>2 DEF Cooling
    <3> QED
      BY <1>5, <1>6, <1>7, <1>9, <2>2, <3>1 DEF Idle
  <2> QED
    BY <2>1, <2>2
<1>11. Cooling' /\ QueueType'
  BY <1>1, <1>5, <1>10 DEF Cooling, QueueType
<1> QED
  BY <1>1, <1>6, <1>7, <1>11, WorkerStep

LEMMA ExpireNotifyStep == ASSUME IInv, NEW s \in Senders, ExpireNotify(s) PROVE IInv'
<1> USE DEF IInv
<1>1. /\ cooldown' = cooldown \ {s} /\ sent' = [sent EXCEPT ![s] = 0]
      /\ UNCHANGED <<conn, line, permits, stats, tasks, worker, faults, denied, lockTries, doubled>>
      /\ s \notin {worker[w].sender : w \in {v \in Workers : worker[v] # Idle}}
  BY DEF ExpireNotify
<1>2. /\ sent' \in [Senders -> Nat]
      /\ \A t \in Senders : sent'[t] = IF t = s THEN 0 ELSE sent[t]
  BY <1>1 DEF HistoryType
<1>3. \A v \in Workers : worker[v].pc = "send" => worker[v].sender # s
  BY <1>1 DEF Idle
<1>4. \A t : Notifiers(t)' = Notifiers(t)
  BY <1>1 DEF Notifiers
<1>5. Cooling'
  BY <1>1, <1>2, <1>3, <1>4 DEF Cooling
<1>6. QueueType' /\ WorkerType'
  BY <1>1 DEF QueueType, WorkerType
<1> QED
  BY <1>1, <1>2, <1>5, <1>6, WorkerStep
-----------------------------------------------------------------------------
LEMMA StutterKeeps == ASSUME IInv, UNCHANGED vars PROVE IInv'
<1>1. UNCHANGED <<conn, line, permits, stats, tasks, worker, cooldown, faults,
                  denied, lockTries, sent, doubled>>
  BY DEF vars
<1>2. QueueType' /\ WorkerType' /\ sent' \in [Senders -> Nat] /\ Cooling'
  BY <1>1, CoolingKept DEF IInv, QueueType, WorkerType, HistoryType
<1> QED
  BY <1>1, <1>2, WorkerStep

LEMMA StepPreserves == ASSUME IInv, [Next]_vars PROVE IInv'
<1>1. CASE UNCHANGED vars
  BY <1>1, StutterKeeps
<1>2. ASSUME NEW c \in Connections,
             Connect(c) \/ Acquire(c) \/ Arrive(c) \/ Handle(c) \/ Write(c) \/ Close(c)
      PROVE  IInv'
  <2>1. CASE Connect(c)
    BY <2>1, ConnectStep
  <2>2. CASE Acquire(c)
    BY <2>2, AcquireStep
  <2>3. CASE Arrive(c)
    BY <2>3, ReceiveStep DEF Arrive
  <2>4. CASE Handle(c)
    <3>1. CASE Deliverability(c)
      BY <3>1, DeliverabilityStep
    <3>2. CASE Match(c)
      BY <3>2, MatchStep
    <3>3. CASE Adapt(c)
      BY <3>3, AdaptStep
    <3>4. CASE Check(c)
      BY <3>4, CheckStep
    <3>5. CASE PushLock(c)
      BY <3>5, PushLockStep
    <3>6. CASE LockNow(c)
      BY <3>6, LockNowStep
    <3>7. CASE PushNotify(c)
      BY <3>7, PushNotifyStep
    <3> QED
      BY <2>4, <3>1, <3>2, <3>3, <3>4, <3>5, <3>6, <3>7 DEF Handle
  <2>5. CASE Write(c)
    BY <2>5, WriteStep
  <2>6. CASE Close(c)
    BY <2>6, CloseStep
  <2> QED
    BY <1>2, <2>1, <2>2, <2>3, <2>4, <2>5, <2>6
<1>3. ASSUME NEW w \in Workers, Notify(w) PROVE IInv'
  BY <1>3, TakeStep, ExistsNotifyStep, SetNotifyStep, SendStep DEF Notify
<1>4. ASSUME NEW s \in Senders, ExpireNotify(s) PROVE IInv'
  BY <1>4, ExpireNotifyStep
<1> QED
  BY <1>1, <1>2, <1>3, <1>4 DEF Next

(* The invariant holds in every state a process can get into.              *)
THEOREM IInvInductive == Spec => []IInv
<1>1. Init => IInv
  BY InitEstablishes
<1>2. IInv /\ [Next]_vars => IInv'
  BY StepPreserves
<1> QED
  BY <1>1, <1>2, PTL DEF Spec

(* Every variable stays in its type, whatever the clients do and fails.    *)
THEOREM TypeCorrect == Spec => []TypeOK
BY IInvInductive, IInvImplies, PTL

(* The counters of the statistics add up (RuntimeStats, stats.py).         *)
THEOREM AccountedAlways == Spec => []Accounted
BY IInvInductive, IInvImplies, PTL

(* No denial of a local sender goes without a lock event or a lock job     *)
(* (_enqueue_background_event and its fallback, handler.py 549-558).       *)
THEOREM NoDenialForgottenAlways == Spec => []NoDenialForgotten
BY IInvInductive, IInvImplies, PTL

(* In one cooldown no more notifications leave than there are workers      *)
(* (_safe_notify, handler.py 374-385).                                     *)
THEOREM OnePerWorkerAlways == Spec => []OnePerWorker
BY IInvInductive, IInvImplies, PTL
-----------------------------------------------------------------------------
(* Permits, and who waits for one.                                         *)

(* Every connection past the semaphore has one permit, and gives it back on*)
(* every way out (the finally clause of server.py:60-85); the counter of   *)
(* active connections is exact.                                            *)
PermitsKept ==
    /\ permits + Cardinality({c \in Connections : conn[c].pc \notin {"closed", "waiting"}})
         = Capacity
    /\ stats.active = Cardinality({c \in Connections : conn[c].pc # "closed"})

(* A connection that waits stands in the line of the semaphore, and as long*)
(* as no permit is free somebody is being served, whose next read, write or*)
(* command ends at its timeout (server.py:26-58).                          *)
WaitingServable ==
    \A c \in Connections : conn[c].pc = "waiting" =>
        /\ \E i \in 1 .. Len(line) : line[i] = c
        /\ permits > 0 \/ \E d \in Connections : conn[d].pc \notin {"closed", "waiting"}

InLine == \A c \in Connections : conn[c].pc = "waiting" => \E i \in 1 .. Len(line) : line[i] = c

LEMMA IInvImpliesPermits == IInv => PermitsKept
<1> SUFFICES ASSUME IInv PROVE PermitsKept
  OBVIOUS
<1>1. /\ {c \in Connections : conn[c].pc \notin {"closed", "waiting"}}
           = {c \in Connections : conn[c] \in Holding}
      /\ {c \in Connections : conn[c].pc # "closed"} = {c \in Connections : conn[c] \in Opened}
  BY DEF IInv, ConnType, Holding, Opened
<1> QED
  BY <1>1 DEF IInv, PermitType, StatsType, Number, PermitsKept

(* Only Connect makes a connection wait.                                   *)
LEMMA OthersDoNotWait ==
  ASSUME IInv, NEW c \in Connections, Arrive(c) \/ Handle(c) \/ Write(c) \/ Close(c),
         NEW d \in Connections, conn'[d].pc = "waiting"
  PROVE  conn[d].pc = "waiting" /\ line' = line
<1> USE DEF IInv
<1>1. line' = line
  BY DEF Arrive, Receive, Handle, Deliverability, Match, Adapt, Check, PushLock, LockNow,
         PushNotify, Write, Close
<1>2. \/ \E x : conn' = [conn EXCEPT ![c] = x] /\ x.pc # "waiting"
      \/ \E step \in Steps : Goto(c, step) /\ conn[c].pc \in Steps
  <2>1. CASE Arrive(c)
    <3>1. PICK x : x \in ConnStates /\ x.pc # "waiting" /\ conn' = [conn EXCEPT ![c] = x]
      <4>1. PICK t \in Senders : Receive(c, t)
        BY <2>1 DEF Arrive
      <4>2. PICK x, y, z : /\ x = [pc |-> "writing", answer |-> "dunno"]
                          /\ y = [pc |-> "writing", answer |-> "reject"]
                          /\ z = [pc |-> "dns", sender |-> t]
        OBVIOUS
      <4>3. /\ x \in ConnStates /\ y \in ConnStates /\ z \in ConnStates
            /\ x.pc # "waiting" /\ y.pc # "waiting" /\ z.pc # "waiting"
        BY <4>2 DEF ConnStates, Answers, Steps
      <4>4. \E u \in {x, y, z} : conn' = [conn EXCEPT ![c] = u]
        BY <4>1, <4>2 DEF Receive, Suspect, AnswerWith
      <4> QED
        BY <4>3, <4>4
    <3> QED
      BY <3>1
  <2>2. ASSUME NEW a, AnswerWith(c, a)
        PROVE  \E x : conn' = [conn EXCEPT ![c] = x] /\ x.pc # "waiting"
    <3>1. PICK x : x = [pc |-> "writing", answer |-> a]
      OBVIOUS
    <3>2. conn' = [conn EXCEPT ![c] = x] /\ x.pc # "waiting"
      BY <2>2, <3>1 DEF AnswerWith
    <3> QED
      BY <3>2
  <2>3. CASE Handle(c)
    <3>1. \/ \E a : AnswerWith(c, a)
          \/ \E step \in Steps : Goto(c, step) /\ conn[c].pc \in Steps
      BY <2>3 DEF Handle, Deliverability, Match, Adapt, Check, PushLock, LockNow, PushNotify,
                  Suspect, Failed, Steps
    <3> QED
      BY <2>2, <3>1
  <2>4. CASE Write(c) \/ Close(c)
    BY <2>4 DEF Write, Close
  <2> QED
    BY <2>1, <2>3, <2>4
<1>3. CASE \E x : conn' = [conn EXCEPT ![c] = x] /\ x.pc # "waiting"
  BY <1>1, <1>3 DEF ConnType
<1>4. CASE \E step \in Steps : Goto(c, step) /\ conn[c].pc \in Steps
  <2>1. PICK step \in Steps : Goto(c, step) /\ conn[c].pc \in Steps
    BY <1>4
  <2>2. PICK new : new = [conn[c] EXCEPT !.pc = step]
    OBVIOUS
  <2>3. new.pc = step /\ conn' = [conn EXCEPT ![c] = new]
    BY <2>1, <2>2, GotoState DEF Goto, ConnType
  <2> QED
    BY <1>1, <2>1, <2>3 DEF ConnType, Steps
<1> QED
  BY <1>2, <1>3, <1>4

LEMMA InLineKept == IInv /\ InLine /\ [Next]_vars => InLine'
<1> SUFFICES ASSUME IInv, InLine, [Next]_vars, NEW d \in Connections, conn'[d].pc = "waiting"
             PROVE  \E i \in 1 .. Len(line') : line'[i] = d
  BY DEF InLine
<1> USE DEF IInv
<1>1. ASSUME NEW c \in Connections, Connect(c)
      PROVE  \E i \in 1 .. Len(line') : line'[i] = d
  <2>1. line' = Append(line, c) /\ line \in Seq(Connections)
    BY <1>1 DEF Connect, LineType
  <2>2. CASE d = c
    BY <2>1, <2>2
  <2>3. CASE d # c
    <3>1. conn'[d] = conn[d]
      BY <1>1, <2>3 DEF Connect, Goto, ConnType
    <3>2. PICK i \in 1 .. Len(line) : line[i] = d
      BY <3>1 DEF InLine
    <3> QED
      BY <2>1, <3>2
  <2> QED
    BY <2>2, <2>3
<1>2. ASSUME NEW c \in Connections, Acquire(c)
      PROVE  \E i \in 1 .. Len(line') : line'[i] = d
  <2>1. line' = Tail(line) /\ line \in Seq(Connections) /\ line # << >> /\ line[1] = c
    BY <1>2 DEF Acquire, LineType
  <2>2. conn[c] \in [pc : {"waiting"}]
    BY <1>2 DEF Acquire, ConnType, ConnStates, Steps, LineType
  <2>3. d # c /\ conn'[d] = conn[d]
    BY <1>2, <2>2 DEF Acquire, Goto, ConnType
  <2>4. PICK i \in 1 .. Len(line) : line[i] = d
    BY <2>3 DEF InLine
  <2>5. i # 1 /\ i - 1 \in 1 .. Len(line') /\ line'[i - 1] = d
    BY <2>1, <2>3, <2>4
  <2> QED
    BY <2>5
<1>3. ASSUME NEW c \in Connections, Arrive(c) \/ Handle(c) \/ Write(c) \/ Close(c)
      PROVE  \E i \in 1 .. Len(line') : line'[i] = d
  BY <1>3, OthersDoNotWait DEF InLine
<1>4. CASE \/ \E w \in Workers : Notify(w)
           \/ \E s \in Senders : ExpireNotify(s)
           \/ UNCHANGED vars
  <2>1. conn' = conn /\ line' = line
    BY <1>4 DEF Notify, Take, ExistsNotify, SetNotify, Send, ExpireNotify, vars
  <2> QED
    BY <2>1 DEF InLine
<1> QED
  BY <1>1, <1>2, <1>3, <1>4 DEF Next

(* No permit is lost or given back twice, for any connections, capacity and*)
(* faults.                                                                 *)
THEOREM PermitsKeptAlways == Spec => []PermitsKept
BY IInvInductive, IInvImpliesPermits, PTL

(* No connection waits while nobody is served.                             *)
THEOREM WaitingServableAlways == Spec => []WaitingServable
<1>1. Init => InLine
  BY DEF Init, InLine
<1>2. IInv /\ InLine => WaitingServable
  <2> SUFFICES ASSUME IInv, InLine, permits <= 0
               PROVE  \E d \in Connections : conn[d].pc \notin {"closed", "waiting"}
    BY DEF IInv, WaitingServable, InLine, PermitType
  <2>1. {d \in Connections : conn[d].pc \notin {"closed", "waiting"}} # {}
    <3>1. permits = 0 /\ Capacity > 0
      BY PipelineAssumption DEF IInv, PermitType
    <3>2. Cardinality({d \in Connections : conn[d].pc \notin {"closed", "waiting"}}) # 0
      BY <3>1, IInvImpliesPermits, PipelineAssumption DEF PermitsKept
    <3> QED
      BY <3>2, FS_EmptySet
  <2> QED
    BY <2>1
<1> QED
  BY <1>1, <1>2, InLineKept, IInvInductive, PTL DEF Spec
-----------------------------------------------------------------------------
(* The cooldown.                                                           *)

(* While no command fails, a sender in the cooldown was notified, or a     *)
(* worker is on its way to the channels: the key set by _safe_notify       *)
(* (handler.py:382) silences nobody who has heard nothing.                 *)
MutedIsNotified ==
    \A s \in cooldown :
        \/ sent[s] > 0 \/ faults > 0
        \/ \E w \in Workers : worker[w].pc = "send" /\ worker[w].sender = s

LEMMA MutedKept == IInv /\ MutedIsNotified /\ [Next]_vars => MutedIsNotified'
<1> SUFFICES ASSUME IInv, MutedIsNotified, [Next]_vars, NEW s \in cooldown', ~(faults' > 0)
             PROVE  \/ sent'[s] > 0
                    \/ \E w \in Workers : worker'[w].pc = "send" /\ worker'[w].sender = s
  BY DEF MutedIsNotified
<1> USE DEF IInv
<1>1. /\ faults \in Nat /\ sent \in [Senders -> Nat]
      /\ cooldown \subseteq Senders
  BY DEF QueueType, HistoryType
<1>2. \A o \in Outcomes : Charge(o) => o = "ok" /\ faults' = faults
  BY <1>1 DEF Charge, Outcomes
<1>3. ASSUME sent' = sent, worker' = worker, cooldown' = cooldown,
             faults' = faults \/ \E o \in Outcomes : Charge(o)
      PROVE  \/ sent'[s] > 0
             \/ \E w \in Workers : worker'[w].pc = "send" /\ worker'[w].sender = s
  BY <1>2, <1>3 DEF MutedIsNotified
<1>4. ASSUME NEW c \in Connections,
             Connect(c) \/ Acquire(c) \/ Arrive(c) \/ Handle(c) \/ Write(c) \/ Close(c)
      PROVE  \/ sent'[s] > 0
             \/ \E w \in Workers : worker'[w].pc = "send" /\ worker'[w].sender = s
  <2>1. sent' = sent /\ worker' = worker /\ cooldown' = cooldown
    BY <1>4 DEF Connect, Acquire, Arrive, Receive, Handle, Deliverability, Match, Adapt, Check,
                PushLock, LockNow, PushNotify, Write, Close, redisVars, historyVars
  <2>2. faults' = faults \/ \E o \in Outcomes : Charge(o)
    BY <1>4 DEF Connect, Acquire, Arrive, Receive, Handle, Deliverability, Match, Adapt, Check,
                PushLock, LockNow, PushNotify, Write, Close, Failed
  <2> QED
    BY <1>3, <2>1, <2>2
<1>5. CASE UNCHANGED vars
  BY <1>3, <1>5 DEF vars, redisVars, historyVars
<1>6. ASSUME NEW w \in Workers, Notify(w)
      PROVE  \/ sent'[s] > 0
             \/ \E v \in Workers : worker'[v].pc = "send" /\ worker'[v].sender = s
  <2>1. CASE Take(w)
    BY <1>1, <1>2, <2>1 DEF Take, MutedIsNotified, WorkerType, historyVars, Idle
  <2>2. CASE ExistsNotify(w)
    <3>1. PICK o \in Outcomes :
            /\ Charge(o)
            /\ worker' = IF Raises(o) \/ worker[w].sender \in cooldown
                           THEN [worker EXCEPT ![w] = Idle]
                           ELSE [worker EXCEPT ![w].pc = "set"]
      BY <2>2 DEF ExistsNotify
    <3>2. \A v \in Workers : v # w => worker'[v] = worker[v]
      BY <3>1 DEF WorkerType
    <3>3. worker[w].pc = "exists" /\ sent' = sent /\ cooldown' = cooldown /\ faults' = faults
      BY <1>2, <2>2, <3>1 DEF ExistsNotify, redisVars, historyVars
    <3> QED
      BY <3>2, <3>3 DEF MutedIsNotified
  <2>3. CASE SetNotify(w)
    <3>1. PICK o \in Outcomes :
            /\ Charge(o)
            /\ cooldown' = IF o = "lost" THEN cooldown ELSE cooldown \cup {worker[w].sender}
            /\ worker' = IF Raises(o) THEN [worker EXCEPT ![w] = Idle]
                                      ELSE [worker EXCEPT ![w].pc = "send"]
      BY <2>3 DEF SetNotify
    <3>2. /\ o = "ok" /\ faults' = faults /\ sent' = sent
          /\ cooldown' = cooldown \cup {worker[w].sender}
          /\ worker' = [worker EXCEPT ![w].pc = "send"]
      BY <1>2, <2>3, <3>1 DEF SetNotify, Raises, historyVars
    <3>3. PICK new : new = [worker[w] EXCEPT !.pc = "send"]
      OBVIOUS
    <3>4. new.pc = "send" /\ new.sender = worker[w].sender
      BY <2>3, <3>3, NotifyState DEF SetNotify
    <3>5. /\ worker'[w] = new /\ \A v \in Workers : v # w => worker'[v] = worker[v]
          /\ worker[w].pc = "set"
      BY <2>3, <3>2, <3>3 DEF WorkerType, SetNotify
    <3> QED
      BY <3>2, <3>4, <3>5 DEF MutedIsNotified
  <2>4. CASE Send(w)
    <3>1. /\ worker[w].pc = "send" /\ worker[w].sender \in Senders
      BY <2>4, NotifyState DEF Send
    <3>2. /\ sent' = [sent EXCEPT ![worker[w].sender] = sent[worker[w].sender] + 1]
          /\ cooldown' = cooldown /\ faults' = faults
          /\ \A v \in Workers : v # w => worker'[v] = worker[v]
      BY <2>4 DEF Send, redisVars, WorkerType
    <3>3. CASE s = worker[w].sender
      BY <1>1, <3>1, <3>2, <3>3
    <3>4. CASE s # worker[w].sender
      BY <1>1, <3>1, <3>2, <3>4 DEF MutedIsNotified
    <3> QED
      BY <3>3, <3>4
  <2> QED
    BY <1>6, <2>1, <2>2, <2>3, <2>4 DEF Notify
<1>7. ASSUME NEW t \in Senders, ExpireNotify(t)
      PROVE  \/ sent'[s] > 0
             \/ \E v \in Workers : worker'[v].pc = "send" /\ worker'[v].sender = s
  BY <1>1, <1>7 DEF ExpireNotify, MutedIsNotified
<1> QED
  BY <1>4, <1>5, <1>6, <1>7 DEF Next

(* A cooldown without a notification needs a command that fails.           *)
THEOREM MutedIsNotifiedAlways == Spec => []MutedIsNotified
<1>1. Init => MutedIsNotified
  BY DEF Init, MutedIsNotified
<1> QED
  BY <1>1, MutedKept, IInvInductive, PTL DEF Spec
=============================================================================
