------------------------- MODULE ActionManagerProofs -------------------------
(***************************************************************************)
(* What ActionManager guarantees for any accounts, workers, calls of       *)
(* close, queue size, fallbacks and number of actions: its types, that it  *)
(* implements ActionExecutor, that the last action on an account wins, and *)
(* that neither an accepted action nor a call of close waits for what does *)
(* not come.  All follows from ManagerAssumption; the last, which fails    *)
(* with too many calls of close, says for how many it holds.               *)
(***************************************************************************)
EXTENDS ActionManager, FiniteSetTheorems, TLAPS

(* The parts of TypeOK.                                                    *)
QueueType == queue \in Seq(0 .. MaxActions) /\ Len(queue) <= QueueSize
AcceptedType == accepted \in Seq(Actions) /\ Len(accepted) <= MaxActions
WorkerType == worker \in [Workers -> {Waiting, Gone} \cup Busy]
CloserType ==
    closer \in [Closers -> [pc : {"not called", "join", "stop", "returned"},
                            left : 0 .. Cardinality(Workers)]]
OutcomeType == outcome \in [1 .. MaxActions -> {"none", "ok", "failed"}]
CountType == unfinished \in Nat /\ closing \in BOOLEAN
AccountType ==
    /\ account \in [Emails -> {"lock", "unlock"}]
    /\ lingering \subseteq 1 .. MaxActions
    /\ disordered \subseteq Emails
Types == /\ QueueType /\ AcceptedType /\ WorkerType /\ CloserType
         /\ OutcomeType /\ CountType /\ AccountType

Positions == 1 .. Len(queue)
BusyWorkers == {w \in Workers : worker[w].pc = "busy"}
Known == 1 .. Len(accepted)

(* queue.join() counts what is in the queue and in the workers' hands.     *)
Counted == unfinished = Len(queue) + Cardinality(BusyWorkers)

(* An action that has not ended is in one place, the queue or the hands of *)
(* one worker, and what is in such a place has not ended.                  *)
Queued == \A i \in Positions : queue[i] # Stop =>
    /\ queue[i] \in Known /\ outcome[queue[i]] = "none"
    /\ \A j \in Positions : queue[j] = queue[i] => j = i
InHand == \A w \in BusyWorkers :
    /\ worker[w].action \in Known /\ outcome[worker[w].action] = "none"
    /\ \A i \in Positions : queue[i] # worker[w].action
    /\ \A v \in BusyWorkers : worker[v].action = worker[w].action => v = w
Kept == \A n \in Known : outcome[n] = "none" =>
    \/ \E i \in Positions : queue[i] = n
    \/ \E w \in BusyWorkers : worker[w].action = n

(* Nothing is said of an action that nobody has accepted yet.              *)
Fresh ==
    /\ \A n \in 1 .. MaxActions : n \notin Known => outcome[n] = "none"
    /\ lingering \subseteq Known

(* A call of close that is past join() finds every accepted action over.   *)
Drained == \A c \in Closers :
    /\ closer[c].pc # "not called" => closing
    /\ closer[c].pc \in {"stop", "returned"} =>
         \A n \in Known : outcome[n] # "none"

(* The inductive invariant.                                                *)
IInv == Types /\ Counted /\ Queued /\ InHand /\ Kept /\ Fresh /\ Drained

LEMMA TypeParts == Types <=> TypeOK
  BY DEF Types, TypeOK, QueueType, AcceptedType, WorkerType, CloserType,
         OutcomeType, CountType, AccountType

LEMMA WorkersFinite ==
  /\ Cardinality(Workers) \in Nat
  /\ IsFiniteSet(BusyWorkers) /\ Cardinality(BusyWorkers) \in Nat
  /\ Cardinality(BusyWorkers) <= Cardinality(Workers)
<1>1. BusyWorkers \in SUBSET Workers
  BY DEF BusyWorkers
<1> QED
  BY <1>1, ManagerAssumption, FS_Subset, FS_CardinalityType

(* What the steps do to a queue.                                           *)
LEMMA AppendFacts ==
  ASSUME NEW S, NEW s \in Seq(S), NEW x \in S
  PROVE  /\ Append(s, x) \in Seq(S)
         /\ Len(Append(s, x)) = Len(s) + 1
         /\ Append(s, x)[Len(s) + 1] = x
         /\ \A i \in 1 .. Len(s) : Append(s, x)[i] = s[i]
OBVIOUS

LEMMA TailFacts ==
  ASSUME NEW S, NEW s \in Seq(S), s # << >>
  PROVE  /\ Tail(s) \in Seq(S) /\ Len(s) \in Nat \ {0}
         /\ Len(Tail(s)) = Len(s) - 1
         /\ Head(s) = s[1] /\ s[1] \in S
         /\ \A i \in 1 .. Len(s) - 1 : Tail(s)[i] = s[i + 1]
OBVIOUS

LEMMA InitIInv == Init => IInv
<1> SUFFICES ASSUME Init PROVE IInv
  OBVIOUS
<1>1. queue = << >> /\ accepted = << >>
  BY DEF Init
<1>2. /\ QueueType /\ AcceptedType /\ Len(queue) = 0 /\ Len(accepted) = 0
      /\ Positions = {} /\ Known = {}
  BY <1>1, ManagerAssumption DEF QueueType, AcceptedType, Positions, Known
<1>3. worker = [w \in Workers |-> Waiting]
  BY DEF Init
<1>4. WorkerType /\ BusyWorkers = {}
  BY <1>3 DEF WorkerType, BusyWorkers, Waiting
<1>5. CloserType /\ Drained
  <2>1. closer = [c \in Closers |-> [pc |-> "not called", left |-> 0]]
    BY DEF Init
  <2>2. 0 \in 0 .. Cardinality(Workers)
    BY WorkersFinite
  <2>3. CloserType
    BY <2>1, <2>2 DEF CloserType
  <2>4. \A c \in Closers : closer[c].pc = "not called"
    BY <2>1
  <2> QED
    BY <2>3, <2>4 DEF Drained
<1>6. OutcomeType /\ CountType /\ AccountType
  BY DEF Init, OutcomeType, CountType, AccountType
<1>7. Counted
  <2>1. unfinished = 0
    BY DEF Init
  <2> QED
    BY <2>1, <1>2, <1>4, FS_EmptySet DEF Counted
<1>8. Queued /\ InHand /\ Kept
  BY <1>2, <1>4 DEF Queued, InHand, Kept
<1>9. Fresh
  BY <1>2 DEF Init, Fresh
<1> QED
  BY <1>2, <1>4, <1>5, <1>6, <1>7, <1>8, <1>9 DEF IInv, Types
-----------------------------------------------------------------------------
(* One lemma for each action.                                              *)
LEMMA SubmitKeeps ==
  ASSUME IInv, NEW a \in Actions, Submit(a)
  PROVE  IInv'
<1>1. Types /\ Counted /\ Queued /\ InHand /\ Kept /\ Fresh /\ Drained
  BY DEF IInv
<1>2. /\ Len(queue) < QueueSize /\ Len(accepted) < MaxActions
      /\ accepted' = Append(accepted, a) /\ queue' = Append(queue, Len(accepted'))
  BY DEF Submit, Enqueue
<1>3. ~closing /\ unfinished' = unfinished + 1
  BY DEF Submit, Enqueue
<1>4. UNCHANGED <<closing, worker, closer, account, outcome, lingering, disordered>>
  BY DEF Submit, Enqueue
<1>5. /\ queue \in Seq(0 .. MaxActions) /\ accepted \in Seq(Actions)
      /\ Len(queue) \in Nat /\ Len(accepted) \in Nat
  BY <1>1 DEF Types, QueueType, AcceptedType
<1> PICK k \in 1 .. MaxActions : k = Len(accepted) + 1
  BY <1>2, <1>5, ManagerAssumption
<1>6. /\ accepted' \in Seq(Actions) /\ Len(accepted') = k
      /\ \A n \in Known : accepted'[n] = accepted[n]
  BY <1>2, <1>5, AppendFacts DEF Known
<1>7. /\ queue' \in Seq(0 .. MaxActions)
      /\ Len(queue') = Len(queue) + 1 /\ queue'[Len(queue) + 1] = k
      /\ \A i \in Positions : queue'[i] = queue[i]
  <2>1. k \in 0 .. MaxActions /\ queue' = Append(queue, k)
    BY <1>2, <1>6
  <2> QED
    BY <2>1, <1>5, AppendFacts DEF Positions
<1>8. /\ Known' = Known \cup {k} /\ k \notin Known
      /\ Positions' = Positions \cup {Len(queue) + 1}
  BY <1>5, <1>6, <1>7 DEF Known, Positions
<1>9. BusyWorkers' = BusyWorkers
  BY <1>4 DEF BusyWorkers
<1>10. Types'
  <2>1. QueueType' /\ AcceptedType'
    BY <1>2, <1>5, <1>6, <1>7, ManagerAssumption DEF QueueType, AcceptedType
  <2>2. WorkerType' /\ CloserType' /\ OutcomeType' /\ AccountType'
    BY <1>1, <1>4 DEF Types, WorkerType, CloserType, OutcomeType, AccountType
  <2>3. CountType'
    BY <1>1, <1>3, <1>4 DEF Types, CountType
  <2> QED
    BY <2>1, <2>2, <2>3 DEF Types
<1>11. Counted'
  BY <1>1, <1>3, <1>5, <1>7, <1>9, WorkersFinite DEF Counted
<1>12. outcome[k] = "none"
  BY <1>1, <1>8 DEF Fresh
<1>13. \A i \in Positions : queue[i] # k /\ i # Len(queue) + 1
  BY <1>1, <1>5, <1>8 DEF Queued, Positions, Stop
<1>14. Queued'
  BY <1>1, <1>4, <1>7, <1>8, <1>12, <1>13 DEF Queued
<1>15. InHand'
  BY <1>1, <1>4, <1>7, <1>8, <1>9, <1>13 DEF InHand
<1>16. Kept'
  BY <1>1, <1>4, <1>7, <1>8, <1>9, <1>13 DEF Kept
<1>17. Fresh'
  BY <1>1, <1>4, <1>8 DEF Fresh
<1>18. Drained'
  BY <1>1, <1>3, <1>4 DEF Drained
<1> QED
  BY <1>10, <1>11, <1>14, <1>15, <1>16, <1>17, <1>18 DEF IInv

(* What Take and Quit do to the queue.                                     *)
LEMMA Shifted ==
  ASSUME QueueType, queue # << >>, queue' = Tail(queue)
  PROVE  /\ QueueType' /\ Len(queue) \in Nat \ {0}
         /\ Len(queue') = Len(queue) - 1
         /\ Head(queue) = queue[1] /\ queue[1] \in 0 .. MaxActions
         /\ 1 \in Positions
         /\ \A i \in Positions' : queue'[i] = queue[i + 1] /\ i + 1 \in Positions
         /\ \A i \in Positions : i # 1 => i - 1 \in Positions' /\ queue'[i - 1] = queue[i]
<1>1. queue \in Seq(0 .. MaxActions) /\ Len(queue) <= QueueSize
  BY DEF QueueType
<1>2. /\ queue' \in Seq(0 .. MaxActions) /\ Len(queue) \in Nat \ {0}
      /\ Len(queue') = Len(queue) - 1
      /\ Head(queue) = queue[1] /\ queue[1] \in 0 .. MaxActions
      /\ \A i \in 1 .. Len(queue) - 1 : queue'[i] = queue[i + 1]
  BY <1>1, TailFacts
<1>3. \A i \in Positions : i # 1 => i - 1 \in Positions' /\ i - 1 \in 1 .. Len(queue) - 1
                                  /\ (i - 1) + 1 = i
  BY <1>2 DEF Positions
<1>4. QueueType'
  BY <1>1, <1>2, ManagerAssumption DEF QueueType
<1> QED
  BY <1>2, <1>3, <1>4 DEF Positions

LEMMA TakeKeeps ==
  ASSUME IInv, NEW w \in Workers, Take(w)
  PROVE  IInv'
<1>1. Types /\ Counted /\ Queued /\ InHand /\ Kept /\ Fresh /\ Drained
  BY DEF IInv
<1> PICK k : k = Head(queue)
  OBVIOUS
<1>2. queue # << >> /\ k # Stop /\ queue' = Tail(queue)
  BY DEF Take, Assign
<1>3. /\ worker[w] = Waiting
      /\ worker' = [worker EXCEPT ![w] = [pc |-> "busy", action |-> k, provider |-> 0]]
  BY DEF Take, Assign
<1>4. UNCHANGED <<unfinished, closing, closer, account, accepted, outcome, lingering>>
  BY DEF Take, Assign
<1>5. disordered' \subseteq disordered \cup {accepted[k].email}
  BY DEF Take, Assign
<1>6. /\ QueueType' /\ Len(queue) \in Nat \ {0}
      /\ Len(queue') = Len(queue) - 1 /\ k = queue[1] /\ 1 \in Positions
      /\ \A i \in Positions' : queue'[i] = queue[i + 1] /\ i + 1 \in Positions
      /\ \A i \in Positions : i # 1 => i - 1 \in Positions' /\ queue'[i - 1] = queue[i]
  BY <1>1, <1>2, Shifted DEF Types
<1>7. k \in Known /\ outcome[k] = "none"
  BY <1>1, <1>2, <1>6 DEF Queued
<1>8. k \in 1 .. MaxActions /\ Known' = Known
  <2>1. Len(accepted) \in Nat /\ Len(accepted) <= MaxActions
    BY <1>1 DEF Types, AcceptedType
  <2> QED
    BY <2>1, <1>4, <1>7, ManagerAssumption DEF Known
<1>9. /\ w \notin BusyWorkers /\ BusyWorkers' = BusyWorkers \cup {w}
      /\ worker'[w].action = k
      /\ \A v \in BusyWorkers : worker'[v] = worker[v]
  BY <1>1, <1>3 DEF BusyWorkers, Types, WorkerType, Waiting
<1>10. Types'
  <2>1. WorkerType'
    <3>1. [pc |-> "busy", action |-> k, provider |-> 0] \in Busy
      BY <1>8, ManagerAssumption DEF Busy, Providers
    <3> QED
      BY <1>1, <1>3, <3>1 DEF Types, WorkerType
  <2>2. AccountType'
    <3>1. accepted[k] \in Actions
      BY <1>1, <1>7 DEF Types, AcceptedType, Known
    <3>2. accepted[k].email \in Emails
      BY <3>1 DEF Actions
    <3> QED
      BY <3>2, <1>1, <1>4, <1>5 DEF Types, AccountType
  <2>3. AcceptedType' /\ CloserType' /\ OutcomeType' /\ CountType'
    BY <1>1, <1>4 DEF Types, AcceptedType, CloserType, OutcomeType, CountType
  <2> QED
    BY <1>6, <2>1, <2>2, <2>3 DEF Types
<1>11. Counted'
  <2>1. Cardinality(BusyWorkers') = Cardinality(BusyWorkers) + 1
    BY <1>9, WorkersFinite, FS_AddElement
  <2> QED
    BY <2>1, <1>1, <1>4, <1>6, WorkersFinite DEF Counted
<1>12. \A i \in Positions' : queue'[i] # k
  <2> SUFFICES ASSUME NEW i \in Positions' PROVE queue'[i] # k
    OBVIOUS
  <2>1. i + 1 \in Positions /\ queue'[i] = queue[i + 1] /\ i + 1 # 1
    BY <1>6 DEF Positions
  <2> QED
    BY <2>1, <1>1, <1>2, <1>6 DEF Queued
<1>13. Queued'
  <2> SUFFICES ASSUME NEW i \in Positions', queue'[i] # Stop
               PROVE  /\ queue'[i] \in Known /\ outcome[queue'[i]] = "none"
                      /\ \A j \in Positions' : queue'[j] = queue'[i] => j = i
    BY <1>4, <1>8 DEF Queued
  <2>1. i \in Int /\ \A j \in Positions' : j \in Int
    BY DEF Positions
  <2> QED
    BY <2>1, <1>1, <1>6 DEF Queued
<1>14. InHand'
  BY <1>1, <1>4, <1>6, <1>7, <1>8, <1>9, <1>12 DEF InHand
<1>15. Kept'
  BY <1>1, <1>4, <1>6, <1>8, <1>9 DEF Kept
<1>16. Fresh'
  BY <1>1, <1>4, <1>8 DEF Fresh
<1>17. Drained'
  BY <1>1, <1>4, <1>8 DEF Drained
<1> QED
  BY <1>10, <1>11, <1>13, <1>14, <1>15, <1>16, <1>17 DEF IInv

LEMMA QuitKeeps ==
  ASSUME IInv, NEW w \in Workers, Quit(w)
  PROVE  IInv'
<1>1. Types /\ Counted /\ Queued /\ InHand /\ Kept /\ Fresh /\ Drained
  BY DEF IInv
<1>2. queue # << >> /\ Head(queue) = Stop /\ queue' = Tail(queue)
  BY DEF Quit
<1>3. worker[w] = Waiting /\ worker' = [worker EXCEPT ![w] = Gone]
  BY DEF Quit
<1>4. /\ unfinished' = unfinished - 1
      /\ UNCHANGED <<closing, closer, account, accepted, outcome, lingering, disordered>>
  BY DEF Quit
<1>5. /\ QueueType' /\ Len(queue) \in Nat \ {0}
      /\ Len(queue') = Len(queue) - 1 /\ queue[1] = Stop
      /\ \A i \in Positions' : queue'[i] = queue[i + 1] /\ i + 1 \in Positions
      /\ \A i \in Positions : i # 1 => i - 1 \in Positions' /\ queue'[i - 1] = queue[i]
  BY <1>1, <1>2, Shifted DEF Types
<1>6. BusyWorkers' = BusyWorkers /\ \A v \in BusyWorkers : worker'[v] = worker[v]
  BY <1>1, <1>3 DEF BusyWorkers, Types, WorkerType, Waiting, Gone
<1>7. Known' = Known
  BY <1>4 DEF Known
<1>8. Counted' /\ unfinished' \in Nat
  BY <1>1, <1>4, <1>5, <1>6, WorkersFinite DEF Counted
<1>9. Types'
  <2>1. WorkerType'
    BY <1>1, <1>3 DEF Types, WorkerType
  <2>2. AcceptedType' /\ CloserType' /\ OutcomeType' /\ AccountType' /\ CountType'
    BY <1>1, <1>4, <1>8 DEF Types, AcceptedType, CloserType, OutcomeType, AccountType, CountType
  <2> QED
    BY <1>5, <2>1, <2>2 DEF Types
<1>10. Queued'
  <2> SUFFICES ASSUME NEW i \in Positions', queue'[i] # Stop
               PROVE  /\ queue'[i] \in Known /\ outcome[queue'[i]] = "none"
                      /\ \A j \in Positions' : queue'[j] = queue'[i] => j = i
    BY <1>4, <1>7 DEF Queued
  <2>1. i \in Int /\ \A j \in Positions' : j \in Int
    BY DEF Positions
  <2> QED
    BY <2>1, <1>1, <1>5 DEF Queued
<1>11. InHand'
  BY <1>1, <1>4, <1>5, <1>6, <1>7 DEF InHand
<1>12. Kept'
  <2>1. \A n \in Known : queue[1] # n
    BY <1>5 DEF Known, Stop
  <2> QED
    BY <2>1, <1>1, <1>4, <1>5, <1>6, <1>7 DEF Kept
<1>13. Fresh'
  BY <1>1, <1>4, <1>7 DEF Fresh
<1>14. Drained'
  BY <1>1, <1>4, <1>7 DEF Drained
<1> QED
  BY <1>8, <1>9, <1>10, <1>11, <1>12, <1>13, <1>14 DEF IInv

LEMMA CarriedOutType ==
  ASSUME AccountType, AcceptedType, NEW n \in Known
  PROVE  CarriedOut(n) \in [Emails -> {"lock", "unlock"}] /\ accepted[n].email \in Emails
<1>1. accepted[n] \in Actions
  BY DEF AcceptedType, Known
<1> QED
  BY <1>1 DEF Actions, CarriedOut, AccountType

LEMMA AttemptKeeps ==
  ASSUME IInv, NEW w \in Workers, Attempt(w)
  PROVE  IInv'
<1>1. Types /\ Counted /\ Queued /\ InHand /\ Kept /\ Fresh /\ Drained
  BY DEF IInv
<1> PICK n : n = worker[w].action
  OBVIOUS
<1>2. worker[w].pc = "busy" /\ w \in BusyWorkers
  BY DEF Attempt, BusyWorkers
<1>3. UNCHANGED <<queue, closing, closer, accepted, disordered>>
  BY DEF Attempt
<1> PICK ok \in BOOLEAN :
      /\ Call(n, ok)
      /\ worker' = [worker EXCEPT ![w] = AfterCall(w, ok)]
      /\ unfinished' = TaskDone(w, ok)
      /\ outcome' = IF Over(w, ok) THEN [outcome EXCEPT ![n] = IF ok THEN "ok" ELSE "failed"]
                    ELSE outcome
  BY DEF Attempt
<1>4. account' \in {account, CarriedOut(n)} /\ lingering' \subseteq lingering \cup {n}
  BY DEF Call
<1>5. n \in Known /\ outcome[n] = "none"
  BY <1>1, <1>2 DEF InHand
<1>6. n \in 1 .. MaxActions /\ Known' = Known /\ Positions' = Positions /\ Len(queue) \in Nat
  <2>1. Len(accepted) \in Nat /\ Len(accepted) <= MaxActions
    BY <1>1 DEF Types, AcceptedType
  <2>2. Len(queue) \in Nat
    BY <1>1 DEF Types, QueueType
  <2> QED
    BY <2>1, <2>2, <1>3, <1>5, ManagerAssumption DEF Known, Positions
<1>7. worker[w] \in Busy
  BY <1>1, <1>2 DEF Types, WorkerType, Waiting, Gone
<1>8. QueueType' /\ AcceptedType' /\ CloserType'
  BY <1>1, <1>3 DEF Types, QueueType, AcceptedType, CloserType
<1>9. AccountType'
  <2>1. CarriedOut(n) \in [Emails -> {"lock", "unlock"}]
    BY <1>1, <1>5, CarriedOutType DEF Types
  <2> QED
    BY <2>1, <1>1, <1>3, <1>4, <1>6 DEF Types, AccountType
<1>10. Fresh'
  <2>1. lingering' \subseteq Known
    BY <1>1, <1>4, <1>5 DEF Fresh
  <2>2. \A m \in 1 .. MaxActions : m # n => outcome'[m] = outcome[m]
    BY <1>1 DEF Types, OutcomeType
  <2> QED
    BY <2>1, <2>2, <1>1, <1>5, <1>6 DEF Fresh
<1>11. Drained'
  BY <1>1, <1>3, <1>5 DEF Drained
<1>12. CASE Over(w, ok)
  <2>1. /\ worker' = [worker EXCEPT ![w] = Waiting] /\ unfinished' = unfinished - 1
        /\ outcome' = [outcome EXCEPT ![n] = IF ok THEN "ok" ELSE "failed"]
    BY <1>12 DEF AfterCall, TaskDone
  <2>2. /\ outcome' \in [1 .. MaxActions -> {"none", "ok", "failed"}] /\ outcome'[n] # "none"
        /\ \A m \in 1 .. MaxActions : m # n => outcome'[m] = outcome[m]
    BY <2>1, <1>1, <1>6 DEF Types, OutcomeType
  <2>3. \A m \in Known : m \in 1 .. MaxActions
    <3>1. Len(accepted) \in Nat /\ Len(accepted) <= MaxActions
      BY <1>1 DEF Types, AcceptedType
    <3> QED
      BY <3>1, ManagerAssumption DEF Known
  <2>4. /\ BusyWorkers' = BusyWorkers \ {w}
        /\ \A v \in BusyWorkers' : worker'[v] = worker[v]
        /\ WorkerType'
    BY <2>1, <1>1 DEF BusyWorkers, Types, WorkerType, Waiting
  <2>5. /\ Cardinality(BusyWorkers') = Cardinality(BusyWorkers) - 1
        /\ Cardinality(BusyWorkers') \in Nat
    <3>1. IsFiniteSet(BusyWorkers \ {w})
          /\ Cardinality(BusyWorkers \ {w}) = Cardinality(BusyWorkers) - 1
      BY <1>2, WorkersFinite, FS_RemoveElement
    <3> QED
      BY <3>1, <2>4, FS_CardinalityType
  <2>6. Counted' /\ unfinished' \in Nat
    BY <2>1, <2>5, <1>1, <1>3, <1>6, WorkersFinite DEF Counted
  <2>7. Types'
    BY <2>2, <2>4, <2>6, <1>1, <1>3, <1>8, <1>9 DEF Types, OutcomeType, CountType
  <2>8. Queued'
    BY <2>2, <2>3, <1>1, <1>2, <1>3, <1>6 DEF Queued, InHand
  <2>9. InHand'
    BY <2>2, <2>3, <2>4, <1>1, <1>2, <1>3, <1>6 DEF InHand
  <2>10. Kept'
    <3> SUFFICES ASSUME NEW m \in Known, outcome'[m] = "none"
                 PROVE  \/ \E i \in Positions : queue[i] = m
                        \/ \E v \in BusyWorkers' : worker'[v].action = m
      BY <1>3, <1>6 DEF Kept
    <3>1. m # n /\ outcome[m] = "none"
      BY <2>2, <2>3
    <3> QED
      BY <3>1, <2>4, <1>1 DEF Kept
  <2> QED
    BY <2>6, <2>7, <2>8, <2>9, <2>10, <1>10, <1>11 DEF IInv
<1>13. CASE ~Over(w, ok)
  <2>1. /\ worker' = [worker EXCEPT ![w] = [worker[w] EXCEPT !.provider = @ + 1]]
        /\ unfinished' = unfinished /\ outcome' = outcome
    BY <1>13 DEF AfterCall, TaskDone
  <2>2. [worker[w] EXCEPT !.provider = @ + 1] \in Busy
        /\ [worker[w] EXCEPT !.provider = @ + 1].action = n
        /\ [worker[w] EXCEPT !.provider = @ + 1].pc = "busy"
    BY <1>13, <1>7, ManagerAssumption DEF Over, TriesNext, Busy, Providers
  <2>3. /\ WorkerType' /\ BusyWorkers' = BusyWorkers
        /\ \A v \in BusyWorkers : worker'[v].action = worker[v].action
    BY <2>1, <2>2, <1>1, <1>2 DEF BusyWorkers, Types, WorkerType
  <2>4. Types'
    BY <2>1, <2>3, <1>1, <1>3, <1>8, <1>9 DEF Types, OutcomeType, CountType
  <2>5. Counted'
    BY <2>1, <2>3, <1>1, <1>3 DEF Counted
  <2>6. Queued'
    BY <2>1, <1>1, <1>3, <1>6 DEF Queued
  <2>7. InHand' /\ Kept'
    BY <2>1, <2>3, <1>1, <1>3, <1>6 DEF InHand, Kept
  <2> QED
    BY <2>4, <2>5, <2>6, <2>7, <1>10, <1>11 DEF IInv
<1> QED
  BY <1>12, <1>13

LEMMA LandKeeps ==
  ASSUME IInv, NEW n \in lingering, Land(n)
  PROVE  IInv'
<1>1. Types /\ Counted /\ Queued /\ InHand /\ Kept /\ Fresh /\ Drained
  BY DEF IInv
<1>2. /\ lingering' \subseteq lingering /\ account' = CarriedOut(n)
      /\ disordered' \subseteq disordered \cup
           {accepted[m].email : m \in {k \in n + 1 .. Len(accepted) :
                                         accepted[k].email = accepted[n].email}}
  BY DEF Land
<1>3. UNCHANGED <<queue, unfinished, closing, worker, closer, accepted, outcome>>
  BY DEF Land
<1>4. n \in Known
  BY <1>1 DEF Fresh
<1>5. CarriedOut(n) \in [Emails -> {"lock", "unlock"}] /\ accepted[n].email \in Emails
  BY <1>1, <1>4, CarriedOutType DEF Types
<1>6. AccountType'
  BY <1>1, <1>2, <1>5 DEF Types, AccountType
<1>7. Types'
  BY <1>1, <1>3, <1>6
  DEF Types, QueueType, AcceptedType, WorkerType, CloserType, OutcomeType, CountType
<1>8. BusyWorkers' = BusyWorkers /\ Known' = Known /\ Positions' = Positions
  BY <1>3 DEF BusyWorkers, Known, Positions
<1>9. Counted' /\ Queued' /\ InHand' /\ Kept' /\ Drained'
  BY <1>1, <1>3, <1>8 DEF Counted, Queued, InHand, Kept, Drained
<1>10. Fresh'
  BY <1>1, <1>2, <1>3, <1>8 DEF Fresh
<1> QED
  BY <1>7, <1>9, <1>10 DEF IInv

LEMMA CloseKeeps ==
  ASSUME IInv, NEW c \in Closers, Close(c) \/ Joined(c) \/ PutStop(c) \/ Return(c)
  PROVE  IInv'
<1>1. Types /\ Counted /\ Queued /\ InHand /\ Kept /\ Fresh /\ Drained
  BY DEF IInv
<1>2. UNCHANGED <<worker, account, accepted, outcome, lingering, disordered>>
  BY DEF Close, Joined, PutStop, Return
<1>3. /\ Known' = Known /\ BusyWorkers' = BusyWorkers
      /\ WorkerType' /\ AcceptedType' /\ OutcomeType' /\ AccountType' /\ Fresh'
  <2>1. WorkerType /\ AcceptedType /\ OutcomeType /\ AccountType
    BY <1>1 DEF Types
  <2>2. Known' = Known /\ BusyWorkers' = BusyWorkers
    BY <1>2 DEF Known, BusyWorkers
  <2>3. WorkerType' /\ AcceptedType' /\ OutcomeType' /\ AccountType'
    BY <1>2, <2>1 DEF WorkerType, AcceptedType, OutcomeType, AccountType
  <2>4. Fresh'
    BY <1>1, <1>2, <2>2 DEF Fresh
  <2> QED
    BY <2>2, <2>3, <2>4
<1>4. ASSUME UNCHANGED <<queue, unfinished>>
      PROVE  QueueType' /\ Counted' /\ Queued' /\ InHand' /\ Kept' /\ unfinished' \in Nat
  <2>1. Positions' = Positions /\ QueueType' /\ Counted' /\ unfinished' \in Nat
    BY <1>1, <1>3, <1>4 DEF Positions, Types, QueueType, CountType, Counted
  <2> QED
    BY <2>1, <1>1, <1>2, <1>3, <1>4 DEF Queued, InHand, Kept
<1>5. CASE Close(c)
  <2>1. CloserType' /\ closing' = TRUE
    BY <1>1, <1>5 DEF Close, Types, CloserType
  <2>2. Drained'
    BY <1>1, <1>2, <1>3, <1>5 DEF Close, Drained, Types, CloserType
  <2>3. UNCHANGED <<queue, unfinished>>
    BY <1>5 DEF Close
  <2> QED
    BY <2>1, <2>2, <2>3, <1>3, <1>4 DEF IInv, Types, CountType
<1>6. CASE Joined(c)
  <2>1. /\ closer[c].pc = "join" /\ unfinished = 0
        /\ closer' = [closer EXCEPT ![c] = [pc |-> "stop", left |-> Cardinality(Workers)]]
        /\ UNCHANGED <<queue, unfinished, closing>>
    BY <1>6 DEF Joined
  <2>2. CloserType' /\ closing' \in BOOLEAN
    <3>1. Cardinality(Workers) \in 0 .. Cardinality(Workers)
      BY WorkersFinite
    <3>2. [pc |-> "stop", left |-> Cardinality(Workers)]
            \in [pc : {"not called", "join", "stop", "returned"},
                 left : 0 .. Cardinality(Workers)]
      BY <3>1
    <3> QED
      BY <2>1, <3>2, <1>1 DEF Types, CloserType, CountType
  <2>3. Positions = {} /\ BusyWorkers = {}
    <3>1. Len(queue) \in Nat
      BY <1>1 DEF Types, QueueType
    <3>2. Len(queue) = 0 /\ Cardinality(BusyWorkers) = 0
      BY <3>1, <2>1, <1>1, WorkersFinite DEF Counted
    <3> QED
      BY <3>2, WorkersFinite, FS_EmptySet DEF Positions
  <2>4. \A n \in Known : outcome[n] # "none"
    BY <2>3, <1>1 DEF Kept
  <2>5. Drained'
    BY <2>1, <2>4, <1>1, <1>2, <1>3 DEF Drained, Types, CloserType
  <2> QED
    BY <2>1, <2>2, <2>5, <1>3, <1>4 DEF IInv, Types, CountType
<1>7. CASE PutStop(c)
  <2>1. /\ Len(queue) < QueueSize /\ queue' = Append(queue, Stop)
        /\ unfinished' = unfinished + 1 /\ closing' = closing
    BY <1>7 DEF PutStop
  <2>2. /\ closer[c].left > 0 /\ closer' = [closer EXCEPT ![c].left = @ - 1]
    BY <1>7 DEF PutStop
  <2>3. queue \in Seq(0 .. MaxActions) /\ Len(queue) \in Nat /\ Stop \in 0 .. MaxActions
    BY <1>1, ManagerAssumption DEF Types, QueueType, Stop
  <2>4. /\ queue' \in Seq(0 .. MaxActions) /\ Len(queue') = Len(queue) + 1
        /\ queue'[Len(queue) + 1] = Stop
        /\ \A i \in Positions : queue'[i] = queue[i]
    BY <2>1, <2>3, AppendFacts DEF Positions
  <2>5. Positions' = Positions \cup {Len(queue) + 1} /\ QueueType'
    BY <2>1, <2>3, <2>4, ManagerAssumption DEF Positions, QueueType
  <2>6. CloserType'
    <3>1. closer[c] \in [pc : {"not called", "join", "stop", "returned"},
                         left : 0 .. Cardinality(Workers)]
      BY <1>1 DEF Types, CloserType
    <3>2. closer[c].left \in 0 .. Cardinality(Workers)
      BY <3>1
    <3>3. closer[c].left - 1 \in 0 .. Cardinality(Workers)
      BY <3>2, <2>2, WorkersFinite
    <3> QED
      BY <3>1, <3>3, <2>2, <1>1 DEF Types, CloserType
  <2>7. CountType' /\ Counted'
    BY <2>1, <2>3, <2>4, <1>1, <1>3, WorkersFinite DEF Types, CountType, Counted
  <2>8. Queued'
    BY <2>4, <2>5, <1>1, <1>2, <1>3 DEF Queued
  <2>9. InHand'
    <3>1. \A w \in BusyWorkers : worker[w].action # Stop
      BY <1>1 DEF InHand, Known, Stop
    <3> QED
      BY <3>1, <2>4, <2>5, <1>1, <1>2, <1>3 DEF InHand
  <2>10. Kept'
    BY <2>4, <2>5, <1>1, <1>2, <1>3 DEF Kept
  <2>11. Drained'
    BY <2>1, <2>2, <1>1, <1>2, <1>3 DEF Drained, Types, CloserType
  <2> QED
    BY <2>5, <2>6, <2>7, <2>8, <2>9, <2>10, <2>11, <1>3 DEF IInv, Types
<1>8. CASE Return(c)
  <2>1. /\ closer[c].pc = "stop" /\ closer' = [closer EXCEPT ![c].pc = "returned"]
        /\ UNCHANGED <<queue, unfinished, closing>>
    BY <1>8 DEF Return
  <2>2. CloserType' /\ closing' \in BOOLEAN
    BY <2>1, <1>1 DEF Types, CloserType, CountType
  <2>3. Drained'
    BY <2>1, <1>1, <1>2, <1>3 DEF Drained, Types, CloserType
  <2> QED
    BY <2>1, <2>2, <2>3, <1>3, <1>4 DEF IInv, Types, CountType
<1> QED
  BY <1>5, <1>6, <1>7, <1>8

LEMMA NextIInv == IInv /\ [Next]_vars => IInv'
<1> SUFFICES ASSUME IInv, [Next]_vars PROVE IInv'
  OBVIOUS
<1>1. CASE \E a \in Actions : Submit(a)
  BY <1>1, SubmitKeeps
<1>2. CASE \E w \in Workers : Work(w)
  BY <1>2, TakeKeeps, QuitKeeps, AttemptKeeps DEF Work
<1>3. CASE \E n \in lingering : Land(n)
  BY <1>3, LandKeeps
<1>4. CASE \E c \in Closers : Close(c) \/ Closing(c)
  BY <1>4, CloseKeeps DEF Closing
<1>5. CASE UNCHANGED vars
  <2>1. UNCHANGED <<queue, unfinished, closing, worker, closer, account, accepted,
                    outcome, lingering, disordered>>
    BY <1>5 DEF vars
  <2>2. BusyWorkers' = BusyWorkers /\ Known' = Known /\ Positions' = Positions
    BY <2>1 DEF BusyWorkers, Known, Positions
  <2>3. Types'
    BY <2>1 DEF IInv, Types, QueueType, AcceptedType, WorkerType, CloserType,
                OutcomeType, CountType, AccountType
  <2> QED
    BY <2>1, <2>2, <2>3 DEF IInv, Counted, Queued, InHand, Kept, Fresh, Drained
<1> QED
  BY <1>1, <1>2, <1>3, <1>4, <1>5 DEF Next

LEMMA Invariance == Spec => []IInv
<1> QED
  BY InitIInv, NextIInv, PTL DEF Spec

(* The types, and the bound on the queue: a full queue refuses and never   *)
(* grows (lock_account, unlock_account and close's marks).                 *)
THEOREM TypeCorrect == Spec => []TypeOK
<1>1. IInv => TypeOK
  BY TypeParts DEF IInv
<1> QED
  BY <1>1, Invariance, PTL
-----------------------------------------------------------------------------
(* The refinement.  Finished is what stands for the executor's over.       *)
Finished == {n \in Known : outcome[n] # "none"}
Unended == Known \ Finished
Reported == {c \in Closers : closer[c].pc = "returned"}

(* What is owed is in the queue or in a worker's hands.                    *)
LEMMA OwedBounded ==
  ASSUME IInv
  PROVE  Cardinality(Unended) <= Len(queue) + Cardinality(BusyWorkers)
<1> DEFINE InQueue == {queue[i] : i \in Positions}
           AtWork == {worker[w].action : w \in BusyWorkers}
<1>1. Len(queue) \in Nat
  BY DEF IInv, Types, QueueType
<1>2. IsFiniteSet(Positions) /\ Cardinality(Positions) = Len(queue)
  BY <1>1, FS_Interval DEF Positions
<1>3. IsFiniteSet(InQueue) /\ Cardinality(InQueue) <= Len(queue)
  <2>1. [i \in Positions |-> queue[i]] \in Surjection(Positions, InQueue)
    BY DEF Surjection
  <2> QED
    BY <2>1, <1>2, FS_Surjection
<1>4. IsFiniteSet(AtWork) /\ Cardinality(AtWork) <= Cardinality(BusyWorkers)
  <2>1. [w \in BusyWorkers |-> worker[w].action] \in Surjection(BusyWorkers, AtWork)
    BY DEF Surjection
  <2> QED
    BY <2>1, WorkersFinite, FS_Surjection
<1>5. Unended \in SUBSET (InQueue \cup AtWork)
  BY DEF Unended, Finished, IInv, Kept
<1> HIDE DEF InQueue, AtWork
<1>6. /\ IsFiniteSet(InQueue \cup AtWork)
      /\ Cardinality(InQueue \cup AtWork) <= Cardinality(InQueue) + Cardinality(AtWork)
  <2>1. /\ IsFiniteSet(InQueue \cup AtWork) /\ IsFiniteSet(InQueue \cap AtWork)
        /\ Cardinality(InQueue \cup AtWork) =
             Cardinality(InQueue) + Cardinality(AtWork) - Cardinality(InQueue \cap AtWork)
    BY <1>3, <1>4, FS_Union, FS_Intersection
  <2> QED
    BY <2>1, <1>3, <1>4, FS_CardinalityType
<1>7. IsFiniteSet(Unended) /\ Cardinality(Unended) <= Cardinality(InQueue \cup AtWork)
  BY <1>5, <1>6, FS_Subset
<1> QED
  BY <1>1, <1>3, <1>4, <1>6, <1>7, WorkersFinite, FS_CardinalityType

(* The executor's operators, in the manager's words.                       *)
LEMMA Mapped ==
  /\ Executor!Numbers = Known /\ Executor!Owed = Unended
  /\ \A n : Executor!CarriedOut(n) = CarriedOut(n)
BY DEF Executor!Numbers, Executor!Owed, Executor!CarriedOut, CarriedOut, Known, Finished, Unended

LEMMA InitMaps == Init => Executor!Init
<1> SUFFICES ASSUME Init PROVE Executor!Init
  OBVIOUS
<1>1. accepted = << >> /\ ~closing /\ account = [e \in Emails |-> "unlock"]
  BY DEF Init
<1>2. Finished = {}
  BY <1>1 DEF Finished, Known
<1>3. Reported = {}
  <2>1. \A c \in Closers : closer[c].pc = "not called"
    BY DEF Init
  <2> QED
    BY <2>1 DEF Reported
<1> QED
  BY <1>1, <1>2, <1>3 DEF Executor!Init, Finished, Known, Reported

LEMMA StepMaps == IInv /\ IInv' /\ [Next]_vars => [Executor!Next]_(Executor!vars)
<1> SUFFICES ASSUME IInv, IInv', [Next]_vars
             PROVE  Executor!Next \/ UNCHANGED Executor!vars
  OBVIOUS
<1>0. UNCHANGED <<accepted, Finished, account, closing, Reported>>
      => UNCHANGED Executor!vars
  BY DEF Executor!vars, Finished, Reported, Known
<1>1. ASSUME NEW a \in Actions, Submit(a) PROVE Executor!Accept(a)
  <2>1. /\ ~closing /\ Len(queue) < QueueSize /\ accepted' = Append(accepted, a)
        /\ UNCHANGED <<closing, closer, account, outcome>>
    BY <1>1 DEF Submit, Enqueue
  <2>2. Cardinality(Unended) < QueueSize + Cardinality(Workers)
    <3>1. Cardinality(Unended) \in Nat
      <4>1. IsFiniteSet(Known)
        <5>1. Len(accepted) \in Nat
          BY DEF IInv, Types, AcceptedType
        <5> QED
          BY <5>1, FS_Interval DEF Known
      <4>2. Unended \in SUBSET Known
        BY DEF Unended
      <4> QED
        BY <4>1, <4>2, FS_Subset, FS_CardinalityType
    <3>2. Len(queue) \in Nat
      BY DEF IInv, Types, QueueType
    <3> QED
      BY <3>1, <3>2, <2>1, OwedBounded, WorkersFinite, ManagerAssumption
  <2>3. Finished' = Finished
    <3>1. /\ accepted \in Seq(Actions) /\ Len(accepted) \in Nat
          /\ Len(accepted') = Len(accepted) + 1 /\ Len(accepted') <= MaxActions
      <4>1. accepted \in Seq(Actions) /\ (Len(accepted) <= MaxActions)'
        BY DEF IInv, Types, AcceptedType
      <4> QED
        BY <4>1, <2>1, AppendFacts
    <3>2. Known' = Known \cup {Len(accepted) + 1} /\ Len(accepted) + 1 \notin Known
          /\ Len(accepted) + 1 \in 1 .. MaxActions
      BY <3>1, ManagerAssumption DEF Known
    <3>3. outcome[Len(accepted) + 1] = "none"
      BY <3>2 DEF IInv, Fresh
    <3> QED
      BY <3>2, <3>3, <2>1 DEF Finished
  <2>4. Reported' = Reported
    BY <2>1 DEF Reported
  <2> QED
    <3>1. Cardinality(Executor!Owed) < QueueSize + Cardinality(Workers)
      BY <2>2, Mapped
    <3>2. UNCHANGED <<Finished, account, ~closing, Reported>>
      BY <2>1, <2>3, <2>4
    <3> QED
      BY <2>1, <3>1, <3>2
      DEF Executor!Accept, Executor!Cardinality, Cardinality, Finished, Known, Reported
<1>2. ASSUME NEW w \in Workers, Take(w) \/ Quit(w) PROVE UNCHANGED Executor!vars
  <2>1. UNCHANGED <<accepted, account, closing, closer, outcome>>
    BY <1>2 DEF Take, Assign, Quit
  <2> QED
    BY <2>1, <1>0 DEF Finished, Known, Reported
<1>3. ASSUME NEW w \in Workers, Attempt(w)
      PROVE  Executor!Next \/ UNCHANGED Executor!vars
  <2>1. UNCHANGED <<closing, closer, accepted>>
    BY <1>3 DEF Attempt
  <2> PICK n : n = worker[w].action
    OBVIOUS
  <2> PICK ok \in BOOLEAN :
        /\ Call(n, ok)
        /\ outcome' = IF Over(w, ok) THEN [outcome EXCEPT ![n] = IF ok THEN "ok" ELSE "failed"]
                      ELSE outcome
    BY <1>3 DEF Attempt
  <2>2. account' \in {account, CarriedOut(n)}
    BY DEF Call
  <2>3. w \in BusyWorkers
    BY <1>3 DEF Attempt, BusyWorkers
  <2>4. n \in Known /\ outcome[n] = "none"
    BY <2>3 DEF IInv, InHand
  <2>5. Known' = Known /\ Reported' = Reported
    BY <2>1 DEF Known, Reported
  <2>6. \A m \in Known : m \in 1 .. MaxActions
    <3>1. Len(accepted) \in Nat /\ Len(accepted) <= MaxActions
      BY DEF IInv, Types, AcceptedType
    <3> QED
      BY <3>1, ManagerAssumption DEF Known
  <2>7. CASE Over(w, ok)
    <3>1. /\ outcome'[n] # "none"
          /\ \A m \in Known : m # n => outcome'[m] = outcome[m]
      BY <2>4, <2>6, <2>7 DEF IInv, Types, OutcomeType
    <3>2. Finished' = Finished \cup {n} /\ n \in Unended
      BY <3>1, <2>4, <2>5 DEF Finished, Unended
    <3>3. Executor!Finish(n)
      BY <3>2, <2>1, <2>2, <2>5, Mapped DEF Executor!Finish, Finished, Known, Reported
    <3> QED
      BY <3>3, <2>4, Mapped DEF Executor!Next
  <2>8. CASE ~Over(w, ok)
    <3>1. Finished' = Finished
      BY <2>5, <2>8 DEF Finished
    <3>2. CASE account' = account
      BY <3>1, <3>2, <2>1, <2>5, <1>0
    <3>3. CASE account' = CarriedOut(n)
      <4>1. Executor!Effect(n)
        BY <3>1, <3>3, <2>1, <2>4, <2>5, Mapped DEF Executor!Effect, Finished, Known, Reported
      <4> QED
        BY <4>1, <2>4, Mapped DEF Executor!Next
    <3> QED
      BY <3>2, <3>3, <2>2
  <2> QED
    BY <2>7, <2>8
<1>4. ASSUME NEW n \in lingering, Land(n) PROVE Executor!Next
  <2>1. account' = CarriedOut(n) /\ UNCHANGED <<closing, closer, accepted, outcome>>
    BY <1>4 DEF Land
  <2>2. n \in Known
    BY DEF IInv, Fresh
  <2>3. Finished' = Finished /\ Reported' = Reported
    BY <2>1 DEF Finished, Known, Reported
  <2>4. Executor!Effect(n)
    BY <2>1, <2>2, <2>3, Mapped DEF Executor!Effect, Finished, Known, Reported
  <2> QED
    BY <2>2, <2>4, Mapped DEF Executor!Next
<1>5. ASSUME NEW c \in Closers, Close(c) PROVE Executor!Shut
  <2>1. closing' = TRUE /\ UNCHANGED <<account, accepted, outcome>>
    BY <1>5 DEF Close
  <2>2. Reported' = Reported
    BY <1>5 DEF Close, Reported, IInv, Types, CloserType
  <2>3. Finished' = Finished
    BY <2>1 DEF Finished, Known
  <2> QED
    BY <2>1, <2>2, <2>3 DEF Executor!Shut, Finished, Known, Reported
<1>6. ASSUME NEW c \in Closers, Joined(c) \/ PutStop(c) PROVE UNCHANGED Executor!vars
  <2>1. UNCHANGED <<account, accepted, outcome, closing>>
    BY <1>6 DEF Joined, PutStop
  <2>2. closer[c].pc # "returned"
    BY <1>6 DEF Joined, PutStop
  <2>3. CloserType
    BY DEF IInv, Types
  <2>4. closer'[c].pc # "returned" /\ \A d \in Closers \ {c} : closer'[d] = closer[d]
    <3>1. CASE Joined(c)
      BY <3>1, <2>3 DEF Joined, CloserType
    <3>2. CASE PutStop(c)
      BY <3>2, <2>3 DEF PutStop, CloserType
    <3> QED
      BY <1>6, <3>1, <3>2
  <2>5. Reported' = Reported
    BY <2>2, <2>4 DEF Reported
  <2> QED
    BY <2>1, <2>5, <1>0 DEF Finished, Known
<1>7. ASSUME NEW c \in Closers, Return(c) PROVE Executor!Report(c)
  <2>1. /\ closer[c].pc = "stop" /\ closer' = [closer EXCEPT ![c].pc = "returned"]
        /\ UNCHANGED <<account, accepted, outcome, closing>>
    BY <1>7 DEF Return
  <2>2. closing /\ Unended = {}
    BY <2>1 DEF IInv, Drained, Unended, Finished
  <2>3. Reported' = Reported \cup {c}
    BY <2>1 DEF Reported, IInv, Types, CloserType
  <2>4. Finished' = Finished
    BY <2>1 DEF Finished, Known
  <2> QED
    BY <2>1, <2>2, <2>3, <2>4, Mapped DEF Executor!Report, Finished, Known, Reported
<1>8. CASE UNCHANGED vars
  BY <1>8, <1>0 DEF vars, Finished, Known, Reported
<1> QED
  BY <1>1, <1>2, <1>3, <1>4, <1>5, <1>6, <1>7, <1>8 DEF Next, Work, Closing, Executor!Next

(* The asynchronous manager does what ActionExecutor promises: a close     *)
(* that has returned has dropped nothing (manager.py:59-67), an accepted   *)
(* action ends once, and never more than the queue and the workers hold    *)
(* are owed.                                                               *)
THEOREM Refinement == Spec => ImplementsExecutor
<1> QED
  BY Invariance, InitMaps, StepMaps, PTL DEF Spec, ImplementsExecutor, Executor!Spec
-----------------------------------------------------------------------------
(* The order of actions.  Begun actions are those that left the queue; an  *)
(* action is the newest of its account if no later one has begun.          *)
Begun(n) == \A i \in Positions : queue[i] # n
SameAccount(m, n) == accepted[m].email = accepted[n].email
Newest(n) == \A m \in Known : n < m /\ SameAccount(m, n) => ~Begun(m)
InOrder(n) == accepted[n].email \notin disordered

(* The queue keeps the order in which actions were accepted.               *)
Sorted == \A i, j \in Positions :
    i < j /\ queue[i] # Stop /\ queue[j] # Stop => queue[i] < queue[j]
Later == \A i \in Positions : \A m \in Known :
    queue[i] # Stop /\ queue[i] < m => ~Begun(m)

(* A worker has the newest action of its account, requests linger of begun *)
(* actions only, and an account is as its newest action left it.           *)
Current == \A w \in BusyWorkers :
    InOrder(worker[w].action) => Newest(worker[w].action)
Sent == \A n \in lingering : Begun(n)
Lasting == \A n \in Known :
    outcome[n] = "ok" /\ InOrder(n) /\ Newest(n)
        => account[accepted[n].email] = accepted[n].kind

OrderInv == Sorted /\ Later /\ Current /\ Sent /\ Lasting

LEMMA InitOrder == Init => OrderInv
<1> SUFFICES ASSUME Init PROVE OrderInv
  OBVIOUS
<1>1. queue = << >> /\ accepted = << >> /\ lingering = {}
        /\ worker = [w \in Workers |-> Waiting]
  BY DEF Init
<1>2. Positions = {} /\ Known = {} /\ BusyWorkers = {}
  BY <1>1 DEF Positions, Known, BusyWorkers, Waiting
<1> QED
  BY <1>1, <1>2 DEF OrderInv, Sorted, Later, Current, Sent, Lasting

(* What has ended, and what is in a worker's hands, has begun.             *)
LEMMA BegunFacts ==
    ASSUME IInv
    PROVE  /\ \A n \in Known : outcome[n] # "none" => Begun(n)
           /\ \A w \in BusyWorkers : worker[w].action \in Known /\ Begun(worker[w].action)
           /\ \A n \in Known : n \in Nat /\ n # Stop
           /\ \A i \in Positions : queue[i] # Stop => queue[i] \in Known
<1>1. Len(accepted) \in Nat
  BY DEF IInv, Types, AcceptedType
<1>2. ASSUME NEW n \in Known, outcome[n] # "none" PROVE Begun(n)
  BY <1>1, <1>2 DEF IInv, Queued, Begun, Known, Stop
<1> QED
  BY <1>1, <1>2 DEF IInv, Queued, InHand, Begun, Known, Stop

LEMMA SubmitOrder ==
    ASSUME IInv, OrderInv, NEW a \in Actions, Submit(a)
    PROVE  OrderInv'
<1>1. Sorted /\ Later /\ Current /\ Sent /\ Lasting
  BY DEF OrderInv
<1>2. /\ accepted' = Append(accepted, a) /\ queue' = Append(queue, Len(accepted'))
      /\ UNCHANGED <<worker, account, outcome, lingering, disordered>>
      /\ Len(accepted) < MaxActions
  BY DEF Submit, Enqueue
<1>3. /\ queue \in Seq(0 .. MaxActions) /\ accepted \in Seq(Actions)
      /\ Len(queue) \in Nat /\ Len(accepted) \in Nat
  BY DEF IInv, Types, QueueType, AcceptedType
<1> PICK k \in 1 .. MaxActions : k = Len(accepted) + 1
  BY <1>2, <1>3, ManagerAssumption
<1>4. /\ Len(accepted') = k /\ \A n \in Known : accepted'[n] = accepted[n]
  BY <1>2, <1>3, AppendFacts DEF Known
<1>5. /\ Len(queue') = Len(queue) + 1 /\ queue'[Len(queue) + 1] = k
      /\ \A i \in Positions : queue'[i] = queue[i]
  <2>1. k \in 0 .. MaxActions /\ queue' = Append(queue, k)
    BY <1>2, <1>4
  <2> QED
    BY <2>1, <1>3, AppendFacts DEF Positions
<1>6. /\ Known' = Known \cup {k} /\ \A n \in Known : n < k
      /\ Positions' = Positions \cup {Len(queue) + 1}
      /\ \A i \in Positions : i < Len(queue) + 1
      /\ BusyWorkers' = BusyWorkers
  BY <1>2, <1>3, <1>4, <1>5 DEF Known, Positions, BusyWorkers
<1>7. ~Begun(k)' /\ \A n \in Known : (Begun(n)' <=> Begun(n))
  <2>1. \A n \in Known : n # k
    BY <1>6, BegunFacts
  <2> QED
    BY <1>5, <1>6, <2>1 DEF Begun
<1>8. ASSUME NEW n \in Known
      PROVE  (InOrder(n)' <=> InOrder(n)) /\ (Newest(n)' <=> Newest(n))
  <2>1. InOrder(n)' <=> InOrder(n)
    BY <1>2, <1>4 DEF InOrder
  <2>2. \A m \in Known : SameAccount(m, n)' <=> SameAccount(m, n)
    BY <1>4 DEF SameAccount
  <2>3. Newest(n)' => Newest(n)
    BY <1>6, <1>7, <2>2 DEF Newest
  <2>4. Newest(n) => Newest(n)'
    BY <1>6, <1>7, <2>2 DEF Newest
  <2> QED
    BY <2>1, <2>3, <2>4
<1>9. Sorted'
  <2> SUFFICES ASSUME NEW i \in Positions', NEW j \in Positions', i < j,
                      queue'[i] # Stop, queue'[j] # Stop
               PROVE  queue'[i] < queue'[j]
    BY DEF Sorted
  <2>1. i \in Positions /\ queue'[i] = queue[i]
    BY <1>3, <1>5, <1>6 DEF Positions
  <2>2. CASE j \in Positions
    BY <1>1, <1>5, <2>1, <2>2 DEF Sorted
  <2>3. CASE j = Len(queue) + 1
    <3>1. queue[i] \in Known
      BY <2>1, BegunFacts
    <3> QED
      BY <1>5, <1>6, <2>1, <2>3, <3>1
  <2> QED
    BY <1>6, <2>2, <2>3
<1>10. Later'
  <2> SUFFICES ASSUME NEW i \in Positions', NEW m \in Known',
                      queue'[i] # Stop, queue'[i] < m
               PROVE  ~Begun(m)'
    BY DEF Later
  <2>1. CASE m = k
    BY <1>7, <2>1
  <2>2. CASE m # k
    <3>1. m \in Known
      BY <1>6, <2>2
    <3>2. i # Len(queue) + 1
      BY <1>5, <1>6, <3>1, BegunFacts
    <3>3. i \in Positions /\ queue'[i] = queue[i]
      BY <1>5, <1>6, <3>2
    <3> QED
      BY <1>1, <1>7, <3>1, <3>3 DEF Later
  <2> QED
    BY <2>1, <2>2
<1>11. Current'
  BY <1>1, <1>2, <1>6, <1>8, BegunFacts DEF Current
<1>12. Sent'
  BY <1>1, <1>2, <1>7 DEF Sent, IInv, Fresh
<1>13. Lasting'
  <2>1. outcome[k] = "none"
    BY <1>6 DEF IInv, Fresh
  <2> QED
    BY <1>1, <1>2, <1>4, <1>6, <1>8, <2>1 DEF Lasting
<1> QED
  BY <1>9, <1>10, <1>11, <1>12, <1>13 DEF OrderInv

(* The first entry leaves the queue.                                       *)
LEMMA ShiftedOrder ==
    ASSUME IInv, OrderInv, queue # << >>, queue' = Tail(queue), UNCHANGED accepted
    PROVE  /\ Sorted' /\ Later'
           /\ Known' = Known /\ 1 \in Positions /\ queue[1] = Head(queue)
           /\ \A n \in Known : Begun(n)' <=> (Begun(n) \/ n = queue[1])
<1>1. Sorted /\ Later
  BY DEF OrderInv
<1>2. /\ 1 \in Positions /\ queue[1] = Head(queue)
      /\ \A i \in Positions' : queue'[i] = queue[i + 1] /\ i + 1 \in Positions
      /\ \A i \in Positions : i # 1 => i - 1 \in Positions' /\ queue'[i - 1] = queue[i]
  BY Shifted DEF IInv, Types
<1>3. /\ Known' = Known /\ \A i \in Positions \cup Positions' : i \in Nat
      /\ \A i \in Positions' : i > 0
  BY DEF Known, Positions
<1>4. ASSUME NEW n \in Known PROVE Begun(n)' <=> (Begun(n) \/ n = queue[1])
  <2>1. Begun(n) => Begun(n)'
    BY <1>2 DEF Begun
  <2>2. ASSUME n = queue[1] PROVE Begun(n)'
    <3> SUFFICES ASSUME NEW i \in Positions', queue'[i] = n PROVE FALSE
      BY DEF Begun
    <3>0. i \in Nat /\ i > 0
      BY <1>3
    <3>1. i + 1 \in Positions /\ queue[i + 1] = queue[1]
      BY <1>2, <2>2
    <3>2. i + 1 # 1
      BY <3>0
    <3>3. queue[1] # Stop
      BY <2>2, BegunFacts
    <3> QED
      BY <1>2, <3>1, <3>2, <3>3 DEF IInv, Queued
  <2>3. ASSUME Begun(n)', n # queue[1] PROVE Begun(n)
    BY <1>2, <2>3 DEF Begun
  <2> QED
    BY <2>1, <2>2, <2>3
<1>5. Sorted'
  <2> SUFFICES ASSUME NEW i \in Positions', NEW j \in Positions', i < j,
                      queue'[i] # Stop, queue'[j] # Stop
               PROVE  queue'[i] < queue'[j]
    BY DEF Sorted
  <2>1. i + 1 < j + 1
    BY <1>3
  <2> QED
    BY <1>1, <1>2, <2>1 DEF Sorted
<1>6. Later'
  <2> SUFFICES ASSUME NEW i \in Positions', NEW m \in Known, queue'[i] # Stop, queue'[i] < m
               PROVE  ~Begun(m)'
    BY <1>3 DEF Later
  <2>0. i \in Nat /\ i > 0
    BY <1>3
  <2>1. i + 1 \in Positions /\ queue'[i] = queue[i + 1]
    BY <1>2
  <2>2. 1 < i + 1
    BY <2>0
  <2>3. ~Begun(m)
    BY <1>1, <2>1 DEF Later
  <2>4. m # queue[1]
    <3>1. SUFFICES ASSUME m = queue[1] PROVE FALSE
      OBVIOUS
    <3>2. queue[1] # Stop /\ queue[1] < queue[i + 1]
      BY <1>1, <1>2, <2>1, <2>2, <3>1, BegunFacts DEF Sorted
    <3>3. queue[1] \in Nat /\ queue[i + 1] \in Nat
      BY <1>2, <2>1, <3>2, BegunFacts
    <3>4. queue[i + 1] < queue[1]
      BY <2>1, <3>1
    <3> QED
      BY <3>2, <3>3, <3>4
  <2> QED
    BY <1>4, <2>3, <2>4
<1> QED
  BY <1>2, <1>3, <1>4, <1>5, <1>6

LEMMA TakeOrder ==
    ASSUME IInv, OrderInv, NEW w \in Workers, Take(w)
    PROVE  OrderInv'
<1>1. Sorted /\ Later /\ Current /\ Sent /\ Lasting
  BY DEF OrderInv
<1> PICK k : k = Head(queue)
  OBVIOUS
<1>2. /\ queue # << >> /\ k # Stop /\ queue' = Tail(queue)
      /\ worker[w] = Waiting
      /\ worker' = [worker EXCEPT ![w] = [pc |-> "busy", action |-> k, provider |-> 0]]
      /\ UNCHANGED <<account, accepted, outcome, lingering>>
  BY DEF Take, Assign
<1>3. disordered' = disordered \cup
         {accepted[k].email : v \in {u \in Workers \ {w} :
              /\ worker[u].pc = "busy"
              /\ accepted[worker[u].action].email = accepted[k].email}}
  BY DEF Take, Assign
<1>4. /\ Sorted' /\ Later' /\ Known' = Known /\ 1 \in Positions /\ queue[1] = k
      /\ \A n \in Known : Begun(n)' <=> Begun(n) \/ n = k
  BY <1>2, ShiftedOrder
<1>5. k \in Known /\ outcome[k] = "none"
  BY <1>2, <1>4 DEF IInv, Queued
<1>6. /\ BusyWorkers' = BusyWorkers \cup {w} /\ w \notin BusyWorkers
      /\ worker'[w].action = k
      /\ \A v \in BusyWorkers : worker'[v] = worker[v]
  BY <1>2 DEF BusyWorkers, IInv, Types, WorkerType, Waiting
<1>7. ASSUME NEW n \in Known
      PROVE  (InOrder(n)' => InOrder(n)) /\ (Newest(n)' => Newest(n))
  <2>1. InOrder(n)' => InOrder(n)
    BY <1>2, <1>3 DEF InOrder
  <2>2. Newest(n)' => Newest(n)
    BY <1>2, <1>4 DEF Newest, SameAccount
  <2> QED
    BY <2>1, <2>2
<1>8. Newest(k)'
  <2> SUFFICES ASSUME NEW m \in Known, k < m PROVE ~Begun(m)'
    BY <1>4 DEF Newest
  <2>1. ~Begun(m)
    BY <1>1, <1>2, <1>4 DEF Later
  <2>2. m # k
    BY <1>5, BegunFacts
  <2> QED
    BY <1>4, <2>1, <2>2
<1>9. ASSUME NEW v \in BusyWorkers, InOrder(worker[v].action)'
      PROVE  Newest(worker[v].action)'
  <2>1. PICK n \in Known : n = worker[v].action /\ n = worker'[v].action
    BY <1>6, BegunFacts
  <2>2. v \in Workers \ {w} /\ worker[v].pc = "busy"
    BY <1>6 DEF BusyWorkers
  <2>3. accepted[n].email # accepted[k].email
    BY <1>2, <1>3, <1>9, <2>1, <2>2 DEF InOrder
  <2>4. InOrder(n)
    BY <1>2, <1>3, <1>9, <2>1 DEF InOrder
  <2>5. Newest(n)
    BY <1>1, <2>1, <2>4 DEF Current
  <2>6. Newest(n)'
    BY <1>2, <1>4, <1>5, <2>3, <2>5 DEF Newest, SameAccount
  <2> QED
    BY <2>1, <2>6 DEF Newest, SameAccount
<1>10. Current'
  BY <1>6, <1>8, <1>9 DEF Current
<1>11. Sent'
  BY <1>1, <1>2, <1>4 DEF Sent, IInv, Fresh
<1>12. Lasting'
  BY <1>1, <1>2, <1>4, <1>7 DEF Lasting
<1> QED
  BY <1>4, <1>10, <1>11, <1>12 DEF OrderInv

(* A step that leaves what has begun, and what has come of it, as it is.   *)
LEMMA SameOrder ==
    ASSUME OrderInv, Sorted', Later', Known' = Known, BusyWorkers' = BusyWorkers,
           IInv, UNCHANGED <<account, accepted, outcome, lingering, disordered>>,
           \A v \in BusyWorkers : worker'[v].action = worker[v].action,
           \A n \in Known : Begun(n)' <=> Begun(n)
    PROVE  OrderInv'
<1>1. Current /\ Sent /\ Lasting
  BY DEF OrderInv
<1>2. ASSUME NEW n \in Known PROVE (InOrder(n)' <=> InOrder(n)) /\ (Newest(n)' <=> Newest(n))
  BY DEF InOrder, Newest, SameAccount
<1>3. Current'
  BY <1>1, <1>2, BegunFacts DEF Current
<1>4. Sent'
  BY <1>1 DEF Sent, IInv, Fresh
<1>5. Lasting'
  BY <1>1, <1>2 DEF Lasting
<1> QED
  BY <1>3, <1>4, <1>5 DEF OrderInv

LEMMA QuitOrder ==
    ASSUME IInv, OrderInv, NEW w \in Workers, Quit(w)
    PROVE  OrderInv'
<1>1. /\ queue # << >> /\ Head(queue) = Stop /\ queue' = Tail(queue)
      /\ worker[w] = Waiting /\ worker' = [worker EXCEPT ![w] = Gone]
      /\ UNCHANGED <<account, accepted, outcome, lingering, disordered>>
  BY DEF Quit
<1>2. /\ Sorted' /\ Later' /\ Known' = Known
      /\ \A n \in Known : Begun(n)' <=> Begun(n)
  BY <1>1, ShiftedOrder, BegunFacts
<1>3. BusyWorkers' = BusyWorkers /\ \A v \in BusyWorkers : worker'[v] = worker[v]
  BY <1>1 DEF BusyWorkers, IInv, Types, WorkerType, Waiting, Gone
<1> QED
  BY <1>1, <1>2, <1>3, SameOrder

LEMMA AttemptOrder ==
    ASSUME IInv, OrderInv, NEW w \in Workers, Attempt(w)
    PROVE  OrderInv'
<1>1. Sorted /\ Later /\ Current /\ Sent /\ Lasting
  BY DEF OrderInv
<1> PICK n : n = worker[w].action
  OBVIOUS
<1>2. worker[w].pc = "busy" /\ w \in BusyWorkers
        /\ UNCHANGED <<queue, accepted, disordered>>
  BY DEF Attempt, BusyWorkers
<1> PICK ok \in BOOLEAN :
      /\ Call(n, ok)
      /\ worker' = [worker EXCEPT ![w] = AfterCall(w, ok)]
      /\ outcome' = IF Over(w, ok) THEN [outcome EXCEPT ![n] = IF ok THEN "ok" ELSE "failed"]
                    ELSE outcome
  BY DEF Attempt
<1>3. /\ account' \in {account, CarriedOut(n)} /\ lingering' \subseteq lingering \cup {n}
      /\ (ok => account' = CarriedOut(n))
  <2>1. CASE ok
    <3>1. TookEffect(ok) = {TRUE}
      BY <2>1 DEF TookEffect
    <3> QED
      BY <3>1 DEF Call
  <2>2. CASE ~ok
    BY <2>2 DEF Call
  <2> QED
    BY <2>1, <2>2
<1>4. n \in Known /\ Begun(n) /\ outcome[n] = "none"
  BY <1>2, BegunFacts DEF IInv, InHand
<1>5. /\ Known' = Known /\ Positions' = Positions
      /\ \A m : Begun(m)' <=> Begun(m)
      /\ \A m : InOrder(m)' <=> InOrder(m)
  BY <1>2 DEF Known, Positions, Begun, InOrder
<1>6. \A m : Newest(m)' <=> Newest(m)
  BY <1>2, <1>5 DEF Newest, SameAccount
<1>7. Sorted' /\ Later'
  BY <1>1, <1>2, <1>5 DEF Sorted, Later
<1>8. Current'
  <2>1. \A v \in BusyWorkers' : v \in BusyWorkers /\ worker'[v].action = worker[v].action
    <3>1. worker \in [Workers -> {Waiting, Gone} \cup Busy] /\ worker[w] \in Busy
      BY <1>2 DEF IInv, Types, WorkerType, Waiting, Gone
    <3>2. AfterCall(w, ok) = Waiting \/ AfterCall(w, ok).action = worker[w].action
      BY <3>1 DEF AfterCall, Busy
    <3> QED
      BY <1>2, <3>1, <3>2 DEF BusyWorkers, Waiting
  <2> QED
    BY <1>1, <1>5, <1>6, <2>1 DEF Current
<1>9. Sent'
  BY <1>1, <1>3, <1>4, <1>5 DEF Sent
<1>10. Lasting'
  <2> SUFFICES ASSUME NEW m \in Known, outcome'[m] = "ok", InOrder(m), Newest(m)
               PROVE  account'[accepted[m].email] = accepted[m].kind
    BY <1>2, <1>5, <1>6 DEF Lasting
  <2>0. account \in [Emails -> {"lock", "unlock"}] /\ accepted[m].email \in Emails
    <3>1. accepted[m] \in Actions
      BY DEF IInv, Types, AcceptedType, Known
    <3> QED
      BY <3>1 DEF IInv, Types, AccountType, Actions
  <2>1. CASE m = n
    <3>1. ok
      BY <1>4, <2>1 DEF IInv, Types, OutcomeType
    <3> QED
      BY <1>3, <2>0, <2>1, <3>1 DEF CarriedOut
  <2>2. CASE m # n
    <3>1. outcome[m] = "ok"
      BY <2>2 DEF IInv, Types, OutcomeType
    <3>2. account[accepted[m].email] = accepted[m].kind /\ Begun(m)
      BY <1>1, <3>1, BegunFacts DEF Lasting
    <3>3. accepted[n].email # accepted[m].email
      <4>1. SUFFICES ASSUME SameAccount(n, m), SameAccount(m, n) PROVE FALSE
        BY DEF SameAccount
      <4>2. Newest(n)
        BY <1>1, <1>2, <4>1 DEF Current, InOrder, SameAccount
      <4>3. ~(n < m) /\ ~(m < n)
        BY <1>4, <3>2, <4>1, <4>2 DEF Newest
      <4> QED
        BY <1>4, <2>2, <4>3, BegunFacts
    <3> QED
      BY <1>3, <2>0, <3>2, <3>3 DEF CarriedOut
  <2> QED
    BY <2>1, <2>2
<1> QED
  BY <1>7, <1>8, <1>9, <1>10 DEF OrderInv

LEMMA LandOrder ==
    ASSUME IInv, OrderInv, NEW n \in lingering, Land(n)
    PROVE  OrderInv'
<1>1. Sorted /\ Later /\ Current /\ Sent /\ Lasting
  BY DEF OrderInv
<1>2. /\ lingering' \subseteq lingering /\ account' = CarriedOut(n)
      /\ UNCHANGED <<queue, worker, accepted, outcome>>
  BY DEF Land
<1>3. disordered' = disordered \cup
           {accepted[m].email : m \in {k \in n + 1 .. Len(accepted) :
              /\ accepted[k].email = accepted[n].email
              /\ \A i \in 1 .. Len(queue) : queue[i] # k}}
  BY DEF Land
<1>4. n \in Known /\ Begun(n)
  BY <1>1 DEF IInv, Fresh, Sent
<1>5. /\ Known' = Known /\ Positions' = Positions /\ BusyWorkers' = BusyWorkers
      /\ \A m : Begun(m)' <=> Begun(m)
      /\ \A m : InOrder(m)' => InOrder(m)
  BY <1>2, <1>3 DEF Known, Positions, BusyWorkers, Begun, InOrder
<1>6. \A m : Newest(m)' <=> Newest(m)
  BY <1>2, <1>5 DEF Newest, SameAccount
<1>7. Sorted' /\ Later' /\ Current' /\ Sent'
  BY <1>1, <1>2, <1>5, <1>6 DEF Sorted, Later, Current, Sent
<1>8. Lasting'
  <2> SUFFICES ASSUME NEW m \in Known, outcome[m] = "ok", InOrder(m)', Newest(m)
               PROVE  account'[accepted[m].email] = accepted[m].kind
    BY <1>2, <1>5, <1>6 DEF Lasting
  <2>0. account \in [Emails -> {"lock", "unlock"}] /\ accepted[m].email \in Emails
    <3>1. accepted[m] \in Actions
      BY DEF IInv, Types, AcceptedType, Known
    <3> QED
      BY <3>1 DEF IInv, Types, AccountType, Actions
  <2>1. account[accepted[m].email] = accepted[m].kind /\ Begun(m)
    BY <1>1, <1>5, BegunFacts DEF Lasting
  <2>2. CASE m = n
    BY <1>2, <2>0, <2>2 DEF CarriedOut
  <2>3. CASE m # n
    <3>1. accepted[n].email # accepted[m].email
      <4>1. SUFFICES ASSUME SameAccount(n, m), SameAccount(m, n) PROVE FALSE
        BY DEF SameAccount
      <4>2. ~(m < n)
        BY <1>4, <4>1 DEF Newest
      <4>3. ~(n < m)
        <5>1. SUFFICES ASSUME n < m PROVE FALSE
          OBVIOUS
        <5>2. m \in n + 1 .. Len(accepted)
          BY <5>1, <1>4, BegunFacts DEF Known
        <5>3. accepted[m].email \in disordered'
          BY <1>3, <2>1, <4>1, <5>2 DEF Begun, Positions, SameAccount
        <5> QED
          BY <1>2, <5>3 DEF InOrder
      <4> QED
        BY <1>4, <2>3, <4>2, <4>3, BegunFacts
    <3> QED
      BY <1>2, <2>0, <2>1, <3>1 DEF CarriedOut
  <2> QED
    BY <2>2, <2>3
<1> QED
  BY <1>7, <1>8 DEF OrderInv

LEMMA CloseOrder ==
    ASSUME IInv, OrderInv, NEW c \in Closers, Close(c) \/ Joined(c) \/ PutStop(c) \/ Return(c)
    PROVE  OrderInv'
<1>1. Sorted /\ Later
  BY DEF OrderInv
<1>2. UNCHANGED <<worker, account, accepted, outcome, lingering, disordered>>
  BY DEF Close, Joined, PutStop, Return
<1>3. Known' = Known /\ BusyWorkers' = BusyWorkers
  BY <1>2 DEF Known, BusyWorkers
<1>4. CASE UNCHANGED queue
  <2>1. Positions' = Positions /\ \A n : Begun(n)' <=> Begun(n)
    BY <1>4 DEF Positions, Begun
  <2>2. Sorted' /\ Later'
    BY <1>1, <1>3, <1>4, <2>1 DEF Sorted, Later
  <2> QED
    BY <1>2, <1>3, <2>1, <2>2, SameOrder
<1>5. CASE PutStop(c)
  <2>1. queue' = Append(queue, Stop) /\ queue \in Seq(0 .. MaxActions) /\ Len(queue) \in Nat
          /\ Stop \in 0 .. MaxActions
    BY <1>5, ManagerAssumption DEF PutStop, IInv, Types, QueueType, Stop
  <2>2. /\ Len(queue') = Len(queue) + 1 /\ queue'[Len(queue) + 1] = Stop
        /\ \A i \in Positions : queue'[i] = queue[i]
    BY <2>1, AppendFacts DEF Positions
  <2>3. Positions' = Positions \cup {Len(queue) + 1}
    BY <2>1, <2>2 DEF Positions
  <2>4. \A n \in Known : Begun(n)' <=> Begun(n)
    BY <2>2, <2>3, BegunFacts DEF Begun
  <2>5. Sorted' /\ Later'
    BY <1>1, <1>3, <2>2, <2>3, <2>4 DEF Sorted, Later
  <2> QED
    BY <1>2, <1>3, <2>4, <2>5, SameOrder
<1> QED
  BY <1>4, <1>5 DEF Close, Joined, Return

LEMMA NextOrder == IInv /\ OrderInv /\ [Next]_vars => OrderInv'
<1> SUFFICES ASSUME IInv, OrderInv, [Next]_vars PROVE OrderInv'
  OBVIOUS
<1>1. CASE \E a \in Actions : Submit(a)
  BY <1>1, SubmitOrder
<1>2. CASE \E w \in Workers : Work(w)
  BY <1>2, TakeOrder, QuitOrder, AttemptOrder DEF Work
<1>3. CASE \E n \in lingering : Land(n)
  BY <1>3, LandOrder
<1>4. CASE \E c \in Closers : Close(c) \/ Closing(c)
  BY <1>4, CloseOrder DEF Closing
<1>5. CASE UNCHANGED vars
  <2>1. UNCHANGED <<queue, worker, account, accepted, outcome, lingering, disordered>>
    BY <1>5 DEF vars
  <2>2. BusyWorkers' = BusyWorkers /\ Known' = Known /\ Positions' = Positions
          /\ \A n : Begun(n)' <=> Begun(n)
    BY <2>1 DEF BusyWorkers, Known, Positions, Begun
  <2>3. Sorted' /\ Later'
    BY <2>1, <2>2 DEF OrderInv, Sorted, Later
  <2> QED
    BY <2>1, <2>2, <2>3, SameOrder
<1> QED
  BY <1>1, <1>2, <1>3, <1>4, <1>5 DEF Next

(* Whatever fails and however many workers there are: with its actions     *)
(* taken one at a time and no late request behind a newer one, an account  *)
(* ends as the last accepted action left it (manager.py:135-150).          *)
THEOREM LastAcceptedWinsAlways == Spec => []LastAcceptedWins
<1>1. IInv /\ OrderInv => LastAcceptedWins
  <2> SUFFICES ASSUME IInv, OrderInv, NEW e \in Emails, NEW last \in DOMAIN accepted,
                      accepted[last].email = e, e \notin disordered,
                      outcome[last] = "ok",
                      \A n \in DOMAIN accepted : accepted[n].email = e =>
                         n <= last /\ outcome[n] # "none"
               PROVE  account[e] = accepted[last].kind
    BY DEF LastAcceptedWins
  <2>1. DOMAIN accepted = Known
    BY DEF IInv, Types, AcceptedType, Known
  <2>2. Newest(last)
    BY <2>1, BegunFacts DEF Newest, SameAccount
  <2> QED
    BY <2>1, <2>2 DEF OrderInv, Lasting, InOrder
<1>2. IInv /\ OrderInv /\ [Next]_vars => OrderInv'
  BY NextOrder
<1> QED
  BY <1>1, <1>2, InitOrder, Invariance, PTL DEF Spec
-----------------------------------------------------------------------------
(* Nobody waits for what does not come: while an action or a call of close *)
(* is under way, some worker has work to do, or close itself has.          *)
CanWork(w) == worker[w].pc = "busy" \/ (worker[w] = Waiting /\ queue # << >>)
CanClose(c) ==
    \/ closer[c].pc = "join" /\ unfinished = 0
    \/ closer[c].pc = "stop" /\ closer[c].left > 0 /\ Len(queue) < QueueSize
    \/ closer[c].pc = "stop" /\ closer[c].left = 0 /\ \A w \in Workers : worker[w] = Gone

AcceptedNeverStuck ==
    (\E n \in DOMAIN accepted : outcome[n] = "none") => \E w \in Workers : CanWork(w)
CloseNeverStuck ==
    \A c \in Closers : closer[c].pc \in {"join", "stop"} =>
        CanClose(c) \/ \E w \in Workers : CanWork(w)

(* A mark is put by a call of close that is past join(), and a worker goes *)
(* for a mark: before such a call there are neither.                       *)
Past == {c \in Closers : closer[c].pc \in {"stop", "returned"}}
GoneWorkers == {w \in Workers : worker[w] = Gone}
Unmarked == Past = {} => GoneWorkers = {} /\ \A i \in Positions : queue[i] # Stop

(* The marks put so far, by call and number.  Each of them is in the queue *)
(* or has sent one worker away.                                            *)
Marks == {m \in Past \X (1 .. Cardinality(Workers)) :
            m[2] <= Cardinality(Workers) - closer[m[1]].left}
MarksKept == Past # {} => Len(queue) + Cardinality(GoneWorkers) = Cardinality(Marks)

LEMMA PastFacts ==
    ASSUME IInv, Past # {}
    PROVE  closing /\ BusyWorkers = {} /\ \A i \in Positions : queue[i] = Stop
<1>1. PICK c \in Closers : closer[c].pc \in {"stop", "returned"}
  BY DEF Past
<1>2. closing /\ \A n \in Known : outcome[n] # "none"
  BY <1>1 DEF IInv, Drained
<1>3. \A i \in Positions : queue[i] = Stop
  BY <1>2 DEF IInv, Queued
<1>4. BusyWorkers = {}
  BY <1>2 DEF IInv, InHand
<1> QED
  BY <1>2, <1>3, <1>4

LEMMA QueueEmpty ==
    ASSUME IInv
    PROVE  /\ Len(queue) \in Nat /\ (queue = << >> <=> Len(queue) = 0)
           /\ unfinished = 0 => Len(queue) = 0 /\ BusyWorkers = {}
<1>1. queue \in Seq(0 .. MaxActions)
  BY DEF IInv, Types, QueueType
<1>2. Len(queue) \in Nat /\ (queue = << >> <=> Len(queue) = 0)
  BY <1>1
<1>3. ASSUME unfinished = 0 PROVE Len(queue) = 0 /\ Cardinality(BusyWorkers) = 0
  BY <1>2, <1>3, WorkersFinite DEF IInv, Counted
<1> QED
  BY <1>2, <1>3, WorkersFinite, FS_EmptySet

LEMMA GoneFinite ==
    /\ IsFiniteSet(GoneWorkers) /\ Cardinality(GoneWorkers) \in Nat
    /\ Cardinality(GoneWorkers) <= Cardinality(Workers)
    /\ Cardinality(GoneWorkers) = Cardinality(Workers) <=> GoneWorkers = Workers
<1>1. GoneWorkers \in SUBSET Workers
  BY DEF GoneWorkers
<1> QED
  BY <1>1, ManagerAssumption, FS_Subset, FS_CardinalityType

(* A worker that has not gone is busy or waits.                            *)
LEMMA NotGone ==
    ASSUME IInv, NEW w \in Workers \ GoneWorkers
    PROVE  w \in BusyWorkers \/ worker[w] = Waiting
BY DEF IInv, Types, WorkerType, GoneWorkers, BusyWorkers, Busy

LEMMA InitUnmarked == Init => Unmarked /\ MarksKept
<1> SUFFICES ASSUME Init PROVE Unmarked /\ MarksKept
  OBVIOUS
<1>1. Past = {}
  BY DEF Init, Past
<1>2. GoneWorkers = {}
  <2>1. worker = [w \in Workers |-> Waiting]
    BY DEF Init
  <2> QED
    BY <2>1 DEF GoneWorkers, Waiting, Gone
<1>3. Positions = {}
  <2>1. queue = << >>
    BY DEF Init
  <2> QED
    BY <2>1 DEF Positions
<1> QED
  BY <1>1, <1>2, <1>3 DEF Unmarked, MarksKept

(* A step that leaves the queue's length, the calls of close and who has   *)
(* gone as they are.                                                       *)
LEMMA SameMarks ==
    ASSUME MarksKept, UNCHANGED closer, GoneWorkers' = GoneWorkers,
           Past # {} => Len(queue') = Len(queue)
    PROVE  MarksKept'
<1>1. Past' = Past
  BY DEF Past
<1>2. Marks' = Marks
  BY <1>1 DEF Marks
<1> QED
  BY <1>1, <1>2 DEF MarksKept

LEMMA NextUnmarked == IInv /\ Unmarked /\ [Next]_vars => Unmarked'
<1> SUFFICES ASSUME IInv, Unmarked, [Next]_vars PROVE Unmarked'
  OBVIOUS
<1>1. ASSUME NEW a \in Actions, Submit(a) PROVE Unmarked'
  <2>1. Past' = Past /\ GoneWorkers' = GoneWorkers
    BY <1>1 DEF Submit, Enqueue, Past, GoneWorkers
  <2>2. queue \in Seq(0 .. MaxActions) /\ Len(queue) \in Nat /\ Len(accepted) \in Nat
    BY DEF IInv, Types, QueueType, AcceptedType
  <2>3. accepted \in Seq(Actions) /\ accepted' = Append(accepted, a)
        /\ Len(accepted) < MaxActions /\ queue' = Append(queue, Len(accepted'))
    BY <1>1 DEF Submit, Enqueue, IInv, Types, AcceptedType
  <2>4. Len(accepted') = Len(accepted) + 1 /\ Len(accepted') \in 0 .. MaxActions
        /\ Len(accepted') # Stop
    BY <2>2, <2>3, AppendFacts, ManagerAssumption DEF Stop
  <2>5. /\ Len(queue') = Len(queue) + 1 /\ queue'[Len(queue) + 1] = Len(accepted')
        /\ \A i \in Positions : queue'[i] = queue[i]
    BY <2>2, <2>3, <2>4, AppendFacts DEF Positions
  <2>6. Positions' = Positions \cup {Len(queue) + 1}
    BY <2>2, <2>5 DEF Positions
  <2> QED
    BY <2>1, <2>4, <2>5, <2>6 DEF Unmarked
<1>2. ASSUME NEW w \in Workers, Take(w) PROVE Unmarked'
  <2>1. Past' = Past /\ GoneWorkers' \subseteq GoneWorkers
    BY <1>2 DEF Take, Assign, Past, GoneWorkers, Waiting, Gone, IInv, Types, WorkerType
  <2>2. \A i \in Positions' : queue'[i] = queue[i + 1] /\ i + 1 \in Positions
    BY <1>2, Shifted DEF Take, IInv, Types
  <2> QED
    BY <2>1, <2>2 DEF Unmarked
<1>3. ASSUME NEW w \in Workers, Quit(w) PROVE Unmarked'
  <2>1. 1 \in Positions /\ queue[1] = Stop
    BY <1>3, Shifted DEF Quit, IInv, Types
  <2>2. Past # {} /\ Past' = Past
    BY <1>3, <2>1 DEF Quit, Unmarked, Past
  <2> QED
    BY <2>2 DEF Unmarked
<1>4. ASSUME NEW w \in Workers, Attempt(w) PROVE Unmarked'
  <2>1. Past' = Past /\ Positions' = Positions /\ queue' = queue
    BY <1>4 DEF Attempt, Past, Positions
  <2>2. PICK ok \in BOOLEAN : worker' = [worker EXCEPT ![w] = AfterCall(w, ok)]
    BY <1>4 DEF Attempt
  <2>3. worker[w] \in Busy /\ AfterCall(w, ok) # Gone
    BY <1>4 DEF Attempt, AfterCall, IInv, Types, WorkerType, Busy, Waiting, Gone
  <2>4. GoneWorkers' \subseteq GoneWorkers
    BY <2>2, <2>3 DEF GoneWorkers, IInv, Types, WorkerType
  <2> QED
    BY <2>1, <2>4 DEF Unmarked
<1>5. ASSUME NEW n \in lingering, Land(n) PROVE Unmarked'
  BY <1>5 DEF Land, Unmarked, Past, GoneWorkers, Positions
<1>6. ASSUME NEW c \in Closers, Close(c) PROVE Unmarked'
  BY <1>6 DEF Close, Unmarked, Past, GoneWorkers, Positions, IInv, Types, CloserType
<1>7. ASSUME NEW c \in Closers, Joined(c) \/ PutStop(c) \/ Return(c) PROVE Unmarked'
  <2>0. CloserType
    BY DEF IInv, Types
  <2>1. closer'[c].pc \in {"stop", "returned"}
    <3>1. CASE Joined(c)
      BY <2>0, <3>1 DEF Joined, CloserType
    <3>2. CASE PutStop(c)
      BY <2>0, <3>2 DEF PutStop, CloserType
    <3>3. CASE Return(c)
      BY <2>0, <3>3 DEF Return, CloserType
    <3> QED
      BY <1>7, <3>1, <3>2, <3>3
  <2> QED
    BY <2>1 DEF Unmarked, Past
<1>8. CASE UNCHANGED vars
  BY <1>8 DEF vars, Unmarked, Past, GoneWorkers, Positions
<1> QED
  BY <1>1, <1>2, <1>3, <1>4, <1>5, <1>6, <1>7, <1>8 DEF Next, Work, Closing

(* With finitely many calls of close there are finitely many marks.        *)
LEMMA MarksFinite ==
    ASSUME IsFiniteSet(Closers)
    PROVE  IsFiniteSet(Past) /\ IsFiniteSet(Marks) /\ Cardinality(Marks) \in Nat
<1>1. Past \in SUBSET Closers
  BY DEF Past
<1>2. IsFiniteSet(Past)
  BY <1>1, FS_Subset
<1>3. IsFiniteSet(1 .. Cardinality(Workers))
  BY WorkersFinite, FS_Interval
<1>4. IsFiniteSet(Past \X (1 .. Cardinality(Workers)))
  BY <1>2, <1>3, FS_Product
<1>5. Marks \in SUBSET (Past \X (1 .. Cardinality(Workers)))
  BY DEF Marks
<1> QED
  BY <1>2, <1>4, <1>5, FS_Subset, FS_CardinalityType

LEMMA QuitMarks ==
    ASSUME IInv, MarksKept, NEW w \in Workers, Quit(w)
    PROVE  MarksKept'
<1>1. Past' = Past /\ closer' = closer
  BY DEF Quit, Past
<1>2. Marks' = Marks
  BY <1>1 DEF Marks
<1>3. Len(queue) \in Nat \ {0} /\ Len(queue') = Len(queue) - 1
  BY Shifted DEF Quit, IInv, Types
<1>4. GoneWorkers' = GoneWorkers \cup {w} /\ w \notin GoneWorkers
  BY DEF Quit, GoneWorkers, Waiting, Gone, IInv, Types, WorkerType
<1>5. Cardinality(GoneWorkers') = Cardinality(GoneWorkers) + 1
  BY <1>4, GoneFinite, FS_AddElement
<1>6. Len(queue') + Cardinality(GoneWorkers') = Len(queue) + Cardinality(GoneWorkers)
  BY <1>3, <1>5, GoneFinite
<1> QED
  BY <1>1, <1>2, <1>6 DEF MarksKept

LEMMA JoinedMarks ==
    ASSUME IInv, Unmarked, MarksKept, NEW c \in Closers, Joined(c)
    PROVE  MarksKept'
<1>1. /\ closer[c].pc = "join" /\ unfinished = 0
      /\ closer' = [closer EXCEPT ![c] = [pc |-> "stop", left |-> Cardinality(Workers)]]
      /\ UNCHANGED <<queue, worker>>
  BY DEF Joined
<1>2. c \notin Past /\ Past' = Past \cup {c}
      /\ closer'[c].left = Cardinality(Workers)
      /\ \A d \in Past : closer'[d] = closer[d]
  BY <1>1 DEF Past, IInv, Types, CloserType
<1>3. Marks' = Marks
  <2>1. \A m \in Marks' : m \in Marks
    <3> SUFFICES ASSUME NEW m \in Marks' PROVE m \in Marks
      OBVIOUS
    <3>1. /\ m \in Past' \X (1 .. Cardinality(Workers))
          /\ m[2] <= Cardinality(Workers) - closer'[m[1]].left
      BY DEF Marks
    <3>2. m[1] # c
      BY <1>2, <3>1, WorkersFinite
    <3> QED
      BY <1>2, <3>1, <3>2 DEF Marks
  <2>2. \A m \in Marks : m \in Marks'
    BY <1>2 DEF Marks
  <2> QED
    BY <2>1, <2>2
<1>4. Len(queue) = 0 /\ GoneWorkers' = GoneWorkers /\ queue' = queue
  BY <1>1, QueueEmpty DEF GoneWorkers
<1>5. CASE Past = {}
  <2>1. Marks = {} /\ GoneWorkers = {}
    BY <1>5 DEF Marks, Unmarked
  <2> QED
    BY <1>3, <1>4, <2>1, FS_EmptySet DEF MarksKept
<1>6. CASE Past # {}
  BY <1>3, <1>4, <1>6 DEF MarksKept
<1> QED
  BY <1>5, <1>6

LEMMA PutStopMarks ==
    ASSUME IsFiniteSet(Closers), IInv, MarksKept, NEW c \in Closers, PutStop(c)
    PROVE  MarksKept'
<1>1. /\ closer[c].pc = "stop" /\ closer[c].left > 0
      /\ queue' = Append(queue, Stop)
      /\ closer' = [closer EXCEPT ![c].left = closer[c].left - 1]
      /\ UNCHANGED worker
  BY DEF PutStop
<1>2. closer[c].left \in 0 .. Cardinality(Workers) /\ c \in DOMAIN closer
  BY DEF IInv, Types, CloserType
<1> PICK W \in Nat : W = Cardinality(Workers)
  BY WorkersFinite
<1> PICK left \in Nat : left = closer[c].left
  BY <1>2
<1> PICK k \in 1 .. W : k = W - left + 1
  BY <1>1, <1>2
<1>3. /\ c \in Past /\ Past' = Past /\ closer'[c].left = left - 1
      /\ \A d \in Past \ {c} : closer'[d] = closer[d]
  BY <1>1 DEF Past, IInv, Types, CloserType
<1>4. <<c, k>> \notin Marks
  BY DEF Marks
<1>5. Marks' = Marks \cup {<<c, k>>}
  <2>1. ASSUME NEW d \in Past, NEW i \in 1 .. W
        PROVE  i <= W - closer'[d].left <=> i <= W - closer[d].left \/ (d = c /\ i = k)
    <3>1. CASE d # c
      BY <1>3, <3>1
    <3>2. CASE d = c
      BY <1>3, <3>2
    <3> QED
      BY <3>1, <3>2
  <2>2. Marks' = {m \in Past \X (1 .. W) : m[2] <= W - closer'[m[1]].left}
    BY <1>3 DEF Marks
  <2>3. Marks = {m \in Past \X (1 .. W) : m[2] <= W - closer[m[1]].left}
    BY DEF Marks
  <2> HIDE DEF Marks
  <2>4. <<c, k>> \in Past \X (1 .. W)
    BY <1>3
  <2> QED
    BY <2>1, <2>2, <2>3, <2>4
<1>6. Cardinality(Marks') = Cardinality(Marks) + 1
  BY <1>4, <1>5, MarksFinite, FS_AddElement
<1>7. Len(queue') = Len(queue) + 1 /\ Len(queue) \in Nat
  <2>1. queue \in Seq(0 .. MaxActions) /\ Stop \in 0 .. MaxActions
    BY ManagerAssumption DEF IInv, Types, QueueType, Stop
  <2> QED
    BY <1>1, <2>1, AppendFacts
<1>8. GoneWorkers' = GoneWorkers
  BY <1>1 DEF GoneWorkers
<1>9. Len(queue) + Cardinality(GoneWorkers) = Cardinality(Marks)
  BY <1>3 DEF MarksKept
<1> QED
  BY <1>6, <1>7, <1>8, <1>9, GoneFinite, MarksFinite DEF MarksKept

LEMMA NextMarks ==
    ASSUME IsFiniteSet(Closers), IInv, Unmarked, MarksKept, [Next]_vars
    PROVE  MarksKept'
<1>1. ASSUME NEW a \in Actions, Submit(a) PROVE MarksKept'
  <2>1. UNCHANGED closer /\ GoneWorkers' = GoneWorkers /\ Past = {}
    BY <1>1, PastFacts DEF Submit, Enqueue, GoneWorkers
  <2> QED
    BY <2>1, SameMarks
<1>2. ASSUME NEW w \in Workers, Take(w) PROVE MarksKept'
  <2>1. Past = {}
    BY <1>2, PastFacts, Shifted DEF Take, IInv, Types
  <2>2. Past' = Past
    BY <1>2 DEF Take, Assign, Past
  <2> QED
    BY <2>1, <2>2 DEF MarksKept
<1>3. ASSUME NEW w \in Workers, Attempt(w) PROVE MarksKept'
  <2>1. Past = {}
    BY <1>3, PastFacts DEF Attempt, BusyWorkers
  <2>2. Past' = Past
    BY <1>3 DEF Attempt, Past
  <2> QED
    BY <2>1, <2>2 DEF MarksKept
<1>4. ASSUME NEW n \in lingering, Land(n) PROVE MarksKept'
  BY <1>4, SameMarks DEF Land, GoneWorkers
<1>5. ASSUME NEW c \in Closers, Close(c) \/ Return(c) PROVE MarksKept'
  <2>1. UNCHANGED <<queue, worker>>
    BY <1>5 DEF Close, Return
  <2>2. Past' = Past /\ \A d \in Past : closer'[d].left = closer[d].left
    BY <1>5 DEF Close, Return, Past, IInv, Types, CloserType
  <2>3. Marks' = Marks
    BY <2>2 DEF Marks
  <2> QED
    BY <2>1, <2>2, <2>3 DEF MarksKept, GoneWorkers
<1>6. CASE UNCHANGED vars
  BY <1>6, SameMarks DEF vars, GoneWorkers
<1> QED
  BY <1>1, <1>2, <1>3, <1>4, <1>5, <1>6, QuitMarks, JoinedMarks, PutStopMarks
  DEF Next, Work, Closing

(* An accepted action never waits for a worker that cannot come: until it  *)
(* is over, some worker is at work or has an entry to take                 *)
(* (manager.py:135-150).                                                   *)
THEOREM AcceptedNeverStuckAlways == Spec => []AcceptedNeverStuck
<1>1. IInv /\ Unmarked => AcceptedNeverStuck
  <2> SUFFICES ASSUME IInv, Unmarked, NEW n \in DOMAIN accepted, outcome[n] = "none"
               PROVE  \E w \in Workers : CanWork(w)
    BY DEF AcceptedNeverStuck
  <2>1. n \in Known
    BY DEF IInv, Types, AcceptedType, Known
  <2>2. CASE \E w \in BusyWorkers : worker[w].action = n
    BY <2>2 DEF BusyWorkers, CanWork
  <2>3. CASE \E i \in Positions : queue[i] = n
    <3>1. queue # << >>
      BY <2>3, QueueEmpty DEF Positions
    <3>2. GoneWorkers = {}
      BY <2>1 DEF Unmarked, Past, IInv, Drained
    <3>3. PICK w \in Workers : TRUE
      BY ManagerAssumption
    <3> QED
      BY <3>1, <3>2, <3>3, NotGone DEF CanWork, BusyWorkers
  <2> QED
    BY <2>1, <2>2, <2>3 DEF IInv, Kept
<1> QED
  BY <1>1, InitUnmarked, NextUnmarked, Invariance, PTL DEF Spec

(* As many marks as there are calls past join(), and workers, at most.     *)
LEMMA MarksBounds ==
    ASSUME IsFiniteSet(Closers), Cardinality(Closers) <= 2, IInv,
           NEW c \in Closers
    PROVE  /\ closer[c].pc = "join" => Cardinality(Marks) <= Cardinality(Workers)
           /\ closer[c].pc = "stop" /\ closer[c].left > 0 =>
                Cardinality(Marks) <= Cardinality(Closers) * Cardinality(Workers) - 1
           /\ closer[c].pc = "stop" /\ closer[c].left = 0 =>
                Cardinality(Marks) >= Cardinality(Workers)
<1> PICK W \in Nat : W = Cardinality(Workers)
  BY WorkersFinite
<1> PICK C \in Nat : C = Cardinality(Closers)
  BY FS_CardinalityType
<1>1. IsFiniteSet(1 .. W) /\ Cardinality(1 .. W) = W
  BY FS_Interval
<1>2. IsFiniteSet(Marks) /\ Cardinality(Marks) \in Nat
  BY MarksFinite
<1>3. C <= 2 /\ closer[c].left \in 0 .. W
  BY DEF IInv, Types, CloserType
<1>4. ASSUME closer[c].pc = "join" PROVE Cardinality(Marks) <= W
  <2>1. IsFiniteSet(Closers \ {c}) /\ Cardinality(Closers \ {c}) = C - 1
    BY FS_RemoveElement
  <2> PICK D \in Nat : D = Cardinality(Closers \ {c})
    BY <2>1, FS_CardinalityType
  <2>2. /\ IsFiniteSet((Closers \ {c}) \X (1 .. W))
        /\ Cardinality((Closers \ {c}) \X (1 .. W)) = D * W
    BY <1>1, <2>1, FS_Product
  <2>3. Marks \in SUBSET ((Closers \ {c}) \X (1 .. W))
    BY <1>4 DEF Marks, Past
  <2>4. Cardinality(Marks) <= D * W
    BY <2>2, <2>3, FS_Subset
  <2>5. D = 0 \/ D = 1
    BY <1>3, <2>1
  <2>6. D * W <= W
    BY <2>5
  <2>7. D * W \in Nat
    BY <2>5
  <2> QED
    BY <1>2, <2>4, <2>6, <2>7
<1>5. ASSUME closer[c].pc = "stop", closer[c].left > 0 PROVE Cardinality(Marks) <= C * W - 1
  <2>1. IsFiniteSet(Closers \X (1 .. W)) /\ Cardinality(Closers \X (1 .. W)) = C * W
    BY <1>1, FS_Product
  <2>2. W \in 1 .. W
    BY <1>3, <1>5
  <2>3. <<c, W>> \in Closers \X (1 .. W)
    BY <2>2
  <2>4. <<c, W>> \notin Marks
    BY <1>3, <1>5 DEF Marks
  <2>5. Marks \in SUBSET ((Closers \X (1 .. W)) \ {<<c, W>>})
    BY <2>4 DEF Marks, Past
  <2>6. /\ IsFiniteSet((Closers \X (1 .. W)) \ {<<c, W>>})
        /\ Cardinality((Closers \X (1 .. W)) \ {<<c, W>>}) = C * W - 1
    <3> PICK S : S = Closers \X (1 .. W)
      OBVIOUS
    <3> PICK x : x = <<c, W>>
      OBVIOUS
    <3>1. IsFiniteSet(S) /\ Cardinality(S) = C * W /\ x \in S
      BY <2>1, <2>3
    <3>2. IsFiniteSet(S \ {x}) /\ Cardinality(S \ {x}) = Cardinality(S) - 1
      <4>1. IsFiniteSet(S) /\ x \in S
        BY <3>1
      <4> QED
        BY <4>1, FS_RemoveElement
    <3> QED
      BY <3>1, <3>2
  <2> QED
    BY <2>5, <2>6, FS_Subset
<1>6. ASSUME closer[c].pc = "stop", closer[c].left = 0 PROVE Cardinality(Marks) >= W
  <2>1. IsFiniteSet({c}) /\ Cardinality({c}) = 1
    BY FS_Singleton
  <2>2. IsFiniteSet({c} \X (1 .. W)) /\ Cardinality({c} \X (1 .. W)) = 1 * W
    BY <1>1, <2>1, FS_Product
  <2>3. {c} \X (1 .. W) \in SUBSET Marks
    BY <1>6 DEF Marks, Past
  <2>4. Cardinality({c} \X (1 .. W)) <= Cardinality(Marks)
    BY <1>2, <2>3, FS_Subset
  <2> QED
    BY <1>2, <2>2, <2>4
<1> QED
  BY <1>4, <1>5, <1>6

(* close never waits for what cannot come (manager.py:59-67): with one   *)
(* call of close, whatever the queue's size, and with two that overlap, if *)
(* the marks that no worker is left to take fit into the queue.  Both      *)
(* conditions are needed: README names what a smaller queue, and a third   *)
(* call, end in.                                                           *)
THEOREM CloseNeverStuckAlways ==
    ASSUME IsFiniteSet(Closers), Cardinality(Closers) <= 2,
           Cardinality(Closers) = 2 => Cardinality(Workers) <= QueueSize
    PROVE  Spec => []CloseNeverStuck
<1>1. IInv /\ Unmarked /\ MarksKept => CloseNeverStuck
  <2> SUFFICES ASSUME IInv, Unmarked, MarksKept, NEW c \in Closers,
                      closer[c].pc \in {"join", "stop"}, ~CanClose(c)
               PROVE  \E w \in Workers : CanWork(w)
    BY DEF CloseNeverStuck
  <2> PICK W \in Nat : W = Cardinality(Workers)
    BY WorkersFinite
  <2> PICK C \in Nat : C = Cardinality(Closers)
    BY FS_CardinalityType
  <2> PICK M \in Nat : M = Cardinality(Marks)
    BY MarksFinite
  <2> PICK G \in Nat : G = Cardinality(GoneWorkers)
    BY GoneFinite
  <2> PICK L \in Nat : L = Len(queue)
    BY QueueEmpty
  <2>0. /\ Past # {} => L + G = M
        /\ G = W <=> GoneWorkers = Workers
        /\ queue = << >> <=> L = 0
    BY QueueEmpty, GoneFinite DEF MarksKept
  <2>1. CASE BusyWorkers # {}
    BY <2>1 DEF BusyWorkers, CanWork
  <2>2. ASSUME BusyWorkers = {}, GoneWorkers # Workers, L # 0
        PROVE  \E w \in Workers : CanWork(w)
    <3>1. PICK w \in Workers : w \notin GoneWorkers
      BY <2>2 DEF GoneWorkers
    <3> QED
      BY <2>0, <2>2, <3>1, NotGone DEF CanWork
  <2>3. CASE BusyWorkers = {} /\ closer[c].pc = "join"
    <3>1. unfinished # 0 /\ unfinished = L + Cardinality(BusyWorkers)
      BY <2>3 DEF CanClose, IInv, Counted
    <3>2. L # 0
      BY <2>3, <3>1, FS_EmptySet
    <3>3. M <= W
      BY <2>3, MarksBounds
    <3>4. Past = {} => GoneWorkers # Workers
      BY ManagerAssumption DEF Unmarked
    <3>5. GoneWorkers # Workers
      BY <2>0, <3>2, <3>3, <3>4
    <3> QED
      BY <2>2, <2>3, <3>2, <3>5
  <2>4. CASE BusyWorkers = {} /\ closer[c].pc = "stop" /\ closer[c].left > 0
    <3>1. L = QueueSize /\ QueueSize \in Nat \ {0}
      BY <2>4, ManagerAssumption DEF CanClose, IInv, Types, QueueType
    <3>2. M <= C * W - 1 /\ L + G = M
      BY <2>0, <2>4, MarksBounds DEF Past
    <3>3. C = 0 \/ C = 1 \/ C = 2
      OBVIOUS
    <3>4. G # W
      <4>1. CASE C = 0
        BY <3>2, <4>1
      <4>2. CASE C = 1
        BY <3>1, <3>2, <4>2
      <4>3. CASE C = 2
        BY <3>1, <3>2, <4>3
      <4> QED
        BY <3>3, <4>1, <4>2, <4>3
    <3> QED
      BY <2>0, <2>2, <2>4, <3>1, <3>4
  <2>5. CASE BusyWorkers = {} /\ closer[c].pc = "stop" /\ closer[c].left = 0
    <3>1. GoneWorkers # Workers
      BY <2>5 DEF CanClose, GoneWorkers
    <3>2. M >= W /\ L + G = M /\ G <= W
      BY <2>0, <2>5, MarksBounds, GoneFinite DEF Past
    <3>3. L # 0
      BY <2>0, <3>1, <3>2
    <3> QED
      BY <2>2, <2>5, <3>1, <3>3
  <2>6. closer[c].left > 0 \/ closer[c].left = 0
    <3>1. closer[c].left \in 0 .. W
      BY DEF IInv, Types, CloserType
    <3> QED
      BY <3>1
  <2> QED
    BY <2>1, <2>3, <2>4, <2>5, <2>6
<1>2. IInv /\ Unmarked /\ MarksKept /\ [Next]_vars => MarksKept'
  BY NextMarks
<1> QED
  BY <1>1, <1>2, InitUnmarked, NextUnmarked, Invariance, PTL DEF Spec
=============================================================================
