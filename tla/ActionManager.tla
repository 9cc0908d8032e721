---------------------------- MODULE ActionManager ----------------------------
(***************************************************************************)
(* The action manager (src/policyd_py/actions/manager.py) in its           *)
(* asynchronous mode: lock_account and unlock_account only put the action  *)
(* into a bounded queue, workers take actions from it and hand them to the *)
(* primary provider and then to the fallbacks, and close lets the queue    *)
(* drain and stops the workers.  close may run twice at a time: every      *)
(* signal that asks for the end of the process starts a shutdown of its    *)
(* own (__main__.py:249-251), and each of them closes the manager.         *)
(*                                                                         *)
(* In the synchronous mode the caller runs the providers itself: that mode *)
(* is part of LockLifecycle, where an action is one step with an outcome.  *)
(***************************************************************************)
EXTENDS Integers, Sequences, FiniteSets

CONSTANTS
    Emails, Workers, Closers,
    QueueSize,
    Fallbacks,          \* number of fallback providers
    ContinueOnError,    \* continue_on_error
    MaxActions          \* bound: actions accepted

ASSUME ManagerAssumption ==
    /\ QueueSize \in Nat \ {0} /\ Fallbacks \in Nat /\ MaxActions \in Nat
    /\ ContinueOnError \in BOOLEAN
    /\ IsFiniteSet(Workers) /\ Workers # {}

VARIABLES
    queue,          \* numbers of accepted actions, and Stop marks
    unfinished,     \* entries put and not yet marked done (asyncio.Queue)
    closing,
    worker,         \* what each worker does
    closer,         \* how far each call of close got
    account,        \* the account, at the providers' end
    accepted,       \* history: the actions accepted, in order
    outcome,        \* history: how they ended
    lingering,      \* actions of which a request may still be carried out
    disordered      \* history: accounts whose actions ran out of their order

vars == <<queue, unfinished, closing, worker, closer, account, accepted,
          outcome, lingering, disordered>>

Actions == [kind : {"lock", "unlock"}, email : Emails]
Stop == 0
Providers == 0 .. Fallbacks     \* 0 is the primary
Waiting == [pc |-> "waiting"]
Gone == [pc |-> "gone"]
Busy == [pc : {"busy"}, action : 1 .. MaxActions, provider : Providers]

Init ==
    /\ queue = << >> /\ unfinished = 0 /\ closing = FALSE
    /\ worker = [w \in Workers |-> Waiting]
    /\ closer = [c \in Closers |-> [pc |-> "not called", left |-> 0]]
    /\ account = [e \in Emails |-> "unlock"]
    /\ accepted = << >>
    /\ outcome = [n \in 1 .. MaxActions |-> "none"]
    /\ lingering = {} /\ disordered = {}
-----------------------------------------------------------------------------
Enqueue(a) ==
    /\ Len(accepted) < MaxActions
    /\ accepted' = Append(accepted, a)
    /\ queue' = Append(queue, Len(accepted'))
    /\ unfinished' = unfinished + 1
    /\ UNCHANGED <<closing, worker, closer, account, outcome, lingering, disordered>>

SubmitUnbounded(a) == ~closing /\ Enqueue(a)
SubmitWhileClosing(a) == Len(queue) < QueueSize /\ Enqueue(a)

(* lock_account, unlock_account: a caller is refused, with an exception    *)
(* and nothing changed, while the manager closes and when the queue is full*)
Submit(a) ==
    /\ ~closing
    /\ Len(queue) < QueueSize
    /\ Enqueue(a)

Assign(w, n) ==
    /\ worker' = [worker EXCEPT ![w] = [pc |-> "busy", action |-> n, provider |-> 0]]
    /\ disordered' = disordered \cup
         {accepted[n].email : v \in {u \in Workers \ {w} :
              /\ worker[u].pc = "busy"
              /\ accepted[worker[u].action].email = accepted[n].email}}
    /\ UNCHANGED <<unfinished, closing, closer, account, accepted, outcome, lingering>>

TakeNewest(w) ==
    /\ worker[w] = Waiting
    /\ queue # << >> /\ queue[Len(queue)] # Stop
    /\ queue' = SubSeq(queue, 1, Len(queue) - 1)
    /\ Assign(w, queue[Len(queue)])

(* _worker gets an action.                                                 *)
Take(w) ==
    /\ worker[w] = Waiting
    /\ queue # << >> /\ Head(queue) # Stop
    /\ queue' = Tail(queue)
    /\ Assign(w, Head(queue))

(* _worker gets a Stop mark and returns.                                   *)
Quit(w) ==
    /\ worker[w] = Waiting
    /\ queue # << >> /\ Head(queue) = Stop
    /\ queue' = Tail(queue)
    /\ unfinished' = unfinished - 1
    /\ worker' = [worker EXCEPT ![w] = Gone]
    /\ UNCHANGED <<closing, closer, account, accepted, outcome, lingering, disordered>>

(* After provider p failed: the first fallback always gets its turn, the   *)
(* others only with continue_on_error.                                     *)
TriesNext(p) == p < Fallbacks /\ (p = 0 \/ ContinueOnError)

CarriedOut(n) == [account EXCEPT ![accepted[n].email] = accepted[n].kind]

(* A script that failed, or was killed at its timeout, may have taken      *)
(* effect all the same.                                                    *)
TookEffect(ok) == {ok, TRUE}

(* A provider's call, the retries of a webhook included; a webhook's       *)
(* request that was given up at its timeout may linger at its server (at   *)
(* most one of an action at a time).                                       *)
Call(n, ok) ==
    /\ \E done \in TookEffect(ok) : account' = IF done THEN CarriedOut(n) ELSE account
    /\ lingering' \in {lingering, lingering \cup {n}}

Over(w, ok) == ok \/ ~TriesNext(worker[w].provider)

(* Slip: an error that no provider is left to answer ends the worker.      *)
AfterCallOrGone(w, ok) ==
    IF ok THEN Waiting
    ELSE IF Over(w, ok) THEN Gone ELSE [worker[w] EXCEPT !.provider = @ + 1]

AfterCall(w, ok) ==
    IF Over(w, ok) THEN Waiting ELSE [worker[w] EXCEPT !.provider = @ + 1]

(* Slip: task_done is not reached when the action failed.                  *)
TaskDoneIfOk(w, ok) == IF ok THEN unfinished - 1 ELSE unfinished

TaskDone(w, ok) == IF Over(w, ok) THEN unfinished - 1 ELSE unfinished

(* _execute_sync calls one provider; when it was the last one, _worker     *)
(* marks the entry done and goes back to the queue, error or not.          *)
Attempt(w) ==
    /\ worker[w].pc = "busy"
    /\ \E ok \in BOOLEAN :
         /\ Call(worker[w].action, ok)
         /\ worker' = [worker EXCEPT ![w] = AfterCall(w, ok)]
         /\ unfinished' = TaskDone(w, ok)
         /\ outcome' = IF Over(w, ok)
              THEN [outcome EXCEPT ![worker[w].action] = IF ok THEN "ok" ELSE "failed"]
              ELSE outcome
    /\ UNCHANGED <<queue, closing, closer, accepted, disordered>>

(* The server carries out a request that nobody waits for any more,        *)
(* perhaps after a newer action on the account has begun.                  *)
Land(n) ==
    /\ n \in lingering
    /\ lingering' = lingering \ {n}
    /\ account' = CarriedOut(n)
    /\ disordered' = disordered \cup
         {accepted[m].email : m \in {k \in n + 1 .. Len(accepted) :
              /\ accepted[k].email = accepted[n].email
              /\ \A i \in 1 .. Len(queue) : queue[i] # k}}
    /\ UNCHANGED <<queue, unfinished, closing, worker, closer, accepted, outcome>>
-----------------------------------------------------------------------------
Close(c) ==
    /\ closer[c].pc = "not called"
    /\ closing' = TRUE
    /\ closer' = [closer EXCEPT ![c].pc = "join"]
    /\ UNCHANGED <<queue, unfinished, worker, account, accepted, outcome, lingering, disordered>>

(* close, after queue.join().                                              *)
Joined(c) ==
    /\ closer[c].pc = "join"
    /\ unfinished = 0
    /\ closer' = [closer EXCEPT ![c] = [pc |-> "stop", left |-> Cardinality(Workers)]]
    /\ UNCHANGED <<queue, unfinished, closing, worker, account, accepted, outcome, lingering, disordered>>

(* close puts a mark for each worker, waiting while the queue is full.     *)
PutStop(c) ==
    /\ closer[c].pc = "stop" /\ closer[c].left > 0
    /\ Len(queue) < QueueSize
    /\ queue' = Append(queue, Stop)
    /\ unfinished' = unfinished + 1
    /\ closer' = [closer EXCEPT ![c].left = @ - 1]
    /\ UNCHANGED <<closing, worker, account, accepted, outcome, lingering, disordered>>

(* close has seen every worker end; it closes the providers and returns.   *)
Return(c) ==
    /\ closer[c].pc = "stop" /\ closer[c].left = 0
    /\ \A w \in Workers : worker[w] = Gone
    /\ closer' = [closer EXCEPT ![c].pc = "returned"]
    /\ UNCHANGED <<queue, unfinished, closing, worker, account, accepted, outcome, lingering, disordered>>

Work(w) == Take(w) \/ Quit(w) \/ Attempt(w)
Closing(c) == Joined(c) \/ PutStop(c) \/ Return(c)

Next ==
    \/ \E a \in Actions : Submit(a)
    \/ \E w \in Workers : Work(w)
    \/ \E n \in lingering : Land(n)
    \/ \E c \in Closers : Close(c) \/ Closing(c)

Spec == Init /\ [][Next]_vars

(* Workers and close are asyncio tasks, and every provider call ends: the  *)
(* scripts and the requests have timeouts.  Nobody has to submit or close. *)
Fairness ==
    /\ \A w \in Workers : WF_vars(Work(w))
    /\ \A c \in Closers : WF_vars(Closing(c))

FairSpec == Spec /\ Fairness
-----------------------------------------------------------------------------
(* Every variable stays in its type, and the queue within its size.        *)
TypeOK ==
    /\ queue \in Seq(0 .. MaxActions) /\ Len(queue) <= QueueSize
    /\ unfinished \in Nat
    /\ closing \in BOOLEAN
    /\ worker \in [Workers -> {Waiting, Gone} \cup Busy]
    /\ closer \in [Closers -> [pc : {"not called", "join", "stop", "returned"},
                               left : 0 .. Cardinality(Workers)]]
    /\ account \in [Emails -> {"lock", "unlock"}]
    /\ accepted \in Seq(Actions) /\ Len(accepted) <= MaxActions
    /\ outcome \in [1 .. MaxActions -> {"none", "ok", "failed"}]
    /\ lingering \subseteq 1 .. MaxActions
    /\ disordered \subseteq Emails

(* The manager keeps the promises of ActionExecutor: every action accepted *)
(* ends once and none is dropped by a close that returned, none is         *)
(* accepted while the manager closes, no more than the queue and the       *)
(* workers hold are owed, and no account changes but by an accepted action.*)
Executor == INSTANCE ActionExecutor WITH
    Accounts <- Emails,
    Capacity <- QueueSize + Cardinality(Workers),
    over <- {n \in 1 .. Len(accepted) : outcome[n] # "none"},
    open <- ~closing,
    returned <- {c \in Closers : closer[c].pc = "returned"}

ImplementsExecutor == Executor!Spec

(* Once every action on an account is over, and the last one accepted      *)
(* succeeded, the account is as that one left it, unless two workers were  *)
(* at work on the account at the same time, or a webhook's server carried  *)
(* out an earlier request after a newer action had begun.                  *)
LastAcceptedWins ==
    \A e \in Emails : \A last \in DOMAIN accepted :
        /\ accepted[last].email = e
        /\ \A n \in DOMAIN accepted : accepted[n].email = e =>
             n <= last /\ outcome[n] # "none"
        /\ outcome[last] = "ok"
        /\ e \notin disordered
        => account[e] = accepted[last].kind

(* A call of close returns, when two calls overlap and when providers      *)
(* fail, as long as the marks that nobody takes fit into the queue.        *)
CloseReturns ==
    \A c \in Closers : (closer[c].pc = "join") ~> (closer[c].pc = "returned")

(* Every accepted action comes to an end, with or without a close.         *)
AcceptedEnds ==
    \A n \in 1 .. MaxActions :
        (n \in DOMAIN accepted) ~> (outcome[n] # "none")
=============================================================================
