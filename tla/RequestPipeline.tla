--------------------------- MODULE RequestPipeline ---------------------------
(***************************************************************************)
(* A request from Postfix, from the socket to the answer: the connections  *)
(* of PolicydServer (src/policyd_py/core/server.py), PolicyHandler.handle  *)
(* with its early answers and error paths (policy/handler.py 216-372), the *)
(* counters of RuntimeStats, and the notification of a sender that is over *)
(* its limit, with its cooldown (handler.py 374-385).                      *)
(*                                                                         *)
(* A connection is one coroutine; its actions are the stretches of code    *)
(* between two awaits.  What the checks of a request find is chosen freely:*)
(* syntax, blacklists, policies and the limiter's answer (RateLimiter says *)
(* which are possible).  A lock job is one step here: LockLifecycle has its*)
(* commands.                                                               *)
(***************************************************************************)
EXTENDS Integers, Sequences, FiniteSets

CONSTANTS
    Connections, Workers,
    Senders,            \* selectors
    Capacity,           \* permits of the connection semaphore
    MaxRequests,        \* bound: requests read
    MaxFaults           \* bound: Redis commands that fail or are repeated

ASSUME PipelineAssumption ==
    /\ IsFiniteSet(Connections) /\ IsFiniteSet(Workers)
    /\ Capacity \in Nat \ {0}
    /\ MaxRequests \in Nat /\ MaxFaults \in Nat

VARIABLES
    conn,       \* per connection: what it awaits, and for which request
    line,       \* connections waiting at the semaphore, in order
    permits,    \* permits left
    stats,      \* RuntimeStats
    tasks,      \* policyd:bg_tasks, the next event first
    worker,     \* the background workers
    cooldown,   \* senders whose notify:<selector> key exists
    faults,
    denied,     \* history: denials of each sender that ask for a lock
    lockTries,  \* history: lock events and lock jobs each sender got
    sent,       \* history: notifications since the key last expired
    doubled     \* history: deferred requests that were also counted as errors

vars == <<conn, line, permits, stats, tasks, worker, cooldown, faults,
          denied, lockTries, sent, doubled>>
redisVars == <<tasks, cooldown>>
historyVars == <<denied, lockTries, sent, doubled>>

Steps == {"dns", "match", "adapt", "check", "pushLock", "lock", "pushNotify"}
Answers == {"dunno", "reject", "defer", "error"}
Counters == {"requests", "accepted", "rejected", "deferred", "errors",
             "limited", "suspect", "active"}
Events == [kind : {"lock", "notify"}, sender : Senders]


Idle == [pc |-> "idle"]

Init ==
    /\ conn = [c \in Connections |-> [pc |-> "closed"]]
    /\ line = << >> /\ permits = Capacity
    /\ stats = [n \in Counters |-> 0]
    /\ tasks = << >> /\ worker = [w \in Workers |-> Idle]
    /\ cooldown = {} /\ faults = 0
    /\ denied = [s \in Senders |-> 0] /\ lockTries = [s \in Senders |-> 0]
    /\ sent = [s \in Senders |-> 0] /\ doubled = 0

(* How a Redis command may end: see LockLifecycle.                         *)
Outcomes == {"ok"} \cup (IF faults < MaxFaults THEN {"lost", "late", "twice"} ELSE {})
Raises(o) == o \in {"lost", "late"}
Charge(o) == faults' = IF o = "ok" THEN faults ELSE faults + 1

Times(o) == CASE o = "lost" -> 0 [] o = "twice" -> 2 [] OTHER -> 1
Pushed(o, kind, s) ==
    tasks \o [i \in 1 .. Times(o) |-> [kind |-> kind, sender |-> s]]

Counted(names) == stats' = [n \in Counters |-> IF n \in names THEN stats[n] + 1 ELSE stats[n]]
Goto(c, step) == conn' = [conn EXCEPT ![c].pc = step]
AnswerWith(c, a) == conn' = [conn EXCEPT ![c] = [pc |-> "writing", answer |-> a]]
-----------------------------------------------------------------------------
(* _handle_client, as Postfix connects: it is counted before it has to     *)
(* wait for a permit.                                                      *)
Connect(c) ==
    /\ conn[c].pc = "closed"
    /\ Goto(c, "waiting")
    /\ line' = Append(line, c)
    /\ stats' = [stats EXCEPT !.active = @ + 1]
    /\ UNCHANGED <<permits, redisVars, worker, faults, historyVars>>

(* Slip: the last to come is served first.                                 *)
AcquireNewest(c) ==
    /\ permits > 0
    /\ line # << >> /\ line[Len(line)] = c
    /\ line' = SubSeq(line, 1, Len(line) - 1)
    /\ permits' = permits - 1
    /\ Goto(c, "reading")
    /\ UNCHANGED <<stats, redisVars, worker, faults, historyVars>>

(* asyncio.Semaphore serves those who wait in the order of their arrival.  *)
Acquire(c) ==
    /\ permits > 0
    /\ line # << >> /\ Head(line) = c
    /\ line' = Tail(line)
    /\ permits' = permits - 1
    /\ Goto(c, "reading")
    /\ UNCHANGED <<stats, redisVars, worker, faults, historyVars>>

(* Slip: the connection stays counted.                                     *)
CloseUncounted(c) ==
    /\ conn[c].pc \in {"reading", "writing"}
    /\ conn' = [conn EXCEPT ![c] = [pc |-> "closed"]]
    /\ permits' = permits + 1
    /\ UNCHANGED <<stats, line, redisVars, worker, faults, historyVars>>

(* The client ends the connection, sends no whole request in time, or does *)
(* not take its answer in time; the finally clause runs in every case.     *)
Close(c) ==
    /\ conn[c].pc \in {"reading", "writing"}
    /\ conn' = [conn EXCEPT ![c] = [pc |-> "closed"]]
    /\ stats' = [stats EXCEPT !.active = IF @ > 0 THEN @ - 1 ELSE 0]
    /\ permits' = permits + 1
    /\ UNCHANGED <<line, redisVars, worker, faults, historyVars>>

(* The answer is on its way, and the next request may come.                *)
Write(c) ==
    /\ conn[c].pc = "writing"
    /\ conn' = [conn EXCEPT ![c] = [pc |-> "reading"]]
    /\ UNCHANGED <<line, permits, stats, redisVars, worker, faults, historyVars>>

(* _validation_response: rejected, or with monitor_only (which a reload may*)
(* change) let through at once, without a look at the sender's limits.     *)
Suspect(c, counters) ==
    \/ Counted(counters \cup {"suspect", "rejected"}) /\ AnswerWith(c, "reject")
    \/ Counted(counters \cup {"suspect", "accepted"}) /\ AnswerWith(c, "dunno")

(* handle, up to its first await: the request is not the policy's business *)
(* (223-230), its syntax is wrong (235-241), or it goes on.                *)
Receive(c, s) ==
    /\ conn[c].pc = "reading"
    /\ stats.requests < MaxRequests
    /\ \/ Counted({"requests", "accepted"}) /\ AnswerWith(c, "dunno")
       \/ Suspect(c, {"requests"})
       \/ /\ Counted({"requests"})
          /\ conn' = [conn EXCEPT ![c] = [pc |-> "dns", sender |-> s]]
    /\ UNCHANGED <<line, permits, redisVars, worker, faults, historyVars>>

(* Slip: an early return before the counter.                               *)
FailedUncounted(c) == AnswerWith(c, "error") /\ UNCHANGED stats

(* An error of the limiter (283-287) or an exception (300-303).            *)
Failed(c) == Counted({"errors"}) /\ AnswerWith(c, "error")

(* The recipient's domain is looked up, then the blacklists (243-257).  A   *)
(* domain that getaddrinfo cannot even encode raises what nobody expects.  *)
Deliverability(c) ==
    /\ conn[c].pc = "dns"
    /\ \/ Suspect(c, {})
       \/ Failed(c)
       \/ Goto(c, "match") /\ UNCHANGED stats
    /\ UNCHANGED <<line, permits, redisVars, worker, faults, historyVars>>

(* matcher.match looks for a policy, and swallows what Redis raises.  No   *)
(* limits or no selector: the message passes (259-271).                    *)
Match(c) ==
    /\ conn[c].pc = "match"
    /\ \/ Counted({"accepted"}) /\ AnswerWith(c, "dunno")
       \/ Goto(c, "adapt") /\ UNCHANGED stats
    /\ UNCHANGED <<line, permits, redisVars, worker, faults, historyVars>>

(* _apply_adaptive_limits asks Redis for the members of the trusted lists  *)
(* and, unlike the matcher, swallows nothing: the first command that raises*)
(* ends the request.  An unlimited quota passes (273-277).                 *)
Adapt(c) ==
    /\ conn[c].pc = "adapt"
    /\ \E o \in Outcomes :
         /\ Charge(o)
         /\ IF Raises(o)
              THEN Failed(c)
              ELSE \/ Counted({"accepted"}) /\ AnswerWith(c, "dunno")
                   \/ Goto(c, "check") /\ UNCHANGED stats
    /\ UNCHANGED <<line, permits, redisVars, worker, historyVars>>

(* check_limit allows, denies, or returns an error (282-298).  Whether the *)
(* sender's domain is local depends on the reloads under way as well: each *)
(* empties the set of local domains first (781).                           *)
Check(c) ==
    /\ conn[c].pc = "check"
    /\ \E o \in Outcomes :
         LET s == conn[c].sender
         IN /\ Charge(o)
            /\ \/ Raises(o) /\ Failed(c) /\ UNCHANGED denied
               \/ /\ ~Raises(o)
                  /\ Counted({"accepted"}) /\ AnswerWith(c, "dunno") /\ UNCHANGED denied
               \/ /\ ~Raises(o)
                  /\ Counted({"limited", "deferred"})
                  /\ \/ Goto(c, "pushLock") /\ denied' = [denied EXCEPT ![s] = @ + 1]
                     \/ Goto(c, "pushNotify") /\ UNCHANGED denied
    /\ UNCHANGED <<line, permits, redisVars, worker, lockTries, sent, doubled>>

(* Slip: an LPUSH that fails is only logged.                               *)
PushLockBestEffort(c) ==
    /\ conn[c].pc = "pushLock"
    /\ \E o \in Outcomes :
         LET s == conn[c].sender
         IN /\ Charge(o)
            /\ tasks' = Pushed(o, "lock", s)
            /\ lockTries' = [lockTries EXCEPT ![s] = @ + Times(o)]
            /\ Goto(c, "pushNotify")
    /\ UNCHANGED <<line, permits, stats, worker, cooldown, denied, sent, doubled>>

(* _enqueue_background_event for the lock: when LPUSH raises the lock job  *)
(* runs here and now, in addition to an event that got through.            *)
PushLock(c) ==
    /\ conn[c].pc = "pushLock"
    /\ \E o \in Outcomes :
         LET s == conn[c].sender
         IN /\ Charge(o)
            /\ tasks' = Pushed(o, "lock", s)
            /\ lockTries' = [lockTries EXCEPT ![s] = @ + Times(o)]
            /\ Goto(c, IF Raises(o) THEN "lock" ELSE "pushNotify")
    /\ UNCHANGED <<line, permits, stats, worker, cooldown, denied, sent, doubled>>

(* The lock job inside the request: its EXISTS, INCR and EXPIRE may raise  *)
(* (398, 418, 419), and the exception ends the request as an error, after  *)
(* it was counted as deferred (300-303) and without a notification.        *)
LockNow(c) ==
    /\ conn[c].pc = "lock"
    /\ \E o \in Outcomes :
         LET s == conn[c].sender
         IN /\ Charge(o)
            /\ lockTries' = [lockTries EXCEPT ![s] = @ + 1]
            /\ IF Raises(o)
                 THEN Failed(c) /\ doubled' = doubled + 1
                 ELSE Goto(c, "pushNotify") /\ UNCHANGED <<stats, doubled>>
    /\ UNCHANGED <<line, permits, redisVars, worker, denied, sent>>

(* Slip: no notification while other events wait.                          *)
PushNotifyIfIdle(c) ==
    /\ conn[c].pc = "pushNotify"
    /\ \E o \in Outcomes :
         /\ Charge(o)
         /\ tasks' = IF tasks = << >> THEN Pushed(o, "notify", conn[c].sender) ELSE tasks
    /\ AnswerWith(c, "defer")
    /\ UNCHANGED <<line, permits, stats, worker, cooldown, historyVars>>

(* The same for the notification, which has no second way (369-372).       *)
PushNotify(c) ==
    /\ conn[c].pc = "pushNotify"
    /\ \E o \in Outcomes : Charge(o) /\ tasks' = Pushed(o, "notify", conn[c].sender)
    /\ AnswerWith(c, "defer")
    /\ UNCHANGED <<line, permits, stats, worker, cooldown, historyVars>>
-----------------------------------------------------------------------------
(* _background_worker: BRPOP may take the event and lose it; a lock event  *)
(* is LockLifecycle's.                                                     *)
Take(w) ==
    /\ worker[w] = Idle /\ tasks # << >>
    /\ \E o \in Outcomes \ {"twice"} :
         /\ Charge(o)
         /\ tasks' = IF o = "lost" THEN tasks ELSE Tail(tasks)
         /\ worker' = IF o = "ok" /\ Head(tasks).kind = "notify"
                        THEN [worker EXCEPT ![w] = [pc |-> "exists", sender |-> Head(tasks).sender]]
                        ELSE worker
    /\ UNCHANGED <<conn, line, permits, stats, cooldown, historyVars>>

(* _safe_notify: EXISTS, then SET with the cooldown, then the channels.    *)
ExistsNotify(w) ==
    /\ worker[w].pc = "exists"
    /\ \E o \in Outcomes :
         /\ Charge(o)
         /\ worker' = IF Raises(o) \/ worker[w].sender \in cooldown
                        THEN [worker EXCEPT ![w] = Idle]
                        ELSE [worker EXCEPT ![w].pc = "set"]
    /\ UNCHANGED <<conn, line, permits, stats, redisVars, historyVars>>

(* Slip: the cooldown key is never set.                                    *)
SetNothing(w) ==
    /\ worker[w].pc = "set"
    /\ worker' = [worker EXCEPT ![w].pc = "send"]
    /\ UNCHANGED <<conn, line, permits, stats, redisVars, faults, historyVars>>

SetNotify(w) ==
    /\ worker[w].pc = "set"
    /\ \E o \in Outcomes :
         /\ Charge(o)
         /\ cooldown' = IF o = "lost" THEN cooldown ELSE cooldown \cup {worker[w].sender}
         /\ worker' = IF Raises(o) THEN [worker EXCEPT ![w] = Idle]
                                   ELSE [worker EXCEPT ![w].pc = "send"]
    /\ UNCHANGED <<conn, line, permits, stats, tasks, historyVars>>

Send(w) ==
    /\ worker[w].pc = "send"
    /\ sent' = [sent EXCEPT ![worker[w].sender] = @ + 1]
    /\ worker' = [worker EXCEPT ![w] = Idle]
    /\ UNCHANGED <<conn, line, permits, stats, redisVars, faults, denied, lockTries, doubled>>

(* The cooldown is an hour at least, and no worker takes as long as that   *)
(* for a notification.                                                     *)
ExpireNotify(s) ==
    /\ s \in cooldown
    /\ s \notin {worker[w].sender : w \in {v \in Workers : worker[v] # Idle}}
    /\ cooldown' = cooldown \ {s}
    /\ sent' = [sent EXCEPT ![s] = 0]
    /\ UNCHANGED <<conn, line, permits, stats, tasks, worker, faults, denied, lockTries, doubled>>

Handle(c) == \/ Deliverability(c) \/ Match(c) \/ Adapt(c) \/ Check(c)
             \/ PushLock(c) \/ LockNow(c) \/ PushNotify(c)
Arrive(c) == \E s \in Senders : Receive(c, s)
Notify(w) == Take(w) \/ ExistsNotify(w) \/ SetNotify(w) \/ Send(w)

Next ==
    \/ \E c \in Connections :
         Connect(c) \/ Acquire(c) \/ Arrive(c) \/ Handle(c) \/ Write(c) \/ Close(c)
    \/ \E w \in Workers : Notify(w)
    \/ \E s \in Senders : ExpireNotify(s)

Spec == Init /\ [][Next]_vars

(* The loop resumes every coroutine whose await is over; commands, reads   *)
(* and writes have timeouts.  Nobody has to connect or to send a request,  *)
(* and a cooldown need not end.                                            *)
Fairness ==
    /\ \A c \in Connections :
         /\ WF_vars(Acquire(c)) /\ WF_vars(Handle(c))
         /\ WF_vars(Arrive(c) \/ Write(c) \/ Close(c))
    /\ \A w \in Workers : WF_vars(Notify(w))

FairSpec == Spec /\ Fairness
-----------------------------------------------------------------------------
(* Every variable stays in its type.                                       *)
TypeOK ==
    /\ conn \in [Connections ->
           [pc : {"closed", "waiting", "reading"}] \cup [pc : {"writing"}, answer : Answers]
             \cup [pc : Steps, sender : Senders]]
    /\ line \in Seq(Connections)
    /\ permits \in 0 .. Capacity
    /\ stats \in [Counters -> Nat] /\ stats.active <= Cardinality(Connections)
    /\ tasks \in Seq(Events)
    /\ worker \in [Workers -> {Idle} \cup [pc : {"exists", "set", "send"}, sender : Senders]]
    /\ cooldown \subseteq Senders
    /\ faults \in Nat /\ doubled \in Nat
    /\ denied \in [Senders -> Nat] /\ lockTries \in [Senders -> Nat]
    /\ sent \in [Senders -> Nat]

(* The counters add up: every request that was read is in progress or was  *)
(* counted under one outcome, except those whose lock failed inside the    *)
(* request, which are both deferred and errors.  Requests in progress are  *)
(* those whose outcome is not counted yet.                                 *)
Pending == {c \in Connections : conn[c].pc \in {"dns", "match", "adapt", "check"}}

Accounted ==
    stats.accepted + stats.rejected + stats.deferred + stats.errors
      = stats.requests - Cardinality(Pending) + doubled

(* Whatever fails, each denial of a local sender's message has led to a    *)
(* lock event or a lock job of its own, or is about to.                    *)
NoDenialForgotten ==
    \A s \in Senders :
        denied[s] <= lockTries[s]
            + Cardinality({c \in Connections : conn[c].pc \in {"pushLock", "lock"}
                                                 /\ conn[c].sender = s})

(* In one cooldown a sender is notified at most once by each worker: EXISTS*)
(* (377) and SET (382) are two commands, and every worker may be between   *)
(* them, but none twice.                                                   *)
OnePerWorker == \A s \in Senders : sent[s] <= Cardinality(Workers)

(* From some moment on no request is read.                                 *)
ClientsCalmDown == <>[][\A c \in Connections : ~Arrive(c)]_vars

(* A client that has to wait for a permit is served and leaves, whatever   *)
(* the others do that are served before it, once they have no request left:*)
(* the timeouts of the server end connections that only hold a permit.     *)
WaitingServed ==
    ClientsCalmDown =>
        \A c \in Connections : (conn[c].pc = "waiting") ~> (conn[c].pc = "closed")

(* If no command fails, every denial finds the sender notified in this     *)
(* cooldown, or will: no event is left in the list or with a worker.       *)
DenialNotified ==
    \A c \in Connections, s \in Senders :
        (conn[c].pc = "pushNotify" /\ conn[c].sender = s)
            ~> (sent[s] > 0 \/ faults > 0)
=============================================================================
