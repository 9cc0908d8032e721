----------------------------- MODULE MultiServer -----------------------------
(***************************************************************************)
(* The multi-server manager (src/policyd_py/multiserver): a registry of    *)
(* remote servers kept in one file, a health loop and refreshes on demand  *)
(* that fill a cache of statuses from threads, and actions that are sent   *)
(* to every enabled server at once.  The process may be killed at any      *)
(* moment and is started again on the file it left.                        *)
(*                                                                         *)
(* A server's condition is a number that grows with each outage and each   *)
(* recovery: it is up when the number is even.  A status is the condition  *)
(* a check found; statistics and response times are left out.              *)
(***************************************************************************)
EXTENDS Integers, FiniteSets

CONSTANTS
    Ids, Refreshers, Callers,
    MaxCondition,       \* bound: outages and recoveries of each server
    MaxChanges,         \* bound: changes of the registry
    MaxFaults,          \* bound: failed saves and crashes
    MaxRequests         \* bound: refreshes and calls of execute_on_all_servers

ASSUME ServersAssumption ==
    MaxCondition \in Nat /\ MaxChanges \in Nat /\ MaxFaults \in Nat
    /\ MaxRequests \in Nat

VARIABLES
    running,        \* the process is up
    servers,        \* Registry.servers: "enabled", "disabled" or "none"
    file,           \* what the registry's file holds, or Torn
    unsaved,        \* history: the last save failed
    condition,      \* of each server
    cache,          \* status_cache
    loop,           \* the health loop
    refresher,      \* calls of refresh_server_status
    overlapped,     \* history: servers with two checks at a time
    call,           \* calls of execute_on_all_servers
    carriedOut,     \* the servers that carried out each call's action
    changes, faults, requests

registryVars == <<running, servers, file, unsaved, changes, faults>>
checkVars == <<cache, loop, refresher, overlapped>>
callVars == <<call, carriedOut>>
vars == <<registryVars, condition, checkVars, callVars, requests>>

Torn == [s \in {} |-> "none"]      \* no registry at all
Unknown == -1
Flags == {"enabled", "disabled", "none"}
Enabled == {s \in Ids : servers[s] = "enabled"}
NoFindings == [s \in Ids |-> Unknown]

Stopped == [pc |-> "stopped", asked |-> {}, found |-> NoFindings]
IdleRefresh == [pc |-> "idle"]
IdleCall == [pc |-> "idle", asked |-> {}, todo |-> {}, sent |-> {}, ok |-> {}, failed |-> {}]

(* The process has started on a file with every server enabled.            *)
Init ==
    /\ running = TRUE
    /\ servers = [s \in Ids |-> "enabled"] /\ file = servers /\ unsaved = FALSE
    /\ condition = [s \in Ids |-> 0]
    /\ cache = NoFindings /\ loop = Stopped
    /\ refresher = [r \in Refreshers |-> IdleRefresh]
    /\ overlapped = {}
    /\ call = [c \in Callers |-> IdleCall]
    /\ carriedOut = [c \in Callers |-> {}]
    /\ changes = 0 /\ faults = 0 /\ requests = 0
-----------------------------------------------------------------------------
(* Slip: enabling and disabling wait for the next save.                    *)
SaveUnlessToggled(registry) ==
    /\ \/ file' = registry
       \/ file' = file /\ \A s \in Ids : registry[s] = "none" <=> servers[s] = "none"
    /\ unsaved' = FALSE /\ UNCHANGED faults

(* save, at the end of every change: it fails before it opens the file, or *)
(* after it has truncated it; the change stays in memory all the same.     *)
Save(registry) ==
    \/ file' = registry /\ unsaved' = FALSE /\ UNCHANGED faults
    \/ /\ faults < MaxFaults /\ faults' = faults + 1
       /\ file' \in {file, Torn}
       /\ unsaved' = TRUE

(* add_server and update_server (with the caller's enabled flag),          *)
(* enable_server, disable_server and remove_server, which hold the lock    *)
(* through the save; what is not registered cannot be removed.             *)
Change(s, flag) ==
    /\ running /\ changes < MaxChanges
    /\ servers[s] = "none" => flag # "none"
    /\ servers' = [servers EXCEPT ![s] = flag]
    /\ Save(servers')
    /\ changes' = changes + 1
    /\ UNCHANGED <<running, condition, checkVars, callVars, requests>>

(* The process is killed, perhaps while a change writes the file.  What is *)
(* in memory and what threads and tasks were about to do is gone.          *)
Crash ==
    /\ running /\ faults < MaxFaults
    /\ running' = FALSE /\ faults' = faults + 1
    /\ \/ UNCHANGED <<file, changes>>
       \/ changes < MaxChanges /\ file' = Torn /\ changes' = changes + 1
    /\ cache' = NoFindings /\ loop' = Stopped
    /\ refresher' = [r \in Refreshers |-> IdleRefresh]
    /\ call' = [c \in Callers |-> IdleCall]
    /\ carriedOut' = [c \in Callers |-> {}]
    /\ UNCHANGED <<servers, unsaved, condition, overlapped, requests>>

(* Slip: a torn file is taken for an empty registry.                       *)
RestartAnyway ==
    /\ ~running
    /\ running' = TRUE
    /\ servers' = file /\ unsaved' = FALSE
    /\ UNCHANGED <<file, changes, faults, condition, checkVars, callVars, requests>>

(* The constructor loads the file; a torn one is no JSON and raises.       *)
Restart ==
    /\ ~running /\ file # Torn
    /\ running' = TRUE
    /\ servers' = file /\ unsaved' = FALSE
    /\ UNCHANGED <<file, changes, faults, condition, checkVars, callVars, requests>>
-----------------------------------------------------------------------------
(* A server goes down or comes back.                                       *)
Turn(s) ==
    /\ condition[s] < MaxCondition
    /\ condition' = [condition EXCEPT ![s] = @ + 1]
    /\ UNCHANGED <<registryVars, checkVars, callVars, requests>>

Refreshing(s) == \E r \in Refreshers :
    refresher[r].pc \in {"asked", "found"} /\ refresher[r].server = s

Start ==
    /\ running /\ loop = Stopped
    /\ loop' = [Stopped EXCEPT !.pc = "asleep"]
    /\ UNCHANGED <<registryVars, condition, cache, refresher, overlapped, callVars, requests>>

(* stop cancels the task; what its threads find is dropped.                *)
StopLoop ==
    /\ loop.pc # "stopped"
    /\ loop' = Stopped
    /\ UNCHANGED <<registryVars, condition, cache, refresher, overlapped, callVars, requests>>

(* Slip: what was found in the last round counts for this one.             *)
AskAllKeeping ==
    /\ loop.pc = "asleep"
    /\ loop' = [loop EXCEPT !.pc = "asked", !.asked = Enabled]
    /\ overlapped' = overlapped \cup {s \in Enabled : Refreshing(s)}
    /\ UNCHANGED <<registryVars, condition, cache, refresher, callVars, requests>>

(* refresh_all_server_statuses, when the loop starts and after each sleep, *)
(* asks the servers that are enabled now, each in a thread.                *)
AskAll ==
    /\ loop.pc = "asleep"
    /\ loop' = [pc |-> "asked", asked |-> Enabled, found |-> NoFindings]
    /\ overlapped' = overlapped \cup {s \in Enabled : Refreshing(s)}
    /\ UNCHANGED <<registryVars, condition, cache, refresher, callVars, requests>>

LoopFinds(s) ==
    /\ loop.pc = "asked" /\ s \in loop.asked /\ loop.found[s] = Unknown
    /\ loop' = [loop EXCEPT !.found[s] = condition[s]]
    /\ UNCHANGED <<registryVars, condition, cache, refresher, overlapped, callVars, requests>>

(* Slip: a server that does not answer keeps the status it had.            *)
KeptIfDown(s) == IF loop.found[s] % 2 = 0 THEN loop.found[s] ELSE cache[s]

NewStatus(s) == loop.found[s]

(* gather has every result: they are stored together, those of servers     *)
(* that were removed or disabled in the meantime too.                      *)
StoreAll ==
    /\ loop.pc = "asked"
    /\ \A s \in loop.asked : loop.found[s] # Unknown
    /\ cache' = [s \in Ids |-> IF s \in loop.asked THEN NewStatus(s) ELSE cache[s]]
    /\ loop' = [loop EXCEPT !.pc = "asleep"]
    /\ UNCHANGED <<registryVars, condition, refresher, overlapped, callVars, requests>>

(* refresh_server_status: the server must be registered, enabled or not.   *)
Refresh(r, s) ==
    /\ running /\ refresher[r].pc = "idle" /\ servers[s] # "none"
    /\ requests < MaxRequests /\ requests' = requests + 1
    /\ refresher' = [refresher EXCEPT ![r] = [pc |-> "asked", server |-> s]]
    /\ overlapped' = IF Refreshing(s) \/ (loop.pc = "asked" /\ s \in loop.asked)
                     THEN overlapped \cup {s} ELSE overlapped
    /\ UNCHANGED <<registryVars, condition, cache, loop, callVars>>

RefreshFinds(r) ==
    /\ refresher[r].pc = "asked"
    /\ refresher' = [refresher EXCEPT ![r] =
         [pc |-> "found", server |-> @.server, found |-> condition[@.server]]]
    /\ UNCHANGED <<registryVars, condition, cache, loop, overlapped, callVars, requests>>

RefreshStores(r) ==
    /\ refresher[r].pc = "found"
    /\ cache' = [cache EXCEPT ![refresher[r].server] = refresher[r].found]
    /\ refresher' = [refresher EXCEPT ![r] = IdleRefresh]
    /\ UNCHANGED <<registryVars, condition, loop, overlapped, callVars, requests>>
-----------------------------------------------------------------------------
(* execute_on_all_servers makes a coroutine for each enabled server.       *)
Execute(c) ==
    /\ running /\ call[c].pc = "idle"
    /\ requests < MaxRequests /\ requests' = requests + 1
    /\ call' = [call EXCEPT ![c] =
         [IdleCall EXCEPT !.pc = "gathering", !.asked = Enabled, !.todo = Enabled]]
    /\ UNCHANGED <<registryVars, condition, checkVars, carriedOut>>

(* Slip: a server that is gone is passed over.                             *)
BeginSkipping(c, s) ==
    /\ s \in call[c].todo
    /\ call' = [call EXCEPT ![c].todo = @ \ {s},
                            ![c].sent = IF servers[s] = "none" THEN @ ELSE @ \cup {s}]
    /\ UNCHANGED <<registryVars, condition, checkVars, carriedOut, requests>>

(* Each coroutine looks the server up again: one that was removed since    *)
(* raises KeyError, which ends the gather for the caller, while the other  *)
(* coroutines go on; one that was disabled is sent the action.             *)
Begin(c, s) ==
    /\ s \in call[c].todo
    /\ call' = IF servers[s] = "none"
         THEN [call EXCEPT ![c].todo = @ \ {s}, ![c].pc = "raised"]
         ELSE [call EXCEPT ![c].todo = @ \ {s}, ![c].sent = @ \cup {s}]
    /\ UNCHANGED <<registryVars, condition, checkVars, carriedOut, requests>>

(* The request's end: a server that is down, or refuses, carries nothing   *)
(* out; an answer that is lost or late makes a failure of what was done.   *)
Answer(c, s) ==
    /\ s \in call[c].sent
    /\ \E done \in {FALSE, condition[s] % 2 = 0}, ok \in BOOLEAN :
         /\ ok => done
         /\ carriedOut' = IF done THEN [carriedOut EXCEPT ![c] = @ \cup {s}] ELSE carriedOut
         /\ call' = IF ok
              THEN [call EXCEPT ![c].sent = @ \ {s}, ![c].ok = @ \cup {s}]
              ELSE [call EXCEPT ![c].sent = @ \ {s}, ![c].failed = @ \cup {s}]
    /\ UNCHANGED <<registryVars, condition, checkVars, requests>>

Return(c) ==
    /\ call[c].pc = "gathering" /\ call[c].todo = {} /\ call[c].sent = {}
    /\ call' = [call EXCEPT ![c].pc = "returned"]
    /\ UNCHANGED <<registryVars, condition, checkVars, carriedOut, requests>>

Round == AskAll \/ StoreAll \/ \E s \in Ids : LoopFinds(s)

Next ==
    \/ \E s \in Ids, flag \in Flags : Change(s, flag)
    \/ Crash \/ Restart
    \/ \E s \in Ids : Turn(s)
    \/ Start \/ StopLoop \/ Round
    \/ \E r \in Refreshers, s \in Ids : Refresh(r, s)
    \/ \E r \in Refreshers : RefreshFinds(r) \/ RefreshStores(r)
    \/ \E c \in Callers : Execute(c) \/ Return(c)
    \/ \E c \in Callers, s \in Ids : Begin(c, s) \/ Answer(c, s)

Spec == Init /\ [][Next]_vars

(* The health loop is a task, and each of its checks ends at the client's  *)
(* timeout.  Nobody has to start it, or to refresh or to execute anything. *)
FairSpec == Spec /\ WF_vars(Round)
-----------------------------------------------------------------------------
(* Every variable stays in its type.                                       *)
TypeOK ==
    /\ running \in BOOLEAN /\ unsaved \in BOOLEAN
    /\ servers \in [Ids -> Flags] /\ (file = Torn \/ file \in [Ids -> Flags])
    /\ condition \in [Ids -> 0 .. MaxCondition]
    /\ cache \in [Ids -> Unknown .. MaxCondition]
    /\ loop \in [pc : {"stopped", "asleep", "asked"}, asked : SUBSET Ids,
                 found : [Ids -> Unknown .. MaxCondition]]
    /\ refresher \in [Refreshers -> [pc : {"idle"}] \cup [pc : {"asked"}, server : Ids]
                        \cup [pc : {"found"}, server : Ids, found : 0 .. MaxCondition]]
    /\ overlapped \subseteq Ids
    /\ call \in [Callers -> [pc : {"idle", "gathering", "raised", "returned"},
                             asked : SUBSET Ids, todo : SUBSET Ids, sent : SUBSET Ids,
                             ok : SUBSET Ids, failed : SUBSET Ids]]
    /\ carriedOut \in [Callers -> SUBSET Ids]
    /\ changes \in 0 .. MaxChanges /\ faults \in 0 .. MaxFaults
    /\ requests \in 0 .. MaxRequests

(* While the process runs, its file holds the registry it works with,      *)
(* whatever changes, crashes and restarts went before, unless the last     *)
(* save failed: the change is then in force until the next restart only,   *)
(* or until the next save that succeeds.                                   *)
FileFollows == running => (file = servers \/ unsaved)

(* A status in the cache is never replaced by an older one, unless two     *)
(* checks of the server went on at the same time: the health loop and a    *)
(* refresh do not wait for each other.                                     *)
NeverBack ==
    [][running' => \A s \in Ids \ overlapped' : cache[s] <= cache'[s]]_vars

(* A call that returns reports on every server that was enabled when it    *)
(* began, reports a success only where the action was carried out, and     *)
(* names every server that carried it out; with a server removed meanwhile *)
(* it raises instead.                                                      *)
FullReport == \A c \in Callers :
    /\ call[c].ok \subseteq carriedOut[c]
    /\ call[c].pc = "returned" =>
         /\ call[c].ok \cup call[c].failed = call[c].asked
         /\ carriedOut[c] \subseteq call[c].asked

(* While the loop runs, the cache comes to say of an enabled server what   *)
(* is true and keeps saying it, whatever older results a refresh stores.   *)
CacheCatchesUp == \A s \in Ids :
    <>[](running /\ loop.pc # "stopped" /\ servers[s] = "enabled")
        => <>[](cache[s] = condition[s])
=============================================================================
