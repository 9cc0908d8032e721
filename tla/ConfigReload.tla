----------------------------- MODULE ConfigReload -----------------------------
(***************************************************************************)
(* Hot reload and shutdown: save_config and reload_config of the           *)
(* management service, _apply_reloaded_config and Runtime.shutdown of      *)
(* src/policyd_py/__main__.py, and what they restart: the unlock listener  *)
(* and the lists of PolicyHandler (policy/handler.py), the reload task of  *)
(* EmailValidator (validation/validator.py) and the action manager.        *)
(*                                                                         *)
(* Every HTTP request of the API and every SIGHUP runs as a coroutine of   *)
(* its own and nothing keeps two of them apart.  An action is what such a  *)
(* coroutine does from one await that may suspend it to the next; building *)
(* the new action manager does not suspend.                                *)
(*                                                                         *)
(* Shutdown waits for the API's requests to end (management_api.stop) and  *)
(* for the connections of the server; SIGHUP tasks may run on.             *)
(*                                                                         *)
(* The configuration manager (management/config_manager.py) keeps what was *)
(* last read or saved; the file may also be edited by hand.                *)
(*                                                                         *)
(* A configuration is what the properties tell apart: whether it enables   *)
(* external actions, and the members of its domain lists, which are taken  *)
(* as one list.  Members found by LDAP are left out.                       *)
(***************************************************************************)
EXTENDS Integers, Sequences, FiniteSets

CONSTANTS
    Requests,       \* API requests that save or reload
    Hangups,        \* SIGHUP tasks, which reload the lists only
    Stopper,        \* the shutdown
    Domains,
    Contents,       \* configurations: [actions : BOOLEAN, domains : SUBSET Domains]
    MaxReloads,     \* bound: reloads of either kind
    MaxFaults       \* bound: Redis commands, blacklist files and saves that fail

ASSUME ReloadAssumption ==
    /\ Contents \subseteq [actions : BOOLEAN, domains : SUBSET Domains]
    /\ Stopper \notin Requests \cup Hangups
    /\ Requests \cap Hangups = {}
    /\ MaxReloads \in Nat /\ MaxFaults \in Nat

Procs == Requests \cup Hangups \cup {Stopper}

(* The parts whose configuration _apply_reloaded_config replaces, and those*)
(* that go on with the one the process was started with: the credentials   *)
(* and the address of the API, the connections and the circuit breaker of  *)
(* Redis, the permits of the server, the background workers, the script    *)
(* runner of the notifier.                                                 *)
Reloaded == {"handler", "matcher", "limiter", "validator", "notifier", "server"}
Kept == {"management_api", "redis_client", "semaphore", "workers", "script_runner"}
Parts == Reloaded \cup Kept

None == 0
Broken == [unreadable |-> TRUE]     \* a file that AppConfig.load rejects

VARIABLES
    file,           \* the configuration on disk, or Broken
    memory,         \* ConfigManager._config, which the API reports
    edited,         \* the file was edited since it was last read or saved
    unstored,       \* history: memory holds what a failed save left there
    using,          \* the configuration each part works with
    manager,        \* number of the action manager in use, or None
    built,          \* action managers built so far
    closing,        \* action managers whose close was called
    listeners,      \* state of each listener task ever created
    listenerTask,   \* _unlock_listener_task: its number, or None
    validators,     \* state of each blacklist reload task ever created
    validatorTask,  \* _reload_task
    proc,           \* how far each coroutine got
    list,           \* policyd:list:<name> in Redis
    localDomains,   \* _local_domains
    reloads, faults,
    overlapped,     \* history: a reload began while another was under way
    aborted         \* history: a reload or the shutdown ended with an exception

storeVars == <<file, memory, edited, unstored>>
configVars == <<storeVars, using>>
managerVars == <<manager, built, closing>>
taskVars == <<listeners, listenerTask, validators, validatorTask>>
listVars == <<list, localDomains>>
vars == <<configVars, managerVars, taskVars, proc, listVars, reloads, faults,
          overlapped, aborted>>

Idle == [pc |-> "idle"]
Over == [pc |-> "over"]
Busy(p) == proc[p] \notin {Idle, Over}
Quiet == \A p \in Procs : ~Busy(p)
Stopping == proc[Stopper] # Idle

Init ==
    /\ file \in Contents
    /\ memory = file /\ edited = FALSE /\ unstored = FALSE
    /\ using = [p \in Parts |-> file]
    /\ manager = (IF file.actions THEN 1 ELSE None)
    /\ built = manager /\ closing = {}
    /\ listeners = (IF file.actions THEN <<"running">> ELSE << >>)
    /\ listenerTask = Len(listeners)
    /\ validators = <<"running">> /\ validatorTask = 1
    /\ proc = [p \in Procs |-> Idle]
    /\ list = file.domains /\ localDomains = file.domains
    /\ reloads = 0 /\ faults = 0
    /\ overlapped = FALSE /\ aborted = FALSE

At(p, step) == proc[p].pc = step
Become(p, state) == proc' = [proc EXCEPT ![p] = state]

(* Slip: the task is waited for, not cancelled.                            *)
CancelNothing(tasks, n) == tasks

Cancel(tasks, n) == [tasks EXCEPT ![n] = IF @ = "running" THEN "cancelled" ELSE @]

\* An exception ends the coroutine, and what was to follow is not done.
Abort(p) ==
    /\ Become(p, IF p = Stopper THEN Over ELSE Idle)
    /\ aborted' = TRUE
Fault == faults < MaxFaults /\ faults' = faults + 1

Begun(p) ==
    /\ reloads < MaxReloads
    /\ proc[p] = Idle
    /\ reloads' = reloads + 1
    /\ overlapped' = (overlapped \/ ~Quiet)
-----------------------------------------------------------------------------
(* Slip: a task that was stopped counts as one that runs.                  *)
RestartKeepingTask(c, u, tasks, m) ==
    /\ listeners' = IF m # None /\ listenerTask = None THEN Append(tasks, "running") ELSE tasks
    /\ listenerTask' = IF m # None /\ listenerTask = None THEN Len(listeners') ELSE listenerTask
    /\ using' = [u EXCEPT !.matcher = c, !.limiter = c]

(* _restart_unlock_listener once the old task is gone: whether there is a  *)
(* new one depends on the manager of this moment, and a task that another  *)
(* reload has created meanwhile is forgotten, not stopped.  The matcher and*)
(* the limiter follow, up to the loading of the scripts.                   *)
Restart(c, u, tasks, m) ==
    /\ listeners' = IF m # None THEN Append(tasks, "running") ELSE tasks
    /\ listenerTask' = IF m # None THEN Len(listeners') ELSE None
    /\ using' = [u EXCEPT !.matcher = c, !.limiter = c]

(* _apply_reloaded_config up to its first suspension: the new manager is   *)
(* built and in use at once, the old one remembered.                       *)
Apply(r, c) ==
    LET new == IF c.actions THEN built + 1 ELSE None
        u == [using EXCEPT !.handler = c]
    IN /\ Begun(r) /\ ~Stopping
       /\ manager' = new
       /\ built' = IF c.actions THEN built + 1 ELSE built
       /\ \/ /\ listenerTask # None
             /\ using' = u
             /\ listeners' = Cancel(listeners, listenerTask)
             /\ Become(r, [pc |-> "stopListener", config |-> c, old |-> manager,
                           task |-> listenerTask])
             /\ UNCHANGED listenerTask
          \/ /\ listenerTask = None
             /\ Restart(c, u, listeners, new)
             /\ Become(r, [pc |-> "scripts", config |-> c, old |-> manager])
       /\ UNCHANGED <<closing, validators, validatorTask, listVars, faults, aborted>>

Stored(c) == memory' = c /\ edited' = FALSE /\ unstored' = FALSE

(* save_config: the file is replaced, whatever it held, before anything is *)
(* reloaded.  A candidate that cannot be read or written changes nothing.  *)
Save(r, c) == Apply(r, c) /\ file' = c /\ Stored(c)

(* save: memory is replaced first (79), then the file, which may fail (80);*)
(* then nothing is reloaded.                                               *)
SaveFails(r, c) ==
    /\ proc[r] = Idle /\ ~Stopping
    /\ Fault
    /\ memory' = c /\ unstored' = TRUE
    /\ UNCHANGED <<file, edited, using, managerVars, taskVars, proc, listVars,
                   reloads, overlapped, aborted>>

(* reload_config; a broken file raises and changes nothing.                *)
Reload(r) == file # Broken /\ Apply(r, file) /\ Stored(file) /\ UNCHANGED file

(* Somebody edits the file, well or badly; once per save or reload here.   *)
Edit(c) ==
    /\ ~edited /\ edited' = TRUE
    /\ file' = c
    /\ UNCHANGED <<memory, unstored, using, managerVars, taskVars, proc, listVars,
                   reloads, faults, overlapped, aborted>>

ListenerStopped(r) ==
    /\ At(r, "stopListener") /\ r # Stopper
    /\ listeners[proc[r].task] = "ended"
    /\ Restart(proc[r].config, using, listeners, manager)
    /\ Become(r, [pc |-> "scripts", config |-> proc[r].config, old |-> proc[r].old])
    /\ UNCHANGED <<storeVars, managerVars, validators, validatorTask, listVars,
                   reloads, faults, overlapped, aborted>>

(* init_scripts swallows its errors.  validator.stop cancels the task and  *)
(* waits for it; one that died raises what it died of, at every reload.    *)
ScriptsLoaded(r) ==
    /\ At(r, "scripts")
    /\ using' = [using EXCEPT !.validator = proc[r].config]
    /\ \/ /\ validators[validatorTask] = "failed"
          /\ Abort(r)
          /\ UNCHANGED validators
       \/ /\ validators[validatorTask] # "failed"
          /\ validators' = Cancel(validators, validatorTask)
          /\ Become(r, [pc |-> "stopValidator", config |-> proc[r].config,
                        old |-> proc[r].old, task |-> validatorTask])
          /\ UNCHANGED aborted
    /\ UNCHANGED <<storeVars, managerVars, listeners, listenerTask, validatorTask,
                   listVars, reloads, faults, overlapped>>

(* Slip: the server keeps its old settings.                                *)
ValidatorStoppedForgettingServer(r) ==
    /\ At(r, "stopValidator") /\ r # Stopper
    /\ validators[proc[r].task] = "ended"
    /\ validators' = Append(validators, "running")
    /\ validatorTask' = Len(validators')
    /\ using' = [using EXCEPT !.notifier = proc[r].config]
    /\ localDomains' = {}
    /\ Become(r, [pc |-> "delete", old |-> proc[r].old, items |-> using.handler.domains])
    /\ UNCHANGED <<storeVars, managerVars, listeners, listenerTask, list, reloads, faults,
                   overlapped, aborted>>

(* validator.start may find a blacklist it cannot read.  Otherwise it makes*)
(* a new task, notifier and server get the configuration, and the reload of*)
(* the lists begins: with those of the configuration the handler has now.  *)
ValidatorStopped(r) ==
    /\ At(r, "stopValidator") /\ r # Stopper
    /\ validators[proc[r].task] = "ended"
    /\ \/ /\ Fault /\ Abort(r)
          /\ UNCHANGED <<using, validators, validatorTask, localDomains>>
       \/ /\ validators' = Append(validators, "running")
          /\ validatorTask' = Len(validators')
          /\ using' = [using EXCEPT !.notifier = proc[r].config, !.server = proc[r].config]
          /\ localDomains' = {}
          /\ Become(r, [pc |-> "delete", old |-> proc[r].old,
                        items |-> using.handler.domains])
          /\ UNCHANGED <<faults, aborted>>
    /\ UNCHANGED <<storeVars, managerVars, listeners, listenerTask, list, reloads, overlapped>>

(* SIGHUP: reload_lists alone.                                             *)
Hangup(h) ==
    /\ Begun(h)
    /\ localDomains' = {}
    /\ Become(h, [pc |-> "delete", old |-> None, items |-> using.handler.domains])
    /\ UNCHANGED <<configVars, managerVars, taskVars, list, faults, aborted>>

(* load_section: DEL of the list; an error ends the reload as a whole.     *)
Delete(p) ==
    /\ At(p, "delete")
    /\ list' = {}
    /\ \/ Become(p, [proc[p] EXCEPT !.pc = "add"]) /\ UNCHANGED <<faults, aborted>>
       \/ Fault /\ Abort(p)
    /\ UNCHANGED <<configVars, managerVars, taskVars, localDomains, reloads, overlapped>>

(* Slip: the old manager is closed only if there is a new one.             *)
CloseIfReplaced(p) ==
    IF proc[p].old # None /\ manager # None
      THEN /\ closing' = closing \cup {proc[p].old}
           /\ Become(p, [pc |-> "closing", old |-> proc[p].old])
      ELSE Become(p, Idle) /\ UNCHANGED closing

(* Slip: no look at whether there was an old manager.                      *)
CloseUnguarded(p) ==
    /\ closing' = closing \cup {proc[p].old}
    /\ Become(p, [pc |-> "closing", old |-> proc[p].old])

(* The end of _apply_reloaded_config: the manager it replaced is closed.   *)
CloseOld(p) ==
    IF proc[p].old # None /\ proc[p].old # manager
      THEN /\ closing' = closing \cup {proc[p].old}
           /\ Become(p, [pc |-> "closing", old |-> proc[p].old])
      ELSE Become(p, Idle) /\ UNCHANGED closing

(* Slip: the set of local domains is replaced, not extended.               *)
AddReplacing(p) ==
    /\ At(p, "add")
    /\ list' = list \cup proc[p].items
    /\ localDomains' = proc[p].items
    /\ CloseOld(p)
    /\ UNCHANGED <<configVars, manager, built, taskVars, reloads, faults, overlapped, aborted>>

(* SADD of the members, if there are any, and the process's own set.       *)
Add(p) ==
    /\ At(p, "add")
    /\ \/ /\ list' = list \cup proc[p].items
          /\ localDomains' = localDomains \cup proc[p].items
          /\ CloseOld(p)
          /\ UNCHANGED <<faults, aborted>>
       \/ /\ proc[p].items # {}
          /\ Fault /\ Abort(p)
          /\ UNCHANGED <<closing, listVars>>
    /\ UNCHANGED <<configVars, manager, built, taskVars, reloads, overlapped>>

(* ActionManager's close returns (CloseReturns).                           *)
Closed(p) ==
    /\ At(p, "closing")
    /\ Become(p, IF p = Stopper THEN Over ELSE Idle)
    /\ UNCHANGED <<configVars, managerVars, taskVars, listVars, reloads, faults,
                   overlapped, aborted>>
-----------------------------------------------------------------------------
(* shutdown, once the API and the server have ended: handler.stop.         *)
Stop ==
    /\ proc[Stopper] = Idle
    /\ \A r \in Requests : proc[r] = Idle
    /\ \/ /\ listenerTask # None
          /\ listeners' = Cancel(listeners, listenerTask)
          /\ Become(Stopper, [pc |-> "stopListener", task |-> listenerTask])
       \/ /\ listenerTask = None
          /\ Become(Stopper, [pc |-> "workers"])
          /\ UNCHANGED listeners
    /\ UNCHANGED <<configVars, managerVars, listenerTask, validators, validatorTask,
                   listVars, reloads, faults, overlapped, aborted>>

StopWorkers ==
    /\ At(Stopper, "stopListener")
    /\ listeners[proc[Stopper].task] = "ended"
    /\ listenerTask' = None
    /\ Become(Stopper, [pc |-> "workers"])
    /\ UNCHANGED <<configVars, managerVars, listeners, validators, validatorTask,
                   listVars, reloads, faults, overlapped, aborted>>

(* The workers end at the shutdown event, and so do listeners that nobody  *)
(* cancelled, at their next turn.  Then validator.stop.                    *)
StopValidator ==
    /\ At(Stopper, "workers")
    /\ listeners' = [n \in DOMAIN listeners |-> "ended"]
    /\ \/ /\ validators[validatorTask] = "failed"
          /\ Abort(Stopper)
          /\ UNCHANGED validators
       \/ /\ validators[validatorTask] # "failed"
          /\ validators' = Cancel(validators, validatorTask)
          /\ Become(Stopper, [pc |-> "stopValidator", task |-> validatorTask])
          /\ UNCHANGED aborted
    /\ UNCHANGED <<configVars, managerVars, listenerTask, validatorTask,
                   listVars, reloads, faults, overlapped>>

StopManager ==
    /\ At(Stopper, "stopValidator")
    /\ validators[proc[Stopper].task] = "ended"
    /\ \/ /\ manager # None
          /\ closing' = closing \cup {manager}
          /\ Become(Stopper, [pc |-> "closing", old |-> manager])
       \/ /\ manager = None
          /\ Become(Stopper, Over)
          /\ UNCHANGED closing
    /\ UNCHANGED <<configVars, manager, built, taskVars, listVars, reloads, faults,
                   overlapped, aborted>>

(* A cancelled task ends at its next turn.                                 *)
ListenerEnds ==
    /\ \E n \in DOMAIN listeners :
         listeners[n] = "cancelled" /\ listeners' = [listeners EXCEPT ![n] = "ended"]
    /\ UNCHANGED <<configVars, managerVars, listenerTask, validators, validatorTask,
                   proc, listVars, reloads, faults, overlapped, aborted>>

ValidatorEnds ==
    /\ \E n \in DOMAIN validators :
         validators[n] = "cancelled" /\ validators' = [validators EXCEPT ![n] = "ended"]
    /\ UNCHANGED <<configVars, managerVars, listeners, listenerTask, validatorTask,
                   proc, listVars, reloads, faults, overlapped, aborted>>

(* _auto_reload_loop meets a blacklist that is not UTF-8: the loop is over.*)
BlacklistUnreadable ==
    /\ Fault
    /\ \E n \in DOMAIN validators :
         validators[n] = "running" /\ validators' = [validators EXCEPT ![n] = "failed"]
    /\ UNCHANGED <<configVars, managerVars, listeners, listenerTask, validatorTask,
                   proc, listVars, reloads, overlapped, aborted>>

Ask(r) == Reload(r) \/ \E c \in Contents : Save(r, c) \/ SaveFails(r, c)
Step(p) == \/ ListenerStopped(p) \/ ScriptsLoaded(p) \/ ValidatorStopped(p)
           \/ Delete(p) \/ Add(p) \/ Closed(p)
Halt == StopWorkers \/ StopValidator \/ StopManager

Next ==
    \/ \E r \in Requests : Ask(r)
    \/ \E c \in Contents \cup {Broken} : Edit(c)
    \/ \E h \in Hangups : Hangup(h)
    \/ \E p \in Procs : Step(p)
    \/ Stop \/ Halt
    \/ ListenerEnds \/ ValidatorEnds \/ BlacklistUnreadable

Spec == Init /\ [][Next]_vars

(* The loop resumes every coroutine whose await is over, and a cancelled   *)
(* task at its next turn.                                                  *)
Fairness ==
    /\ \A p \in Procs : WF_vars(Step(p))
    /\ WF_vars(Halt) /\ WF_vars(ListenerEnds) /\ WF_vars(ValidatorEnds)

FairSpec == Spec /\ Fairness
-----------------------------------------------------------------------------
(* Every variable stays in its type.                                       *)
States ==
    {Idle, Over}
      \cup [pc : {"stopListener", "stopValidator"}, config : Contents, old : Nat, task : Nat]
      \cup [pc : {"scripts"}, config : Contents, old : Nat]
      \cup [pc : {"delete", "add"}, old : Nat, items : SUBSET Domains]
      \cup [pc : {"closing"}, old : Nat]
      \cup [pc : {"workers"}]
      \cup [pc : {"stopListener", "stopValidator"}, task : Nat]

TypeOK ==
    /\ file \in Contents \cup {Broken} /\ memory \in Contents
    /\ edited \in BOOLEAN /\ unstored \in BOOLEAN
    /\ using \in [Parts -> Contents]
    /\ built \in Nat /\ manager \in 0 .. built /\ closing \subseteq 1 .. built
    /\ listeners \in Seq({"running", "cancelled", "ended"})
    /\ listenerTask \in 0 .. Len(listeners)
    /\ validators \in Seq({"running", "cancelled", "ended", "failed"})
    /\ validatorTask \in 1 .. Len(validators)
    /\ proc \in [Procs -> States]
    /\ list \subseteq Domains /\ localDomains \subseteq Domains
    /\ reloads \in Nat /\ faults \in Nat
    /\ overlapped \in BOOLEAN /\ aborted \in BOOLEAN

(* However reloads overlap, the action manager in use is never closed      *)
(* before the shutdown, so that no lock or unlock is refused; every other  *)
(* manager is closed, or a reload under way is to close it, unless a reload*)
(* failed; and the shutdown closes the last one, unless it failed itself.  *)
ManagersAccounted ==
    /\ manager # None /\ manager \in closing => Stopping
    /\ \A m \in 1 .. built :
         m = manager \/ m \in closing \/ aborted
           \/ \E r \in Requests : Busy(r) /\ proc[r].old = m
    /\ proc[Stopper] = Over => manager = None \/ manager \in closing \/ aborted

(* While there is an action manager a listener polls the schedule, except  *)
(* while a reload waits for the old one to end: overlapping reloads may    *)
(* leave one listener too many, but never none.                            *)
ListenerRuns ==
    manager # None /\ ~Stopping /\ (\A r \in Requests : ~At(r, "stopListener"))
      => \E n \in DOMAIN listeners : listeners[n] = "running"

(* Once all reloads are over the process knows every local domain of its   *)
(* configuration, however they overlapped: each begins with an empty set,  *)
(* and the last one to begin reads the configuration that is in force.     *)
DomainsComplete ==
    Quiet /\ ~aborted => using.handler.domains \subseteq localDomains

(* Reloads that neither overlapped nor failed leave one configuration in   *)
(* force in the parts a reload reaches, the one the API reports and, unless*)
(* it was edited since, the file holds; and one task of each kind.  A save *)
(* whose last step failed makes the API report a configuration that is     *)
(* neither in force nor on disk.  And a reload is never applied in full    *)
(* (PRIORITIZED_AUDIT.md:52): the other parts all keep the configuration of*)
(* the start, whatever is saved and reported.                              *)
Running(tasks) == {n \in DOMAIN tasks : tasks[n] = "running"}

Settled ==
    Quiet /\ ~Stopping /\ ~overlapped /\ ~aborted =>
        /\ \A p \in Reloaded : using[p] = using.handler
        /\ \A p, q \in Kept : using[p] = using[q]
        /\ using.handler = memory \/ unstored
        /\ memory = file \/ edited \/ unstored
        /\ list = using.handler.domains /\ localDomains = list
        /\ Running(listeners) = (IF using.handler.actions THEN {listenerTask} ELSE {})
        /\ Running(validators) \subseteq {validatorTask}

(* No reload and no shutdown waits for ever, although they wait for tasks  *)
(* that others cancel, replace and forget.                                 *)
NobodyWaits == \A p \in Procs : Busy(p) ~> ~Busy(p)
=============================================================================
