-------------------------- MODULE ConfigReloadProofs --------------------------
(***************************************************************************)
(* What ConfigReload guarantees for any requests, SIGHUP tasks, domains,   *)
(* configurations and numbers of reloads and faults: its types, and that   *)
(* overlapping reloads keep track of action managers, of the listener and  *)
(* of the local domains; that reloads that do not overlap leave one        *)
(* configuration in force; and that no coroutine waits for a task that     *)
(* nobody cancelled.  Everything follows from ReloadAssumption.            *)
(***************************************************************************)
EXTENDS ConfigReload, TLAPS

(* What each kind of coroutine may be doing.                               *)
RequestStates ==
    {Idle}
      \cup [pc : {"stopListener", "stopValidator"}, config : Contents, old : Nat, task : Nat]
      \cup [pc : {"scripts"}, config : Contents, old : Nat]
      \cup [pc : {"delete", "add"}, old : Nat, items : SUBSET Domains]
      \cup [pc : {"closing"}, old : Nat]
HangupStates == {Idle} \cup [pc : {"delete", "add"}, old : {None}, items : SUBSET Domains]
StopperStates ==
    {Idle, Over} \cup [pc : {"workers"}] \cup [pc : {"closing"}, old : Nat]
      \cup [pc : {"stopListener", "stopValidator"}, task : Nat]

(* The parts of the invariant on types.                                    *)
StoreType ==
    /\ file \in Contents \cup {Broken} /\ memory \in Contents
    /\ edited \in BOOLEAN /\ unstored \in BOOLEAN
UsingType == using \in [Parts -> Contents]
ManagerType == built \in Nat /\ manager \in 0 .. built /\ closing \subseteq 1 .. built
ListenerType ==
    /\ listeners \in Seq({"running", "cancelled", "ended"})
    /\ listenerTask \in 0 .. Len(listeners)
ValidatorType ==
    /\ validators \in Seq({"running", "cancelled", "ended", "failed"})
    /\ validatorTask \in 1 .. Len(validators)
ListType == list \subseteq Domains /\ localDomains \subseteq Domains
CountType ==
    /\ reloads \in Nat /\ faults \in Nat
    /\ overlapped \in BOOLEAN /\ aborted \in BOOLEAN
ProcType ==
    /\ DOMAIN proc = Procs /\ proc = [p \in Procs |-> proc[p]]
    /\ \A r \in Requests : proc[r] \in RequestStates
    /\ \A h \in Hangups : proc[h] \in HangupStates
    /\ proc[Stopper] \in StopperStates
Types == /\ StoreType /\ UsingType /\ ManagerType /\ ListenerType /\ ValidatorType
         /\ ListType /\ CountType /\ ProcType

LEMMA TypesImplyTypeOK == Types => TypeOK
<1> SUFFICES ASSUME Types PROVE TypeOK
  OBVIOUS
<1>1. RequestStates \subseteq States /\ StopperStates \subseteq States
  BY DEF RequestStates, StopperStates, States
<1>2. HangupStates \subseteq States
  BY DEF HangupStates, States, None
<1>3. proc \in [Procs -> States]
  BY <1>1, <1>2 DEF Types, ProcType, Procs
<1> QED
  BY <1>3 DEF Types, TypeOK, StoreType, UsingType, ManagerType, ListenerType,
              ValidatorType, ListType, CountType

(* Once the shutdown has begun no request is under way.                    *)
StopperAlone == Stopping => \A r \in Requests : proc[r] = Idle

(* An action manager that is not in use is closed, or a reload under way   *)
(* remembers it; what a reload says it is closing is.                      *)
Remembered(m) == \E r \in Requests : Busy(r) /\ proc[r].old = m
OldOnes ==
    /\ \A r \in Requests : Busy(r) => proc[r].old \in 0 .. built
    /\ \A r \in Requests : At(r, "closing") => proc[r].old \in closing
    /\ \A m \in 1 .. built : m = manager \/ m \in closing \/ aborted \/ Remembered(m)
InUse == manager # None /\ manager \in closing => Stopping
LastOne ==
    At(Stopper, "closing") \/ proc[Stopper] = Over =>
        manager = None \/ manager \in closing \/ aborted

(* Unless an exception ended a reload, the local domains are known or some *)
(* coroutine is going to add those of the configuration in force.          *)
DomainsComing ==
    \/ aborted
    \/ using.handler.domains \subseteq localDomains
    \/ \E r \in Requests : proc[r].pc \in {"stopListener", "scripts", "stopValidator"}
    \/ \E p \in Requests \cup Hangups :
         proc[p].pc \in {"delete", "add"} /\ proc[p].items = using.handler.domains

(* The inductive invariant.                                                *)
IInv == /\ Types /\ StopperAlone /\ OldOnes /\ InUse /\ LastOne
        /\ ListenerRuns /\ DomainsComing
-----------------------------------------------------------------------------
LEMMA InitEstablishes == Init => IInv
<1> SUFFICES ASSUME Init PROVE IInv
  OBVIOUS
<1>1. file \in [actions : BOOLEAN, domains : SUBSET Domains] /\ file \in Contents
  BY ReloadAssumption DEF Init
<1>2. proc = [p \in Procs |-> Idle]
  BY DEF Init
<1>3. \A p \in Procs : proc[p] = Idle /\ ~Busy(p)
  BY <1>2 DEF Busy
<1>4. ProcType
  BY <1>2, <1>3 DEF ProcType, Procs, RequestStates, HangupStates, StopperStates
<1>5. StoreType /\ UsingType /\ ListType /\ CountType
  BY <1>1 DEF Init, StoreType, UsingType, ListType, CountType
<1>6. ManagerType
  BY DEF Init, ManagerType, None
<1>7. ListenerType
  <2>1. listeners = <<"running">> \/ listeners = << >>
    BY DEF Init
  <2>2. listenerTask = Len(listeners)
    BY DEF Init
  <2>3. CASE listeners = <<"running">>
    BY <2>2, <2>3 DEF ListenerType
  <2>4. CASE listeners = << >>
    BY <2>2, <2>4 DEF ListenerType
  <2> QED
    BY <2>1, <2>3, <2>4
<1>8. ValidatorType
  BY DEF Init, ValidatorType
<1>9. StopperAlone /\ InUse
  BY <1>3 DEF Init, StopperAlone, InUse, Procs
<1>10. OldOnes
  BY <1>3 DEF Init, OldOnes, At, Procs, Idle, None
<1>11. LastOne
  BY <1>3 DEF LastOne, At, Procs, Idle, Over
<1>12. ListenerRuns
  BY DEF Init, ListenerRuns, None
<1>13. DomainsComing
  BY DEF Init, DomainsComing, Parts, Reloaded
<1> QED
  BY <1>4, <1>5, <1>6, <1>7, <1>8, <1>9, <1>10, <1>11, <1>12, <1>13 DEF IInv, Types

(* One coroutine moves on, the others stay where they are.                 *)
LEMMA Becoming ==
    ASSUME ProcType, NEW p \in Procs, NEW state, Become(p, state),
           p \in Requests => state \in RequestStates,
           p \in Hangups => state \in HangupStates,
           p = Stopper => state \in StopperStates
    PROVE  /\ ProcType' /\ proc'[p] = state
           /\ \A q \in Procs : q # p => proc'[q] = proc[q]
<1>1. proc'[p] = state /\ DOMAIN proc' = Procs
        /\ \A q \in Procs : q # p => proc'[q] = proc[q]
  BY DEF ProcType, Become
<1>2. proc' = [q \in Procs |-> proc'[q]]
  BY DEF ProcType, Become
<1> QED
  BY <1>1, <1>2 DEF ProcType, Procs

LEMMA Kinds ==
    ASSUME ProcType
    PROVE  /\ Stopper \in Procs /\ Requests \subseteq Procs /\ Hangups \subseteq Procs
           /\ Requests \cap Hangups = {} /\ Stopper \notin Requests \cup Hangups
           /\ \A p \in Procs : proc[p].pc = "idle" <=> proc[p] = Idle
           /\ \A p \in Procs : proc[p].pc = "over" <=> proc[p] = Over
           /\ \A p \in Requests \cup Hangups : proc[p] # Over
BY ReloadAssumption
DEF Procs, ProcType, RequestStates, HangupStates, StopperStates, Idle, Over

(* Cancelling, ending and starting tasks.                                  *)
LEMMA CancelType ==
    ASSUME NEW S, "cancelled" \in S, NEW tasks \in Seq(S), NEW n \in 1 .. Len(tasks)
    PROVE  /\ Cancel(tasks, n) \in Seq(S) /\ Len(Cancel(tasks, n)) = Len(tasks)
           /\ Cancel(tasks, n)[n] # "running"
           /\ \A i \in 1 .. Len(tasks) : i # n => Cancel(tasks, n)[i] = tasks[i]
BY DEF Cancel

LEMMA StartType ==
    ASSUME NEW S, NEW x \in S, NEW tasks \in Seq(S)
    PROVE  /\ Append(tasks, x) \in Seq(S) /\ Len(Append(tasks, x)) = Len(tasks) + 1
           /\ Append(tasks, x)[Len(tasks) + 1] = x
           /\ \A i \in 1 .. Len(tasks) : Append(tasks, x)[i] = tasks[i]
OBVIOUS

(* What a reload does once the old listener is gone.                       *)
LEMMA RestartFacts ==
    ASSUME ListenerType, UsingType, NEW tasks \in Seq({"running", "cancelled", "ended"}),
           NEW m \in Nat, NEW c \in Contents, NEW u \in [Parts -> Contents],
           Restart(c, u, tasks, m)
    PROVE  /\ ListenerType' /\ UsingType' /\ using'.handler = u.handler
           /\ m # None => \E n \in DOMAIN listeners' : listeners'[n] = "running"
<1>0. UsingType' /\ using'.handler = u.handler
  <2>1. using' = [u EXCEPT !.matcher = c, !.limiter = c]
    BY DEF Restart
  <2>2. "handler" \in Parts /\ "matcher" \in Parts /\ "limiter" \in Parts
    BY DEF Parts, Reloaded
  <2> QED
    BY <2>1, <2>2 DEF UsingType
<1>1. CASE m # None
  <2>1. listeners' = Append(tasks, "running") /\ listenerTask' = Len(listeners')
    BY <1>1 DEF Restart
  <2>2. Len(tasks) + 1 \in DOMAIN listeners' /\ listeners'[Len(tasks) + 1] = "running"
          /\ ListenerType'
    BY <2>1 DEF ListenerType
  <2> QED
    BY <1>0, <2>2
<1>2. CASE m = None
  <2>1. listeners' = tasks /\ listenerTask' = None
    BY <1>2 DEF Restart
  <2> QED
    BY <1>0, <1>2, <2>1 DEF ListenerType, None
<1> QED
  BY <1>1, <1>2
-----------------------------------------------------------------------------
(* A reload begins.                                                        *)
LEMMA ApplyStep ==
    ASSUME IInv, NEW r \in Requests, NEW c \in Contents, Apply(r, c), StoreType'
    PROVE  IInv'
<1> USE DEF IInv, Types
<1>0. PICK new : new = IF c.actions THEN built + 1 ELSE None
  OBVIOUS
<1>1. /\ proc[r] = Idle /\ ~Stopping
      /\ reloads' = reloads + 1 /\ overlapped' = (overlapped \/ ~Quiet)
      /\ UNCHANGED <<closing, validators, validatorTask, list, localDomains, faults, aborted>>
  BY DEF Apply, Begun, listVars
<1>2. /\ manager' = new /\ built' \in {built, built + 1} /\ new \in 0 .. built'
      /\ new # None => new = built + 1 /\ built' = built + 1
      /\ new = None => built' = built
  BY <1>0 DEF Apply, ManagerType, None
<1> DEFINE u == [using EXCEPT !.handler = c]
<1>3. u \in [Parts -> Contents] /\ u.handler = c
  BY DEF UsingType, Parts, Reloaded
<1>4. /\ ListenerType' /\ UsingType' /\ using'.handler = c
      /\ \/ \E t \in Nat : Become(r, [pc |-> "stopListener", config |-> c, old |-> manager,
                                    task |-> t])
         \/ /\ Become(r, [pc |-> "scripts", config |-> c, old |-> manager])
            /\ new # None => \E n \in DOMAIN listeners' : listeners'[n] = "running"
  <2>1. CASE listenerTask # None
    <3>1. /\ using' = u /\ listeners' = Cancel(listeners, listenerTask)
          /\ Become(r, [pc |-> "stopListener", config |-> c, old |-> manager,
                        task |-> listenerTask])
          /\ listenerTask' = listenerTask
      BY <2>1 DEF Apply
    <3> HIDE DEF u
    <3>2. ListenerType' /\ listenerTask \in Nat
      BY <2>1, <3>1, CancelType DEF ListenerType, None
    <3> QED
      BY <1>3, <3>1, <3>2 DEF UsingType
  <2>2. CASE listenerTask = None
    <3>1. Restart(c, u, listeners, new)
            /\ Become(r, [pc |-> "scripts", config |-> c, old |-> manager])
      BY <1>0, <2>2 DEF Apply
    <3> HIDE DEF u
    <3>2. new \in Nat
      BY <1>0 DEF ManagerType, None
    <3> QED
      BY <1>3, <3>1, <3>2, RestartFacts DEF ListenerType
  <2> QED
    BY <2>1, <2>2
<1>5. PICK state \in RequestStates : Become(r, state) /\ state.old = manager
        /\ state.pc \in {"stopListener", "scripts"}
        /\ (state.pc = "scripts" /\ new # None =>
               \E n \in DOMAIN listeners' : listeners'[n] = "running")
  <2>1. manager \in Nat
    BY DEF ManagerType
  <2>2. ASSUME NEW t \in Nat,
               Become(r, [pc |-> "stopListener", config |-> c, old |-> manager, task |-> t])
        PROVE  \E state \in RequestStates : Become(r, state) /\ state.old = manager
                 /\ state.pc = "stopListener"
    <3> DEFINE x == [pc |-> "stopListener", config |-> c, old |-> manager, task |-> t]
    <3>1. x \in RequestStates /\ x.old = manager /\ x.pc = "stopListener"
      BY <2>1 DEF RequestStates
    <3> QED
      BY <2>2, <3>1
  <2>3. ASSUME Become(r, [pc |-> "scripts", config |-> c, old |-> manager])
        PROVE  \E state \in RequestStates : Become(r, state) /\ state.old = manager
                 /\ state.pc = "scripts"
    <3> DEFINE x == [pc |-> "scripts", config |-> c, old |-> manager]
    <3>1. x \in RequestStates /\ x.old = manager /\ x.pc = "scripts"
      BY <2>1 DEF RequestStates
    <3> QED
      BY <2>3, <3>1
  <2> QED
    BY <1>4, <2>2, <2>3
<1>6. /\ ProcType' /\ proc'[r] = state
      /\ \A q \in Procs : q # r => proc'[q] = proc[q]
  BY <1>5, Becoming, Kinds
<1>7. proc'[Stopper] = Idle
  BY <1>1, <1>6, Kinds DEF Stopping
<1>8. Types'
  <2>1. ManagerType'
    BY <1>1, <1>2 DEF ManagerType
  <2>2. ValidatorType' /\ ListType'
    BY <1>1 DEF ValidatorType, ListType
  <2>3. CountType'
    BY <1>1 DEF CountType
  <2> QED
    BY <1>4, <1>6, <2>1, <2>2, <2>3
<1>9. StopperAlone' /\ LastOne'
  BY <1>7 DEF StopperAlone, LastOne, Stopping, At, Idle, Over
<1>10. OldOnes'
  <2>1. Busy(r)' /\ proc'[r].old = manager /\ ~At(r, "closing")'
    BY <1>5, <1>6 DEF Busy, At, Idle, Over
  <2>2. \A q \in Requests : q # r => (Busy(q)' <=> Busy(q)) /\ proc'[q] = proc[q]
    BY <1>6, Kinds DEF Busy
  <2>3. manager \in 0 .. built' /\ \A n \in 0 .. built : n \in 0 .. built'
    BY <1>2 DEF ManagerType
  <2>4. \A q \in Requests : Busy(q)' => proc'[q].old \in 0 .. built'
    BY <2>1, <2>2, <2>3 DEF OldOnes
  <2>5. \A q \in Requests : At(q, "closing")' => proc'[q].old \in closing'
    BY <1>1, <2>1, <2>2 DEF OldOnes, At
  <2>6. ASSUME NEW m \in 1 .. built'
        PROVE  m = manager' \/ m \in closing' \/ aborted' \/ Remembered(m)'
    <3>1. CASE m \in 1 .. built
      <4>1. CASE Remembered(m)
        <5>1. PICK q \in Requests : Busy(q) /\ proc[q].old = m
          BY <4>1 DEF Remembered
        <5>2. q # r
          BY <1>1, <5>1 DEF Busy
        <5> QED
          BY <5>1, <5>2, <2>2 DEF Remembered
      <4>2. CASE m = manager
        BY <2>1, <4>2 DEF Remembered
      <4> QED
        BY <1>1, <3>1, <4>1, <4>2 DEF OldOnes
    <3>2. CASE m \notin 1 .. built
      BY <1>2, <3>2 DEF ManagerType, None
    <3> QED
      BY <3>1, <3>2
  <2> QED
    BY <2>4, <2>5, <2>6 DEF OldOnes
<1>11. InUse'
  BY <1>1, <1>2 DEF InUse, ManagerType, None
<1>12. ListenerRuns'
  BY <1>2, <1>5, <1>6 DEF ListenerRuns, At
<1>13. DomainsComing'
  BY <1>5, <1>6 DEF DomainsComing
<1> QED
  BY <1>8, <1>9, <1>10, <1>11, <1>12, <1>13

(* A request or a SIGHUP task that is under way moves on: it keeps the     *)
(* manager it remembers until that one is in use, closed or given up.      *)
LEMMA MoveKeeps ==
    ASSUME ProcType, StopperAlone, OldOnes, InUse, LastOne,
           NEW p \in Requests \cup Hangups, NEW state, Become(p, state),
           p \in Requests => state \in RequestStates,
           p \in Hangups => state \in HangupStates,
           Busy(p), UNCHANGED <<manager, built>>,
           closing \subseteq closing', aborted => aborted',
           p \in Requests =>
             IF state = Idle
               THEN aborted' \/ proc[p].old \in {None, manager} \/ proc[p].old \in closing'
               ELSE state.old = proc[p].old /\ (state.pc = "closing" => state.old \in closing'),
           manager # None /\ manager \in closing' => Stopping
    PROVE  /\ ProcType' /\ StopperAlone' /\ OldOnes' /\ InUse' /\ LastOne'
           /\ (Stopping' <=> Stopping)
           /\ proc'[p] = state /\ \A q \in Procs : q # p => proc'[q] = proc[q]
<1>1. /\ ProcType' /\ proc'[p] = state
      /\ \A q \in Procs : q # p => proc'[q] = proc[q]
  BY Becoming, Kinds
<1>2. proc'[Stopper] = proc[Stopper] /\ p \in Procs /\ p # Stopper
  BY <1>1, Kinds
<1>3. (Stopping' <=> Stopping) /\ LastOne'
  BY <1>2 DEF Stopping, LastOne, At
<1>4. InUse'
  BY <1>3 DEF InUse
<1>5. StopperAlone'
  <2> SUFFICES ASSUME Stopping, NEW r \in Requests PROVE proc'[r] = Idle
    BY <1>3 DEF StopperAlone
  <2>1. proc[r] = Idle
    BY DEF StopperAlone
  <2>2. p # r
    BY <2>1 DEF Busy
  <2> QED
    BY <1>1, <2>1, <2>2, Kinds
<1>6. \A q \in Requests : q # p => (Busy(q)' <=> Busy(q)) /\ proc'[q] = proc[q]
  BY <1>1, Kinds DEF Busy
<1>7. Busy(p)' => state # Idle
  BY <1>1 DEF Busy
<1>8. \A q \in Requests : Busy(q)' => proc'[q].old \in 0 .. built'
  BY <1>1, <1>6, <1>7 DEF OldOnes
<1>9. \A q \in Requests : At(q, "closing")' => proc'[q].old \in closing'
  <2>1. Idle.pc # "closing"
    BY DEF Idle
  <2> QED
    BY <1>1, <1>6, <2>1 DEF OldOnes, At
<1>10. ASSUME NEW m \in 1 .. built
       PROVE  m = manager \/ m \in closing' \/ aborted' \/ Remembered(m)'
  <2>1. CASE Remembered(m)
    <3>1. PICK q \in Requests : Busy(q) /\ proc[q].old = m
      BY <2>1 DEF Remembered
    <3>2. CASE q # p
      BY <1>6, <3>1, <3>2 DEF Remembered
    <3>3. CASE q = p /\ state = Idle
      BY <3>1, <3>3 DEF None
    <3>4. CASE q = p /\ state # Idle
      <4>1. state # Over
        <5>1. state \in RequestStates
          BY <3>1, <3>4
        <5>2. state.pc # "over"
          BY <5>1 DEF RequestStates, Idle
        <5> QED
          BY <5>2 DEF Over
      <4>2. Busy(p)' /\ proc'[p].old = m
        BY <1>1, <3>1, <3>4, <4>1 DEF Busy
      <4> QED
        BY <3>4, <4>2 DEF Remembered
    <3> QED
      BY <3>2, <3>3, <3>4
  <2> QED
    BY <2>1 DEF OldOnes
<1>11. OldOnes'
  BY <1>8, <1>9, <1>10 DEF OldOnes
<1> QED
  BY <1>1, <1>3, <1>4, <1>5, <1>11

(* The same where nobody moves.                                            *)
LEMMA RestKeeps ==
    ASSUME ProcType, StopperAlone, OldOnes, InUse, LastOne,
           UNCHANGED <<proc, manager, built, closing, aborted>>
    PROVE  /\ ProcType' /\ StopperAlone' /\ OldOnes' /\ InUse' /\ LastOne'
           /\ (Stopping' <=> Stopping)
<1>1. (\A q \in Procs : Busy(q)' <=> Busy(q)) /\ (Stopping' <=> Stopping)
  BY DEF Busy, Stopping
<1>2. ProcType' /\ StopperAlone' /\ InUse' /\ LastOne'
  BY <1>1 DEF ProcType, StopperAlone, InUse, LastOne, At
<1>3. OldOnes'
  <2>1. \A r \in Requests : r \in Procs
    BY DEF Procs
  <2> QED
    BY <1>1, <2>1 DEF OldOnes, Remembered, At
<1> QED
  BY <1>1, <1>2, <1>3

(* Saves that fail, edits of the file, tasks that end or die.              *)
LEMMA RestStep ==
    ASSUME IInv,
           \/ \E r \in Requests, c \in Contents : SaveFails(r, c)
           \/ \E c \in Contents \cup {Broken} : Edit(c)
           \/ ListenerEnds \/ ValidatorEnds \/ BlacklistUnreadable
           \/ UNCHANGED vars
    PROVE  IInv'
<1> USE DEF IInv, Types
<1>1. UNCHANGED <<proc, manager, built, closing, aborted, using, list, localDomains>>
  BY DEF SaveFails, Edit, ListenerEnds, ValidatorEnds, BlacklistUnreadable, vars, configVars,
         managerVars, listVars
<1>2. /\ ProcType' /\ StopperAlone' /\ OldOnes' /\ InUse' /\ LastOne'
      /\ (Stopping' <=> Stopping)
  BY <1>1, RestKeeps
<1>3. ManagerType' /\ UsingType' /\ ListType' /\ DomainsComing'
  BY <1>1 DEF ManagerType, UsingType, ListType, DomainsComing
<1>4. StoreType'
  BY DEF SaveFails, Edit, ListenerEnds, ValidatorEnds, BlacklistUnreadable, vars, configVars,
         storeVars, StoreType
<1>5. CountType'
  BY DEF SaveFails, Edit, ListenerEnds, ValidatorEnds, BlacklistUnreadable, vars, Fault,
         CountType
<1>6. /\ Len(listeners') = Len(listeners) /\ listenerTask' = listenerTask
      /\ listeners' \in Seq({"running", "cancelled", "ended"})
      /\ \A n \in 1 .. Len(listeners) : listeners[n] = "running" => listeners'[n] = "running"
  <2>1. CASE ListenerEnds
    BY <2>1 DEF ListenerEnds, ListenerType
  <2>2. CASE UNCHANGED <<listeners, listenerTask>>
    BY <2>2 DEF ListenerType
  <2> QED
    BY <2>1, <2>2
    DEF SaveFails, Edit, ValidatorEnds, BlacklistUnreadable, vars, taskVars
<1>7. ListenerType'
  BY <1>6 DEF ListenerType
<1>8. ListenerRuns'
  <2>1. \A r \in Requests : At(r, "stopListener")' <=> At(r, "stopListener")
    BY <1>1 DEF At
  <2>2. DOMAIN listeners = 1 .. Len(listeners) /\ DOMAIN listeners' = 1 .. Len(listeners)
    BY <1>6 DEF ListenerType
  <2> QED
    BY <1>1, <1>2, <1>6, <2>1, <2>2 DEF ListenerRuns
<1>9. ValidatorType'
  <2>1. CASE ValidatorEnds
    BY <2>1 DEF ValidatorEnds, ValidatorType
  <2>2. CASE BlacklistUnreadable
    BY <2>2 DEF BlacklistUnreadable, ValidatorType
  <2>3. CASE UNCHANGED <<validators, validatorTask>>
    BY <2>3 DEF ValidatorType
  <2> QED
    BY <2>1, <2>2, <2>3 DEF SaveFails, Edit, ListenerEnds, vars, taskVars
<1> QED
  BY <1>2, <1>3, <1>4, <1>5, <1>7, <1>8, <1>9
-----------------------------------------------------------------------------
(* The steps of a reload.                                                  *)
LEMMA ListenerStoppedStep ==
    ASSUME IInv, NEW r \in Procs, ListenerStopped(r)
    PROVE  IInv'
<1> USE DEF IInv, Types
<1>1. r \in Requests
  <2>1. r \in Requests \cup Hangups
    BY DEF ListenerStopped, Procs
  <2>2. r \notin Hangups
    BY DEF ListenerStopped, At, ProcType, HangupStates, Idle
  <2> QED
    BY <2>1, <2>2
<1>2. /\ proc[r].pc = "stopListener" /\ proc[r].config \in Contents /\ proc[r].old \in Nat
      /\ Busy(r)
  BY <1>1 DEF ListenerStopped, At, ProcType, RequestStates, Busy, Idle, Over
<1>3. PICK state : state = [pc |-> "scripts", config |-> proc[r].config, old |-> proc[r].old]
  OBVIOUS
<1>4. state \in RequestStates /\ state # Idle /\ state.old = proc[r].old /\ state.pc = "scripts"
  BY <1>2, <1>3 DEF RequestStates, Idle
<1>5. /\ Become(r, state) /\ Restart(proc[r].config, using, listeners, manager)
      /\ UNCHANGED <<storeVars, managerVars, validators, validatorTask, list, localDomains,
                     reloads, faults, overlapped, aborted>>
  BY <1>3 DEF ListenerStopped, listVars
<1>6. r \notin Hangups
  BY <1>1, ReloadAssumption
<1>7. /\ ProcType' /\ StopperAlone' /\ OldOnes' /\ InUse' /\ LastOne'
      /\ proc'[r] = state /\ \A q \in Procs : q # r => proc'[q] = proc[q]
  BY <1>1, <1>2, <1>4, <1>5, <1>6, MoveKeeps DEF managerVars, InUse
<1>8. /\ ListenerType' /\ UsingType' /\ using'.handler = using.handler
      /\ manager # None => \E n \in DOMAIN listeners' : listeners'[n] = "running"
  BY <1>2, <1>5, RestartFacts DEF ListenerType, UsingType, ManagerType
<1>9. ListenerRuns'
  BY <1>5, <1>8 DEF ListenerRuns, managerVars
<1>10. DomainsComing'
  BY <1>1, <1>4, <1>7 DEF DomainsComing
<1>11. StoreType' /\ ManagerType' /\ ValidatorType' /\ ListType' /\ CountType'
  BY <1>5 DEF storeVars, managerVars, StoreType, ManagerType, ValidatorType, ListType, CountType
<1> QED
  BY <1>7, <1>8, <1>9, <1>10, <1>11

LEMMA ScriptsLoadedStep ==
    ASSUME IInv, NEW r \in Procs, ScriptsLoaded(r)
    PROVE  IInv'
<1> USE DEF IInv, Types
<1>1. r \in Requests /\ r # Stopper /\ r \notin Hangups
  <2>1. r \notin Hangups /\ r # Stopper
    BY DEF ScriptsLoaded, At, ProcType, HangupStates, StopperStates, Idle, Over
  <2> QED
    BY <2>1 DEF Procs
<1>2. /\ proc[r].pc = "scripts" /\ proc[r].config \in Contents /\ proc[r].old \in Nat
      /\ Busy(r)
  BY <1>1 DEF ScriptsLoaded, At, ProcType, RequestStates, Busy, Idle, Over
<1>3. PICK state : state = [pc |-> "stopValidator", config |-> proc[r].config,
                           old |-> proc[r].old, task |-> validatorTask]
  OBVIOUS
<1>4. state \in RequestStates /\ state # Idle /\ state.old = proc[r].old
        /\ state.pc = "stopValidator"
  BY <1>2, <1>3 DEF RequestStates, Idle, ValidatorType
<1>5. /\ UNCHANGED <<storeVars, managerVars, listeners, listenerTask, validatorTask,
                     list, localDomains, reloads, faults, overlapped>>
      /\ using' = [using EXCEPT !.validator = proc[r].config]
      /\ \/ Become(r, Idle) /\ aborted' = TRUE /\ UNCHANGED validators
         \/ /\ Become(r, state) /\ aborted' = aborted
            /\ validators' = Cancel(validators, validatorTask)
  BY <1>1, <1>3 DEF ScriptsLoaded, listVars, Abort
<1>6. PICK next \in {Idle, state} :
        /\ Become(r, next) /\ (next = Idle => aborted')
        /\ aborted => aborted'
  <2>1. CASE Become(r, Idle) /\ aborted' = TRUE
    BY <2>1, Zenon
  <2>2. CASE Become(r, state) /\ aborted' = aborted
    BY <2>2, <1>4, Zenon
  <2> QED
    BY <1>5, <2>1, <2>2
<1>7. next \in RequestStates /\ next.pc # "stopListener"
        /\ (next # Idle => next.pc = "stopValidator" /\ next.old = proc[r].old)
  BY <1>4, <1>6 DEF RequestStates, Idle
<1>8. /\ ProcType' /\ StopperAlone' /\ OldOnes' /\ InUse' /\ LastOne'
      /\ (Stopping' <=> Stopping)
      /\ proc'[r] = next /\ \A q \in Procs : q # r => proc'[q] = proc[q]
  BY <1>1, <1>2, <1>5, <1>6, <1>7, MoveKeeps DEF managerVars, InUse
<1>9. UsingType' /\ using'.handler = using.handler
  BY <1>2, <1>5 DEF UsingType, Parts, Reloaded
<1>10. ValidatorType'
  BY <1>5, CancelType DEF ValidatorType
<1>11. ListenerRuns'
  <2>1. \A q \in Requests : At(q, "stopListener") => At(q, "stopListener")'
    BY <1>2, <1>8, Kinds DEF At
  <2> QED
    BY <1>5, <1>8, <2>1 DEF ListenerRuns, managerVars
<1>12. DomainsComing'
  BY <1>1, <1>6, <1>7, <1>8 DEF DomainsComing
<1>13. StoreType' /\ ManagerType' /\ ListenerType' /\ ListType' /\ CountType'
  BY <1>5, <1>6 DEF storeVars, managerVars, StoreType, ManagerType, ListenerType, ListType, CountType
<1> QED
  BY <1>8, <1>9, <1>10, <1>11, <1>12, <1>13

LEMMA ValidatorStoppedStep ==
    ASSUME IInv, NEW r \in Procs, ValidatorStopped(r)
    PROVE  IInv'
<1> USE DEF IInv, Types
<1>1. r \in Requests /\ r # Stopper /\ r \notin Hangups
  <2>1. r \notin Hangups
    BY DEF ValidatorStopped, At, ProcType, HangupStates, Idle
  <2> QED
    BY <2>1 DEF ValidatorStopped, Procs
<1>2. /\ proc[r].pc = "stopValidator" /\ proc[r].config \in Contents /\ proc[r].old \in Nat
      /\ Busy(r)
  <2>1. proc[r].pc = "stopValidator"
    BY DEF ValidatorStopped, At
  <2> QED
    BY <1>1, <2>1 DEF ProcType, RequestStates, Busy, Idle, Over
<1>3. using.handler \in Contents /\ using.handler.domains \subseteq Domains
  BY ReloadAssumption DEF UsingType, Parts, Reloaded
<1>4. PICK state : state = [pc |-> "delete", old |-> proc[r].old, items |-> using.handler.domains]
  OBVIOUS
<1>5. state \in RequestStates /\ state # Idle /\ state.old = proc[r].old
        /\ state.pc = "delete" /\ state.items = using.handler.domains
  BY <1>2, <1>3, <1>4 DEF RequestStates, Idle
<1>6. /\ UNCHANGED <<storeVars, managerVars, listeners, listenerTask, list, reloads, overlapped>>
      /\ \/ /\ Become(r, Idle) /\ aborted' = TRUE /\ faults' = faults + 1
            /\ UNCHANGED <<using, validators, validatorTask, localDomains>>
         \/ /\ Become(r, state) /\ UNCHANGED <<aborted, faults>> /\ localDomains' = {}
            /\ using' = [using EXCEPT !.notifier = proc[r].config, !.server = proc[r].config]
            /\ validators' = Append(validators, "running")
            /\ validatorTask' = Len(validators')
  BY <1>1, <1>4 DEF ValidatorStopped, Abort, Fault
<1>7. PICK next \in {Idle, state} :
        /\ Become(r, next) /\ (next = Idle => aborted')
        /\ aborted => aborted'
  <2>1. CASE Become(r, Idle) /\ aborted' = TRUE
    BY <2>1, Zenon
  <2>2. CASE Become(r, state) /\ aborted' = aborted
    BY <2>2, <1>5, Zenon
  <2> QED
    BY <1>6, <2>1, <2>2
<1>8. next \in RequestStates /\ next.pc # "stopListener"
        /\ (next # Idle => next = state)
  BY <1>5, <1>7 DEF RequestStates, Idle
<1>9. /\ ProcType' /\ StopperAlone' /\ OldOnes' /\ InUse' /\ LastOne'
      /\ (Stopping' <=> Stopping)
      /\ proc'[r] = next /\ \A q \in Procs : q # r => proc'[q] = proc[q]
  BY <1>1, <1>2, <1>5, <1>6, <1>7, <1>8, MoveKeeps DEF managerVars, InUse
<1>10. UsingType' /\ using'.handler = using.handler
  BY <1>2, <1>6 DEF UsingType, Parts, Reloaded
<1>11. ValidatorType'
  <2>1. CASE UNCHANGED <<validators, validatorTask>>
    BY <2>1 DEF ValidatorType
  <2>2. CASE validators' = Append(validators, "running") /\ validatorTask' = Len(validators')
    BY <2>2, StartType DEF ValidatorType
  <2> QED
    BY <1>6, <2>1, <2>2
<1>12. ListenerRuns'
  <2>1. \A q \in Requests : At(q, "stopListener") => At(q, "stopListener")'
    BY <1>2, <1>9, Kinds DEF At
  <2> QED
    BY <1>6, <1>9, <2>1 DEF ListenerRuns, managerVars
<1>13. DomainsComing'
  <2>1. CASE next = Idle
    BY <1>7, <2>1 DEF DomainsComing
  <2>2. CASE next # Idle
    BY <1>1, <1>5, <1>8, <1>9, <1>10, <2>2 DEF DomainsComing
  <2> QED
    BY <2>1, <2>2
<1>14. StoreType' /\ ManagerType' /\ ListenerType' /\ ListType'
  BY <1>6 DEF storeVars, managerVars, StoreType, ManagerType, ListenerType, ListType
<1>15. CountType'
  <2>1. reloads' = reloads /\ overlapped' = overlapped
    BY <1>6
  <2>2. aborted' = TRUE \/ aborted' = aborted
    BY <1>6
  <2>3. faults' = faults + 1 \/ faults' = faults
    BY <1>6
  <2>4. aborted' \in BOOLEAN
    BY <2>2 DEF CountType
  <2>5. faults' \in Nat
    BY <2>3 DEF CountType
  <2> QED
    BY <2>1, <2>4, <2>5 DEF CountType
<1> QED
  BY <1>9, <1>10, <1>11, <1>12, <1>13, <1>14, <1>15

(* The reload of the lists, by a request or a SIGHUP task.                 *)
LEMMA HangupStep ==
    ASSUME IInv, NEW h \in Hangups, Hangup(h)
    PROVE  IInv'
<1> USE DEF IInv, Types
<1>1. h \notin Requests /\ h # Stopper /\ h \in Procs
  BY Kinds
<1>2. using.handler \in Contents /\ using.handler.domains \subseteq Domains
  BY ReloadAssumption DEF UsingType, Parts, Reloaded
<1>3. PICK state : state = [pc |-> "delete", old |-> None, items |-> using.handler.domains]
  OBVIOUS
<1>4. state \in HangupStates /\ state.pc = "delete" /\ state.items = using.handler.domains
  BY <1>2, <1>3 DEF HangupStates
<1>5. /\ Become(h, state) /\ localDomains' = {}
      /\ UNCHANGED <<configVars, managerVars, taskVars, list, faults, aborted>>
      /\ reloads' = reloads + 1 /\ overlapped' = (overlapped \/ ~Quiet)
  BY <1>3 DEF Hangup, Begun
<1>6. /\ ProcType' /\ proc'[h] = state
      /\ \A q \in Procs : q # h => proc'[q] = proc[q]
  BY <1>1, <1>4, <1>5, Becoming
<1>7. proc'[Stopper] = proc[Stopper] /\ \A r \in Requests : proc'[r] = proc[r]
  BY <1>1, <1>6, Kinds
<1>8. (Stopping' <=> Stopping) /\ \A r \in Requests : Busy(r)' <=> Busy(r)
  BY <1>7 DEF Stopping, Busy
<1>9. StopperAlone' /\ LastOne' /\ InUse'
  BY <1>5, <1>7, <1>8 DEF StopperAlone, LastOne, InUse, At, managerVars
<1>10. OldOnes'
  BY <1>5, <1>7, <1>8 DEF OldOnes, Remembered, At, managerVars
<1>11. ListenerRuns'
  BY <1>5, <1>7, <1>8 DEF ListenerRuns, At, managerVars, taskVars
<1>12. DomainsComing'
  BY <1>4, <1>5, <1>6 DEF DomainsComing, configVars
<1>13. /\ StoreType' /\ UsingType' /\ ManagerType' /\ ListenerType' /\ ValidatorType'
       /\ ListType'
  BY <1>5 DEF configVars, storeVars, managerVars, taskVars, StoreType, UsingType, ManagerType,
              ListenerType, ValidatorType, ListType
<1>14. CountType'
  BY <1>5 DEF CountType
<1> QED
  BY <1>6, <1>9, <1>10, <1>11, <1>12, <1>13, <1>14

(* Who is at a step of the lists.                                          *)
LEMMA ListStates ==
    ASSUME ProcType, NEW p \in Procs, proc[p].pc \in {"delete", "add"}
    PROVE  /\ p \in Requests \cup Hangups /\ Busy(p)
           /\ proc[p].items \subseteq Domains
           /\ p \in Requests => proc[p].old \in Nat
           /\ p \in Hangups => proc[p].old = None /\ p \notin Requests
<1>1. p # Stopper
  BY DEF ProcType, StopperStates, Idle, Over
<1>2. Busy(p)
  BY DEF Busy, Idle, Over
<1>3. p \in Requests => proc[p].old \in Nat /\ proc[p].items \subseteq Domains
  BY DEF ProcType, RequestStates, Idle
<1>4. p \in Hangups => proc[p].old = None /\ proc[p].items \subseteq Domains
  BY DEF ProcType, HangupStates, Idle
<1> QED
  BY <1>1, <1>2, <1>3, <1>4, Kinds DEF Procs

LEMMA DeleteStep ==
    ASSUME IInv, NEW p \in Procs, Delete(p)
    PROVE  IInv'
<1> USE DEF IInv, Types
<1>1. proc[p].pc = "delete"
  BY DEF Delete, At
<1>2. /\ p \in Requests \cup Hangups /\ Busy(p) /\ p # Stopper
      /\ proc[p].items \subseteq Domains
      /\ p \in Requests => proc[p].old \in Nat
      /\ p \in Hangups => proc[p].old = None /\ p \notin Requests
  BY <1>1, ListStates, Kinds
<1>3. PICK state : state = [proc[p] EXCEPT !.pc = "add"]
  OBVIOUS
<1>4. /\ p \in Requests => state \in RequestStates
      /\ p \in Hangups => state \in HangupStates
      /\ state # Idle /\ state.pc = "add"
      /\ state.old = proc[p].old /\ state.items = proc[p].items
  <2>1. CASE p \in Requests
    <3>1. proc[p] \in [pc : {"delete", "add"}, old : Nat, items : SUBSET Domains]
      BY <1>1, <2>1 DEF ProcType, RequestStates, Idle
    <3>2. state \in [pc : {"delete", "add"}, old : Nat, items : SUBSET Domains]
            /\ state.pc = "add" /\ state.old = proc[p].old /\ state.items = proc[p].items
      BY <1>3, <3>1
    <3> QED
      BY <1>2, <2>1, <3>2 DEF RequestStates, Idle
  <2>2. CASE p \in Hangups
    <3>1. proc[p] \in [pc : {"delete", "add"}, old : {None}, items : SUBSET Domains]
      BY <1>1, <2>2 DEF ProcType, HangupStates, Idle
    <3>2. state \in [pc : {"delete", "add"}, old : {None}, items : SUBSET Domains]
            /\ state.pc = "add" /\ state.old = proc[p].old /\ state.items = proc[p].items
      BY <1>3, <3>1
    <3> QED
      BY <1>2, <2>2, <3>2 DEF HangupStates, Idle
  <2> QED
    BY <1>2, <2>1, <2>2
<1>5. /\ UNCHANGED <<configVars, managerVars, taskVars, localDomains, reloads, overlapped>>
      /\ list' = {}
      /\ \/ Become(p, state) /\ UNCHANGED <<faults, aborted>>
         \/ Become(p, Idle) /\ aborted' = TRUE /\ faults' = faults + 1
  BY <1>2, <1>3 DEF Delete, Abort, Fault
<1>6. PICK next \in {Idle, state} :
        /\ Become(p, next) /\ (next = Idle => aborted')
        /\ aborted => aborted'
  <2>1. CASE Become(p, Idle) /\ aborted' = TRUE
    BY <2>1, Zenon
  <2>2. CASE Become(p, state) /\ aborted' = aborted
    BY <2>2, <1>4, Zenon
  <2> QED
    BY <1>5, <2>1, <2>2
<1>7. /\ p \in Requests => next \in RequestStates
      /\ p \in Hangups => next \in HangupStates
      /\ next.pc \notin {"stopListener", "closing"} /\ (next # Idle => next = state)
  BY <1>4, <1>6 DEF RequestStates, HangupStates, Idle
<1>8. /\ ProcType' /\ StopperAlone' /\ OldOnes' /\ InUse' /\ LastOne'
      /\ (Stopping' <=> Stopping)
      /\ proc'[p] = next /\ \A q \in Procs : q # p => proc'[q] = proc[q]
  BY <1>2, <1>4, <1>5, <1>6, <1>7, MoveKeeps DEF managerVars, InUse
<1>9. ListenerRuns'
  <2>1. \A q \in Requests : At(q, "stopListener") => At(q, "stopListener")'
    BY <1>1, <1>8, Kinds DEF At
  <2> QED
    BY <1>5, <1>8, <2>1 DEF ListenerRuns, managerVars, taskVars
<1>10. DomainsComing'
  <2>1. CASE next = Idle
    BY <1>6, <2>1 DEF DomainsComing
  <2>2. CASE next # Idle
    <3>1. proc'[p].pc = "add" /\ proc'[p].items = proc[p].items
      BY <1>4, <1>7, <1>8, <2>2
    <3>2. \A q \in Procs : q # p => proc'[q] = proc[q]
      BY <1>8
    <3>3. using' = using /\ localDomains' = localDomains /\ (aborted => aborted')
      BY <1>5, <1>6 DEF configVars
    <3> QED
      BY <1>1, <3>1, <3>2, <3>3, Kinds DEF DomainsComing
  <2> QED
    BY <2>1, <2>2
<1>11. /\ StoreType' /\ UsingType' /\ ManagerType' /\ ListenerType' /\ ValidatorType'
       /\ ListType'
  BY <1>5 DEF configVars, storeVars, managerVars, taskVars, StoreType, UsingType, ManagerType,
              ListenerType, ValidatorType, ListType
<1>12. CountType'
  <2>1. aborted' = TRUE \/ aborted' = aborted
    BY <1>5
  <2>2. aborted' \in BOOLEAN
    BY <2>1 DEF CountType
  <2>3. faults' \in Nat
    BY <1>5 DEF CountType
  <2> QED
    BY <1>5, <2>2, <2>3 DEF CountType
<1> QED
  BY <1>8, <1>9, <1>10, <1>11, <1>12

LEMMA AddStep ==
    ASSUME IInv, NEW p \in Procs, Add(p)
    PROVE  IInv'
<1> USE DEF IInv, Types
<1>1. proc[p].pc = "add"
  BY DEF Add, At
<1>2. /\ p \in Requests \cup Hangups /\ Busy(p) /\ p # Stopper
      /\ proc[p].items \subseteq Domains
      /\ p \in Requests => proc[p].old \in Nat
      /\ p \in Hangups => proc[p].old = None /\ p \notin Requests
  BY <1>1, ListStates, Kinds
<1>3. PICK state : state = [pc |-> "closing", old |-> proc[p].old]
  OBVIOUS
<1>4. /\ p \in Requests => state \in RequestStates
      /\ state.pc = "closing" /\ state.old = proc[p].old /\ state # Idle
  BY <1>2, <1>3 DEF RequestStates, Idle
<1>5. /\ UNCHANGED <<configVars, manager, built, taskVars, reloads, overlapped>>
      /\ \/ /\ list' = list \cup proc[p].items /\ localDomains' = localDomains \cup proc[p].items
            /\ CloseOld(p) /\ UNCHANGED <<faults, aborted>>
         \/ /\ Become(p, Idle) /\ aborted' = TRUE /\ faults' = faults + 1
            /\ UNCHANGED <<closing, listVars>>
  BY <1>2 DEF Add, Abort, Fault
<1>6. PICK next \in {Idle, state} :
        /\ Become(p, next)
        /\ next = Idle => closing' = closing /\ (aborted' \/ proc[p].old \in {None, manager})
        /\ next # Idle => /\ p \in Requests /\ closing' = closing \cup {proc[p].old}
                          /\ proc[p].old \notin {None, manager}
  <2>1. CASE aborted' = TRUE /\ Become(p, Idle) /\ UNCHANGED closing
    BY <2>1, Zenon
  <2>2. ASSUME CloseOld(p), proc[p].old # None, proc[p].old # manager
        PROVE  /\ Become(p, state) /\ p \in Requests
               /\ closing' = closing \cup {proc[p].old}
    BY <1>2, <1>3, <2>2 DEF CloseOld
  <2>3. ASSUME CloseOld(p), proc[p].old = None \/ proc[p].old = manager
        PROVE  Become(p, Idle) /\ closing' = closing
    BY <2>3 DEF CloseOld
  <2>4. CASE CloseOld(p)
    <3>1. CASE proc[p].old # None /\ proc[p].old # manager
      BY <1>4, <2>2, <2>4, <3>1
    <3>2. CASE proc[p].old = None \/ proc[p].old = manager
      BY <1>4, <2>3, <2>4, <3>2
    <3> QED
      BY <3>1, <3>2
  <2> QED
    BY <1>5, <2>1, <2>4
<1>7. /\ p \in Requests => next \in RequestStates
      /\ p \in Hangups => next \in HangupStates
      /\ next.pc # "stopListener" /\ (next # Idle => next = state)
      /\ next = Idle => next.pc # "closing"
  BY <1>2, <1>4, <1>6 DEF RequestStates, HangupStates, Idle
<1>8. /\ aborted => aborted'
      /\ closing \subseteq closing' /\ closing' \subseteq 1 .. built
      /\ manager # None /\ manager \in closing' => Stopping
  <2>1. p \in Requests => proc[p].old \in 0 .. built
    BY <1>2 DEF OldOnes
  <2> QED
    BY <1>5, <1>6, <2>1 DEF InUse, ManagerType, None
<1>9. /\ ProcType' /\ StopperAlone' /\ OldOnes' /\ InUse' /\ LastOne'
      /\ (Stopping' <=> Stopping)
      /\ proc'[p] = next /\ \A q \in Procs : q # p => proc'[q] = proc[q]
  <2>1. p \in Requests =>
          IF next = Idle
            THEN aborted' \/ proc[p].old \in {None, manager} \/ proc[p].old \in closing'
            ELSE next.old = proc[p].old /\ (next.pc = "closing" => next.old \in closing')
    BY <1>4, <1>6, <1>7
  <2> QED
    BY <1>2, <1>5, <1>6, <1>7, <1>8, <2>1, MoveKeeps
<1>10. ListenerRuns'
  <2>1. \A q \in Requests : At(q, "stopListener") => At(q, "stopListener")'
    BY <1>1, <1>9, Kinds DEF At
  <2> QED
    BY <1>5, <1>9, <2>1 DEF ListenerRuns, taskVars
<1>11. DomainsComing'
  <2>1. CASE aborted' = TRUE
    BY <2>1 DEF DomainsComing
  <2>2. CASE localDomains' = localDomains \cup proc[p].items /\ aborted' = aborted
    <3>1. using' = using
      BY <1>5 DEF configVars
    <3>2. \A q \in Procs : q # p => proc'[q] = proc[q]
      BY <1>9
    <3> QED
      BY <1>1, <2>2, <3>1, <3>2, Kinds DEF DomainsComing
  <2> QED
    BY <1>5, <2>1, <2>2
<1>12. StoreType' /\ UsingType' /\ ManagerType' /\ ListenerType' /\ ValidatorType'
  BY <1>5, <1>8 DEF configVars, storeVars, taskVars, StoreType, UsingType, ManagerType,
                    ListenerType, ValidatorType
<1>13. ListType'
  BY <1>2, <1>5 DEF listVars, ListType
<1>14. CountType'
  <2>1. aborted' = TRUE \/ aborted' = aborted
    BY <1>5
  <2>2. aborted' \in BOOLEAN
    BY <2>1 DEF CountType
  <2>3. faults' \in Nat
    BY <1>5 DEF CountType
  <2> QED
    BY <1>5, <2>2, <2>3 DEF CountType
<1> QED
  BY <1>9, <1>10, <1>11, <1>12, <1>13, <1>14

(* The end of a reload that closed a manager.                              *)
LEMMA ClosedStep ==
    ASSUME IInv, NEW p \in Requests \cup Hangups, Closed(p)
    PROVE  IInv'
<1> USE DEF IInv, Types
<1>1. proc[p].pc = "closing" /\ p # Stopper /\ Become(p, Idle)
  BY ReloadAssumption DEF Closed, At
<1>2. /\ Busy(p) /\ p \in Requests /\ p \notin Hangups
  BY <1>1, Kinds DEF Busy, Idle, Over, ProcType, HangupStates
<1>3. UNCHANGED <<configVars, managerVars, taskVars, listVars, reloads, faults, overlapped,
                  aborted>>
  BY DEF Closed
<1>4. proc[p].old \in closing /\ Idle \in RequestStates /\ Idle.pc = "idle"
  BY <1>1, <1>2 DEF OldOnes, At, RequestStates, Idle
<1>5. /\ ProcType' /\ StopperAlone' /\ OldOnes' /\ InUse' /\ LastOne'
      /\ (Stopping' <=> Stopping)
      /\ proc'[p] = Idle /\ \A q \in Procs : q # p => proc'[q] = proc[q]
  BY <1>1, <1>2, <1>3, <1>4, MoveKeeps DEF managerVars, InUse
<1>6. ListenerRuns'
  <2>1. \A q \in Requests : At(q, "stopListener") => At(q, "stopListener")'
    BY <1>1, <1>5, Kinds DEF At
  <2> QED
    BY <1>3, <1>5, <2>1 DEF ListenerRuns, managerVars, taskVars
<1>7. DomainsComing'
  <2>1. \A q \in Procs : q # p => proc'[q] = proc[q]
    BY <1>5
  <2>2. UNCHANGED <<using, localDomains, aborted>>
    BY <1>3 DEF configVars, listVars
  <2> QED
    BY <1>1, <2>1, <2>2, Kinds DEF DomainsComing
<1>8. /\ StoreType' /\ UsingType' /\ ManagerType' /\ ListenerType' /\ ValidatorType'
      /\ ListType' /\ CountType'
  BY <1>3 DEF configVars, storeVars, managerVars, taskVars, listVars, StoreType, UsingType,
              ManagerType, ListenerType, ValidatorType, ListType, CountType
<1> QED
  BY <1>5, <1>6, <1>7, <1>8
-----------------------------------------------------------------------------
(* The shutdown moves on: it begins when no request is under way.          *)
LEMMA StopperKeeps ==
    ASSUME ProcType, StopperAlone, OldOnes, NEW state \in StopperStates \ {Idle},
           Become(Stopper, state), \A r \in Requests : proc[r] = Idle,
           UNCHANGED <<manager, built>>, closing \subseteq closing', aborted => aborted',
           state.pc \in {"closing", "over"} => manager = None \/ manager \in closing' \/ aborted'
    PROVE  /\ ProcType' /\ StopperAlone' /\ OldOnes' /\ InUse' /\ LastOne' /\ Stopping'
           /\ proc'[Stopper] = state /\ \A q \in Procs : q # Stopper => proc'[q] = proc[q]
<1>1. /\ ProcType' /\ proc'[Stopper] = state
      /\ \A q \in Procs : q # Stopper => proc'[q] = proc[q]
  BY Becoming, Kinds
<1>2. Stopping'
  BY <1>1 DEF Stopping
<1>3. \A r \in Requests : proc'[r] = Idle /\ ~Busy(r)' /\ ~Busy(r) /\ ~At(r, "closing")'
  BY <1>1, Kinds DEF Busy, At, Idle
<1>4. StopperAlone' /\ InUse'
  BY <1>2, <1>3 DEF StopperAlone, InUse
<1>5. LastOne'
  BY <1>1 DEF LastOne, At, Over
<1>6. OldOnes'
  BY <1>3 DEF OldOnes, Remembered
<1> QED
  BY <1>1, <1>2, <1>4, <1>5, <1>6

LEMMA StopperStep ==
    ASSUME IInv, Stop \/ Halt \/ Closed(Stopper)
    PROVE  IInv'
<1> USE DEF IInv, Types
<1>1. UNCHANGED <<storeVars, using, manager, built, listVars, reloads, faults, overlapped>>
  BY DEF Stop, Halt, StopWorkers, StopValidator, StopManager, Closed, configVars, managerVars,
         taskVars
<1>2. \A r \in Requests : proc[r] = Idle
  <2>1. CASE Stop
    BY <2>1 DEF Stop
  <2>2. CASE Halt \/ Closed(Stopper)
    <3>1. Stopping
      BY <2>2 DEF Halt, StopWorkers, StopValidator, StopManager, Closed, At, Stopping, Idle
    <3> QED
      BY <3>1 DEF StopperAlone
  <2> QED
    BY <2>1, <2>2
<1>3. PICK state \in StopperStates \ {Idle} :
        /\ Become(Stopper, state) /\ closing \subseteq closing' /\ closing' \subseteq 1 .. built
        /\ aborted' = TRUE \/ aborted' = aborted
        /\ state.pc \in {"closing", "over"} =>
             manager = None \/ manager \in closing' \/ aborted'
  <2> DEFINE Fine(state) ==
        /\ state \in StopperStates \ {Idle}
        /\ Become(Stopper, state) /\ closing \subseteq closing' /\ closing' \subseteq 1 .. built
        /\ aborted' = TRUE \/ aborted' = aborted
        /\ state.pc \in {"closing", "over"} =>
             manager = None \/ manager \in closing' \/ aborted'
  <2>1. CASE Stop
    <3>1. CASE listenerTask # None
      <4>1. [pc |-> "stopListener", task |-> listenerTask] \in StopperStates \ {Idle}
        BY <3>1 DEF StopperStates, Idle, ListenerType, None
      <4> QED
        BY <2>1, <3>1, <4>1 DEF Stop, ManagerType, managerVars
    <3>2. CASE listenerTask = None
      <4>1. [pc |-> "workers"] \in StopperStates \ {Idle}
        BY DEF StopperStates, Idle
      <4> QED
        BY <2>1, <3>2, <4>1 DEF Stop, ManagerType, managerVars
    <3> QED
      BY <3>1, <3>2
  <2>2. CASE StopWorkers
    <3>1. [pc |-> "workers"] \in StopperStates \ {Idle}
      BY DEF StopperStates, Idle
    <3> QED
      BY <2>2, <3>1 DEF StopWorkers, ManagerType, managerVars
  <2>3. CASE StopValidator
    <3>1. CASE validators[validatorTask] = "failed"
      <4>1. Over \in StopperStates \ {Idle}
        BY DEF StopperStates, Idle, Over
      <4>2. Become(Stopper, Over) /\ aborted' = TRUE /\ closing' = closing
        BY <2>3, <3>1 DEF StopValidator, Abort, managerVars
      <4> QED
        BY <4>1, <4>2 DEF ManagerType
    <3>2. CASE validators[validatorTask] # "failed"
      <4>1. [pc |-> "stopValidator", task |-> validatorTask] \in StopperStates \ {Idle}
        BY DEF StopperStates, Idle, ValidatorType
      <4>2. Become(Stopper, [pc |-> "stopValidator", task |-> validatorTask])
              /\ aborted' = aborted /\ closing' = closing
        BY <2>3, <3>2 DEF StopValidator, managerVars
      <4> QED
        BY <4>1, <4>2 DEF ManagerType
    <3> QED
      BY <3>1, <3>2
  <2>4. CASE StopManager
    <3>1. CASE manager # None
      <4>1. [pc |-> "closing", old |-> manager] \in StopperStates \ {Idle}
        BY DEF StopperStates, Idle, ManagerType
      <4>2. Become(Stopper, [pc |-> "closing", old |-> manager])
              /\ aborted' = aborted /\ closing' = closing \cup {manager}
        BY <2>4, <3>1 DEF StopManager
      <4> QED
        BY <3>1, <4>1, <4>2 DEF ManagerType, None
    <3>2. CASE manager = None
      <4>1. Over \in StopperStates \ {Idle}
        BY DEF StopperStates, Idle, Over
      <4>2. Become(Stopper, Over) /\ aborted' = aborted /\ closing' = closing
        BY <2>4, <3>2 DEF StopManager
      <4> QED
        BY <3>2, <4>1, <4>2 DEF ManagerType
    <3> QED
      BY <3>1, <3>2
  <2>5. CASE Closed(Stopper)
    <3>1. Over \in StopperStates \ {Idle}
      BY DEF StopperStates, Idle, Over
    <3>2. Become(Stopper, Over) /\ aborted' = aborted /\ closing' = closing
      BY <2>5 DEF Closed, managerVars
    <3>3. manager = None \/ manager \in closing \/ aborted
      BY <2>5 DEF Closed, LastOne
    <3> QED
      BY <3>1, <3>2, <3>3 DEF ManagerType
  <2> QED
    BY <2>1, <2>2, <2>3, <2>4, <2>5 DEF Halt
<1>4. aborted => aborted'
  BY <1>3
<1>5. /\ ProcType' /\ StopperAlone' /\ OldOnes' /\ InUse' /\ LastOne' /\ Stopping'
      /\ proc'[Stopper] = state /\ \A q \in Procs : q # Stopper => proc'[q] = proc[q]
  BY <1>1, <1>2, <1>3, <1>4, StopperKeeps
<1>6. ListenerRuns'
  BY <1>5 DEF ListenerRuns
<1>7. DomainsComing'
  <2>1. \A q \in Requests \cup Hangups : proc'[q] = proc[q]
    BY <1>5, Kinds
  <2>2. using' = using /\ localDomains' = localDomains
    BY <1>1 DEF listVars
  <2> QED
    BY <1>4, <2>1, <2>2 DEF DomainsComing
<1>8. StoreType' /\ UsingType' /\ ManagerType' /\ ListType'
  BY <1>1, <1>3 DEF storeVars, listVars, StoreType, UsingType, ManagerType, ListType
<1>9. CountType'
  BY <1>1, <1>3 DEF CountType
<1>10. ListenerType'
  <2>1. CASE Stop
    <3>1. CASE listenerTask # None
      <4>1. listeners' = Cancel(listeners, listenerTask) /\ listenerTask' = listenerTask
        BY <2>1, <3>1 DEF Stop
      <4> QED
        BY <3>1, <4>1, CancelType DEF ListenerType, None
    <3>2. CASE listenerTask = None
      BY <2>1, <3>2 DEF Stop, ListenerType
    <3> QED
      BY <3>1, <3>2
  <2>2. CASE StopWorkers
    BY <2>2 DEF StopWorkers, ListenerType, None
  <2>3. CASE StopValidator
    <3>1. listeners' = [n \in DOMAIN listeners |-> "ended"] /\ listenerTask' = listenerTask
      BY <2>3 DEF StopValidator
    <3>2. listeners' \in Seq({"running", "cancelled", "ended"}) /\ Len(listeners') = Len(listeners)
      BY <3>1 DEF ListenerType
    <3> QED
      BY <3>1, <3>2 DEF ListenerType
  <2>4. CASE StopManager \/ Closed(Stopper)
    BY <2>4 DEF StopManager, Closed, taskVars, ListenerType
  <2> QED
    BY <2>1, <2>2, <2>3, <2>4 DEF Halt
<1>11. ValidatorType'
  <2>1. CASE StopValidator
    <3>1. validatorTask' = validatorTask
            /\ (validators' = validators \/ validators' = Cancel(validators, validatorTask))
      BY <2>1 DEF StopValidator
    <3> QED
      BY <3>1, CancelType DEF ValidatorType
  <2>2. CASE ~StopValidator
    BY <2>2 DEF Stop, Halt, StopWorkers, StopManager, Closed, taskVars, ValidatorType
  <2> QED
    BY <2>1, <2>2
<1> QED
  BY <1>5, <1>6, <1>7, <1>8, <1>9, <1>10, <1>11
-----------------------------------------------------------------------------
(* Every step keeps the invariant.                                         *)
LEMMA StepPreserves == IInv /\ [Next]_vars => IInv'
<1> SUFFICES ASSUME IInv, [Next]_vars PROVE IInv'
  OBVIOUS
<1>1. ASSUME NEW r \in Requests, NEW c \in Contents, Save(r, c) PROVE IInv'
  <2>1. StoreType'
    BY <1>1 DEF Save, Stored, StoreType
  <2> QED
    BY <1>1, <2>1, ApplyStep DEF Save
<1>2. ASSUME NEW r \in Requests, Reload(r) PROVE IInv'
  <2>1. file \in Contents
    BY <1>2 DEF Reload, IInv, Types, StoreType
  <2>2. StoreType'
    BY <1>2, <2>1 DEF Reload, Stored, StoreType
  <2> QED
    BY <1>2, <2>1, <2>2, ApplyStep DEF Reload
<1>3. ASSUME NEW p \in Procs, Closed(p) PROVE IInv'
  BY <1>3, ClosedStep, StopperStep DEF Procs
<1>4. ASSUME NEW p \in Procs, Step(p) PROVE IInv'
  BY <1>3, <1>4, ListenerStoppedStep, ScriptsLoadedStep, ValidatorStoppedStep, DeleteStep,
     AddStep DEF Step
<1>5. CASE UNCHANGED vars
  BY <1>5, RestStep
<1>6. CASE Stop \/ Halt
  BY <1>6, StopperStep
<1>7. CASE \/ \E r \in Requests, c \in Contents : SaveFails(r, c)
           \/ \E c \in Contents \cup {Broken} : Edit(c)
           \/ ListenerEnds \/ ValidatorEnds \/ BlacklistUnreadable
  BY <1>7, RestStep
<1> QED
  BY <1>1, <1>2, <1>4, <1>5, <1>6, <1>7, HangupStep DEF Next, Ask

(* The inductive invariant holds at every step.                            *)
THEOREM IInvInductive == Spec => []IInv
<1>1. Init => IInv
  BY InitEstablishes
<1>2. IInv /\ [Next]_vars => IInv'
  BY StepPreserves
<1> QED
  BY <1>1, <1>2, PTL DEF Spec

(* Types of every variable, for any number of requests and SIGHUP tasks.   *)
THEOREM TypeCorrect == Spec => []TypeOK
<1>1. IInv => TypeOK
  BY TypesImplyTypeOK DEF IInv
<1> QED
  BY <1>1, IInvInductive, PTL

(* However many reloads overlap and fail, no action manager is closed while*)
(* it is in use or lost without being closed, unless an exception ended a  *)
(* reload, and the shutdown closes the last one.                           *)
THEOREM ManagersAccountedAlways == Spec => []ManagersAccounted
<1>1. IInv => ManagersAccounted
  BY DEF IInv, OldOnes, Remembered, InUse, LastOne, ManagersAccounted
<1> QED
  BY <1>1, IInvInductive, PTL

(* However many reloads overlap, there is a listener that runs as long as  *)
(* there is an action manager and nobody waits for an old listener.        *)
THEOREM ListenerRunsAlways == Spec => []ListenerRuns
<1>1. IInv => ListenerRuns
  BY DEF IInv
<1> QED
  BY <1>1, IInvInductive, PTL

(* When every reload is over, the process knows all the local domains of   *)
(* the configuration in force.                                             *)
THEOREM DomainsCompleteAlways == Spec => []DomainsComplete
<1>1. IInv => DomainsComplete
  <2> SUFFICES ASSUME IInv, Quiet, ~aborted
               PROVE  using.handler.domains \subseteq localDomains
    BY DEF DomainsComplete
  <2>1. ASSUME NEW p \in Requests \cup Hangups
        PROVE  proc[p].pc = "idle"
    <3>1. p \in Procs /\ proc[p] # Over
      BY Kinds DEF IInv, Types
    <3> QED
      BY <3>1 DEF Quiet, Busy, Idle
  <2> QED
    BY <2>1 DEF IInv, DomainsComing
<1> QED
  BY <1>1, IInvInductive, PTL
-----------------------------------------------------------------------------
(* Reloads that neither overlap nor fail.  Clean runs have one coroutine   *)
(* under way at most, and its state says which parts still wait for the    *)
(* configuration in force, and what becomes of tasks and lists meanwhile.  *)
Clean == ~overlapped /\ ~aborted /\ ~Stopping
Alone(p) == \A q \in Procs \ {p} : proc[q] = Idle

Loading == {"stopListener", "scripts", "stopValidator"}
Listing == {"delete", "add"}

Tasks(s) ==
    /\ s.pc = "stopListener" => s.task = listenerTask
    /\ s.pc = "stopValidator" => s.task = validatorTask
    /\ Running(listeners) \subseteq {listenerTask}
    /\ s.pc # "stopListener" =>
         Running(listeners) = (IF using.handler.actions THEN {listenerTask} ELSE {})
    /\ Running(validators) \subseteq {validatorTask}
Follows(s) ==
    /\ s.pc \in Loading => s.config = using.handler
    /\ s.pc # "stopListener" =>
         using.matcher = using.handler /\ using.limiter = using.handler
    /\ s.pc \notin {"stopListener", "scripts"} => using.validator = using.handler
    /\ s.pc \notin Loading => using.notifier = using.handler /\ using.server = using.handler
Lists(s) ==
    /\ s.pc \in Listing => s.items = using.handler.domains /\ localDomains = {}
    /\ s.pc = "add" => list = {}
    /\ s.pc \notin Loading \cup Listing =>
         list = using.handler.domains /\ localDomains = list
Stage(s) == Tasks(s) /\ Follows(s) /\ Lists(s)

Agreed == (using.handler = memory \/ unstored) /\ (memory = file \/ edited \/ unstored)
Matched == manager # None <=> using.handler.actions

SettledInv ==
    /\ Agreed /\ Matched
    /\ Clean => \E p \in Procs : Alone(p) /\ Stage(proc[p])

(* What becomes of the set of running tasks.                               *)
LEMMA RunningFacts ==
    ASSUME NEW S, NEW tasks \in Seq(S), "running" \in S, "cancelled" \in S
    PROVE  /\ Running(Append(tasks, "running")) = Running(tasks) \cup {Len(tasks) + 1}
           /\ \A n \in 1 .. Len(tasks) : Running(Cancel(tasks, n)) = Running(tasks) \ {n}
<1>1. Running(Append(tasks, "running")) = Running(tasks) \cup {Len(tasks) + 1}
  <2> DEFINE more == Append(tasks, "running")
  <2>1. /\ DOMAIN more = DOMAIN tasks \cup {Len(tasks) + 1}
        /\ more[Len(tasks) + 1] = "running"
        /\ \A i \in DOMAIN tasks : more[i] = tasks[i]
    OBVIOUS
  <2> HIDE DEF more
  <2> QED
    BY <2>1 DEF Running, more
<1>2. ASSUME NEW n \in 1 .. Len(tasks) PROVE Running(Cancel(tasks, n)) = Running(tasks) \ {n}
  <2>1. /\ DOMAIN Cancel(tasks, n) = DOMAIN tasks /\ Cancel(tasks, n)[n] # "running"
        /\ \A i \in DOMAIN tasks : i # n => Cancel(tasks, n)[i] = tasks[i]
    BY DEF Cancel
  <2> QED
    BY <2>1 DEF Running
<1> QED
  BY <1>1, <1>2

(* In a clean run the coroutine that moves is the only one under way.      *)
LEMMA OneMoves ==
    ASSUME IInv, SettledInv, Clean, NEW p \in Requests \cup Hangups, NEW next,
           Become(p, next), Quiet \/ Busy(p)
    PROVE  /\ p \in Procs /\ Alone(p) /\ Stage(proc[p])
           /\ Alone(p)' /\ proc'[p] = next
<1>1. PICK o \in Procs : Alone(o) /\ Stage(proc[o])
  BY DEF SettledInv
<1>2. p \in Procs /\ ProcType
  BY DEF Procs, IInv, Types
<1>3. proc'[p] = next /\ \A q \in Procs \ {p} : proc'[q] = proc[q]
  BY <1>2 DEF Become, ProcType
<1>4. CASE Busy(p)
  BY <1>1, <1>2, <1>3, <1>4 DEF Alone, Busy
<1>5. CASE Quiet
  <2>1. \A q \in Procs : proc[q] = Idle
    BY <1>2, <1>5, Kinds DEF Quiet, Busy, Clean, Stopping, Procs
  <2> QED
    BY <1>1, <1>2, <1>3, <2>1 DEF Alone
<1> QED
  BY <1>4, <1>5

LEMMA CleanBefore ==
    ASSUME IInv, NEW p \in Requests \cup Hangups, NEW next, Become(p, next), Clean',
           overlapped => overlapped', aborted => aborted'
    PROVE  Clean
<1>1. proc'[Stopper] = proc[Stopper]
  BY Kinds DEF IInv, Types, ProcType, Become
<1> QED
  BY <1>1 DEF Clean, Stopping

(* A coroutine moves on: its new state has to fit, if the run stays clean. *)
LEMMA StageKept ==
    ASSUME IInv, SettledInv, NEW p \in Requests \cup Hangups, NEW next,
           Become(p, next), Quiet \/ Busy(p),
           overlapped => overlapped', aborted => aborted', Agreed', Matched',
           Clean /\ Clean' /\ Stage(proc[p]) => Stage(next)'
    PROVE  SettledInv'
<1> SUFFICES ASSUME Clean' PROVE \E q \in Procs : Alone(q)' /\ Stage(proc[q])'
  BY DEF SettledInv
<1>1. Clean
  BY CleanBefore
<1>2. /\ p \in Procs /\ Stage(proc[p]) /\ Alone(p)' /\ proc'[p] = next
  BY <1>1, OneMoves
<1>3. Stage(next)'
  BY <1>1, <1>2
<1>4. Stage(proc[p])'
  BY <1>2, <1>3 DEF Stage, Tasks, Follows, Lists
<1> QED
  BY <1>2, <1>4

(* What _restart_unlock_listener leaves when no listener runs before it.   *)
LEMMA RestartTasks ==
    ASSUME NEW tasks \in Seq({"running", "cancelled", "ended"}), Running(tasks) = {},
           NEW m, NEW c \in Contents, NEW u \in [Parts -> Contents], Restart(c, u, tasks, m)
    PROVE  /\ Running(listeners') = (IF m # None THEN {listenerTask'} ELSE {})
           /\ using'.matcher = c /\ using'.limiter = c
           /\ \A part \in Parts \ {"matcher", "limiter"} : using'[part] = u[part]
<1>1. /\ using'.matcher = c /\ using'.limiter = c
      /\ \A part \in Parts \ {"matcher", "limiter"} : using'[part] = u[part]
  BY DEF Restart, Parts, Reloaded
<1>2. CASE m # None
  <2>1. listeners' = Append(tasks, "running") /\ listenerTask' = Len(tasks) + 1
    BY <1>2 DEF Restart
  <2>2. Running(Append(tasks, "running")) = {Len(tasks) + 1}
    BY RunningFacts
  <2> QED
    BY <1>1, <1>2, <2>1, <2>2
<1>3. CASE m = None
  BY <1>1, <1>3 DEF Restart
<1> QED
  BY <1>2, <1>3

LEMMA ApplySettled ==
    ASSUME IInv, SettledInv, NEW r \in Requests, NEW c \in Contents, Apply(r, c),
           Stored(c), file' = c
    PROVE  SettledInv'
<1> DEFINE new == IF c.actions THEN built + 1 ELSE None
           u == [using EXCEPT !.handler = c]
<1>1. /\ Quiet \/ overlapped'
      /\ overlapped => overlapped'
      /\ proc[r] = Idle /\ manager' = new
      /\ UNCHANGED <<validators, validatorTask, aborted>>
  BY DEF Apply, Begun
<1>2. u \in [Parts -> Contents] /\ u.handler = c /\ c.actions \in BOOLEAN
  BY ReloadAssumption DEF IInv, Types, UsingType, Parts, Reloaded
<1>3. new # None <=> c.actions
  BY <1>2 DEF IInv, Types, ManagerType, None
<1>4. ListenerType /\ listenerTask \in Nat
  BY DEF IInv, Types, ListenerType
<1> HIDE DEF u, new
<1>5. CASE listenerTask # None
  <2> PICK next : next = [pc |-> "stopListener", config |-> c, old |-> manager,
                          task |-> listenerTask]
    OBVIOUS
  <2>1. /\ using' = u /\ listenerTask' = listenerTask
        /\ listeners' = Cancel(listeners, listenerTask) /\ Become(r, next)
    BY <1>5 DEF Apply, u
  <2>2. Agreed' /\ Matched'
    BY <1>1, <1>2, <1>3, <2>1 DEF Agreed, Matched, Stored
  <2>3. ASSUME Clean, Clean', Stage(proc[r]) PROVE Stage(next)'
    <3>1. Running(listeners) \subseteq {listenerTask} /\ Running(validators) \subseteq {validatorTask}
      BY <2>3 DEF Stage, Tasks
    <3>2. Running(listeners)' \subseteq {listenerTask}
      BY <1>4, <1>5, <2>1, <3>1, RunningFacts DEF ListenerType, None
    <3> QED
      BY <1>1, <1>2, <2>1, <3>1, <3>2
      DEF Stage, Tasks, Follows, Lists, Loading, Listing
  <2>4. CASE Quiet
    BY <1>1, <2>1, <2>2, <2>3, <2>4, StageKept
  <2>5. CASE overlapped'
    BY <2>2, <2>5 DEF SettledInv, Clean
  <2> QED
    BY <1>1, <2>4, <2>5
<1>6. CASE listenerTask = None
  <2> PICK next : next = [pc |-> "scripts", config |-> c, old |-> manager]
    OBVIOUS
  <2>1. Restart(c, u, listeners, new) /\ Become(r, next)
    BY <1>6 DEF Apply, u, new
  <2>2. using'.handler = c
    BY <1>2, <2>1, <1>4, RestartFacts DEF IInv, Types, UsingType, u, Restart, Parts, Reloaded
  <2>3. Agreed' /\ Matched'
    BY <1>1, <1>2, <1>3, <2>2 DEF Agreed, Matched, Stored
  <2>4. ASSUME Clean, Clean', Stage(proc[r]) PROVE Stage(next)'
    <3>1. Running(listeners) \subseteq {listenerTask} /\ Running(validators) \subseteq {validatorTask}
      BY <2>4 DEF Stage, Tasks
    <3>2. Running(listeners) = {}
      BY <1>4, <1>6, <3>1 DEF Running, ListenerType, None
    <3>3. /\ Running(listeners') = (IF new # None THEN {listenerTask'} ELSE {})
          /\ using'.matcher = c /\ using'.limiter = c
      BY <1>2, <1>4, <2>1, <3>2, RestartTasks DEF ListenerType
    <3> QED
      BY <1>1, <1>3, <2>2, <3>1, <3>3
      DEF Stage, Tasks, Follows, Lists, Loading, Listing
  <2>5. CASE Quiet
    BY <1>1, <2>1, <2>3, <2>4, <2>5, StageKept
  <2>6. CASE overlapped'
    BY <2>3, <2>6 DEF SettledInv, Clean
  <2> QED
    BY <1>1, <2>5, <2>6
<1> QED
  BY <1>5, <1>6

LEMMA ListenerStoppedSettled ==
    ASSUME IInv, SettledInv, NEW r \in Procs, ListenerStopped(r)
    PROVE  SettledInv'
<1> PICK c, next : /\ c = proc[r].config
                   /\ next = [pc |-> "scripts", config |-> c, old |-> proc[r].old]
  OBVIOUS
<1>1. /\ proc[r].pc = "stopListener" /\ r \in Requests \cup Hangups
      /\ listeners[proc[r].task] = "ended"
      /\ Restart(c, using, listeners, manager) /\ Become(r, next)
      /\ UNCHANGED <<storeVars, managerVars, validators, validatorTask, overlapped, aborted>>
  BY DEF ListenerStopped, At, Procs
<1>2. Busy(r) /\ c \in Contents
  BY <1>1, Kinds DEF Busy, Idle, Over, IInv, Types, ProcType, RequestStates, HangupStates
<1>3. using'.handler = using.handler /\ ListenerType /\ using \in [Parts -> Contents]
  BY <1>1 DEF Restart, IInv, Types, UsingType, Parts, Reloaded
<1>4. Agreed' /\ Matched'
  BY <1>1, <1>3 DEF SettledInv, Agreed, Matched, storeVars, managerVars
<1>5. ASSUME Clean, Clean', Stage(proc[r]) PROVE Stage(next)'
  <2>1. /\ proc[r].task = listenerTask /\ c = using.handler
        /\ Running(listeners) \subseteq {listenerTask}
        /\ Running(validators) \subseteq {validatorTask}
    BY <1>1, <1>5 DEF Stage, Tasks, Follows, Loading
  <2>2. Running(listeners) = {}
    BY <1>1, <2>1 DEF Running
  <2>3. /\ Running(listeners') = (IF manager # None THEN {listenerTask'} ELSE {})
        /\ using'.matcher = c /\ using'.limiter = c
    BY <1>1, <1>2, <1>3, <2>2, RestartTasks DEF ListenerType
  <2>4. using.handler.actions <=> manager # None
    BY DEF SettledInv, Matched
  <2> QED
    BY <1>1, <1>3, <2>1, <2>3, <2>4
    DEF Stage, Tasks, Follows, Lists, Loading, Listing
<1> QED
  BY <1>1, <1>2, <1>4, <1>5, StageKept

LEMMA ScriptsLoadedSettled ==
    ASSUME IInv, SettledInv, NEW p \in Procs, ScriptsLoaded(p)
    PROVE  SettledInv'
<1>1. proc[p].pc = "scripts" /\ p \in Requests \cup Hangups
  BY ReloadAssumption
  DEF ScriptsLoaded, At, Procs, IInv, Types, ProcType, StopperStates, Idle, Over
<1>2. /\ using' = [using EXCEPT !.validator = proc[p].config]
      /\ UNCHANGED <<storeVars, managerVars, listeners, listenerTask, validatorTask, listVars,
                     overlapped>>
  BY DEF ScriptsLoaded
<1>3. /\ using \in [Parts -> Contents] /\ using'.validator = proc[p].config
      /\ \A part \in Parts \ {"validator"} : using'[part] = using[part]
  BY <1>2 DEF IInv, Types, UsingType, Parts, Reloaded
<1>4. Agreed' /\ Matched'
  BY <1>2, <1>3 DEF SettledInv, Agreed, Matched, storeVars, managerVars, Parts, Reloaded
<1>5. CASE validators[validatorTask] = "failed"
  BY <1>4, <1>5 DEF ScriptsLoaded, Abort, SettledInv, Clean
<1>6. CASE validators[validatorTask] # "failed"
  <2> PICK next : next = [pc |-> "stopValidator", config |-> proc[p].config,
                          old |-> proc[p].old, task |-> validatorTask]
    OBVIOUS
  <2>1. /\ validators' = Cancel(validators, validatorTask) /\ Become(p, next)
        /\ UNCHANGED aborted
    BY <1>6 DEF ScriptsLoaded
  <2>2. Busy(p)
    BY <1>1 DEF Busy, Idle, Over
  <2>3. ASSUME Clean, Clean', Stage(proc[p]) PROVE Stage(next)'
    <3>1. Running(validators)' \subseteq {validatorTask}
      BY <2>1, <2>3, RunningFacts DEF Stage, Tasks, IInv, Types, ValidatorType
    <3> QED
      BY <1>1, <1>2, <1>3, <2>1, <2>3, <3>1
      DEF Stage, Tasks, Follows, Lists, Loading, Listing, Parts, Reloaded
  <2> QED
    BY <1>1, <1>2, <1>4, <2>1, <2>2, <2>3, StageKept
<1> QED
  BY <1>5, <1>6

LEMMA ValidatorStoppedSettled ==
    ASSUME IInv, SettledInv, NEW r \in Procs, ValidatorStopped(r)
    PROVE  SettledInv'
<1>1. /\ proc[r].pc = "stopValidator" /\ r \in Requests \cup Hangups
      /\ validators[proc[r].task] = "ended"
      /\ UNCHANGED <<storeVars, managerVars, listeners, listenerTask, list, overlapped>>
  BY DEF ValidatorStopped, At, Procs
<1>2. CASE Abort(r) /\ UNCHANGED using
  <2>1. Agreed' /\ Matched'
    BY <1>1, <1>2 DEF SettledInv, Agreed, Matched, storeVars, managerVars
  <2> QED
    BY <1>2, <2>1 DEF Abort, SettledInv, Clean
<1>3. CASE ~(Abort(r) /\ UNCHANGED using)
  <2> PICK next : next = [pc |-> "delete", old |-> proc[r].old, items |-> using.handler.domains]
    OBVIOUS
  <2>1. /\ validators' = Append(validators, "running") /\ validatorTask' = Len(validators')
        /\ using' = [using EXCEPT !.notifier = proc[r].config, !.server = proc[r].config]
        /\ localDomains' = {} /\ Become(r, next) /\ UNCHANGED aborted
    BY <1>3 DEF ValidatorStopped
  <2>2. /\ using'.notifier = proc[r].config /\ using'.server = proc[r].config
        /\ \A part \in Parts \ {"notifier", "server"} : using'[part] = using[part]
    BY <2>1 DEF IInv, Types, UsingType, Parts, Reloaded
  <2>3. Agreed' /\ Matched'
    BY <1>1, <2>2 DEF SettledInv, Agreed, Matched, storeVars, managerVars, Parts, Reloaded
  <2>4. Busy(r) /\ validators \in Seq({"running", "cancelled", "ended", "failed"})
    BY <1>1 DEF Busy, Idle, Over, IInv, Types, ValidatorType
  <2>5. ASSUME Clean, Clean', Stage(proc[r]) PROVE Stage(next)'
    <3>1. /\ proc[r].task = validatorTask /\ proc[r].config = using.handler
          /\ Running(validators) \subseteq {validatorTask}
      BY <1>1, <2>5 DEF Stage, Tasks, Follows, Loading
    <3>2. Running(validators) = {}
      BY <1>1, <3>1 DEF Running
    <3>3. Running(validators)' \subseteq {validatorTask'}
      <4>1. Running(Append(validators, "running")) = {Len(validators) + 1}
        BY <2>4, <3>2, RunningFacts
      <4>2. Len(validators') = Len(validators) + 1
        BY <2>1, <2>4
      <4> QED
        BY <2>1, <4>1, <4>2
    <3> QED
      BY <1>1, <2>1, <2>2, <2>5, <3>1, <3>3
      DEF Stage, Tasks, Follows, Lists, Loading, Listing, Parts, Reloaded
  <2> QED
    BY <1>1, <2>1, <2>3, <2>4, <2>5, StageKept
<1> QED
  BY <1>2, <1>3

LEMMA HangupSettled ==
    ASSUME IInv, SettledInv, NEW h \in Hangups, Hangup(h)
    PROVE  SettledInv'
<1> PICK next : next = [pc |-> "delete", old |-> None, items |-> using.handler.domains]
  OBVIOUS
<1>1. /\ Quiet \/ overlapped'
      /\ overlapped => overlapped'
      /\ proc[h] = Idle /\ localDomains' = {} /\ Become(h, next)
      /\ UNCHANGED <<storeVars, using, managerVars, taskVars, list, aborted>>
  BY DEF Hangup, Begun, configVars
<1>2. Agreed' /\ Matched'
  BY <1>1 DEF SettledInv, Agreed, Matched, storeVars, managerVars
<1>3. ASSUME Clean, Clean', Stage(proc[h]) PROVE Stage(next)'
  BY <1>1, <1>3 DEF Stage, Tasks, Follows, Lists, Loading, Listing, taskVars, Idle
<1>4. CASE Quiet
  BY <1>1, <1>2, <1>3, <1>4, StageKept
<1>5. CASE overlapped'
  BY <1>2, <1>5 DEF SettledInv, Clean
<1> QED
  BY <1>1, <1>4, <1>5

LEMMA DeleteSettled ==
    ASSUME IInv, SettledInv, NEW p \in Procs, Delete(p)
    PROVE  SettledInv'
<1> PICK next : next = [proc[p] EXCEPT !.pc = "add"]
  OBVIOUS
<1>1. /\ proc[p].pc = "delete" /\ p \in Requests \cup Hangups
      /\ UNCHANGED <<storeVars, using, managerVars, taskVars, localDomains, overlapped>>
      /\ list' = {}
      /\ \/ Become(p, next) /\ UNCHANGED aborted
         \/ Abort(p)
  BY ReloadAssumption
  DEF Delete, At, Procs, IInv, Types, ProcType, StopperStates, Idle, Over, configVars
<1>2. Agreed' /\ Matched'
  BY <1>1 DEF SettledInv, Agreed, Matched, storeVars, managerVars
<1>3. CASE Abort(p)
  BY <1>2, <1>3 DEF Abort, SettledInv, Clean
<1>4. CASE Become(p, next) /\ UNCHANGED aborted
  <2>1. next.pc = "add" /\ next.items = proc[p].items
    BY <1>1, Kinds DEF IInv, Types, ProcType, RequestStates, HangupStates, Idle
  <2>2. Busy(p)
    BY <1>1 DEF Busy, Idle, Over
  <2>3. ASSUME Clean, Clean', Stage(proc[p]) PROVE Stage(next)'
    BY <1>1, <2>1, <2>3 DEF Stage, Tasks, Follows, Lists, Loading, Listing, taskVars
  <2> QED
    BY <1>1, <1>2, <1>4, <2>2, <2>3, StageKept
<1> QED
  BY <1>1, <1>3, <1>4

LEMMA AddSettled ==
    ASSUME IInv, SettledInv, NEW p \in Procs, Add(p)
    PROVE  SettledInv'
<1>1. /\ proc[p].pc = "add" /\ p \in Requests \cup Hangups
      /\ UNCHANGED <<storeVars, using, manager, built, taskVars, overlapped>>
      /\ \/ /\ list' = list \cup proc[p].items
            /\ localDomains' = localDomains \cup proc[p].items
            /\ CloseOld(p) /\ UNCHANGED aborted
         \/ Abort(p)
  BY ReloadAssumption
  DEF Add, At, Procs, IInv, Types, ProcType, StopperStates, Idle, Over, configVars
<1>2. Agreed' /\ Matched'
  BY <1>1 DEF SettledInv, Agreed, Matched, storeVars
<1>3. CASE Abort(p)
  BY <1>2, <1>3 DEF Abort, SettledInv, Clean
<1>4. CASE ~Abort(p)
  <2>1. PICK next \in {Idle, [pc |-> "closing", old |-> proc[p].old]} : Become(p, next)
    BY <1>1, <1>4 DEF CloseOld
  <2>2. next.pc \in {"idle", "closing"} /\ Busy(p)
    BY <1>1, <2>1 DEF Busy, Idle, Over
  <2>3. ASSUME Clean, Clean', Stage(proc[p]) PROVE Stage(next)'
    <3>1. /\ proc[p].items = using.handler.domains /\ localDomains = {} /\ list = {}
      BY <1>1, <2>3 DEF Stage, Lists, Listing
    <3>2. list' = using.handler.domains /\ localDomains' = list'
      BY <1>1, <1>4, <3>1
    <3> QED
      BY <1>1, <2>2, <2>3, <3>2 DEF Stage, Tasks, Follows, Lists, Loading, Listing, taskVars
  <2> QED
    BY <1>1, <1>2, <1>4, <2>1, <2>2, <2>3, StageKept
<1> QED
  BY <1>3, <1>4

LEMMA ClosedSettled ==
    ASSUME IInv, SettledInv, NEW p \in Requests \cup Hangups, Closed(p)
    PROVE  SettledInv'
<1>1. /\ proc[p].pc = "closing" /\ Become(p, Idle)
      /\ UNCHANGED <<configVars, managerVars, taskVars, listVars, overlapped, aborted>>
  BY ReloadAssumption DEF Closed, At
<1>2. Agreed' /\ Matched'
  BY <1>1 DEF SettledInv, Agreed, Matched, configVars, storeVars, managerVars
<1>3. Busy(p)
  BY <1>1 DEF Busy, Idle, Over
<1>4. ASSUME Clean, Clean', Stage(proc[p]) PROVE Stage(Idle)'
  BY <1>1, <1>4
  DEF Stage, Tasks, Follows, Lists, Loading, Listing, Idle, configVars, taskVars, listVars
<1> QED
  BY <1>1, <1>2, <1>3, <1>4, StageKept DEF Idle

(* The shutdown is outside what Settled is about.                          *)
LEMMA StopperSettled ==
    ASSUME IInv, SettledInv, Stop \/ Halt \/ Closed(Stopper)
    PROVE  SettledInv'
<1>1. UNCHANGED <<storeVars, using, manager>>
  BY DEF Stop, Halt, StopWorkers, StopValidator, StopManager, Closed, configVars, managerVars
<1>2. Agreed' /\ Matched'
  BY <1>1 DEF SettledInv, Agreed, Matched, storeVars
<1>3. \E state : Become(Stopper, state) /\ state # Idle
  BY DEF Stop, Halt, StopWorkers, StopValidator, StopManager, Closed, Abort, Idle, Over
<1>4. Stopping'
  BY <1>3, Kinds DEF Stopping, Become, IInv, Types, ProcType
<1> QED
  BY <1>2, <1>4 DEF SettledInv, Clean

(* Steps of nobody's coroutine.                                            *)
LEMMA RestSettled ==
    ASSUME IInv, SettledInv,
           \/ UNCHANGED vars
           \/ \E r \in Requests, c \in Contents : SaveFails(r, c)
           \/ \E c \in Contents \cup {Broken} : Edit(c)
           \/ ListenerEnds \/ ValidatorEnds \/ BlacklistUnreadable
    PROVE  SettledInv'
<1>1. /\ UNCHANGED <<using, managerVars, listenerTask, validatorTask, listVars, proc,
                     overlapped, aborted>>
      /\ Agreed'
  BY DEF vars, SaveFails, Edit, ListenerEnds, ValidatorEnds, BlacklistUnreadable, configVars,
         storeVars, taskVars, SettledInv, Agreed
<1>2. Running(listeners)' = Running(listeners)
  <2>1. CASE ListenerEnds
    <3>1. PICK n \in DOMAIN listeners : listeners[n] = "cancelled"
                /\ listeners' = [listeners EXCEPT ![n] = "ended"]
      BY <2>1 DEF ListenerEnds
    <3>2. DOMAIN listeners' = DOMAIN listeners /\ listeners'[n] = "ended"
            /\ \A i \in DOMAIN listeners : i # n => listeners'[i] = listeners[i]
      BY <3>1
    <3> QED
      BY <3>1, <3>2 DEF Running
  <2>2. CASE UNCHANGED listeners
    BY <2>2
  <2> QED
    BY <2>1, <2>2 DEF vars, SaveFails, Edit, ValidatorEnds, BlacklistUnreadable, taskVars
<1>3. Running(validators)' \subseteq Running(validators)
  <2>1. CASE ValidatorEnds \/ BlacklistUnreadable
    <3>1. PICK n \in DOMAIN validators, to \in {"ended", "failed"} :
                validators' = [validators EXCEPT ![n] = to]
      BY <2>1 DEF ValidatorEnds, BlacklistUnreadable
    <3>2. DOMAIN validators' = DOMAIN validators /\ validators'[n] # "running"
            /\ \A i \in DOMAIN validators : i # n => validators'[i] = validators[i]
      BY <3>1
    <3> QED
      BY <3>2 DEF Running
  <2>2. CASE UNCHANGED validators
    BY <2>2
  <2> QED
    BY <2>1, <2>2 DEF vars, SaveFails, Edit, ListenerEnds, taskVars
<1>4. Matched'
  BY <1>1 DEF SettledInv, Matched, managerVars
<1>5. ASSUME Clean' PROVE \E p \in Procs : Alone(p)' /\ Stage(proc[p])'
  <2>1. Clean
    BY <1>1, <1>5 DEF Clean, Stopping
  <2>2. PICK p \in Procs : Alone(p) /\ Stage(proc[p])
    BY <2>1 DEF SettledInv
  <2>3. Alone(p)' /\ Stage(proc[p])'
    BY <1>1, <1>2, <1>3, <2>2 DEF Alone, Stage, Tasks, Follows, Lists, listVars
  <2> QED
    BY <2>3
<1> QED
  BY <1>1, <1>4, <1>5 DEF SettledInv

LEMMA StepSettled == IInv /\ SettledInv /\ [Next]_vars => SettledInv'
<1> SUFFICES ASSUME IInv, SettledInv, [Next]_vars PROVE SettledInv'
  OBVIOUS
<1>1. ASSUME NEW r \in Requests, NEW c \in Contents, Save(r, c) PROVE SettledInv'
  BY <1>1, ApplySettled DEF Save
<1>2. ASSUME NEW r \in Requests, Reload(r) PROVE SettledInv'
  BY <1>2, ApplySettled DEF Reload, IInv, Types, StoreType
<1>3. ASSUME NEW p \in Procs, Closed(p) PROVE SettledInv'
  BY <1>3, ClosedSettled, StopperSettled DEF Procs
<1>4. ASSUME NEW p \in Procs, Step(p) PROVE SettledInv'
  BY <1>3, <1>4, ListenerStoppedSettled, ScriptsLoadedSettled, ValidatorStoppedSettled,
     DeleteSettled, AddSettled DEF Step
<1>5. CASE Stop \/ Halt
  BY <1>5, StopperSettled
<1>6. CASE \/ UNCHANGED vars
           \/ \E r \in Requests, c \in Contents : SaveFails(r, c)
           \/ \E c \in Contents \cup {Broken} : Edit(c)
           \/ ListenerEnds \/ ValidatorEnds \/ BlacklistUnreadable
  BY <1>6, RestSettled
<1> QED
  BY <1>1, <1>2, <1>4, <1>5, <1>6, HangupSettled DEF Next, Ask

LEMMA InitSettled == Init => SettledInv
<1> SUFFICES ASSUME Init PROVE SettledInv
  OBVIOUS
<1>1. file \in [actions : BOOLEAN, domains : SUBSET Domains]
  BY ReloadAssumption DEF Init
<1>2. using = [p \in Parts |-> file] /\ \A p \in Parts : using[p] = file
  BY DEF Init
<1>3. \A p \in Procs : proc[p] = Idle
  BY DEF Init
<1>4. Agreed /\ Matched
  BY <1>1, <1>2 DEF Init, Agreed, Matched, Parts, Reloaded, None
<1>5. Running(validators) = {1} /\ validatorTask = 1
  BY DEF Init, Running
<1>6. Running(listeners) = IF file.actions THEN {listenerTask} ELSE {}
  <2>1. CASE file.actions
    BY <2>1 DEF Init, Running
  <2>2. CASE ~file.actions
    BY <2>2 DEF Init, Running
  <2> QED
    BY <2>1, <2>2
<1>7. Stage(Idle)
  BY <1>1, <1>2, <1>5, <1>6
  DEF Stage, Tasks, Follows, Lists, Loading, Listing, Idle, Init, Parts, Reloaded
<1> QED
  BY <1>3, <1>4, <1>7 DEF SettledInv, Alone, Procs

(* No step gives a part that a reload does not reach a configuration.      *)
LEMMA KeptUntouched ==
    ASSUME TypeOK, [Next]_vars, NEW p \in Kept
    PROVE  using'[p] = using[p]
<1> /\ using \in [Parts -> Contents] /\ p \in Parts /\ p \notin Reloaded
  BY DEF TypeOK, Parts, Reloaded, Kept
<1> USE DEF configVars, storeVars, Reloaded
<1>1. ASSUME NEW c, NEW u \in [Parts -> Contents], NEW tasks, NEW m, Restart(c, u, tasks, m)
      PROVE  using'[p] = u[p]
  BY <1>1 DEF Restart
<1>2. ASSUME NEW r, NEW c, Apply(r, c) PROVE using'[p] = using[p]
  <2> DEFINE u == [using EXCEPT !.handler = c]
  <2>1. using' = u \/ using' = [u EXCEPT !.matcher = c, !.limiter = c]
    BY <1>2 DEF Apply, Restart
  <2> QED
    BY <2>1
<1>3. ASSUME NEW r \in Requests, Ask(r) PROVE using'[p] = using[p]
  BY <1>2, <1>3 DEF Ask, Reload, Save, SaveFails
<1>4. ASSUME NEW q \in Procs, Step(q) PROVE using'[p] = using[p]
  BY <1>1, <1>4 DEF Step, ListenerStopped, ScriptsLoaded, ValidatorStopped, Delete, Add, Closed
<1>5. CASE \/ \E c \in Contents \cup {Broken} : Edit(c)
           \/ \E h \in Hangups : Hangup(h)
           \/ Stop \/ Halt
           \/ ListenerEnds \/ ValidatorEnds \/ BlacklistUnreadable
           \/ UNCHANGED vars
  BY <1>5 DEF Edit, Hangup, Stop, Halt, StopWorkers, StopValidator, StopManager,
              ListenerEnds, ValidatorEnds, BlacklistUnreadable, vars
<1> QED
  BY <1>3, <1>4, <1>5 DEF Next

(* Reloads that neither overlapped nor failed leave one configuration in   *)
(* force in all parts that a reload reaches, the one the API reports and   *)
(* the file holds, and one task of each kind; the parts it does not reach  *)
(* keep one configuration, that of the start.                              *)
THEOREM SettledAlways == Spec => []Settled
<1> DEFINE OneStart == \A p, q \in Kept : using[p] = using[q]
<1>1. IInv /\ SettledInv /\ OneStart => Settled
  <2> SUFFICES ASSUME IInv, SettledInv, OneStart, Quiet, Clean
               PROVE  /\ \A p \in Reloaded : using[p] = using.handler
                      /\ using.handler = memory \/ unstored
                      /\ memory = file \/ edited \/ unstored
                      /\ list = using.handler.domains /\ localDomains = list
                      /\ Running(listeners) =
                           (IF using.handler.actions THEN {listenerTask} ELSE {})
                      /\ Running(validators) \subseteq {validatorTask}
    BY DEF Settled, Clean
  <2>1. PICK p \in Procs : Stage(proc[p])
    BY DEF SettledInv
  <2>2. proc[p].pc \in {"idle", "over"}
    BY DEF Quiet, Busy, Idle, Over
  <2> QED
    BY <2>1, <2>2
    DEF SettledInv, Agreed, Stage, Tasks, Follows, Lists, Loading, Listing, Reloaded
<1>2. Init => OneStart
  BY DEF Init, Parts
<1>3. TypeOK /\ OneStart /\ [Next]_vars => OneStart'
  BY KeptUntouched
<1> QED
  BY <1>1, <1>2, <1>3, TypeCorrect, InitSettled, StepSettled, IInvInductive, PTL DEF Spec
-----------------------------------------------------------------------------
(* Who waits, waits for a task that is about to end.                       *)

Stopped == {"cancelled", "ended"}

(* A coroutine under way has work of its own, or the task it waits for was *)
(* cancelled and ends at its next turn (handler.py:466, validator.py:37):  *)
(* that another reload has replaced and forgotten the task does not matter,*)
(* nor does an exception that ended one.                                   *)
NobodyStuck ==
    \A p \in Procs : Busy(p) =>
        \/ proc[p].pc \in {"scripts", "delete", "add", "closing"}
        \/ p = Stopper /\ At(p, "workers")
        \/ /\ At(p, "stopListener")
           /\ proc[p].task \in DOMAIN listeners /\ listeners[proc[p].task] \in Stopped
        \/ /\ At(p, "stopValidator")
           /\ proc[p].task \in DOMAIN validators /\ validators[proc[p].task] \in Stopped

Awaits(state, running, loading) ==
    /\ state.pc = "stopListener" =>
         state.task \in DOMAIN running /\ running[state.task] \in Stopped
    /\ state.pc = "stopValidator" =>
         state.task \in DOMAIN loading /\ loading[state.task] \in Stopped
WaitInv == \A p \in Procs : Awaits(proc[p], listeners, validators)

(* No step brings a task back that was stopped.                            *)
GoesOn(tasks, later) ==
    \A n \in DOMAIN tasks :
        n \in DOMAIN later /\ (tasks[n] \in Stopped => later[n] \in Stopped)

LEMMA CancelGoesOn ==
  ASSUME NEW tasks \in Seq({"running", "cancelled", "ended", "failed"}),
         NEW n \in 1 .. Len(tasks)
  PROVE  /\ GoesOn(tasks, Cancel(tasks, n))
         /\ n \in DOMAIN Cancel(tasks, n)
         /\ tasks[n] # "failed" => Cancel(tasks, n)[n] \in Stopped
  BY DEF GoesOn, Cancel, Stopped

LEMMA StartGoesOn ==
  ASSUME NEW S, NEW tasks \in Seq(S), NEW x \in S
  PROVE  GoesOn(tasks, Append(tasks, x))
  BY DEF GoesOn

LEMMA SameGoesOn ==
  ASSUME NEW tasks
  PROVE  GoesOn(tasks, tasks)
  BY DEF GoesOn

LEMMA ChangeGoesOn ==
  ASSUME NEW S, NEW tasks \in Seq(S), NEW n \in DOMAIN tasks, NEW x \in S,
         tasks[n] \notin Stopped \/ x \in Stopped
  PROVE  GoesOn(tasks, [tasks EXCEPT ![n] = x])
  BY DEF GoesOn

LEMMA AwaitsOn ==
  ASSUME NEW state, Awaits(state, listeners, validators),
         GoesOn(listeners, listeners'), GoesOn(validators, validators')
  PROVE  Awaits(state, listeners', validators')
  BY DEF Awaits, GoesOn

LEMMA WaitKept ==
  ASSUME ProcType, WaitInv, GoesOn(listeners, listeners'), GoesOn(validators, validators'),
         NEW p \in Procs, NEW state, Become(p, state), Awaits(state, listeners', validators')
  PROVE  WaitInv'
<1>1. ASSUME NEW q \in Procs
      PROVE  proc'[q] = state \/ proc'[q] = proc[q]
  BY DEF ProcType, Become
<1> QED
  BY <1>1, AwaitsOn DEF WaitInv

LEMMA RestartGoesOn ==
  ASSUME ListenerType, NEW c, NEW u, NEW m, Restart(c, u, listeners, m)
  PROVE  GoesOn(listeners, listeners')
<1>1. listeners' = listeners \/ listeners' = Append(listeners, "running")
  BY DEF Restart
<1> QED
  BY <1>1, SameGoesOn, StartGoesOn DEF ListenerType

LEMMA ApplyWaits ==
  ASSUME IInv, WaitInv, NEW r \in Requests, NEW c, Apply(r, c)
  PROVE  WaitInv'
<1> USE DEF IInv, Types
<1>1. r \in Procs /\ validators' = validators
  BY DEF Procs, Apply
<1>2. GoesOn(validators, validators')
  BY <1>1, SameGoesOn
<1>3. CASE listenerTask # None /\ listeners' = Cancel(listeners, listenerTask)
             /\ Become(r, [pc |-> "stopListener", config |-> c, old |-> manager,
                           task |-> listenerTask])
  <2>1. /\ listenerTask \in 1 .. Len(listeners)
        /\ listeners \in Seq({"running", "cancelled", "ended", "failed"})
        /\ listeners[listenerTask] # "failed"
    BY <1>3 DEF ListenerType, None
  <2>2. PICK state : state = [pc |-> "stopListener", config |-> c, old |-> manager,
                              task |-> listenerTask]
    OBVIOUS
  <2>3. Awaits(state, listeners', validators') /\ GoesOn(listeners, listeners')
    BY <1>3, <2>1, <2>2, CancelGoesOn DEF Awaits
  <2> QED
    BY <1>1, <1>2, <1>3, <2>2, <2>3, WaitKept
<1>4. ASSUME NEW u, NEW m, Restart(c, u, listeners, m),
             Become(r, [pc |-> "scripts", config |-> c, old |-> manager])
      PROVE  WaitInv'
  <2>1. PICK state : state = [pc |-> "scripts", config |-> c, old |-> manager]
    OBVIOUS
  <2>2. Awaits(state, listeners', validators')
    BY <2>1 DEF Awaits
  <2>3. GoesOn(listeners, listeners')
    BY <1>4, RestartGoesOn
  <2> QED
    BY <1>1, <1>2, <1>4, <2>1, <2>2, <2>3, WaitKept
<1> QED
  BY <1>3, <1>4 DEF Apply

(* The steps of a reload.                                                  *)
LEMMA StepWaits ==
  ASSUME IInv, WaitInv, NEW p \in Procs, Step(p)
  PROVE  WaitInv'
<1> USE DEF IInv, Types
<1>1. CASE ListenerStopped(p)
  <2>1. PICK state : state = [pc |-> "scripts", config |-> proc[p].config, old |-> proc[p].old]
    OBVIOUS
  <2>2. Awaits(state, listeners', validators')
    BY <2>1 DEF Awaits
  <2>3. GoesOn(listeners, listeners') /\ GoesOn(validators, validators')
    BY <1>1, RestartGoesOn, SameGoesOn DEF ListenerStopped
  <2> QED
    BY <1>1, <2>1, <2>2, <2>3, WaitKept DEF ListenerStopped
<1>2. CASE ScriptsLoaded(p)
  <2>1. GoesOn(listeners, listeners')
    BY <1>2, SameGoesOn DEF ScriptsLoaded
  <2>2. CASE Abort(p) /\ validators' = validators
    BY <2>1, <2>2, SameGoesOn, WaitKept DEF Abort, Idle, Over, Awaits
  <2>3. CASE /\ validators[validatorTask] # "failed"
             /\ validators' = Cancel(validators, validatorTask)
             /\ Become(p, [pc |-> "stopValidator", config |-> proc[p].config,
                           old |-> proc[p].old, task |-> validatorTask])
    <3>1. PICK state : state = [pc |-> "stopValidator", config |-> proc[p].config,
                                old |-> proc[p].old, task |-> validatorTask]
      OBVIOUS
    <3>2. Awaits(state, listeners', validators') /\ GoesOn(validators, validators')
      BY <2>3, <3>1, CancelGoesOn DEF Awaits, ValidatorType
    <3> QED
      BY <2>1, <2>3, <3>1, <3>2, WaitKept
  <2> QED
    BY <1>2, <2>2, <2>3 DEF ScriptsLoaded
<1>3. CASE ValidatorStopped(p)
  <2>1. GoesOn(listeners, listeners')
    BY <1>3, SameGoesOn DEF ValidatorStopped
  <2>2. CASE Abort(p) /\ validators' = validators
    BY <2>1, <2>2, SameGoesOn, WaitKept DEF Abort, Idle, Over, Awaits
  <2>3. CASE /\ validators' = Append(validators, "running")
             /\ Become(p, [pc |-> "delete", old |-> proc[p].old,
                           items |-> using.handler.domains])
    <3>1. PICK state : state = [pc |-> "delete", old |-> proc[p].old,
                                items |-> using.handler.domains]
      OBVIOUS
    <3>2. Awaits(state, listeners', validators') /\ GoesOn(validators, validators')
      BY <2>3, <3>1, StartGoesOn DEF Awaits, ValidatorType
    <3> QED
      BY <2>1, <2>3, <3>1, <3>2, WaitKept
  <2> QED
    BY <1>3, <2>2, <2>3 DEF ValidatorStopped
<1>4. CASE Delete(p) \/ Add(p) \/ Closed(p)
  <2>1. GoesOn(listeners, listeners') /\ GoesOn(validators, validators')
    BY <1>4, SameGoesOn DEF Delete, Add, Closed, taskVars
  <2>2. ASSUME NEW state, Become(p, state), state.pc \notin {"stopListener", "stopValidator"}
        PROVE  WaitInv'
    BY <2>1, <2>2, WaitKept DEF Awaits
  <2>3. \E state : Become(p, state) /\ state.pc \notin {"stopListener", "stopValidator"}
    <3>1. CASE Delete(p)
      <4>1. PICK state : state = [proc[p] EXCEPT !.pc = "add"]
        OBVIOUS
      <4>2. CASE Become(p, state)
        <5>1. p \in Requests \cup Hangups /\ proc[p].pc = "delete"
          BY <3>1, ListStates DEF Delete, At
        <5>2. state.pc = "add"
          BY <4>1, <5>1, ReloadAssumption
             DEF ProcType, RequestStates, HangupStates, Idle
        <5> QED
          BY <4>2, <5>2
      <4>3. CASE Abort(p)
        BY <4>3 DEF Abort, Idle, Over
      <4> QED
        BY <3>1, <4>1, <4>2, <4>3 DEF Delete
    <3>2. CASE Add(p)
      BY <3>2 DEF Add, CloseOld, Abort, Idle, Over
    <3>3. CASE Closed(p)
      BY <3>3 DEF Closed, Idle, Over
    <3> QED
      BY <1>4, <3>1, <3>2, <3>3
  <2> QED
    BY <2>2, <2>3
<1> QED
  BY <1>1, <1>2, <1>3, <1>4 DEF Step

(* The shutdown.                                                           *)
LEMMA ShutdownWaits ==
  ASSUME IInv, WaitInv, Stop \/ Halt
  PROVE  WaitInv'
<1> USE DEF IInv, Types
<1>0. Stopper \in Procs
  BY DEF Procs
<1>1. CASE Stop
  <2>1. GoesOn(validators, validators')
    BY <1>1, SameGoesOn DEF Stop
  <2>2. CASE /\ listenerTask # None /\ listeners' = Cancel(listeners, listenerTask)
             /\ Become(Stopper, [pc |-> "stopListener", task |-> listenerTask])
    <3>1. /\ listenerTask \in 1 .. Len(listeners)
          /\ listeners \in Seq({"running", "cancelled", "ended", "failed"})
          /\ listeners[listenerTask] # "failed"
      BY <2>2 DEF ListenerType, None
    <3>2. PICK state : state = [pc |-> "stopListener", task |-> listenerTask]
      OBVIOUS
    <3>3. Awaits(state, listeners', validators') /\ GoesOn(listeners, listeners')
      BY <2>2, <3>1, <3>2, CancelGoesOn DEF Awaits
    <3> QED
      BY <1>0, <2>1, <2>2, <3>2, <3>3, WaitKept
  <2>3. CASE Become(Stopper, [pc |-> "workers"]) /\ listeners' = listeners
    BY <1>0, <2>1, <2>3, SameGoesOn, WaitKept DEF Awaits
  <2> QED
    BY <1>1, <2>2, <2>3 DEF Stop
<1>2. CASE StopWorkers
  BY <1>0, <1>2, SameGoesOn, WaitKept DEF StopWorkers, Awaits
<1>3. CASE StopValidator
  <2>1. GoesOn(listeners, listeners')
    BY <1>3 DEF StopValidator, GoesOn, Stopped, ListenerType
  <2>2. CASE Abort(Stopper) /\ validators' = validators
    BY <1>0, <2>1, <2>2, SameGoesOn, WaitKept DEF Abort, Idle, Over, Awaits
  <2>3. CASE /\ validators[validatorTask] # "failed"
             /\ validators' = Cancel(validators, validatorTask)
             /\ Become(Stopper, [pc |-> "stopValidator", task |-> validatorTask])
    <3>1. PICK state : state = [pc |-> "stopValidator", task |-> validatorTask]
      OBVIOUS
    <3>2. Awaits(state, listeners', validators') /\ GoesOn(validators, validators')
      BY <2>3, <3>1, CancelGoesOn DEF Awaits, ValidatorType
    <3> QED
      BY <1>0, <2>1, <2>3, <3>1, <3>2, WaitKept
  <2> QED
    BY <1>3, <2>2, <2>3 DEF StopValidator
<1>4. CASE StopManager
  <2>1. GoesOn(listeners, listeners') /\ GoesOn(validators, validators')
    BY <1>4, SameGoesOn DEF StopManager, taskVars
  <2> QED
    BY <1>0, <1>4, <2>1, WaitKept DEF StopManager, Over, Awaits
<1> QED
  BY <1>1, <1>2, <1>3, <1>4 DEF Halt

LEMMA SameWaits ==
  ASSUME WaitInv, proc' = proc, GoesOn(listeners, listeners'), GoesOn(validators, validators')
  PROVE  WaitInv'
  BY AwaitsOn DEF WaitInv

LEMMA NextWaits == IInv /\ WaitInv /\ [Next]_vars => WaitInv'
<1> SUFFICES ASSUME IInv, WaitInv, [Next]_vars PROVE WaitInv'
  OBVIOUS
<1>1. ASSUME NEW r \in Requests, NEW c, Apply(r, c) PROVE WaitInv'
  BY <1>1, ApplyWaits
<1>2. ASSUME NEW h \in Hangups, Hangup(h) PROVE WaitInv'
  <2>1. GoesOn(listeners, listeners') /\ GoesOn(validators, validators')
    BY <1>2, SameGoesOn DEF Hangup, taskVars
  <2>2. PICK state : state = [pc |-> "delete", old |-> None, items |-> using.handler.domains]
    OBVIOUS
  <2>3. Awaits(state, listeners', validators') /\ h \in Procs
    BY <2>2 DEF Awaits, Procs
  <2> QED
    BY <1>2, <2>1, <2>2, <2>3, WaitKept DEF Hangup, IInv, Types
<1>3. CASE \/ \E r \in Requests, c \in Contents : SaveFails(r, c)
           \/ \E c \in Contents \cup {Broken} : Edit(c)
           \/ UNCHANGED vars
  BY <1>3, SameGoesOn, SameWaits DEF SaveFails, Edit, vars, taskVars
<1>4. CASE ListenerEnds
  <2>1. PICK n \in DOMAIN listeners : listeners' = [listeners EXCEPT ![n] = "ended"]
    BY <1>4 DEF ListenerEnds
  <2>2. GoesOn(listeners, listeners')
    BY <2>1, ChangeGoesOn DEF IInv, Types, ListenerType, Stopped
  <2> QED
    BY <1>4, <2>2, SameGoesOn, SameWaits DEF ListenerEnds
<1>5. CASE ValidatorEnds
  <2>1. PICK n \in DOMAIN validators : validators' = [validators EXCEPT ![n] = "ended"]
    BY <1>5 DEF ValidatorEnds
  <2>2. GoesOn(validators, validators')
    BY <2>1, ChangeGoesOn DEF IInv, Types, ValidatorType, Stopped
  <2> QED
    BY <1>5, <2>2, SameGoesOn, SameWaits DEF ValidatorEnds
<1>6. CASE BlacklistUnreadable
  <2>1. PICK n \in DOMAIN validators :
          validators[n] = "running" /\ validators' = [validators EXCEPT ![n] = "failed"]
    BY <1>6 DEF BlacklistUnreadable
  <2>2. GoesOn(validators, validators')
    BY <2>1, ChangeGoesOn DEF IInv, Types, ValidatorType, Stopped
  <2> QED
    BY <1>6, <2>2, SameGoesOn, SameWaits DEF BlacklistUnreadable
<1> QED
  BY <1>1, <1>2, <1>3, <1>4, <1>5, <1>6, StepWaits, ShutdownWaits
     DEF Next, Ask, Reload, Save

(* However many reloads overlap and fail, no coroutine waits for a task    *)
(* that runs on.                                                           *)
THEOREM NobodyStuckAlways == Spec => []NobodyStuck
<1>1. Init => WaitInv
  BY DEF Init, WaitInv, Awaits, Idle
<1>2. IInv /\ WaitInv => NobodyStuck
  <2> SUFFICES ASSUME IInv, WaitInv, NEW p \in Procs, Busy(p)
               PROVE  \/ proc[p].pc \in {"scripts", "delete", "add", "closing"}
                      \/ p = Stopper /\ At(p, "workers")
                      \/ /\ At(p, "stopListener")
                         /\ proc[p].task \in DOMAIN listeners
                         /\ listeners[proc[p].task] \in Stopped
                      \/ /\ At(p, "stopValidator")
                         /\ proc[p].task \in DOMAIN validators
                         /\ validators[proc[p].task] \in Stopped
    BY DEF NobodyStuck
  <2>1. \/ proc[p].pc \in {"scripts", "delete", "add", "closing", "stopListener", "stopValidator"}
        \/ p = Stopper /\ proc[p].pc = "workers"
    BY DEF IInv, Types, ProcType, Procs, RequestStates, HangupStates, StopperStates, Busy
  <2> QED
    BY <2>1 DEF WaitInv, Awaits, At
<1> QED
  BY <1>1, <1>2, NextWaits, IInvInductive, PTL DEF Spec
=============================================================================
