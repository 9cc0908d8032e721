-------------------------- MODULE MultiServerProofs --------------------------
(***************************************************************************)
(* What MultiServer guarantees for any servers, callers and bounds: its    *)
(* types, that the registry's file follows the registry, that calls report *)
(* what they did, and that no status is replaced by an older one unless    *)
(* two checks of a server overlapped.  Everything follows from             *)
(* ServersAssumption.                                                      *)
(***************************************************************************)
EXTENDS MultiServer, TLAPS

(* The parts of TypeOK.                                                    *)
RegistryType ==
    /\ running \in BOOLEAN /\ unsaved \in BOOLEAN
    /\ servers \in [Ids -> Flags] /\ (file = Torn \/ file \in [Ids -> Flags])
    /\ changes \in 0 .. MaxChanges /\ faults \in 0 .. MaxFaults
    /\ requests \in 0 .. MaxRequests
ConditionType == condition \in [Ids -> 0 .. MaxCondition]
CacheType == cache \in [Ids -> Unknown .. MaxCondition] /\ overlapped \subseteq Ids
LoopType ==
    loop \in [pc : {"stopped", "asleep", "asked"}, asked : SUBSET Ids,
              found : [Ids -> Unknown .. MaxCondition]]
RefresherType ==
    refresher \in [Refreshers -> [pc : {"idle"}] \cup [pc : {"asked"}, server : Ids]
                     \cup [pc : {"found"}, server : Ids, found : 0 .. MaxCondition]]
CallType ==
    /\ call \in [Callers -> [pc : {"idle", "gathering", "raised", "returned"},
                             asked : SUBSET Ids, todo : SUBSET Ids, sent : SUBSET Ids,
                             ok : SUBSET Ids, failed : SUBSET Ids]]
    /\ carriedOut \in [Callers -> SUBSET Ids]
Types == /\ RegistryType /\ ConditionType /\ CacheType /\ LoopType
         /\ RefresherType /\ CallType

LEMMA TypeParts == Types <=> TypeOK
BY DEF Types, TypeOK, RegistryType, ConditionType, CacheType, LoopType,
       RefresherType, CallType

(* What a call of execute_on_all_servers has asked is, server by server,   *)
(* still to be sent, under way, or answered.                               *)
Reported(c) ==
    /\ call[c].ok \subseteq carriedOut[c]
    /\ carriedOut[c] \subseteq call[c].asked
    /\ call[c].todo \subseteq call[c].asked /\ call[c].sent \subseteq call[c].asked
    /\ call[c].pc = "idle" =>
         carriedOut[c] = {} /\ call[c].todo = {} /\ call[c].sent = {}
    /\ call[c].pc \in {"gathering", "returned"} =>
         call[c].asked = call[c].todo \cup call[c].sent \cup call[c].ok \cup call[c].failed
    /\ call[c].pc = "returned" => call[c].todo = {} /\ call[c].sent = {}

(* The health loop, a refresh.                                             *)
Asking(s) == loop.pc = "asked" /\ s \in loop.asked
CheckedBy(r, s) == refresher[r].pc \in {"asked", "found"} /\ refresher[r].server = s

(* Of a server whose checks never overlapped: at most one check is under   *)
(* way, and it has found nothing older than the cache holds.               *)
Ordered(s) ==
    /\ cache[s] <= condition[s]
    /\ Asking(s) /\ loop.found[s] # Unknown =>
         loop.found[s] <= condition[s] /\ (s \notin overlapped => cache[s] <= loop.found[s])
    /\ \A r \in Refreshers : CheckedBy(r, s) /\ refresher[r].pc = "found" =>
         refresher[r].found <= condition[s]
           /\ (s \notin overlapped => cache[s] <= refresher[r].found)
    /\ s \notin overlapped => \A r \in Refreshers : CheckedBy(r, s) =>
         ~Asking(s) /\ \A q \in Refreshers : CheckedBy(q, s) => q = r

(* The inductive invariant.                                                *)
IInv == /\ Types /\ FileFollows
        /\ \A c \in Callers : Reported(c)
        /\ \A s \in Ids : Ordered(s)
-----------------------------------------------------------------------------
LEMMA InitEstablishes == Init => IInv
<1> SUFFICES ASSUME Init PROVE IInv
  OBVIOUS
<1>1. Types
  <2>0. servers \in [Ids -> Flags] /\ file = servers
    BY DEF Init, Flags
  <2>1. RegistryType
    <3>1. running = TRUE /\ unsaved = FALSE /\ changes = 0 /\ faults = 0 /\ requests = 0
      BY DEF Init
    <3>2. changes \in 0 .. MaxChanges /\ faults \in 0 .. MaxFaults /\ requests \in 0 .. MaxRequests
      BY <3>1, ServersAssumption
    <3>3. file = Torn \/ file \in [Ids -> Flags]
      BY <2>0
    <3> QED
      BY <2>0, <3>1, <3>2, <3>3 DEF RegistryType
  <2>5. ConditionType
    BY ServersAssumption DEF Init, ConditionType
  <2>2. CacheType /\ LoopType
    BY ServersAssumption DEF Init, CacheType, LoopType, NoFindings, Stopped, Unknown
  <2>3. RefresherType
    BY DEF Init, RefresherType, IdleRefresh
  <2>4. CallType
    BY DEF Init, CallType, IdleCall
  <2> QED
    BY <2>1, <2>2, <2>3, <2>4, <2>5 DEF Types
<1>2. FileFollows
  BY DEF Init, FileFollows
<1>3. \A c \in Callers : Reported(c)
  BY DEF Init, Reported, IdleCall
<1>4. \A s \in Ids : Ordered(s)
  BY DEF Init, Ordered, Asking, CheckedBy, NoFindings, Stopped, IdleRefresh, Unknown
<1> QED
  BY <1>1, <1>2, <1>3, <1>4 DEF IInv

(* The registry, its file and the bounds: what changes them keeps their    *)
(* types, and the file follows.                                            *)
LEMMA RegistryStep ==
    ASSUME RegistryType, FileFollows,
           \/ \E s \in Ids, flag \in Flags : Change(s, flag)
           \/ Restart
    PROVE  RegistryType' /\ FileFollows'
<1>1. CASE \E s \in Ids, flag \in Flags : Change(s, flag)
  <2>1. PICK s \in Ids, flag \in Flags : Change(s, flag)
    BY <1>1
  <2>2. servers' \in [Ids -> Flags]
    BY <2>1 DEF Change, RegistryType
  <2>3. (file' = servers' \/ file' = Torn \/ file' = file)
          /\ unsaved' \in BOOLEAN /\ (file' = servers' \/ unsaved')
    BY <2>1 DEF Change, Save
  <2>4. faults' \in 0 .. MaxFaults
    BY <2>1, ServersAssumption DEF Change, Save, RegistryType
  <2>5. changes' \in 0 .. MaxChanges /\ running' = running /\ requests' = requests
    BY <2>1, ServersAssumption DEF Change, RegistryType
  <2> QED
    BY <2>2, <2>3, <2>4, <2>5 DEF RegistryType, FileFollows
<1>2. CASE Restart
  BY <1>2 DEF Restart, RegistryType, FileFollows
<1> QED
  BY <1>1, <1>2

LEMMA OtherRegistryStep ==
    ASSUME RegistryType, FileFollows, UNCHANGED registryVars,
           requests' = requests \/ (requests < MaxRequests /\ requests' = requests + 1)
    PROVE  RegistryType' /\ FileFollows'
BY ServersAssumption DEF RegistryType, FileFollows, registryVars

(* The steps of the health loop.                                           *)
LEMMA LoopStep ==
    ASSUME Types, Start \/ StopLoop \/ Round
    PROVE  LoopType' /\ CacheType'
<1> USE ServersAssumption DEF Types, LoopType, CacheType, Unknown
<1>1. CASE Start \/ StopLoop
  BY <1>1 DEF Start, StopLoop, Stopped, NoFindings
<1>2. CASE AskAll
  BY <1>2 DEF AskAll, Enabled, NoFindings
<1>3. ASSUME NEW s \in Ids, LoopFinds(s)
      PROVE  LoopType' /\ CacheType'
  <2>1. condition[s] \in Unknown .. MaxCondition
    BY DEF ConditionType
  <2> QED
    BY <1>3, <2>1 DEF LoopFinds
<1>4. CASE StoreAll
  <2>1. \A s \in Ids : NewStatus(s) \in Unknown .. MaxCondition
    BY DEF NewStatus
  <2> QED
    BY <1>4, <2>1 DEF StoreAll
<1> QED
  BY <1>1, <1>2, <1>3, <1>4 DEF Round

(* The steps of a refresh.                                                 *)
LEMMA RefreshStep ==
    ASSUME Types, NEW r \in Refreshers,
           \/ \E s \in Ids : Refresh(r, s)
           \/ RefreshFinds(r) \/ RefreshStores(r)
    PROVE  RefresherType' /\ CacheType'
<1> USE DEF Types
<1>1. ASSUME NEW s \in Ids, Refresh(r, s)
      PROVE  RefresherType' /\ CacheType'
  BY <1>1 DEF Refresh, RefresherType, CacheType
<1>2. CASE RefreshFinds(r)
  <2>1. refresher[r].server \in Ids
    BY <1>2 DEF RefreshFinds, RefresherType
  <2>2. condition[refresher[r].server] \in 0 .. MaxCondition
    BY <2>1 DEF ConditionType
  <2> QED
    BY <1>2, <2>1, <2>2 DEF RefreshFinds, RefresherType, CacheType
<1>3. CASE RefreshStores(r)
  <2>1. refresher[r].server \in Ids /\ refresher[r].found \in 0 .. MaxCondition
    BY <1>3 DEF RefreshStores, RefresherType
  <2> QED
    BY <1>3, <2>1, ServersAssumption
    DEF RefreshStores, RefresherType, CacheType, IdleRefresh, Unknown
<1> QED
  BY <1>1, <1>2, <1>3

(* The steps of a call, one coroutine after the other.                     *)
LEMMA ExecuteStep ==
    ASSUME CallType, NEW c \in Callers, \A d \in Callers : Reported(d),
           Execute(c) \/ Return(c)
    PROVE  CallType' /\ \A d \in Callers : Reported(d)'
<1>1. CASE Execute(c)
  BY <1>1 DEF CallType, Execute, IdleCall, Enabled, Reported
<1>2. CASE Return(c)
  BY <1>2 DEF CallType, Return, Reported
<1> QED
  BY <1>1, <1>2

CallRecords ==
    [pc : {"idle", "gathering", "raised", "returned"}, asked : SUBSET Ids,
     todo : SUBSET Ids, sent : SUBSET Ids, ok : SUBSET Ids, failed : SUBSET Ids]

LEMMA BeginStep ==
    ASSUME CallType, NEW c \in Callers, NEW s \in Ids,
           \A d \in Callers : Reported(d), Begin(c, s)
    PROVE  CallType' /\ \A d \in Callers : Reported(d)'
<1>1. s \in call[c].todo /\ carriedOut' = carriedOut
  BY DEF Begin
<1>2. call[c] \in CallRecords
  BY DEF CallType, CallRecords
<1>3. /\ call' \in [Callers -> CallRecords]
      /\ \A d \in Callers : d # c => call'[d] = call[d]
      /\ call'[c].asked = call[c].asked /\ call'[c].todo = call[c].todo \ {s}
      /\ call'[c].ok = call[c].ok /\ call'[c].failed = call[c].failed
      /\ \/ call'[c].pc = "raised" /\ call'[c].sent = call[c].sent
         \/ call'[c].pc = call[c].pc /\ call'[c].sent = call[c].sent \cup {s}
  <2>1. CASE servers[s] = "none"
    <3>1. call' = [call EXCEPT ![c].todo = @ \ {s}, ![c].pc = "raised"]
      BY <2>1 DEF Begin
    <3> QED
      BY <1>2, <3>1 DEF CallType, CallRecords
  <2>2. CASE servers[s] # "none"
    <3>1. call' = [call EXCEPT ![c].todo = @ \ {s}, ![c].sent = @ \cup {s}]
      BY <2>2 DEF Begin
    <3> QED
      BY <1>2, <3>1 DEF CallType, CallRecords
  <2> QED
    BY <2>1, <2>2
<1>4. CallType'
  BY <1>1, <1>3 DEF CallType, CallRecords
<1>6. ASSUME NEW d \in Callers, d # c PROVE Reported(d)'
  BY <1>6, <1>1, <1>3 DEF Reported
<1>7. Reported(c)'
  <2>1. /\ call[c].pc # "idle" /\ call[c].pc # "returned" /\ carriedOut'[c] = carriedOut[c]
        /\ Reported(c)
    BY <1>1 DEF Reported
  <2> QED
    BY <1>1, <1>3, <2>1 DEF Reported
<1> QED
  BY <1>4, <1>6, <1>7

LEMMA AnswerStep ==
    ASSUME CallType, NEW c \in Callers, NEW s \in Ids,
           \A d \in Callers : Reported(d), Answer(c, s)
    PROVE  CallType' /\ \A d \in Callers : Reported(d)'
<1>1. s \in call[c].sent
  BY DEF Answer
<1>2. call[c] \in CallRecords
  BY DEF CallType, CallRecords
<1>3. PICK done \in BOOLEAN, ok \in BOOLEAN :
        /\ ok => done
        /\ carriedOut' = IF done THEN [carriedOut EXCEPT ![c] = @ \cup {s}] ELSE carriedOut
        /\ call' = IF ok
             THEN [call EXCEPT ![c].sent = @ \ {s}, ![c].ok = @ \cup {s}]
             ELSE [call EXCEPT ![c].sent = @ \ {s}, ![c].failed = @ \cup {s}]
  BY DEF Answer
<1>4. /\ call' \in [Callers -> CallRecords]
      /\ \A d \in Callers : d # c => call'[d] = call[d]
      /\ call'[c].pc = call[c].pc /\ call'[c].asked = call[c].asked
      /\ call'[c].todo = call[c].todo /\ call'[c].sent = call[c].sent \ {s}
      /\ \/ ok /\ call'[c].ok = call[c].ok \cup {s} /\ call'[c].failed = call[c].failed
         \/ ~ok /\ call'[c].ok = call[c].ok /\ call'[c].failed = call[c].failed \cup {s}
  <2>1. CASE ok
    <3>1. call' = [call EXCEPT ![c].sent = @ \ {s}, ![c].ok = @ \cup {s}]
      BY <1>3, <2>1
    <3> QED
      BY <1>2, <2>1, <3>1 DEF CallType, CallRecords
  <2>2. CASE ~ok
    <3>1. call' = [call EXCEPT ![c].sent = @ \ {s}, ![c].failed = @ \cup {s}]
      BY <1>3, <2>2
    <3> QED
      BY <1>2, <2>2, <3>1 DEF CallType, CallRecords
  <2> QED
    BY <2>1, <2>2
<1>5. /\ carriedOut' \in [Callers -> SUBSET Ids]
      /\ carriedOut[c] \subseteq carriedOut'[c] /\ carriedOut'[c] \subseteq carriedOut[c] \cup {s}
      /\ ok => s \in carriedOut'[c]
      /\ \A d \in Callers : d # c => carriedOut'[d] = carriedOut[d]
  BY <1>3 DEF CallType
<1>6. CallType'
  BY <1>4, <1>5 DEF CallType, CallRecords
<1>8. ASSUME NEW d \in Callers, d # c PROVE Reported(d)'
  BY <1>8, <1>4, <1>5 DEF Reported
<1>9. Reported(c)'
  <2>1. /\ call[c].pc # "idle" /\ call[c].pc # "returned" /\ s \in call[c].asked
        /\ Reported(c)
    BY <1>1 DEF Reported
  <2> QED
    BY <1>1, <1>4, <1>5, <2>1 DEF Reported
<1> QED
  BY <1>6, <1>8, <1>9
-----------------------------------------------------------------------------
(* The order of what the checks of one server find.                        *)
LEMMA OrderUndisturbed ==
    ASSUME \A s \in Ids : Ordered(s),
           UNCHANGED <<condition, cache, loop, refresher, overlapped>>
    PROVE  \A s \in Ids : Ordered(s)'
BY DEF Ordered, Asking, CheckedBy

LEMMA OrderAfterTurn ==
    ASSUME Types, \A s \in Ids : Ordered(s), NEW t \in Ids, Turn(t)
    PROVE  ConditionType' /\ \A s \in Ids : Ordered(s)'
<1>1. condition' \in [Ids -> 0 .. MaxCondition]
        /\ \A s \in Ids : condition[s] <= condition'[s]
  BY ServersAssumption DEF Turn, Types, ConditionType
<1>2. UNCHANGED <<cache, loop, refresher, overlapped>>
  BY DEF Turn, checkVars
<1>3. ASSUME NEW s \in Ids PROVE Ordered(s)'
  <2>1. condition[s] \in Int /\ condition'[s] \in Int /\ cache[s] \in Int
          /\ loop.found[s] \in Int
    BY <1>1 DEF Types, ConditionType, CacheType, LoopType, Unknown
  <2>2. \A r \in Refreshers : refresher[r].pc = "found" => refresher[r].found \in Int
    BY DEF Types, RefresherType
  <2> QED
    BY <1>1, <1>2, <2>1, <2>2 DEF Ordered, Asking, CheckedBy
<1> QED
  BY <1>1, <1>3 DEF ConditionType

LEMMA OrderAfterLoop ==
    ASSUME Types, \A s \in Ids : Ordered(s), Start \/ StopLoop \/ Round
    PROVE  \A s \in Ids : Ordered(s)'
<1> SUFFICES ASSUME NEW s \in Ids PROVE Ordered(s)'
  OBVIOUS
<1>0. Ordered(s) /\ condition[s] \in Int /\ cache[s] \in Int
  BY DEF Types, ConditionType, CacheType, Unknown
<1>1. CASE Start \/ StopLoop
  BY <1>1, <1>0 DEF Start, StopLoop, Stopped, Ordered, Asking, CheckedBy
<1>2. CASE AskAll
  <2>1. /\ loop'.found[s] = Unknown
        /\ Asking(s)' => s \in Enabled
        /\ s \in Enabled /\ Refreshing(s) => s \in overlapped'
        /\ s \notin overlapped' => s \notin overlapped
        /\ UNCHANGED <<condition, cache, refresher>>
    BY <1>2 DEF AskAll, Asking, NoFindings
  <2>3. ASSUME Asking(s)', s \notin overlapped', NEW r \in Refreshers, CheckedBy(r, s)
        PROVE  FALSE
    <3>1. Refreshing(s)
      BY <2>3 DEF Refreshing, CheckedBy
    <3> QED
      BY <2>1, <2>3, <3>1
  <2>4. /\ condition'[s] = condition[s] /\ cache'[s] = cache[s]
        /\ s \notin overlapped' => s \notin overlapped
        /\ \A r \in Refreshers : refresher'[r] = refresher[r] /\ (CheckedBy(r, s)' <=> CheckedBy(r, s))
    BY <2>1 DEF CheckedBy
  <2>5. loop'.found[s] = Unknown
    BY <2>1
  <2> QED
    BY <1>0, <2>3, <2>4, <2>5 DEF Ordered
<1>3. ASSUME NEW t \in Ids, LoopFinds(t)
      PROVE  Ordered(s)'
  <2>1. /\ UNCHANGED <<condition, cache, refresher, overlapped>>
        /\ loop'.found[s] = IF s = t THEN condition[s] ELSE loop.found[s]
        /\ loop'.pc = loop.pc /\ loop'.asked = loop.asked
    BY <1>3 DEF LoopFinds, Types, LoopType
  <2> QED
    BY <1>0, <2>1 DEF Ordered, Asking, CheckedBy
<1>4. CASE StoreAll
  <2>1. /\ UNCHANGED <<condition, refresher, overlapped>> /\ loop.pc = "asked"
        /\ cache'[s] = IF s \in loop.asked THEN loop.found[s] ELSE cache[s]
        /\ s \in loop.asked => loop.found[s] # Unknown
        /\ loop'.pc = "asleep"
    BY <1>4 DEF StoreAll, NewStatus, Types, LoopType
  <2> QED
    BY <1>0, <2>1 DEF Ordered, Asking, CheckedBy
<1> QED
  BY <1>1, <1>2, <1>3, <1>4 DEF Round

LEMMA OrderAfterRefresh ==
    ASSUME Types, \A s \in Ids : Ordered(s), NEW r \in Refreshers,
           \/ \E t \in Ids : Refresh(r, t)
           \/ RefreshFinds(r) \/ RefreshStores(r)
    PROVE  \A s \in Ids : Ordered(s)'
<1> SUFFICES ASSUME NEW s \in Ids PROVE Ordered(s)'
  OBVIOUS
<1>0. Ordered(s) /\ condition[s] \in Int /\ cache[s] \in Int /\ loop.found[s] \in Int
  BY DEF Types, ConditionType, CacheType, LoopType, Unknown
<1>1. ASSUME NEW t \in Ids, Refresh(r, t)
      PROVE  Ordered(s)'
  <2>1. /\ UNCHANGED <<condition, cache, loop>>
        /\ refresher[r].pc = "idle"
        /\ refresher'[r].pc = "asked" /\ refresher'[r].server = t
        /\ \A q \in Refreshers : q # r => refresher'[q] = refresher[q]
        /\ overlapped \subseteq overlapped'
        /\ Refreshing(t) \/ Asking(t) => t \in overlapped'
    BY <1>1 DEF Refresh, Types, RefresherType, Asking
  <2>2. ASSUME s = t, s \notin overlapped', NEW q \in Refreshers, CheckedBy(q, s)
        PROVE  FALSE
    BY <2>1, <2>2 DEF Refreshing, CheckedBy
  <2> QED
    BY <1>0, <2>1, <2>2 DEF Ordered, CheckedBy, Asking
<1>2. CASE RefreshFinds(r)
  <2>1. /\ UNCHANGED <<condition, cache, loop, overlapped>>
        /\ refresher[r].pc = "asked"
        /\ refresher'[r] = [pc |-> "found", server |-> refresher[r].server,
                            found |-> condition[refresher[r].server]]
        /\ \A q \in Refreshers : q # r => refresher'[q] = refresher[q]
    BY <1>2 DEF RefreshFinds, Types, RefresherType
  <2>2. \A q \in Refreshers : CheckedBy(q, s)' <=> CheckedBy(q, s)
    BY <2>1 DEF CheckedBy
  <2> QED
    BY <1>0, <2>1, <2>2 DEF Ordered, CheckedBy, Asking
<1>3. CASE RefreshStores(r)
  <2>1. /\ UNCHANGED <<condition, loop, overlapped>>
        /\ refresher[r].pc = "found"
        /\ cache'[s] = IF s = refresher[r].server THEN refresher[r].found ELSE cache[s]
        /\ refresher'[r].pc = "idle"
        /\ \A q \in Refreshers : q # r => refresher'[q] = refresher[q]
    BY <1>3 DEF RefreshStores, IdleRefresh, Types, RefresherType, CacheType
  <2>2. \A q \in Refreshers : CheckedBy(q, s)' <=> q # r /\ CheckedBy(q, s)
    BY <2>1 DEF CheckedBy
  <2>3. CheckedBy(r, s) <=> s = refresher[r].server
    BY <2>1 DEF CheckedBy
  <2>4. \A q \in Refreshers : q # r => refresher'[q] = refresher[q]
    BY <2>1
  <2>5. CASE s = refresher[r].server
    <3>1. cache'[s] = refresher[r].found /\ refresher[r].found <= condition[s]
      BY <1>0, <2>1, <2>3, <2>5 DEF Ordered
    <3>2. s \notin overlapped => ~Asking(s) /\ \A q \in Refreshers : ~CheckedBy(q, s)'
      BY <1>0, <2>2, <2>3, <2>5 DEF Ordered
    <3>3. Asking(s)' <=> Asking(s)
      BY <2>1 DEF Asking
    <3> QED
      BY <1>0, <2>1, <2>2, <3>1, <3>2, <3>3 DEF Ordered
  <2>6. CASE s # refresher[r].server
    <3>1. cache'[s] = cache[s] /\ (Asking(s)' <=> Asking(s))
      BY <2>1, <2>6 DEF Asking
    <3> QED
      BY <1>0, <2>1, <2>2, <3>1 DEF Ordered
  <2> QED
    BY <2>5, <2>6
<1> QED
  BY <1>1, <1>2, <1>3

(* What a crash leaves of checks and calls.                                *)
LEMMA CrashStep ==
    ASSUME Types, Crash
    PROVE  /\ Types' /\ \A c \in Callers : Reported(c)'
           /\ \A s \in Ids : Ordered(s)'
<1>1. /\ cache' = NoFindings /\ loop' = Stopped
      /\ refresher' = [r \in Refreshers |-> IdleRefresh]
      /\ call' = [c \in Callers |-> IdleCall] /\ carriedOut' = [c \in Callers |-> {}]
      /\ UNCHANGED <<condition, overlapped>>
  BY DEF Crash
<1>2. RegistryType'
  <2>1. /\ running' = FALSE /\ faults < MaxFaults /\ faults' = faults + 1
        /\ UNCHANGED <<servers, unsaved, requests>>
        /\ \/ UNCHANGED <<file, changes>>
           \/ changes < MaxChanges /\ file' = Torn /\ changes' = changes + 1
    BY DEF Crash
  <2>2. file' = Torn \/ file' \in [Ids -> Flags]
    BY <2>1 DEF Types, RegistryType
  <2>3. faults' \in 0 .. MaxFaults /\ changes' \in 0 .. MaxChanges
    BY <2>1, ServersAssumption DEF Types, RegistryType
  <2> QED
    BY <2>1, <2>2, <2>3 DEF Types, RegistryType
<1>3. ConditionType' /\ CacheType' /\ LoopType'
  BY <1>1, ServersAssumption
  DEF Types, ConditionType, CacheType, LoopType, NoFindings, Stopped, Unknown
<1>4. RefresherType'
  BY <1>1 DEF RefresherType, IdleRefresh
<1>5. CallType' /\ \A c \in Callers : Reported(c)'
  BY <1>1 DEF CallType, IdleCall, Reported
<1>6. ASSUME NEW s \in Ids PROVE Ordered(s)'
  BY <1>1, ServersAssumption
  DEF Types, ConditionType, Ordered, Asking, CheckedBy, NoFindings, Stopped, IdleRefresh, Unknown
<1> QED
  BY <1>2, <1>3, <1>4, <1>5, <1>6 DEF Types

LEMMA StepPreserves == IInv /\ [Next]_vars => IInv'
<1> SUFFICES ASSUME IInv, [Next]_vars PROVE IInv'
  OBVIOUS
<1> USE DEF IInv
<1>1. CASE Crash
  <2>1. FileFollows'
    BY <1>1 DEF Crash, FileFollows
  <2> QED
    BY <1>1, <2>1, CrashStep
<1>2. ASSUME NEW s \in Ids, NEW flag \in Flags, Change(s, flag)
      PROVE  IInv'
  <2>1. RegistryType' /\ FileFollows'
    BY <1>2, RegistryStep DEF Types
  <2>2. UNCHANGED <<condition, checkVars, callVars>>
    BY <1>2 DEF Change
  <2>3. ConditionType' /\ CacheType' /\ LoopType' /\ RefresherType' /\ CallType'
    BY <2>2 DEF Types, checkVars, callVars, ConditionType, CacheType, LoopType,
                RefresherType, CallType
  <2>4. \A t \in Ids : Ordered(t)'
    BY <2>2, OrderUndisturbed DEF checkVars
  <2>5. \A c \in Callers : Reported(c)'
    BY <2>2 DEF callVars, Reported
  <2> QED
    BY <2>1, <2>3, <2>4, <2>5 DEF Types
<1>3. CASE Restart
  <2>1. RegistryType' /\ FileFollows'
    BY <1>3, RegistryStep DEF Types
  <2>2. UNCHANGED <<condition, checkVars, callVars>>
    BY <1>3 DEF Restart
  <2>3. ConditionType' /\ CacheType' /\ LoopType' /\ RefresherType' /\ CallType'
    BY <2>2 DEF Types, checkVars, callVars, ConditionType, CacheType, LoopType,
                RefresherType, CallType
  <2>4. \A t \in Ids : Ordered(t)'
    BY <2>2, OrderUndisturbed DEF checkVars
  <2>5. \A c \in Callers : Reported(c)'
    BY <2>2 DEF callVars, Reported
  <2> QED
    BY <2>1, <2>3, <2>4, <2>5 DEF Types
<1>4. ASSUME NEW s \in Ids, Turn(s)
      PROVE  IInv'
  <2>1. UNCHANGED <<registryVars, checkVars, callVars, requests>>
    BY <1>4 DEF Turn
  <2>2. RegistryType' /\ FileFollows'
    BY <2>1, OtherRegistryStep DEF Types
  <2>3. CacheType' /\ LoopType' /\ RefresherType' /\ CallType'
    BY <2>1 DEF Types, checkVars, callVars, CacheType, LoopType, RefresherType, CallType
  <2>4. \A c \in Callers : Reported(c)'
    BY <2>1 DEF callVars, Reported
  <2> QED
    BY <1>4, <2>2, <2>3, <2>4, OrderAfterTurn DEF Types
<1>5. CASE Start \/ StopLoop \/ Round
  <2>1. UNCHANGED <<registryVars, condition, refresher, callVars, requests>>
    BY <1>5 DEF Start, StopLoop, Round, AskAll, LoopFinds, StoreAll
  <2>2. RegistryType' /\ FileFollows'
    BY <2>1, OtherRegistryStep DEF Types
  <2>3. ConditionType' /\ RefresherType' /\ CallType'
    BY <2>1 DEF Types, callVars, ConditionType, RefresherType, CallType
  <2>4. \A c \in Callers : Reported(c)'
    BY <2>1 DEF callVars, Reported
  <2> QED
    BY <1>5, <2>2, <2>3, <2>4, LoopStep, OrderAfterLoop DEF Types
<1>6. ASSUME NEW r \in Refreshers,
             (\E s \in Ids : Refresh(r, s)) \/ RefreshFinds(r) \/ RefreshStores(r)
      PROVE  IInv'
  <2>1. /\ UNCHANGED <<registryVars, condition, loop, callVars>>
        /\ requests' = requests \/ (requests < MaxRequests /\ requests' = requests + 1)
    BY <1>6 DEF Refresh, RefreshFinds, RefreshStores
  <2>2. RegistryType' /\ FileFollows'
    BY <2>1, OtherRegistryStep DEF Types
  <2>3. ConditionType' /\ LoopType' /\ CallType'
    BY <2>1 DEF Types, callVars, ConditionType, LoopType, CallType
  <2>4. \A c \in Callers : Reported(c)'
    BY <2>1 DEF callVars, Reported
  <2> QED
    BY <1>6, <2>2, <2>3, <2>4, RefreshStep, OrderAfterRefresh DEF Types
<1>7. ASSUME NEW c \in Callers,
             Execute(c) \/ Return(c) \/ \E s \in Ids : Begin(c, s) \/ Answer(c, s)
      PROVE  IInv'
  <2>1. /\ UNCHANGED <<registryVars, condition, checkVars>>
        /\ requests' = requests \/ (requests < MaxRequests /\ requests' = requests + 1)
    BY <1>7 DEF Execute, Return, Begin, Answer
  <2>2. RegistryType' /\ FileFollows'
    BY <2>1, OtherRegistryStep DEF Types
  <2>3. ConditionType' /\ CacheType' /\ LoopType' /\ RefresherType'
    BY <2>1 DEF Types, checkVars, ConditionType, CacheType, LoopType, RefresherType
  <2>4. \A s \in Ids : Ordered(s)'
    BY <2>1, OrderUndisturbed DEF checkVars
  <2>5. CallType' /\ \A d \in Callers : Reported(d)'
    BY <1>7, ExecuteStep, BeginStep, AnswerStep DEF Types
  <2> QED
    BY <2>2, <2>3, <2>4, <2>5 DEF Types
<1>8. CASE UNCHANGED vars
  <2>1. UNCHANGED <<registryVars, condition, checkVars, callVars, requests>>
    BY <1>8 DEF vars
  <2>2. RegistryType' /\ FileFollows'
    BY <2>1, OtherRegistryStep DEF Types
  <2>3. ConditionType' /\ CacheType' /\ LoopType' /\ RefresherType' /\ CallType'
    BY <2>1 DEF Types, checkVars, callVars, ConditionType, CacheType, LoopType,
                RefresherType, CallType
  <2>4. \A t \in Ids : Ordered(t)'
    BY <2>1, OrderUndisturbed DEF checkVars
  <2>5. \A c \in Callers : Reported(c)'
    BY <2>1 DEF callVars, Reported
  <2> QED
    BY <2>2, <2>3, <2>4, <2>5 DEF Types
<1> QED
  BY <1>1, <1>2, <1>3, <1>4, <1>5, <1>6, <1>7, <1>8 DEF Next

THEOREM IInvInductive == Spec => []IInv
BY InitEstablishes, StepPreserves, PTL DEF Spec

(* The variables stay in their types for any servers and bounds.           *)
THEOREM TypeCorrect == Spec => []TypeOK
<1>1. IInv => TypeOK
  BY TypeParts DEF IInv
<1> QED
  BY <1>1, IInvInductive, PTL

(* Through any changes, crashes and restarts the file holds the registry,  *)
(* unless the last save failed (registry.py:92-99).                        *)
THEOREM FileFollowsAlways == Spec => []FileFollows
<1>1. IInv => FileFollows
  BY DEF IInv
<1> QED
  BY <1>1, IInvInductive, PTL

(* A call of execute_on_all_servers that returns has reported on every     *)
(* server it asked, whatever was changed meanwhile (manager.py:89-98).     *)
THEOREM FullReportAlways == Spec => []FullReport
<1>1. IInv => FullReport
  <2> SUFFICES ASSUME IInv, NEW c \in Callers
               PROVE  /\ call[c].ok \subseteq carriedOut[c]
                      /\ call[c].pc = "returned" =>
                           /\ call[c].ok \cup call[c].failed = call[c].asked
                           /\ carriedOut[c] \subseteq call[c].asked
    BY DEF FullReport
  <2> QED
    BY DEF IInv, Reported
<1> QED
  BY <1>1, IInvInductive, PTL

(* No status is replaced by an older one unless two checks of the server   *)
(* overlapped, for any number of refreshes (manager.py:36-48).             *)
THEOREM NeverBackAlways == Spec => NeverBack
<1> DEFINE Forward == running' => \A s \in Ids \ overlapped' : cache[s] <= cache'[s]
<1>1. IInv /\ [Next]_vars => [Forward]_vars
  <2> SUFFICES ASSUME IInv, Next, running', NEW s \in Ids, s \notin overlapped'
               PROVE  cache[s] <= cache'[s]
    BY DEF Forward
  <2>1. cache[s] \in Int /\ Ordered(s)
    BY DEF IInv, Types, CacheType, Unknown
  <2>2. CASE StoreAll
    <3>1. s \notin overlapped /\ loop.pc = "asked"
            /\ (s \in loop.asked => loop.found[s] # Unknown)
            /\ cache'[s] = IF s \in loop.asked THEN loop.found[s] ELSE cache[s]
      BY <2>2 DEF StoreAll, NewStatus
    <3> QED
      BY <2>1, <3>1 DEF Ordered, Asking
  <2>3. ASSUME NEW r \in Refreshers, RefreshStores(r)
        PROVE  cache[s] <= cache'[s]
    <3>1. s \notin overlapped /\ refresher[r].pc = "found"
            /\ cache'[s] = IF s = refresher[r].server THEN refresher[r].found ELSE cache[s]
      BY <2>3 DEF RefreshStores, IInv, Types, CacheType
    <3> QED
      BY <2>1, <3>1 DEF Ordered, CheckedBy
  <2>4. CASE UNCHANGED cache
    BY <2>1, <2>4
  <2>5. StoreAll \/ (\E r \in Refreshers : RefreshStores(r)) \/ UNCHANGED cache
    BY DEF Next, Change, Crash, Restart, Turn, Start, StopLoop, Round, AskAll, LoopFinds,
           Refresh, RefreshFinds, Execute, Return, Begin, Answer, checkVars
  <2> QED
    BY <2>2, <2>3, <2>4, <2>5
<1> QED
  BY IInvInductive, <1>1, PTL DEF Spec, NeverBack
=============================================================================
