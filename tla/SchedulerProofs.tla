-------------------------- MODULE SchedulerProofs ---------------------------
(* Theorems about Scheduler, for every number of tasks, requests and runs. *)
EXTENDS Scheduler, FiniteSetTheorems, TLAPS

\* Well-typed listings and requests.
LEMMA ListingTyped ==
    /\ Nothing \in Listing
    /\ Quiet \in Loader
    /\ [Quiet EXCEPT !.pc = "list"] \in Loader
    /\ \A list \in Listing : [pc |-> "apply", list |-> list] \in Loader
BY DEF Nothing, Quiet, Listing, Loader

\* Well-typed rows.
LEMMA RowTyped ==
    /\ \A c \in Confs :
          [row |-> "live", enabled |-> TRUE, conf |-> c, runs |-> 0] \in TaskRow
    /\ \A x \in TaskRow, c \in Confs, e \in BOOLEAN :
          [x EXCEPT !.conf = c, !.enabled = e] \in TaskRow
    /\ \A x \in TaskRow : [x EXCEPT !.row = "deleted"] \in TaskRow
    /\ \A x \in TaskRow : [x EXCEPT !.runs = @ + 1] \in TaskRow
<1>1. \A c \in Confs :
         [row |-> "live", enabled |-> TRUE, conf |-> c, runs |-> 0] \in TaskRow
  BY DEF TaskRow
<1>2. \A x \in TaskRow, c \in Confs, e \in BOOLEAN :
         [x EXCEPT !.conf = c, !.enabled = e] \in TaskRow
  BY DEF TaskRow
<1>3. \A x \in TaskRow : [x EXCEPT !.row = "deleted"] \in TaskRow
  BY DEF TaskRow
<1>4. \A x \in TaskRow : [x EXCEPT !.runs = @ + 1] \in TaskRow
  BY DEF TaskRow
<1> QED BY <1>1, <1>2, <1>3, <1>4

\* The part of the type invariant the agreement depends on.
MemoryOK ==
    /\ cron \in SUBSET Job
    /\ entries \in [TaskIds -> Nat]
    /\ loads \in Nat
    /\ req \in [Loaders -> Loader]
    /\ task \in [TaskIds -> TaskRow]

MemInv == MemoryOK /\ EntriesTracked

\* The locked part of Reload establishes the agreement from any list.
LEMMA ApplyTracks ==
    ASSUME MemInv, NEW r \in Loaders, ReloadApply(r)
    PROVE  MemInv'
<1> DEFINE list == req[r].list
           new == {[load |-> loads + 1, task |-> t, conf |-> list[t]] :
                      t \in Accepted(list)}
<1>1. list \in Listing
  BY DEF MemInv, MemoryOK, Loader
<1>2. cron' = new
  BY DEF ReloadApply, MemInv, EntriesTracked
<1>3. \A t \in Accepted(list) : t \in TaskIds /\ list[t] \in Confs
  BY DEF Accepted
<1>4. cron' \in SUBSET Job
  BY <1>2, <1>3 DEF Job, MemInv, MemoryOK
<1>5. entries' = [t \in TaskIds |-> IF t \in Accepted(list) THEN loads + 1 ELSE 0]
  BY DEF ReloadApply
<1>6. entries' \in [TaskIds -> Nat] /\ loads' \in Nat
  BY <1>5 DEF ReloadApply, MemInv, MemoryOK
<1>7. req' \in [Loaders -> Loader]
  BY ListingTyped DEF ReloadApply, MemInv, MemoryOK
<1>8. EntriesTracked'
  <2>1. \A j \in cron' : entries'[j.task] = j.load
    BY <1>2, <1>3, <1>5
  <2>2. ASSUME NEW t \in TaskIds, entries'[t] # 0
        PROVE  \E j \in cron' : j.task = t /\ j.load = entries'[t]
    <3>1. t \in Accepted(list)
      BY <1>5, <2>2
    <3>2. [load |-> loads + 1, task |-> t, conf |-> list[t]] \in cron'
      BY <1>2, <3>1
    <3> QED BY <1>5, <3>1, <3>2
  <2>3. \A i, j \in cron' : i.task = j.task => i = j
    BY <1>2
  <2> QED BY <2>1, <2>2, <2>3 DEF EntriesTracked
<1>9. UNCHANGED task
  BY DEF ReloadApply, table
<1> QED BY <1>4, <1>6, <1>7, <1>8, <1>9 DEF MemInv, MemoryOK

\* A new process has an empty map and no cron entries.
LEMMA RebornTracks == MemInv /\ Reborn => MemInv'
BY ListingTyped DEF MemInv, MemoryOK, EntriesTracked, Reborn

\* Every step keeps the table well typed.
LEMMA TaskNext ==
    ASSUME task \in [TaskIds -> TaskRow], [Next]_vars
    PROVE  task' \in [TaskIds -> TaskRow]
<1>1. ASSUME NEW r \in Requests, CreateScheduledTask(r)
      PROVE  task' \in [TaskIds -> TaskRow]
  BY <1>1, RowTyped DEF CreateScheduledTask
<1>2. ASSUME NEW r \in Requests, UpdateScheduledTask(r)
      PROVE  task' \in [TaskIds -> TaskRow]
  <2>1. PICK t \in TaskIds, c \in Confs, e \in BOOLEAN :
          task' \in {task, [task EXCEPT ![t].conf = c, ![t].enabled = e]}
    BY <1>2 DEF UpdateScheduledTask
  <2>2. [task EXCEPT ![t].conf = c, ![t].enabled = e]
          = [task EXCEPT ![t] = [task[t] EXCEPT !.conf = c, !.enabled = e]]
    OBVIOUS
  <2>3. [task[t] EXCEPT !.conf = c, !.enabled = e] \in TaskRow
    BY RowTyped
  <2>4. [task EXCEPT ![t] = [task[t] EXCEPT !.conf = c, !.enabled = e]]
          \in [TaskIds -> TaskRow]
    BY <2>3
  <2> QED BY <2>1, <2>2, <2>4, Zenon
<1>3. ASSUME NEW r \in Requests, DeleteScheduledTask(r)
      PROVE  task' \in [TaskIds -> TaskRow]
  <2>1. PICK t \in TaskIds :
          task' \in {task, [task EXCEPT ![t] = [task[t] EXCEPT !.row = "deleted"]]}
    BY <1>3 DEF DeleteScheduledTask
  <2>2. [task[t] EXCEPT !.row = "deleted"] \in TaskRow
    BY RowTyped
  <2>3. [task EXCEPT ![t] = [task[t] EXCEPT !.row = "deleted"]]
          \in [TaskIds -> TaskRow]
    BY <2>2
  <2> QED BY <2>1, <2>3, Zenon
<1>4. ASSUME NEW s \in Slots, RecordScheduledTaskRun(s)
      PROVE  task' \in [TaskIds -> TaskRow]
  BY <1>4, RowTyped DEF RecordScheduledTaskRun
<1>5. CASE UNCHANGED task
  BY <1>5
<1> QED
  BY <1>1, <1>2, <1>3, <1>4, <1>5
     DEF Next, Edit, Reload, Running, ListScheduledTasks, ListFails, ReloadApply,
         Fire, RunNow, RunnerReturns, RecordFails, Crash, Stop, Exit, Reborn,
         table, vars

\* Every other step leaves both alone.
LEMMA MemNext == MemInv /\ [Next]_vars => MemInv'
<1> SUFFICES ASSUME MemInv, [Next]_vars PROVE MemInv'
  OBVIOUS
<1>0. task' \in [TaskIds -> TaskRow]
  BY TaskNext DEF MemInv, MemoryOK
<1>1. UNCHANGED <<cron, entries, loads>> /\ req' \in [Loaders -> Loader] => MemInv'
  BY <1>0 DEF MemInv, MemoryOK, EntriesTracked
<1>2. UNCHANGED <<cron, entries, loads, req>> => MemInv'
  BY <1>1 DEF MemInv, MemoryOK
<1>3. ASSUME NEW r \in Requests, Edit(r)
      PROVE  MemInv'
  <2>1. r \in Loaders
    BY DEF Loaders
  <2>2. req' \in [Loaders -> Loader]
    BY <1>3, <2>1, ListingTyped
       DEF Edit, CreateScheduledTask, UpdateScheduledTask, DeleteScheduledTask,
           ThenReload, MemInv, MemoryOK
  <2> QED BY <1>1, <1>3, <2>2
             DEF Edit, CreateScheduledTask, UpdateScheduledTask,
                 DeleteScheduledTask, memory
<1>4. ASSUME NEW r \in Loaders, ListFails(r)
      PROVE  MemInv'
  BY <1>1, <1>4, ListingTyped DEF ListFails, MemInv, MemoryOK
<1>5. ASSUME NEW r \in Loaders, ListScheduledTasks(r)
      PROVE  MemInv'
  <2> DEFINE list == [t \in TaskIds |-> IF Live(t) /\ task[t].enabled
                                        THEN task[t].conf ELSE None]
  <2>1. list \in Listing
    BY DEF Listing, MemInv, MemoryOK, TaskRow
  <2>2. [pc |-> "apply", list |-> list] \in Loader
    BY <2>1, ListingTyped
  <2>3. req' = [req EXCEPT ![r] = [pc |-> "apply", list |-> list]]
    BY <1>5 DEF ListScheduledTasks
  <2>4. req' \in [Loaders -> Loader]
    BY <2>2, <2>3 DEF MemInv, MemoryOK
  <2> QED BY <1>1, <1>5, <2>4 DEF ListScheduledTasks, memory
<1>6. ASSUME NEW r \in Loaders, ReloadApply(r)
      PROVE  MemInv'
  BY <1>6, ApplyTracks
<1>7. ASSUME NEW s \in Slots, Fire(s) \/ RunNow(s) \/ Running(s)
      PROVE  MemInv'
  BY <1>2, <1>7 DEF Fire, RunNow, Running, RunnerReturns,
                    RecordScheduledTaskRun, RecordFails
<1>8. CASE Crash \/ Exit
  BY <1>8, RebornTracks DEF Crash, Exit
<1>9. CASE Stop \/ UNCHANGED vars
  BY <1>2, <1>9 DEF Stop, vars
<1> QED BY <1>3, <1>4, <1>5, <1>6, <1>7, <1>8, <1>9 DEF Next, Reload

\* However reloads overlap, fail or are cut short by a restart, the scheduler
\* knows every cron entry and cron has one entry per task at most.
THEOREM EntriesAreTracked == Spec => []EntriesTracked
<1>1. Init => MemInv
  BY ListingTyped DEF Init, MemInv, MemoryOK, EntriesTracked, TaskRow
<1>2. MemInv => EntriesTracked
  BY DEF MemInv
<1> QED BY <1>1, <1>2, MemNext, PTL DEF Spec

-----------------------------------------------------------------------------
(* What cron runs, against what the table says.                            *)

\* The list a reload would read now.
Current == [t \in TaskIds |-> IF Live(t) /\ task[t].enabled
                              THEN task[t].conf ELSE None]

Runnable == {u \in TaskIds : /\ Live(u) /\ task[u].enabled
                             /\ task[u].conf \notin BadConfs}

Synced == {[task |-> j.task, conf |-> j.conf] : j \in cron}
              = {[task |-> t, conf |-> task[t].conf] : t \in Runnable}

\* A reload that will repair cron if it succeeds.
Repairs(q) == req[q].pc = "list" \/ (req[q].pc = "apply" /\ q \notin stale)

ConfKnown == \A t \in TaskIds : Live(t) => task[t].conf \in Confs

StaleApplies == \A q \in stale : req[q].pc = "apply"

FreshLists == \A q \in Loaders :
    req[q].pc = "apply" /\ q \notin stale => req[q].list = Current

\* InSync alone says nothing while a reload is on its way; this does.
SyncInv ==
    /\ MemInv
    /\ ConfKnown
    /\ StaleApplies
    /\ FreshLists
    /\ missed \/ Synced \/ \E q \in Loaders : Repairs(q)

\* A reload that applies the current list brings cron up to date.
LEMMA ApplySyncs ==
    ASSUME SyncInv, NEW r \in Loaders, ReloadApply(r), r \notin stale
    PROVE  Synced'
<1> DEFINE list == req[r].list
<1>1. list = Current
  BY DEF ReloadApply, SyncInv, FreshLists
<1>2. cron' = {[load |-> loads + 1, task |-> t, conf |-> list[t]] :
                  t \in Accepted(list)}
  BY DEF ReloadApply, SyncInv, MemInv, EntriesTracked
<1>3. UNCHANGED task
  BY DEF ReloadApply, table
<1>4. Accepted(list) = Runnable
  BY <1>1, SchedulerAssumption DEF Accepted, Runnable, Current, SyncInv, ConfKnown
<1>5. \A t \in Runnable : t \in TaskIds /\ list[t] = task[t].conf
  BY <1>1 DEF Current, Runnable
<1>6. Runnable' = Runnable
  BY <1>3 DEF Runnable, Live
<1>7. cron' = {[load |-> loads + 1, task |-> t, conf |-> task[t].conf] :
                  t \in Runnable}
  BY <1>2, <1>4, <1>5
<1>8. {[task |-> j.task, conf |-> j.conf] : j \in cron'}
        = {[task |-> t, conf |-> task[t].conf] : t \in Runnable}
  <2>1. ASSUME NEW j \in cron'
        PROVE  [task |-> j.task, conf |-> j.conf]
                 \in {[task |-> t, conf |-> task[t].conf] : t \in Runnable}
    <3>1. PICK t \in Runnable :
            j = [load |-> loads + 1, task |-> t, conf |-> task[t].conf]
      BY <1>7
    <3>2. j.task = t /\ j.conf = task[t].conf
      BY <3>1
    <3> QED BY <3>2
  <2>2. ASSUME NEW t \in Runnable
        PROVE  [task |-> t, conf |-> task[t].conf]
                 \in {[task |-> j.task, conf |-> j.conf] : j \in cron'}
    <3> DEFINE e == [load |-> loads + 1, task |-> t, conf |-> task[t].conf]
    <3>1. e \in cron'
      BY <1>7
    <3>2. e.task = t /\ e.conf = task[t].conf
      OBVIOUS
    <3> HIDE DEF e
    <3> QED BY <3>1, <3>2
  <2> QED BY <2>1, <2>2
<1> QED BY <1>3, <1>6, <1>8 DEF Synced

\* An edit makes every list that is still to be applied a stale one, and
\* starts a reload of its own.
LEMMA EditSyncs ==
    ASSUME SyncInv, NEW r \in Requests, Edit(r), MemInv'
    PROVE  SyncInv'
<1>1. r \in Loaders /\ Idle(r)
  BY DEF Loaders, Edit, CreateScheduledTask, UpdateScheduledTask,
         DeleteScheduledTask
<1>2. /\ req' = [req EXCEPT ![r] = [Quiet EXCEPT !.pc = "list"]]
      /\ stale' = stale \cup {q \in Loaders : req[q].pc = "apply"}
  BY DEF Edit, CreateScheduledTask, UpdateScheduledTask, DeleteScheduledTask,
         ThenReload
<1>3. req'[r].pc = "list"
  BY <1>1, <1>2 DEF SyncInv, MemInv, MemoryOK, Quiet
<1>4. \A q \in Loaders : q # r => req'[q] = req[q]
  BY <1>2 DEF SyncInv, MemInv, MemoryOK
<1>5. StaleApplies'
  BY <1>1, <1>2, <1>4 DEF SyncInv, StaleApplies, Idle, MemInv, MemoryOK
<1>6. FreshLists'
  BY <1>2, <1>3, <1>4 DEF FreshLists
<1>7. ConfKnown'
  <2>1. task \in [TaskIds -> TaskRow]
    BY DEF SyncInv, MemInv, MemoryOK
  <2>2. CASE CreateScheduledTask(r)
    BY <2>1, <2>2 DEF CreateScheduledTask, SyncInv, ConfKnown, Live
  <2>3. CASE UpdateScheduledTask(r)
    BY <2>1, <2>3 DEF UpdateScheduledTask, SyncInv, ConfKnown, Live, TaskRow
  <2>4. CASE DeleteScheduledTask(r)
    BY <2>1, <2>4 DEF DeleteScheduledTask, SyncInv, ConfKnown, Live, TaskRow
  <2> QED BY <2>2, <2>3, <2>4 DEF Edit
<1>8. Repairs(r)'
  BY <1>3 DEF Repairs
<1> QED BY <1>1, <1>5, <1>6, <1>7, <1>8 DEF SyncInv

\* A step of a run changes the counter of a row and nothing a reload reads.
LEMMA RunSyncs ==
    ASSUME SyncInv, NEW s \in Slots, Fire(s) \/ RunNow(s) \/ Running(s), MemInv'
    PROVE  SyncInv'
<1>1. UNCHANGED <<cron, req, stale, missed>>
  BY DEF Fire, RunNow, Running, RunnerReturns, RecordScheduledTaskRun, RecordFails
<1>2. \A t \in TaskIds : /\ task'[t].row = task[t].row
                         /\ task'[t].enabled = task[t].enabled
                         /\ task'[t].conf = task[t].conf
  <2>1. CASE UNCHANGED task
    BY <2>1
  <2>2. CASE RecordScheduledTaskRun(s)
    BY <2>2 DEF RecordScheduledTaskRun, SyncInv, MemInv, MemoryOK, TaskRow
  <2> QED BY <2>1, <2>2 DEF Fire, RunNow, Running, RunnerReturns, RecordFails, table
<1>3. ConfKnown' /\ Current' = Current /\ Runnable' = Runnable
  BY <1>2 DEF SyncInv, ConfKnown, Current, Runnable, Live
<1>4. Synced => Synced'
  <2>1. \A t \in Runnable : task'[t].conf = task[t].conf
    BY <1>2 DEF Runnable
  <2>2. {[task |-> t, conf |-> task'[t].conf] : t \in Runnable}
          = {[task |-> t, conf |-> task[t].conf] : t \in Runnable}
    BY <2>1
  <2> QED BY <1>1, <1>3, <2>2 DEF Synced
<1> QED BY <1>1, <1>3, <1>4
           DEF SyncInv, StaleApplies, FreshLists, Repairs

\* Every step keeps the strengthened invariant.
LEMMA SyncNext == SyncInv /\ [Next]_vars => SyncInv'
<1> SUFFICES ASSUME SyncInv, [Next]_vars PROVE SyncInv'
  OBVIOUS
<1>0. MemInv'
  BY MemNext DEF SyncInv
<1>1. ASSUME NEW r \in Requests, Edit(r) PROVE SyncInv'
  BY <1>0, <1>1, EditSyncs
<1>2. ASSUME NEW s \in Slots, Fire(s) \/ RunNow(s) \/ Running(s) PROVE SyncInv'
  BY <1>0, <1>2, RunSyncs
<1>3. ASSUME UNCHANGED task
      PROVE  ConfKnown' /\ Current' = Current /\ Runnable' = Runnable
  BY <1>3 DEF SyncInv, ConfKnown, Current, Runnable, Live
<1>4. ASSUME NEW r \in Loaders, ListScheduledTasks(r) PROVE SyncInv'
  <2>1. UNCHANGED <<task, cron, missed, stale>> /\ req[r].pc = "list"
    BY <1>4 DEF ListScheduledTasks, table, memory
  <2>2. req' = [req EXCEPT ![r] = [pc |-> "apply", list |-> Current]]
    BY <1>4 DEF ListScheduledTasks, Current
  <2>3. /\ req'[r] = [pc |-> "apply", list |-> Current]
        /\ \A q \in Loaders : q # r => req'[q] = req[q]
    BY <2>2 DEF SyncInv, MemInv, MemoryOK
  <2>4. r \notin stale
    BY <2>1 DEF SyncInv, StaleApplies
  <2>5. StaleApplies'
    BY <2>1, <2>2, <2>4 DEF SyncInv, StaleApplies
  <2>6. FreshLists'
    BY <1>3, <2>1, <2>3 DEF SyncInv, FreshLists
  <2>7. Repairs(r)'
    BY <2>1, <2>3, <2>4 DEF Repairs
  <2> QED BY <1>0, <1>3, <2>1, <2>5, <2>6, <2>7 DEF SyncInv
<1>5. ASSUME NEW r \in Loaders, ListFails(r) PROVE SyncInv'
  <2>1. UNCHANGED <<task, stale>> /\ req[r].pc = "list" /\ missed'
    BY <1>5 DEF ListFails, table
  <2>2. req' = [req EXCEPT ![r] = Quiet]
    BY <1>5 DEF ListFails
  <2>3. r \notin stale
    BY <2>1 DEF SyncInv, StaleApplies
  <2>4. StaleApplies'
    BY <2>1, <2>2, <2>3 DEF SyncInv, StaleApplies
  <2>5. req'[r].pc = "idle" /\ \A q \in Loaders : q # r => req'[q] = req[q]
    BY <2>2 DEF SyncInv, MemInv, MemoryOK, Quiet
  <2>6. FreshLists'
    BY <1>3, <2>1, <2>5 DEF SyncInv, FreshLists
  <2> QED BY <1>0, <1>3, <2>1, <2>4, <2>6 DEF SyncInv
<1>6. ASSUME NEW r \in Loaders, ReloadApply(r) PROVE SyncInv'
  <2>1. /\ UNCHANGED task
        /\ missed' = (r \in stale)
        /\ stale' = stale \ {r}
        /\ req' = [req EXCEPT ![r] = Quiet]
    BY <1>6 DEF ReloadApply, table
  <2>2. StaleApplies'
    BY <2>1 DEF SyncInv, StaleApplies
  <2>3. req'[r].pc = "idle" /\ \A q \in Loaders : q # r => req'[q] = req[q]
    BY <2>1 DEF SyncInv, MemInv, MemoryOK, Quiet
  <2>4. FreshLists'
    BY <1>3, <2>1, <2>3 DEF SyncInv, FreshLists
  <2>5. missed' \/ Synced'
    BY <1>6, <2>1, ApplySyncs
  <2> QED BY <1>0, <1>3, <2>1, <2>2, <2>4, <2>5 DEF SyncInv
<1>7. CASE Crash \/ Exit
  <2>1. /\ UNCHANGED task
        /\ stale' = {}
        /\ req' = [r \in Loaders |-> IF r = Main THEN [Quiet EXCEPT !.pc = "list"]
                                                 ELSE Quiet]
    BY <1>7 DEF Crash, Exit, Reborn
  <2>2. \A q \in Loaders : req'[q].pc # "apply"
    BY <2>1 DEF Quiet
  <2>3. Main \in Loaders /\ req'[Main].pc = "list"
    BY <2>1 DEF Loaders, Quiet
  <2>4. StaleApplies' /\ FreshLists'
    BY <2>1, <2>2 DEF StaleApplies, FreshLists
  <2> QED BY <1>0, <1>3, <2>1, <2>3, <2>4 DEF SyncInv, Repairs
<1>8. CASE Stop \/ UNCHANGED vars
  <2>1. UNCHANGED <<task, cron, req, missed, stale>>
    BY <1>8 DEF Stop, vars, table
  <2> QED BY <1>0, <1>3, <2>1
             DEF SyncInv, StaleApplies, FreshLists, Repairs, Synced
<1> QED BY <1>1, <1>2, <1>4, <1>5, <1>6, <1>7, <1>8 DEF Next, Reload

\* Whatever reloads have overlapped, failed or been cut short before: when no
\* handler is at work and the last reload did not miss an edit, cron runs the
\* enabled tasks of the table, as they are now, and nothing else.
THEOREM CronInSync == Spec => []InSync
<1>1. Init => SyncInv
  <2> SUFFICES ASSUME Init PROVE SyncInv
    OBVIOUS
  <2>1. MemInv
    BY ListingTyped DEF Init, MemInv, MemoryOK, EntriesTracked, TaskRow
  <2>2. ConfKnown
    BY DEF Init, ConfKnown, Live
  <2>3. \A q \in Loaders : req[q].pc # "apply"
    BY DEF Init, Quiet
  <2>4. StaleApplies /\ FreshLists
    BY <2>3 DEF Init, StaleApplies, FreshLists
  <2>5. Main \in Loaders /\ Repairs(Main)
    BY DEF Init, Loaders, Repairs, Quiet
  <2> QED BY <2>1, <2>2, <2>4, <2>5 DEF SyncInv
<1>2. SyncInv => InSync
  BY DEF SyncInv, InSync, Synced, Runnable, Repairs, Idle
<1> QED BY <1>1, <1>2, SyncNext, PTL DEF Spec

-----------------------------------------------------------------------------
(* The counters of runs.                                                   *)

\* The rest of the type invariant.
CountersOK ==
    /\ run \in [Slots -> Run]
    /\ stopping \in BOOLEAN
    /\ missed \in BOOLEAN
    /\ stale \in SUBSET Loaders
    /\ started \in [TaskIds -> Nat]
    /\ lost \in [TaskIds -> Nat]

\* A goroutine that is not idle runs a task.
RunsATask == \A s \in Slots : run[s].pc # "idle" => run[s].task \in TaskIds

FullType == MemInv /\ CountersOK /\ RunsATask

\* The runs in flight are finitely many.
LEMMA InFlightFinite ==
    ASSUME NEW t
    PROVE  /\ IsFiniteSet(InFlight(t))
           /\ Cardinality(InFlight(t)) \in Nat
<1>1. InFlight(t) \subseteq Slots
  BY DEF InFlight
<1>2. IsFiniteSet(InFlight(t))
  BY <1>1, SchedulerAssumption, FS_Subset
<1> QED BY <1>2, FS_CardinalityType

\* What a run's first step does to the variables of runs.
LEMMA StartTyped ==
    ASSUME FullType, NEW s \in Slots, NEW t \in TaskIds, NEW m \in BOOLEAN,
           StartRun(s, t, m)
    PROVE  /\ run' \in [Slots -> Run]
           /\ started' \in [TaskIds -> Nat]
           /\ RunsATask'
<1>1. [pc |-> "running", task |-> t, manual |-> m] \in Run
  BY DEF Run
<1>2. run' \in [Slots -> Run] /\ started' \in [TaskIds -> Nat]
  BY <1>1 DEF StartRun, FullType, CountersOK
<1>3. RunsATask'
  BY DEF StartRun, FullType, CountersOK, RunsATask
<1> QED BY <1>2, <1>3

\* Every step keeps the counters well typed.
LEMMA TypeNext == FullType /\ [Next]_vars => FullType'
<1> SUFFICES ASSUME FullType, [Next]_vars PROVE FullType'
  OBVIOUS
<1> USE DEF FullType
<1>0. MemInv'
  BY MemNext
<1>1. ASSUME NEW r \in Requests, Edit(r) PROVE FullType'
  <2>1. UNCHANGED <<run, stopping, missed, started, lost>>
    BY <1>1 DEF Edit, CreateScheduledTask, UpdateScheduledTask,
                DeleteScheduledTask, memory
  <2>2. stale' = stale \cup {q \in Loaders : req[q].pc = "apply"}
    BY <1>1 DEF Edit, CreateScheduledTask, UpdateScheduledTask,
                DeleteScheduledTask, ThenReload
  <2> QED BY <1>0, <2>1, <2>2 DEF CountersOK, RunsATask
<1>2. ASSUME NEW r \in Loaders, Reload(r) PROVE FullType'
  <2>1. UNCHANGED <<run, stopping, started, lost>>
    BY <1>2 DEF Reload, ListScheduledTasks, ListFails, ReloadApply, table, memory
  <2>2. missed' \in BOOLEAN
    <3>1. UNCHANGED missed \/ missed' = TRUE \/ missed' = (r \in stale)
      BY <1>2 DEF Reload, ListScheduledTasks, ListFails, ReloadApply, memory
    <3>2. missed \in BOOLEAN
      BY DEF CountersOK
    <3>3. (r \in stale) \in BOOLEAN
      BY SMT
    <3> QED BY <3>1, <3>2, <3>3, Zenon
  <2>3. stale' \in SUBSET Loaders
    BY <1>2 DEF Reload, ListScheduledTasks, ListFails, ReloadApply, CountersOK
  <2> QED BY <1>0, <2>1, <2>2, <2>3 DEF CountersOK, RunsATask
<1>3. ASSUME NEW s \in Slots, Fire(s) \/ RunNow(s) PROVE FullType'
  <2>1. UNCHANGED <<stopping, missed, stale, lost>>
    BY <1>3 DEF Fire, RunNow
  <2>2. \E t \in TaskIds, m \in BOOLEAN : StartRun(s, t, m)
    BY <1>3 DEF Fire, RunNow, MemInv, MemoryOK, Job
  <2> QED BY <1>0, <2>1, <2>2, StartTyped DEF CountersOK
<1>4. ASSUME NEW s \in Slots, RunnerReturns(s) PROVE FullType'
  <2>1. UNCHANGED <<stopping, missed, stale, started, lost>>
    BY <1>4 DEF RunnerReturns, table
  <2>2. \A x \in Run : [x EXCEPT !.pc = "record"] \in Run
    BY DEF Run
  <2>3. run' = [run EXCEPT ![s] = [run[s] EXCEPT !.pc = "record"]]
    BY <1>4 DEF RunnerReturns
  <2>4. run' \in [Slots -> Run]
    BY <2>2, <2>3 DEF CountersOK
  <2>5. RunsATask'
    BY <1>4, <2>3 DEF RunnerReturns, RunsATask, CountersOK, Run
  <2> QED BY <1>0, <2>1, <2>4, <2>5 DEF CountersOK
<1>5. ASSUME NEW s \in Slots, RecordScheduledTaskRun(s) \/ RecordFails(s)
      PROVE  FullType'
  <2>1. UNCHANGED <<stopping, missed, stale, started>>
    BY <1>5 DEF RecordScheduledTaskRun, RecordFails
  <2>2. run' = [run EXCEPT ![s] = NoRun] /\ run[s].pc = "record"
    BY <1>5 DEF RecordScheduledTaskRun, RecordFails
  <2>3. run' \in [Slots -> Run] /\ RunsATask'
    BY <2>2 DEF CountersOK, RunsATask, NoRun, Run
  <2>4. run[s].task \in TaskIds
    BY <2>2 DEF RunsATask
  <2>5. lost' \in [TaskIds -> Nat]
    BY <1>5, <2>4 DEF RecordScheduledTaskRun, RecordFails, CountersOK
  <2> QED BY <1>0, <2>1, <2>3, <2>5 DEF CountersOK
<1>6. CASE Crash \/ Exit
  <2>1. lost' \in [TaskIds -> Nat]
    BY <1>6, InFlightFinite DEF Crash, Exit, Reborn, CountersOK
  <2>2. run' \in [Slots -> Run] /\ RunsATask'
    <3>1. NoRun \in Run /\ NoRun.pc = "idle"
      BY DEF NoRun, Run
    <3>2. run' = [s \in Slots |-> NoRun]
      BY <1>6 DEF Crash, Exit, Reborn
    <3> QED BY <3>1, <3>2 DEF RunsATask
  <2>3. /\ stopping' \in BOOLEAN /\ missed' \in BOOLEAN
        /\ stale' \in SUBSET Loaders /\ started' \in [TaskIds -> Nat]
    BY <1>6 DEF Crash, Exit, Reborn, CountersOK
  <2> QED BY <1>0, <2>1, <2>2, <2>3 DEF CountersOK
<1>7. CASE Stop \/ UNCHANGED vars
  BY <1>0, <1>7 DEF Stop, vars, table, CountersOK, RunsATask
<1> QED BY <1>1, <1>2, <1>3, <1>4, <1>5, <1>6, <1>7 DEF Next, Running

LEMMA TypeInit == Init => FullType
<1> SUFFICES ASSUME Init PROVE FullType
  OBVIOUS
<1>1. MemInv
  BY ListingTyped DEF Init, MemInv, MemoryOK, EntriesTracked, TaskRow
<1>2. CountersOK /\ RunsATask
  BY DEF Init, CountersOK, RunsATask, NoRun, Run
<1> QED BY <1>1, <1>2 DEF FullType

\* Every reachable state of the scheduler is well typed.
THEOREM TypeCorrect == Spec => []TypeOK
<1>1. FullType => TypeOK
  BY DEF FullType, MemInv, MemoryOK, CountersOK, TypeOK
<1> QED BY <1>1, TypeInit, TypeNext, PTL DEF Spec

\* A task that was never created is nowhere: in no cron entry, no list, no run.
UnusedAbsent ==
    \A t \in TaskIds : task[t].row = "unused" =>
        /\ \A j \in cron : j.task # t
        /\ \A q \in Loaders : req[q].list[t] = None
        /\ \A s \in Slots : run[s].pc # "idle" => run[s].task # t
        /\ task[t].runs = 0

Balance ==
    \A t \in TaskIds : task[t].row # "deleted" =>
        started[t] = task[t].runs + lost[t] + Cardinality(InFlight(t))

CountInv == FullType /\ UnusedAbsent /\ Balance

\* A task no longer counts once it is deleted, and is never created again.
LEMMA EditCounts ==
    ASSUME CountInv, NEW r \in Requests, Edit(r), FullType'
    PROVE  CountInv'
<1> USE DEF CountInv
<1>1. UNCHANGED <<cron, run, started, lost>> /\ r \in Loaders
  BY DEF Edit, CreateScheduledTask, UpdateScheduledTask, DeleteScheduledTask,
         memory, Loaders
<1>2. req' = [req EXCEPT ![r] = [Quiet EXCEPT !.pc = "list"]]
  BY DEF Edit, CreateScheduledTask, UpdateScheduledTask, DeleteScheduledTask,
         ThenReload
<1>3. /\ req'[r].list = Nothing
      /\ \A q \in Loaders : q # r => req'[q] = req[q]
  BY <1>1, <1>2 DEF Quiet, FullType, MemInv, MemoryOK
<1>4. \A t \in TaskIds :
         /\ task'[t].row = "unused" => task[t].row = "unused"
         /\ task'[t].row # "deleted" =>
               /\ task[t].row # "deleted"
               /\ task'[t].runs = task[t].runs
  <2>1. task \in [TaskIds -> TaskRow]
    BY DEF FullType, MemInv, MemoryOK
  <2>2. CASE CreateScheduledTask(r)
    BY <2>1, <2>2 DEF CreateScheduledTask, UnusedAbsent
  <2>3. CASE UpdateScheduledTask(r)
    BY <2>1, <2>3 DEF UpdateScheduledTask, TaskRow
  <2>4. CASE DeleteScheduledTask(r)
    BY <2>1, <2>4 DEF DeleteScheduledTask, TaskRow
  <2> QED BY <2>2, <2>3, <2>4 DEF Edit
<1>5. \A t \in TaskIds : task'[t].row = "unused" => task'[t].runs = task[t].runs
  BY <1>4
<1>6. UnusedAbsent'
  BY <1>1, <1>3, <1>4, <1>5 DEF UnusedAbsent, Nothing
<1>7. \A t : InFlight(t)' = InFlight(t)
  BY <1>1 DEF InFlight
<1>8. Balance'
  BY <1>1, <1>4, <1>7 DEF Balance
<1> QED BY <1>6, <1>8

\* A reload puts only existing tasks into a list or into cron.
LEMMA ReloadCounts ==
    ASSUME CountInv, NEW r \in Loaders, Reload(r), FullType'
    PROVE  CountInv'
<1> USE DEF CountInv
<1>1. UNCHANGED <<task, run, started, lost>>
  BY DEF Reload, ListScheduledTasks, ListFails, ReloadApply, table, memory
<1>2. ASSUME NEW t \in TaskIds, task[t].row = "unused"
      PROVE  req'[r].list[t] = None /\ \A j \in cron' : j.task # t
  <2>0. /\ req \in [Loaders -> Loader]
        /\ req[r].list[t] = None
        /\ \A j \in cron : j.task # t
    BY <1>2 DEF UnusedAbsent, FullType, MemInv, MemoryOK
  <2>1. CASE ListScheduledTasks(r)
    <3>1. req'[r].list = Current
      BY <2>0, <2>1 DEF ListScheduledTasks, Current
    <3>2. Current[t] = None
      BY <1>2 DEF Current, Live
    <3> QED BY <2>0, <2>1, <3>1, <3>2 DEF ListScheduledTasks, memory
  <2>2. CASE ListFails(r)
    BY <2>0, <2>2 DEF ListFails, Quiet, Nothing
  <2>3. CASE ReloadApply(r)
    <3> DEFINE list == req[r].list
    <3>1. t \notin Accepted(list)
      BY <2>0, SchedulerAssumption DEF Accepted
    <3>2. cron' = {j \in cron : entries[j.task] # j.load}
                    \cup {[load |-> loads + 1, task |-> u, conf |-> list[u]] :
                             u \in Accepted(list)}
      BY <2>3 DEF ReloadApply
    <3>3. \A j \in cron' : j.task # t
      BY <2>0, <3>1, <3>2
    <3>4. req'[r].list[t] = None
      BY <2>0, <2>3 DEF ReloadApply, Quiet, Nothing
    <3> QED BY <3>3, <3>4
  <2> QED BY <2>1, <2>2, <2>3 DEF Reload
<1>3. \A q \in Loaders : q # r => req'[q] = req[q]
  BY DEF Reload, ListScheduledTasks, ListFails, ReloadApply, FullType, MemInv,
         MemoryOK
<1>4. UnusedAbsent'
  BY <1>1, <1>2, <1>3 DEF UnusedAbsent
<1>5. \A t : InFlight(t)' = InFlight(t)
  BY <1>1 DEF InFlight
<1>6. Balance'
  BY <1>1, <1>5 DEF Balance
<1> QED BY <1>4, <1>6

\* A run that starts is counted, and is in flight.
LEMMA StartCounts ==
    ASSUME CountInv, NEW s \in Slots, Fire(s) \/ RunNow(s), FullType'
    PROVE  CountInv'
<1> USE DEF CountInv
<1>1. UNCHANGED <<task, cron, req, lost>>
  BY DEF Fire, RunNow
<1>2. PICK u \in TaskIds, m \in BOOLEAN :
        StartRun(s, u, m) /\ task[u].row # "unused"
  BY DEF Fire, RunNow, FullType, MemInv, MemoryOK, Job, UnusedAbsent, Live
<1>3. /\ run[s].pc = "idle"
      /\ run'[s].pc = "running" /\ run'[s].task = u
      /\ \A q \in Slots : q # s => run'[q] = run[q]
  BY <1>2 DEF StartRun, FullType, CountersOK
<1>4. UnusedAbsent'
  BY <1>1, <1>2, <1>3 DEF UnusedAbsent
<1>5. ASSUME NEW t \in TaskIds, task'[t].row # "deleted"
      PROVE  started'[t] = task'[t].runs + lost'[t] + Cardinality(InFlight(t)')
  <2>1. started[t] = task[t].runs + lost[t] + Cardinality(InFlight(t))
    BY <1>1, <1>5 DEF Balance
  <2>2. /\ started[t] \in Nat /\ lost[t] \in Nat /\ task[t].runs \in Nat
        /\ Cardinality(InFlight(t)) \in Nat /\ IsFiniteSet(InFlight(t))
    BY InFlightFinite DEF FullType, CountersOK, MemInv, MemoryOK, TaskRow
  <2>3. CASE t = u
    <3>1. InFlight(t)' = InFlight(t) \cup {s} /\ s \notin InFlight(t)
      BY <1>3, <2>3 DEF InFlight
    <3>2. Cardinality(InFlight(t)') = Cardinality(InFlight(t)) + 1
      BY <2>2, <3>1, FS_AddElement
    <3>3. started'[t] = started[t] + 1
      BY <1>2, <2>3 DEF StartRun, FullType, CountersOK
    <3> QED BY <1>1, <2>1, <2>2, <3>2, <3>3
  <2>4. CASE t # u
    <3>1. InFlight(t)' = InFlight(t)
      BY <1>3, <2>4 DEF InFlight
    <3>2. started'[t] = started[t]
      BY <1>2, <2>4 DEF StartRun, FullType, CountersOK
    <3> QED BY <1>1, <2>1, <3>1, <3>2
  <2> QED BY <2>3, <2>4
<1> QED BY <1>4, <1>5 DEF Balance

\* A run that ends is recorded in its row, or lost.
LEMMA RecordCounts ==
    ASSUME CountInv, NEW s \in Slots, RecordScheduledTaskRun(s) \/ RecordFails(s),
           FullType'
    PROVE  CountInv'
<1> USE DEF CountInv
<1> DEFINE u == run[s].task
<1>1. UNCHANGED <<cron, req, started>>
  BY DEF RecordScheduledTaskRun, RecordFails
<1>2. /\ run[s].pc = "record"
      /\ run'[s] = NoRun
      /\ \A q \in Slots : q # s => run'[q] = run[q]
  BY DEF RecordScheduledTaskRun, RecordFails, FullType, CountersOK
<1>3. u \in TaskIds /\ task[u].row # "unused"
  BY <1>2 DEF UnusedAbsent, FullType, RunsATask
<1>4. \A t \in TaskIds : /\ task'[t].row = task[t].row
                         /\ t # u => task'[t].runs = task[t].runs /\ lost'[t] = lost[t]
                         /\ t = u /\ task[t].row = "live" =>
                               task'[t].runs + lost'[t] = task[t].runs + lost[t] + 1
  <2>1. /\ task \in [TaskIds -> TaskRow] /\ lost \in [TaskIds -> Nat]
        /\ task[u].runs \in Nat /\ lost[u] \in Nat
    BY <1>3 DEF FullType, CountersOK, MemInv, MemoryOK, TaskRow
  <2>2. CASE RecordScheduledTaskRun(s)
    BY <1>3, <2>1, <2>2 DEF RecordScheduledTaskRun, Live, TaskRow
  <2>3. CASE RecordFails(s)
    BY <1>3, <2>1, <2>3 DEF RecordFails
  <2> QED BY <2>2, <2>3
<1>5. UnusedAbsent'
  <2>1. NoRun.pc = "idle"
    BY DEF NoRun
  <2> QED BY <1>1, <1>2, <1>3, <1>4, <2>1 DEF UnusedAbsent
<1>6. ASSUME NEW t \in TaskIds, task'[t].row # "deleted"
      PROVE  started'[t] = task'[t].runs + lost'[t] + Cardinality(InFlight(t)')
  <2>1. started[t] = task[t].runs + lost[t] + Cardinality(InFlight(t))
    BY <1>4, <1>6 DEF Balance
  <2>2. /\ started[t] \in Nat /\ lost[t] \in Nat /\ task[t].runs \in Nat
        /\ Cardinality(InFlight(t)) \in Nat /\ IsFiniteSet(InFlight(t))
    BY InFlightFinite DEF FullType, CountersOK, MemInv, MemoryOK, TaskRow
  <2>3. CASE t = u
    <3>1. InFlight(t)' = InFlight(t) \ {s} /\ s \in InFlight(t)
      BY <1>2, <2>3 DEF InFlight, NoRun
    <3>2. Cardinality(InFlight(t)') = Cardinality(InFlight(t)) - 1
      BY <2>2, <3>1, FS_RemoveElement
    <3>3. task'[t].runs + lost'[t] = task[t].runs + lost[t] + 1
      <4>1. task[t].row = "live"
        BY <1>3, <1>4, <1>6, <2>3 DEF FullType, MemInv, MemoryOK, TaskRow
      <4> QED BY <1>4, <2>3, <4>1
    <3>4. task'[t].runs \in Nat /\ lost'[t] \in Nat
      BY DEF FullType, CountersOK, MemInv, MemoryOK, TaskRow
    <3>5. started'[t] = (task[t].runs + lost[t]) + Cardinality(InFlight(t))
      BY <1>1, <2>1
    <3>6. /\ Cardinality(InFlight(t)') \in Int
          /\ Cardinality(InFlight(t)) = Cardinality(InFlight(t)') + 1
      BY <2>2, <3>2
    <3>7. started'[t] = (task'[t].runs + lost'[t]) + Cardinality(InFlight(t)')
      BY <2>2, <3>3, <3>4, <3>5, <3>6
    <3> QED BY <3>7
  <2>4. CASE t # u
    <3>1. InFlight(t)' = InFlight(t)
      BY <1>2, <2>4 DEF InFlight, NoRun
    <3> QED BY <1>1, <1>4, <2>1, <2>4, <3>1
  <2> QED BY <2>3, <2>4
<1> QED BY <1>5, <1>6 DEF Balance

\* Every step keeps the books.
LEMMA CountNext == CountInv /\ [Next]_vars => CountInv'
<1> SUFFICES ASSUME CountInv, [Next]_vars PROVE CountInv'
  OBVIOUS
<1>0. FullType'
  BY TypeNext DEF CountInv
<1>1. ASSUME NEW s \in Slots, RunnerReturns(s) PROVE CountInv'
  <2>1. UNCHANGED <<task, cron, req, started, lost>>
    BY <1>1 DEF RunnerReturns, table
  <2>2. \A q \in Slots : /\ run'[q].task = run[q].task
                         /\ (run'[q].pc = "idle") = (run[q].pc = "idle")
    BY <1>1 DEF RunnerReturns, CountInv, FullType, CountersOK, Run
  <2>3. \A t : InFlight(t)' = InFlight(t)
    BY <2>2 DEF InFlight
  <2>4. UnusedAbsent'
    BY <2>1, <2>2 DEF CountInv, UnusedAbsent
  <2>5. Balance'
    BY <2>1, <2>3 DEF CountInv, Balance
  <2> QED BY <1>0, <2>4, <2>5 DEF CountInv
<1>2. CASE Crash \/ Exit
  <2>1. /\ UNCHANGED <<task, started>>
        /\ cron' = {}
        /\ \A q \in Loaders : req'[q].list = Nothing
        /\ \A s \in Slots : run'[s].pc = "idle"
        /\ lost' = [t \in TaskIds |-> lost[t] + Cardinality(InFlight(t))]
    BY <1>2 DEF Crash, Exit, Reborn, Quiet, NoRun
  <2>2. UnusedAbsent'
    BY <2>1 DEF CountInv, UnusedAbsent, Nothing
  <2>3. \A t \in TaskIds : InFlight(t)' = {}
    BY <2>1 DEF InFlight
  <2>4. \A t \in TaskIds : Cardinality(InFlight(t)') = 0
    BY <2>3, FS_EmptySet
  <2>5. \A t \in TaskIds : /\ lost[t] \in Nat /\ task[t].runs \in Nat
                           /\ Cardinality(InFlight(t)) \in Nat
    BY InFlightFinite DEF CountInv, FullType, CountersOK, MemInv, MemoryOK, TaskRow
  <2>6. Balance'
    BY <2>1, <2>4, <2>5 DEF CountInv, Balance
  <2> QED BY <1>0, <2>2, <2>6 DEF CountInv
<1>3. CASE Stop \/ UNCHANGED vars
  <2>1. UNCHANGED <<task, cron, req, run, started, lost>>
    BY <1>3 DEF Stop, vars, table
  <2> QED BY <1>0, <2>1 DEF CountInv, UnusedAbsent, Balance, InFlight
<1> QED BY <1>0, <1>1, <1>2, <1>3, EditCounts, ReloadCounts, StartCounts,
           RecordCounts DEF Next, Running

\* Every run of a task that exists is counted exactly once: recorded in its
\* row, still in flight, or lost with a failed update or the process.
THEOREM RunsAreAccounted == Spec => []RunsAccounted
<1>1. Init => CountInv
  <2> SUFFICES ASSUME Init PROVE CountInv
    OBVIOUS
  <2>1. UnusedAbsent
    BY DEF Init, UnusedAbsent, Quiet, Nothing, NoRun
  <2>2. \A t \in TaskIds : InFlight(t) = {}
    BY DEF Init, InFlight, NoRun
  <2>3. \A t \in TaskIds : Cardinality(InFlight(t)) = 0
    BY <2>2, FS_EmptySet
  <2>4. \A t \in TaskIds : started[t] = 0 /\ lost[t] = 0 /\ task[t].runs = 0
    BY DEF Init
  <2>5. Balance
    BY <2>3, <2>4 DEF Balance
  <2> QED BY <2>1, <2>5, TypeInit DEF CountInv
<1>2. CountInv => RunsAccounted
  BY DEF CountInv, Balance, RunsAccounted, Live
<1> QED BY <1>1, <1>2, CountNext, PTL DEF Spec
=============================================================================
