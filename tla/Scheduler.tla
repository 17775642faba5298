----------------------------- MODULE Scheduler ------------------------------
(***************************************************************************)
(* Scheduled tasks: the scheduled_tasks table, the handlers that edit it,  *)
(* the scheduler's copy of it in the cron library, and the goroutines that *)
(* run tasks.                                                              *)
(*                                                                         *)
(* A handler writes the table and then calls Reload, which reads the whole *)
(* table and, only then, takes the mutex under which it replaces the cron  *)
(* entries.  Reload is therefore two steps; what it does under the mutex   *)
(* is one.                                                                 *)
(***************************************************************************)
EXTENDS Naturals, FiniteSets

CONSTANTS
    TaskIds,    \* primary keys of scheduled_tasks
    Confs,      \* what a task says: cron_expr, action, parameter, group
    BadConfs,   \* the ones whose cron_expr the cron library rejects
    Requests,   \* request goroutines that can be in flight together
    Main,       \* the goroutine of Server.Start
    Slots,      \* runTask goroutines that can be in flight together
    None,       \* no task, no configuration
    MaxLoads,   \* bound on the number of reloads
    MaxRuns     \* bound on the number of runs of a task

ASSUME SchedulerAssumption ==
    /\ BadConfs \subseteq Confs
    /\ None \notin Confs \cup TaskIds
    /\ Main \notin Requests
    /\ IsFiniteSet(Slots)
    /\ MaxLoads \in Nat
    /\ MaxRuns \in Nat

Loaders == Requests \cup {Main}

VARIABLES
    task,       \* scheduled_tasks, by id
    cron,       \* the entries of the cron library, each with its task's copy
    entries,    \* Scheduler.entries: the load that added the task's entry, or 0
    loads,      \* number of reloads; with the task it identifies a cron entry
    req,        \* what each loader does next, and the list it has read
    run,        \* runTask goroutines
    stopping,   \* cron.Stop has been called
    missed,     \* history: the last reload that ended had failed, or applied a
                \* list that an edit had overtaken
    stale,      \* history: the loaders whose list an edit has overtaken
    started,    \* history: runs of each task that were started
    lost        \* history: runs of each task that ended unrecorded

vars == <<task, cron, entries, loads, req, run, stopping, missed, stale,
          started, lost>>
table == <<task, started, lost>>
memory == <<cron, entries, loads, run, stopping, missed>>

TaskRow == [row: {"unused", "live", "deleted"}, enabled: BOOLEAN,
            conf: Confs \cup {None}, runs: Nat]

Job == [load: Nat, task: TaskIds, conf: Confs]

\* The enabled tasks of a listing, with their configuration.
Listing == [TaskIds -> Confs \cup {None}]

Loader == [pc: {"idle", "list", "apply"}, list: Listing]

Run == [pc: {"idle", "running", "record"}, task: TaskIds \cup {None}, manual: BOOLEAN]

Nothing == [t \in TaskIds |-> None]
Quiet == [pc |-> "idle", list |-> Nothing]
NoRun == [pc |-> "idle", task |-> None, manual |-> FALSE]

TypeOK ==
    /\ task \in [TaskIds -> TaskRow]
    /\ cron \in SUBSET Job
    /\ entries \in [TaskIds -> Nat]
    /\ loads \in Nat
    /\ req \in [Loaders -> Loader]
    /\ run \in [Slots -> Run]
    /\ stopping \in BOOLEAN
    /\ missed \in BOOLEAN
    /\ stale \in SUBSET Loaders
    /\ started \in [TaskIds -> Nat]
    /\ lost \in [TaskIds -> Nat]

Live(t) == task[t].row = "live"
Idle(r) == req[r].pc = "idle"

-----------------------------------------------------------------------------
(* The handlers.                                                           *)

\* Every handler calls Reload once its statement has succeeded.
ThenReload(r) ==
    /\ req' = [req EXCEPT ![r] = [Quiet EXCEPT !.pc = "list"]]
    /\ stale' = stale \cup {q \in Loaders : req[q].pc = "apply"}

\* The column default makes every new task an enabled one.
CreateScheduledTask(r) ==
    /\ Idle(r)
    /\ \E t \in TaskIds, c \in Confs :
          /\ task[t].row = "unused"
          /\ task' = [task EXCEPT ![t] =
                 [row |-> "live", enabled |-> TRUE, conf |-> c, runs |-> 0]]
    /\ ThenReload(r)
    /\ UNCHANGED <<memory, started, lost>>

\* Variant: the posted row replaces the stored one, its counters included.
UpdateWholeTask(r) ==
    /\ Idle(r)
    /\ \E t \in TaskIds, c \in Confs, e \in BOOLEAN :
          /\ Live(t)
          /\ task' = [task EXCEPT ![t] =
                 [row |-> "live", enabled |-> e, conf |-> c, runs |-> 0]]
    /\ ThenReload(r)
    /\ UNCHANGED <<memory, started, lost>>

\* The selected columns only; an unknown id is no error.
UpdateScheduledTask(r) ==
    /\ Idle(r)
    /\ \E t \in TaskIds, c \in Confs, e \in BOOLEAN :
          task' = IF Live(t)
                  THEN [task EXCEPT ![t].conf = c, ![t].enabled = e]
                  ELSE task
    /\ ThenReload(r)
    /\ UNCHANGED <<memory, started, lost>>

DeleteScheduledTask(r) ==
    /\ Idle(r)
    /\ \E t \in TaskIds :
          task' = IF Live(t) THEN [task EXCEPT ![t].row = "deleted"] ELSE task
    /\ ThenReload(r)
    /\ UNCHANGED <<memory, started, lost>>

-----------------------------------------------------------------------------
(* Scheduler.Reload.                                                       *)

\* Variant: disabled tasks are scheduled too.
ListAllTasks(r) ==
    /\ req[r].pc = "list"
    /\ req' = [req EXCEPT ![r] = [pc |-> "apply",
          list |-> [t \in TaskIds |-> IF Live(t) THEN task[t].conf ELSE None]]]
    /\ UNCHANGED <<table, memory, stale>>

ListScheduledTasks(r) ==
    /\ req[r].pc = "list"
    /\ req' = [req EXCEPT ![r] = [pc |-> "apply",
          list |-> [t \in TaskIds |-> IF Live(t) /\ task[t].enabled
                                      THEN task[t].conf ELSE None]]]
    /\ UNCHANGED <<table, memory, stale>>

\* The listing fails: the caller ignores the error, cron keeps its entries.
ListFails(r) ==
    /\ req[r].pc = "list"
    /\ req' = [req EXCEPT ![r] = Quiet]
    /\ missed' = TRUE
    /\ UNCHANGED <<table, cron, entries, loads, run, stopping, stale>>

\* Variant: tasks that are not in the listing are added too.
AcceptedUnlisted(list) == {t \in TaskIds : list[t] \notin BadConfs}

\* The listed tasks AddFunc accepts.
Accepted(list) == {t \in TaskIds : list[t] \in Confs \ BadConfs}

\* Variant: only the entries of tasks that are gone are removed.
ReloadApplyAdding(r) ==
    /\ req[r].pc = "apply"
    /\ loads < MaxLoads
    /\ LET list == req[r].list
       IN  /\ cron' = {j \in cron : ~(entries[j.task] = j.load /\ list[j.task] = None)}
                      \cup {[load |-> loads + 1, task |-> t, conf |-> list[t]] :
                               t \in Accepted(list)}
           /\ entries' = [t \in TaskIds |->
                             IF t \in Accepted(list) THEN loads + 1 ELSE 0]
    /\ loads' = loads + 1
    /\ missed' = (r \in stale)
    /\ stale' = stale \ {r}
    /\ req' = [req EXCEPT ![r] = Quiet]
    /\ UNCHANGED <<table, run, stopping>>

\* Under the mutex: remove every entry the map knows, of tasks that are gone
\* and of tasks that are added again, then add the enabled tasks; a bad
\* cron_expr is logged and its task left out.
ReloadApply(r) ==
    /\ req[r].pc = "apply"
    /\ loads < MaxLoads
    /\ LET list == req[r].list
       IN  /\ cron' = {j \in cron : entries[j.task] # j.load}
                      \cup {[load |-> loads + 1, task |-> t, conf |-> list[t]] :
                               t \in Accepted(list)}
           /\ entries' = [t \in TaskIds |->
                             IF t \in Accepted(list) THEN loads + 1 ELSE 0]
    /\ loads' = loads + 1
    /\ missed' = (r \in stale)
    /\ stale' = stale \ {r}
    /\ req' = [req EXCEPT ![r] = Quiet]
    /\ UNCHANGED <<table, run, stopping>>

-----------------------------------------------------------------------------
(* Running tasks.                                                          *)

StartRun(s, t, manual) ==
    /\ run[s].pc = "idle"
    /\ started[t] < MaxRuns
    /\ run' = [run EXCEPT ![s] = [pc |-> "running", task |-> t, manual |-> manual]]
    /\ started' = [started EXCEPT ![t] = @ + 1]

\* A cron entry is due.
Fire(s) ==
    /\ ~stopping
    /\ \E j \in cron : StartRun(s, j.task, FALSE)
    /\ UNCHANGED <<task, cron, entries, loads, req, stopping, missed, stale, lost>>

\* RunNow reads the task and starts a goroutine of its own.
RunNow(s) ==
    /\ \E t \in TaskIds : Live(t) /\ StartRun(s, t, TRUE)
    /\ UNCHANGED <<task, cron, entries, loads, req, stopping, missed, stale, lost>>

\* Variant: a runner that cron has started never returns.
RunnerHangs(s) ==
    /\ run[s].pc = "running"
    /\ run[s].manual
    /\ run' = [run EXCEPT ![s].pc = "record"]
    /\ UNCHANGED <<table, cron, entries, loads, req, stopping, missed, stale>>

\* The runner returns.  executeScheduledTask does not look at its context:
\* it returns because it goes through a finite list of clients, sleeps a
\* fixed time between two of them, and leaves the power calls to goroutines.
RunnerReturns(s) ==
    /\ run[s].pc = "running"
    /\ run' = [run EXCEPT ![s].pc = "record"]
    /\ UNCHANGED <<table, cron, entries, loads, req, stopping, missed, stale>>

\* RecordScheduledTaskRun increments run_count in SQL; a deleted task is not
\* touched.
RecordScheduledTaskRun(s) ==
    /\ run[s].pc = "record"
    /\ LET t == run[s].task
       IN  task' = IF Live(t) THEN [task EXCEPT ![t].runs = @ + 1] ELSE task
    /\ run' = [run EXCEPT ![s] = NoRun]
    /\ UNCHANGED <<cron, entries, loads, req, stopping, missed, stale, started, lost>>

\* A failed UPDATE is logged.
RecordFails(s) ==
    /\ run[s].pc = "record"
    /\ lost' = [lost EXCEPT ![run[s].task] = @ + 1]
    /\ run' = [run EXCEPT ![s] = NoRun]
    /\ UNCHANGED <<task, cron, entries, loads, req, stopping, missed, stale, started>>

-----------------------------------------------------------------------------
(* The process.                                                            *)

InFlight(t) == {s \in Slots : run[s].pc # "idle" /\ run[s].task = t}

\* Everything in memory is gone, and the server starts again with Main's
\* Reload.
Reborn ==
    /\ cron' = {}
    /\ entries' = [t \in TaskIds |-> 0]
    /\ req' = [r \in Loaders |-> IF r = Main THEN [Quiet EXCEPT !.pc = "list"]
                                             ELSE Quiet]
    /\ run' = [s \in Slots |-> NoRun]
    /\ stopping' = FALSE
    /\ missed' = FALSE
    /\ stale' = {}
    /\ lost' = [t \in TaskIds |-> lost[t] + Cardinality(InFlight(t))]
    /\ UNCHANGED <<task, loads, started>>

Crash == Reborn

\* Scheduler.Stop, called by Shutdown.
Stop ==
    /\ ~stopping
    /\ stopping' = TRUE
    /\ UNCHANGED <<table, cron, entries, loads, req, run, missed, stale>>

\* cron.Stop waits for the jobs cron has started, and for no others.
Exit ==
    /\ stopping
    /\ \A s \in Slots : run[s].pc # "idle" => run[s].manual
    /\ Reborn

Init ==
    /\ task = [t \in TaskIds |->
                  [row |-> "unused", enabled |-> FALSE, conf |-> None, runs |-> 0]]
    /\ cron = {}
    /\ entries = [t \in TaskIds |-> 0]
    /\ loads = 0
    /\ req = [r \in Loaders |-> IF r = Main THEN [Quiet EXCEPT !.pc = "list"]
                                            ELSE Quiet]
    /\ run = [s \in Slots |-> NoRun]
    /\ stopping = FALSE
    /\ missed = FALSE
    /\ stale = {}
    /\ started = [t \in TaskIds |-> 0]
    /\ lost = [t \in TaskIds |-> 0]

Edit(r) == CreateScheduledTask(r) \/ UpdateScheduledTask(r) \/ DeleteScheduledTask(r)

Reload(r) == ListScheduledTasks(r) \/ ListFails(r) \/ ReloadApply(r)

Running(s) == RunnerReturns(s) \/ RecordScheduledTaskRun(s) \/ RecordFails(s)

Next ==
    \/ \E r \in Requests : Edit(r)
    \/ \E r \in Loaders : Reload(r)
    \/ \E s \in Slots : Fire(s) \/ RunNow(s) \/ Running(s)
    \/ Crash
    \/ Stop
    \/ Exit

Spec == Init /\ [][Next]_vars

\* Goroutines are scheduled: a run that has begun goes on, and Stop returns
\* once what it waits for has ended.
Fairness ==
    /\ \A s \in Slots : WF_vars(Running(s))
    /\ WF_vars(Exit)

FairSpec == Spec /\ Fairness

-----------------------------------------------------------------------------
(* Properties.                                                             *)

\* However reloads overlap, the map and the cron library agree: an entry that
\* the map has lost could never be removed again and would fire for ever, and a
\* task with two entries would run twice.
EntriesTracked ==
    /\ \A j \in cron : entries[j.task] = j.load
    /\ \A t \in TaskIds : entries[t] # 0 =>
          \E j \in cron : j.task = t /\ j.load = entries[t]
    /\ \A i, j \in cron : i.task = j.task => i = j

\* run_count counts every run once, although edits and other runs write the
\* same row at the same time.
RunsAccounted ==
    \A t \in TaskIds : Live(t) =>
        started[t] = task[t].runs + lost[t] + Cardinality(InFlight(t))

\* When no handler is at work, cron runs exactly the enabled tasks of the table,
\* as they are now, whatever earlier reloads have raced, failed or left behind,
\* unless the last reload failed or applied a list an edit had overtaken:
\* Reload reads the list before it takes the mutex, and of two overlapping
\* reloads the one with the older list may come last.
InSync ==
    (\A r \in Loaders : Idle(r)) /\ ~missed =>
        {[task |-> j.task, conf |-> j.conf] : j \in cron} =
            {[task |-> t, conf |-> task[t].conf] :
                t \in {u \in TaskIds : /\ Live(u) /\ task[u].enabled
                                       /\ task[u].conf \notin BadConfs}}

\* Shutdown is never stuck in Scheduler.Stop: the jobs it waits for end, and
\* no new ones keep it waiting.
StopReturns == stopping ~> ~stopping
=============================================================================
