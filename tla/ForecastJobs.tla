---------------------------- MODULE ForecastJobs ----------------------------
(***************************************************************************)
(* Forecast maintenance jobs (forecasting.refresh_jobs).                   *)
(*                                                                         *)
(* One PostgreSQL session advisory lock, taken without waiting, is shared  *)
(* by everything that touches the job table: starting a refresh (enqueue), *)
(* polling its status (lookup), the child process that a refresh launches  *)
(* and the scheduled midnight run (both run_maintenance).  A process may   *)
(* die at any point; its session ends and the lock is free.                *)
(***************************************************************************)
EXTENDS Integers, FiniteSets, FiniteSetsExt

CONSTANTS
    Clients,    \* API workers: each serves start and status requests in turn
    Scheduler,  \* the process of the scheduled runs
    MaxJobs,    \* bound: rows of ForecastRefreshJob
    MaxCrashes, \* bound: processes that die
    Free        \* no holder of the lock

ASSUME JobsAssumption == MaxJobs \in Nat /\ MaxCrashes \in Nat /\ Scheduler \notin Clients

Jobs      == 1..MaxJobs
Workers   == {<<"child", j>> : j \in Jobs}     \* one child process per launched job
Processes == Clients \union Workers \union {Scheduler}

ASSUME ProcessAssumption ==
    /\ Clients \cap Workers = {}
    /\ Scheduler \notin Workers
    /\ Free \notin Processes

ACTIVE    == {"queued", "running"}
Terminal  == {"succeeded", "failed"}

VARIABLES
    status,     \* status[j], "none" when row j does not exist
    old,        \* old[j]: created more than ten minutes ago
    lock,       \* holder of the maintenance lock
    pc,         \* pc[p]: next step of process p
    task,       \* task[p]: the job p works on or has created, 0 for none
    crashes     \* processes that have died

jobVars == <<status, old, lock, pc, task, crashes>>

TypeOK ==
    /\ status \in [Jobs -> ACTIVE \union Terminal \union {"none"}]
    /\ old \in [Jobs -> BOOLEAN]
    /\ lock \in Processes \union {Free}
    /\ pc \in [Processes -> {"idle", "enqueue", "create", "launch", "poll", "recover", "try",
                             "pick", "start", "fit", "exit"}]
    /\ task \in [Processes -> 0..MaxJobs]
    /\ crashes \in 0..MaxCrashes

JobsInit ==
    /\ status = [j \in Jobs |-> "none"]
    /\ old = [j \in Jobs |-> FALSE]
    /\ lock = Free
    /\ pc = [p \in Processes |-> IF p \in Workers THEN "exit" ELSE "idle"]
    /\ task = [p \in Processes |-> 0]
    /\ crashes = 0

Goto(p, step) == pc' = [pc EXCEPT ![p] = step]

\* Where process p waits for its next run, holding nothing.
Rest(p) == IF p \in Workers THEN "exit" ELSE "idle"

Ends(p) == Goto(p, Rest(p)) /\ task' = [task EXCEPT ![p] = 0]

Release(p) == lock' = IF lock = p THEN Free ELSE lock

Active == {j \in Jobs : status[j] \in ACTIVE}
Queued == {j \in Jobs : status[j] = "queued"}
Unused == {j \in Jobs : status[j] = "none"}

\* Mutation: queued jobs are not recovered.
RecoveredRunning ==
    [j \in Jobs |-> IF status[j] = "running" THEN "failed" ELSE status[j]]

\* _recover_abandoned: running jobs have lost their process, and queued ones
\* that are older than ten minutes never got one.
Recovered ==
    [j \in Jobs |-> IF status[j] = "running" \/ (status[j] = "queued" /\ old[j])
                    THEN "failed" ELSE status[j]]

-----------------------------------------------------------------------------
(***************************************************************************)
(* API requests.                                                           *)
(***************************************************************************)

\* enqueue tries the lock.  Without it, it only reports the active job, or
\* busy when there is none.
Enqueue(c) ==
    /\ pc[c] = "idle"
    /\ Unused # {}
    /\ lock = Free
    /\ lock' = c
    /\ Goto(c, "enqueue")
    /\ UNCHANGED <<status, old, task, crashes>>

EnqueueRecovers(c) ==
    /\ pc[c] = "enqueue"
    /\ status' = Recovered
    /\ Goto(c, "create")
    /\ UNCHANGED <<old, lock, task, crashes>>

\* The active job is reused, or a queued one is created; the lock is released
\* before the child is launched.
CreateJob(c) ==
    /\ pc[c] = "create"
    /\ IF Active # {}
       THEN /\ Goto(c, "idle")
            /\ UNCHANGED <<status, task>>
       ELSE /\ status' = [status EXCEPT ![Min(Unused)] = "queued"]
            /\ task' = [task EXCEPT ![c] = Min(Unused)]
            /\ Goto(c, "launch")
    /\ Release(c)
    /\ UNCHANGED <<old, crashes>>

\* The update filters on the status: a job that was adopted meanwhile is left.
LaunchFailed(j) == [status EXCEPT ![j] = IF @ = "queued" THEN "failed" ELSE @]

\* launch_after_commit: the child process starts, or the job is failed unless
\* somebody has adopted it.
Launch(c) ==
    /\ pc[c] = "launch"
    /\ \/ /\ pc' = [pc EXCEPT ![c] = "idle", ![<<"child", task[c]>>] = "try"]
          /\ task' = [task EXCEPT ![c] = 0, ![<<"child", task[c]>>] = task[c]]
          /\ UNCHANGED status
       \/ /\ Goto(c, "idle")
          /\ task' = [task EXCEPT ![c] = 0]
          /\ status' = LaunchFailed(task[c])
    /\ UNCHANGED <<old, lock, crashes>>

\* Mutation: a poll recovers without the lock.
PollUnlocked(c) ==
    /\ pc[c] = "idle"
    /\ Goto(c, "poll")
    /\ UNCHANGED <<status, old, lock, task, crashes>>

\* lookup takes the lock only to recover abandoned jobs, then reads the row.
Poll(c) ==
    /\ pc[c] = "idle"
    /\ lock = Free
    /\ lock' = c
    /\ Goto(c, "poll")
    /\ UNCHANGED <<status, old, task, crashes>>

PollRecovers(c) ==
    /\ pc[c] = "poll"
    /\ status' = Recovered
    /\ Release(c)
    /\ Goto(c, "idle")
    /\ UNCHANGED <<old, task, crashes>>

-----------------------------------------------------------------------------
(***************************************************************************)
(* run_maintenance, in a child process or as the scheduled run.            *)
(***************************************************************************)
ScheduledRun ==
    /\ pc[Scheduler] = "idle"
    /\ Goto(Scheduler, "try")
    /\ UNCHANGED <<status, old, lock, task, crashes>>

\* The lock is tried once: a process that does not get it reports busy and ends.
TryLock(p) ==
    /\ pc[p] = "try"
    /\ IF lock = Free
       THEN lock' = p /\ Goto(p, "recover") /\ UNCHANGED task
       ELSE Ends(p) /\ UNCHANGED lock
    /\ UNCHANGED <<status, old, crashes>>

RunRecovers(p) ==
    /\ pc[p] = "recover"
    /\ status' = Recovered
    /\ Goto(p, "pick")
    /\ UNCHANGED <<old, lock, task, crashes>>

\* A child takes its own job, if it is still queued.
PickOwnJob(p) ==
    /\ pc[p] = "pick"
    /\ p \in Workers
    /\ IF status[task[p]] = "queued"
       THEN Goto(p, "start") /\ UNCHANGED <<lock, task>>
       ELSE Ends(p) /\ Release(p)
    /\ UNCHANGED <<status, old, crashes>>

\* The scheduled run adopts the latest queued job or creates one.  With all
\* MaxJobs rows in use the model lets it end instead.
PickAnyJob ==
    /\ pc[Scheduler] = "pick"
    /\ IF Queued \union Unused = {}
       THEN Ends(Scheduler) /\ Release(Scheduler) /\ UNCHANGED status
       ELSE LET j == IF Queued # {} THEN Max(Queued) ELSE Min(Unused)
            IN  /\ task' = [task EXCEPT ![Scheduler] = j]
                /\ status' = [status EXCEPT ![j] = "queued"]
                /\ Goto(Scheduler, "start")
                /\ UNCHANGED lock
    /\ UNCHANGED <<old, crashes>>

\* job.status = 'running'; job.save() writes it whatever the row says by now.
StartJob(p) ==
    /\ pc[p] = "start"
    /\ status' = [status EXCEPT ![task[p]] = "running"]
    /\ Goto(p, "fit")
    /\ UNCHANGED <<old, lock, task, crashes>>

\* The stages end, all of them or with an exception at one of them.
FinishJob(p) ==
    /\ pc[p] = "fit"
    /\ \E outcome \in Terminal : status' = [status EXCEPT ![task[p]] = outcome]
    /\ Ends(p)
    /\ Release(p)
    /\ UNCHANGED <<old, crashes>>

-----------------------------------------------------------------------------
\* The process dies: its database session ends, the rows stay as they are.
Crash(p) ==
    /\ pc[p] \notin {"idle", "exit"}
    /\ crashes < MaxCrashes
    /\ crashes' = crashes + 1
    /\ Ends(p)
    /\ Release(p)
    /\ UNCHANGED <<status, old>>

TenMinutesPass(j) ==
    /\ status[j] # "none"
    /\ ~old[j]
    /\ old' = [old EXCEPT ![j] = TRUE]
    /\ UNCHANGED <<status, lock, pc, task, crashes>>

Run(p) ==
    \/ TryLock(p)
    \/ RunRecovers(p)
    \/ PickOwnJob(p)
    \/ StartJob(p)
    \/ FinishJob(p)

Serve(c) ==
    \/ EnqueueRecovers(c)
    \/ CreateJob(c)
    \/ Launch(c)
    \/ PollRecovers(c)

JobsNext ==
    \/ \E c \in Clients : Enqueue(c) \/ Poll(c) \/ Serve(c)
    \/ ScheduledRun
    \/ PickAnyJob
    \/ \E p \in Workers \union {Scheduler} : Run(p)
    \/ \E p \in Processes : Crash(p)
    \/ \E j \in Jobs : TenMinutesPass(j)

JobsSpec == JobsInit /\ [][JobsNext]_jobVars

\* Requests in progress and runs go on until they end or die, the stages of a
\* run terminate, there is a run every midnight and time passes.  Nobody has to
\* start a refresh or to poll, and no process has to win the lock.
FairSpec ==
    /\ JobsSpec
    /\ \A c \in Clients : WF_jobVars(Serve(c))
    /\ \A p \in Workers \union {Scheduler} : WF_jobVars(Run(p))
    /\ WF_jobVars(PickAnyJob)
    /\ WF_jobVars(ScheduledRun)
    /\ \A j \in Jobs : WF_jobVars(TenMinutesPass(j))

-----------------------------------------------------------------------------
\* A job whose models are being fitted is running in the table: the recovery
\* that status polls and new starts perform never fails a job that is alive,
\* since the fitting process holds the lock from before its job is running.
FittingJobIsRunning ==
    \A p \in Processes : pc[p] = "fit" => status[task[p]] = "running"

\* There is at most one active job, so the constraint one_active_forecast_refresh
\* never makes a start or a scheduled run fail, although the rows are created by
\* several processes that look for an active job first.
AtMostOneActive == Cardinality(Active) <= 1

\* The table tells which job is alive: both of the above.
OneLiveJob == FittingJobIsRunning /\ AtMostOneActive

\* Every job gets a result, although its child may find the lock taken by a
\* status poll and end at once, or die: some later holder of the lock fails it.
EveryJobEnds ==
    \A j \in Jobs : status[j] \in ACTIVE ~> status[j] \in Terminal
=============================================================================
