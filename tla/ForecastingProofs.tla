------------------------- MODULE ForecastingProofs --------------------------
(***************************************************************************)
(* Forecasting, for every value of the constants: the jobs that refresh the *)
(* forecasts, and the charts that are made of what they store.             *)
(***************************************************************************)
EXTENDS ForecastJobs, ChartForecasts, FiniteSums, SequenceTheorems

-----------------------------------------------------------------------------
(***************************************************************************)
(* For every number of API workers, jobs and crashes: the job table tells  *)
(* which job is alive.                                                     *)
(*                                                                         *)
(* Two things have to be known beyond OneLiveJob.  Whoever recovers, picks *)
(* or runs a job holds the maintenance lock and is alone with it           *)
(* (LockHeld), so that between its steps no job becomes active but its own *)
(* (OwnJobAlone) although a launch that fails may still end that job.  And *)
(* a job is launched once (LaunchedOnce): a second child of a job would    *)
(* take the place of one that holds the lock.                              *)
(***************************************************************************)

LockSteps == {"enqueue", "create", "poll", "recover", "pick", "start", "fit"}

\* The process that is between taking the lock and releasing it has the lock.
LockHeld == \A p \in Processes : pc[p] \in LockSteps <=> lock = p

\* No two jobs are active.
NoTwoActive == \A i, j \in Active : i = j

\* The run that holds the lock has recovered the table, then works on the only
\* job that may be active.
OwnJobAlone ==
    \A p \in Processes :
        /\ pc[p] = "pick" => \A j \in Jobs : status[j] # "running"
        /\ pc[p] \in {"start", "fit"} => task[p] \in Jobs /\ Active \subseteq {task[p]}
        /\ pc[p] = "fit" => status[task[p]] = "running"

\* A job has one launch at most, and no child before it.
LaunchedOnce ==
    /\ \A c \in Clients : pc[c] = "launch" =>
         /\ task[c] \in Jobs
         /\ status[task[c]] # "none"
         /\ pc[<<"child", task[c]>>] = "exit"
         /\ \A d \in Clients : pc[d] = "launch" /\ task[d] = task[c] => d = c
    /\ \A j \in Jobs : pc[<<"child", j>>] # "exit" =>
         status[j] # "none" /\ task[<<"child", j>>] = j

\* While a start holds the lock nobody else takes the row it will create.
RowLeft ==
    \A p \in Processes : pc[p] \in {"enqueue", "create"} => \E j \in Jobs : status[j] = "none"

JobsInv ==
    /\ TypeOK
    /\ RowLeft
    /\ LockHeld
    /\ NoTwoActive
    /\ OwnJobAlone
    /\ LaunchedOnce

\* Processes are told apart: children of each other, and from everybody else.
LEMMA ProcessFacts ==
    /\ Clients \subseteq Processes /\ Scheduler \in Processes /\ Workers \subseteq Processes
    /\ \A j \in Jobs : <<"child", j>> \in Workers /\ <<"child", j>> \in Processes
    /\ \A c \in Clients, j \in Jobs : c # <<"child", j>>
    /\ \A j \in Jobs : Scheduler # <<"child", j>>
    /\ Scheduler \notin Clients
    /\ Free \notin Processes
    /\ \A p \in Workers : \E j \in Jobs : p = <<"child", j>>
    /\ Jobs \subseteq Int /\ 0 \notin Jobs /\ Jobs \subseteq 0..MaxJobs
BY JobsAssumption, ProcessAssumption DEF Processes, Workers, Jobs

\* The rows that CreateJob and PickAnyJob pick exist.
LEMMA PickedRows ==
    /\ Unused # {} => Min(Unused) \in Jobs /\ status[Min(Unused)] = "none"
    /\ Queued # {} => Max(Queued) \in Jobs /\ status[Max(Queued)] = "queued"
<1>1. Jobs \subseteq 0..MaxJobs /\ MaxJobs \in Nat
    BY JobsAssumption, ProcessFacts
<1>2. Unused \in SUBSET Jobs /\ Queued \in SUBSET Jobs
    BY DEF Unused, Queued
<1>3. Unused \in SUBSET Nat /\ Queued \in SUBSET (0..MaxJobs)
    BY <1>1, <1>2
<1>4. Unused # {} => Min(Unused) \in Unused
    BY <1>3, LeastNatural
<1>5. Queued # {} => Max(Queued) \in Queued
    BY <1>1, <1>3, GreatestNatural
<1> QED
    BY <1>4, <1>5 DEF Unused, Queued

\* No job exists at first.
LEMMA InitJobsInv == JobsInit => JobsInv
BY ProcessFacts, JobsAssumption
   DEF JobsInit, JobsInv, TypeOK, LockHeld, LockSteps, NoTwoActive, Active, ACTIVE, OwnJobAlone,
       LaunchedOnce, RowLeft

\* Recovering fails jobs and never makes one active.
LEMMA RecoveryEndsJobs ==
    ASSUME TypeOK
    PROVE  /\ Recovered \in [Jobs -> ACTIVE \union Terminal \union {"none"}]
           /\ \A j \in Jobs : /\ Recovered[j] # "running"
                              /\ Recovered[j] \in ACTIVE => status[j] \in ACTIVE
                              /\ Recovered[j] = "none" <=> status[j] = "none"
BY DEF TypeOK, Recovered, ACTIVE, Terminal

\* Ending a job, or leaving the table alone, keeps the jobs apart.
Ending(new) ==
    /\ new \in [Jobs -> ACTIVE \union Terminal \union {"none"}]
    /\ \A j \in Jobs : /\ new[j] \in ACTIVE => new[j] = status[j]
                       /\ new[j] = "none" <=> status[j] = "none"

\* A process that stops, and may release the lock and end its job, keeps the
\* invariant.
LEMMA StopJobsInv ==
    ASSUME JobsInv, NEW p \in Processes, Goto(p, Rest(p)), Release(p),
           task' = task \/ task' = [task EXCEPT ![p] = 0],
           Ending(status'),
           \A q \in Processes : q # p /\ pc[q] = "fit" => status'[task[q]] = status[task[q]],
           UNCHANGED old, crashes' \in 0..MaxCrashes
    PROVE  JobsInv'
<1> USE ProcessFacts DEF JobsInv, Release, Goto, Ending
<1>1. Rest(p) \in {"idle", "exit"} /\ (p \in Workers => Rest(p) = "exit")
    BY DEF Rest
<1>2. TypeOK'
    BY <1>1, JobsAssumption DEF TypeOK
<1>3. LockHeld'
    BY <1>1 DEF TypeOK, LockHeld, LockSteps
<1>4. Active' \subseteq Active
    BY DEF Active, ACTIVE
<1>5. NoTwoActive' /\ RowLeft'
    BY <1>1, <1>4 DEF TypeOK, NoTwoActive, RowLeft
<1>6. OwnJobAlone'
    BY <1>1, <1>4 DEF TypeOK, OwnJobAlone, ACTIVE
<1>7. LaunchedOnce'
  <2>1. ASSUME NEW c \in Clients, pc'[c] = "launch"
        PROVE  /\ pc[c] = "launch" /\ task'[c] = task[c] /\ c # p
               /\ pc'[<<"child", task[c]>>] = "exit"
      BY <1>1, <2>1 DEF TypeOK, LaunchedOnce
  <2>2. ASSUME NEW j \in Jobs, pc'[<<"child", j>>] # "exit"
        PROVE  /\ pc[<<"child", j>>] # "exit"
               /\ task'[<<"child", j>>] = task[<<"child", j>>]
      BY <1>1, <2>2 DEF TypeOK
  <2>3. ASSUME NEW c \in Clients, pc'[c] = "launch"
        PROVE  /\ task'[c] \in Jobs
               /\ status'[task'[c]] # "none"
               /\ pc'[<<"child", task'[c]>>] = "exit"
               /\ \A d \in Clients : pc'[d] = "launch" /\ task'[d] = task'[c] => d = c
    <3>1. /\ task[c] \in Jobs
          /\ status[task[c]] # "none"
          /\ \A d \in Clients : pc[d] = "launch" /\ task[d] = task[c] => d = c
        BY <2>1, <2>3 DEF LaunchedOnce
    <3>2. task'[c] = task[c] /\ pc'[<<"child", task[c]>>] = "exit"
        BY <2>1, <2>3
    <3>3. status'[task[c]] # "none"
        BY <3>1
    <3>4. \A d \in Clients : pc'[d] = "launch" => pc[d] = "launch" /\ task'[d] = task[d]
        BY <2>1
    <3> QED
        BY <3>1, <3>2, <3>3, <3>4
  <2>4. ASSUME NEW j \in Jobs, pc'[<<"child", j>>] # "exit"
        PROVE  status'[j] # "none" /\ task'[<<"child", j>>] = j
      BY <2>2, <2>4 DEF LaunchedOnce
  <2> QED
      BY <2>3, <2>4 DEF LaunchedOnce
<1> QED
    BY <1>2, <1>3, <1>5, <1>6, <1>7

\* A process that waits in no step of the lock may take it when it is free.
LEMMA EnterJobsInv ==
    ASSUME JobsInv, NEW p \in Processes, pc[p] \in {"idle", "try"},
           NEW step \in {"enqueue", "poll", "recover"}, Goto(p, step),
           lock = Free, lock' = p,
           p \in Workers => pc[p] = "try",
           step = "enqueue" => Unused # {},
           UNCHANGED <<status, old, task, crashes>>
    PROVE  JobsInv'
<1> USE ProcessFacts DEF JobsInv, Goto
<1>1. TypeOK' /\ LockHeld'
    BY DEF TypeOK, LockHeld, LockSteps
<1>2. Active' = Active /\ \A q \in Processes : pc'[q] = IF q = p THEN step ELSE pc[q]
    BY DEF TypeOK, Active
<1>3. NoTwoActive'
    BY <1>2 DEF NoTwoActive
<1>4. OwnJobAlone'
    BY <1>2 DEF OwnJobAlone
<1>5. RowLeft'
    BY <1>2 DEF RowLeft, Unused
<1>6. LaunchedOnce'
    BY DEF TypeOK, LaunchedOnce
<1> QED
    BY <1>1, <1>3, <1>4, <1>5, <1>6

\* The holder of the lock recovers the table and goes on: afterwards no job is
\* running.
LEMMA RecoverJobsInv ==
    ASSUME JobsInv, NEW p \in Processes, pc[p] \in {"enqueue", "recover"},
           Goto(p, IF pc[p] = "enqueue" THEN "create" ELSE "pick"),
           status' = Recovered, UNCHANGED <<old, lock, task, crashes>>
    PROVE  JobsInv'
<1> USE ProcessFacts, RecoveryEndsJobs DEF JobsInv, Goto
<1>1. TypeOK'
    BY DEF TypeOK
<1>2. LockHeld'
    BY DEF TypeOK, LockHeld, LockSteps
<1>3. Active' \subseteq Active
    BY DEF Active
<1>4. NoTwoActive' /\ RowLeft'
    BY <1>3 DEF TypeOK, NoTwoActive, RowLeft
<1>5. \A q \in Processes : pc[q] \in LockSteps => q = p
    BY DEF LockHeld, LockSteps
<1>6. OwnJobAlone'
    BY <1>5 DEF TypeOK, OwnJobAlone, LockSteps
<1>7. LaunchedOnce'
    BY DEF TypeOK, LaunchedOnce
<1> QED
    BY <1>1, <1>2, <1>4, <1>6, <1>7

\* A run that holds the lock takes a job that is the only active one, or is
\* the only one that would be.
LEMMA AdoptJobsInv ==
    ASSUME JobsInv, NEW p \in Processes, NEW j \in Jobs,
           pc[p] = "pick", Goto(p, "start"), task' = [task EXCEPT ![p] = j],
           p \in Workers => task[p] = j,
           Active \subseteq {j}, status' = [status EXCEPT ![j] = "queued"],
           UNCHANGED <<old, lock, crashes>>
    PROVE  JobsInv'
<1> USE ProcessFacts DEF JobsInv, Goto
<1>1. TypeOK'
    BY DEF TypeOK, ACTIVE
<1>2. LockHeld'
    BY DEF TypeOK, LockHeld, LockSteps
<1>3. Active' \subseteq {j}
    BY DEF TypeOK, Active
<1>4. NoTwoActive'
    BY <1>3 DEF NoTwoActive
<1>5. \A q \in Processes : pc[q] \in LockSteps => q = p
    BY DEF LockHeld, LockSteps
<1>6. OwnJobAlone' /\ RowLeft'
    BY <1>3, <1>5 DEF TypeOK, OwnJobAlone, LockSteps, RowLeft
<1>7. LaunchedOnce'
    BY DEF TypeOK, LaunchedOnce
<1> QED
    BY <1>1, <1>2, <1>4, <1>6, <1>7

\* The job that an API worker creates is the only active one, and nobody has
\* launched it.
LEMMA CreateJobsInv ==
    ASSUME JobsInv, NEW c \in Clients, CreateJob(c)
    PROVE  JobsInv'
<1> USE ProcessFacts DEF JobsInv, Goto
<1>1. lock = c /\ Rest(c) = "idle"
    BY DEF CreateJob, LockHeld, LockSteps, Rest, Workers
<1>2. CASE Active # {}
  <2>1. Ending(status') /\ UNCHANGED <<status, task, old, crashes>> /\ Goto(c, Rest(c)) /\ Release(c)
      BY <1>1, <1>2 DEF CreateJob, Ending, TypeOK
  <2> QED
      BY <2>1, StopJobsInv DEF TypeOK
<1>3. CASE Active = {}
  <2> DEFINE j == Min(Unused)
  <2>1. j \in Jobs /\ status[j] = "none"
      BY PickedRows DEF CreateJob, RowLeft, Unused
  <2>2. /\ pc[c] = "create" /\ Goto(c, "launch")
        /\ status' = [status EXCEPT ![j] = "queued"]
        /\ task' = [task EXCEPT ![c] = j]
        /\ lock' = Free
        /\ UNCHANGED <<old, crashes>>
      BY <1>1, <1>3 DEF CreateJob, Release
  <2> HIDE DEF j
  <2>3. TypeOK'
      BY <2>1, <2>2 DEF TypeOK, ACTIVE
  <2>4. LockHeld'
      BY <2>2 DEF TypeOK, LockHeld, LockSteps
  <2>5. Active' \subseteq {j}
      BY <1>3, <2>1, <2>2 DEF TypeOK, Active
  <2>6. NoTwoActive'
      BY <2>5 DEF NoTwoActive
  <2>7. \A q \in Processes : pc'[q] \notin LockSteps
      BY <2>2, <2>4 DEF LockHeld
  <2>8. OwnJobAlone' /\ RowLeft'
      BY <2>7 DEF OwnJobAlone, RowLeft, LockSteps
  <2>9. /\ \A d \in Clients : pc[d] = "launch" => task[d] # j /\ d # c
        /\ pc[<<"child", j>>] = "exit"
      BY <2>1, <2>2 DEF LaunchedOnce
  <2>10. \A i \in Jobs : /\ status[i] # "none" => status'[i] # "none"
                         /\ status'[j] # "none"
                         /\ pc'[<<"child", i>>] = pc[<<"child", i>>]
                         /\ task'[<<"child", i>>] = task[<<"child", i>>]
      BY <2>1, <2>2 DEF TypeOK
  <2>11. \A d \in Clients : /\ pc'[d] = "launch" => d = c \/ pc[d] = "launch"
                            /\ d # c => task'[d] = task[d]
                            /\ task'[c] = j
      BY <2>2 DEF TypeOK
  <2>12. ASSUME NEW d \in Clients, pc'[d] = "launch"
         PROVE  /\ task'[d] \in Jobs
                /\ status'[task'[d]] # "none"
                /\ pc'[<<"child", task'[d]>>] = "exit"
                /\ \A o \in Clients : pc'[o] = "launch" /\ task'[o] = task'[d] => o = d
    <3>1. CASE d = c
        BY <2>1, <2>9, <2>10, <2>11, <3>1
    <3>2. CASE d # c
      <4>1. /\ task'[d] = task[d] /\ task[d] \in Jobs /\ task[d] # j
            /\ status[task[d]] # "none" /\ pc[<<"child", task[d]>>] = "exit"
            /\ \A o \in Clients : pc[o] = "launch" /\ task[o] = task[d] => o = d
          BY <2>9, <2>11, <2>12, <3>2 DEF LaunchedOnce
      <4> QED
          BY <2>10, <2>11, <4>1
    <3> QED
        BY <3>1, <3>2
  <2>13. ASSUME NEW i \in Jobs, pc'[<<"child", i>>] # "exit"
         PROVE  status'[i] # "none" /\ task'[<<"child", i>>] = i
      BY <2>10, <2>13 DEF LaunchedOnce
  <2>14. LaunchedOnce'
      BY <2>12, <2>13 DEF LaunchedOnce
  <2> QED
      BY <2>3, <2>4, <2>6, <2>8, <2>14
<1> QED
    BY <1>2, <1>3

\* A launch starts the one child of the job, or fails the job if it is still
\* queued.
LEMMA LaunchJobsInv ==
    ASSUME JobsInv, NEW c \in Clients, Launch(c)
    PROVE  JobsInv'
<1> USE ProcessFacts DEF JobsInv, Goto
<1> DEFINE j == task[c]
<1>1. /\ j \in Jobs /\ status[j] # "none" /\ pc[c] = "launch"
      /\ pc[<<"child", j>>] = "exit" /\ c # <<"child", j>>
      /\ \A d \in Clients : pc[d] = "launch" /\ task[d] = j => d = c
    BY DEF Launch, LaunchedOnce
<1>2. lock # c /\ lock # <<"child", j>> /\ Rest(c) = "idle"
    BY <1>1 DEF LockHeld, LockSteps, Rest, Workers
<1>3. CASE /\ Goto(c, "idle")
           /\ task' = [task EXCEPT ![c] = 0]
           /\ status' = LaunchFailed(j)
  <2>1. Ending(status')
      BY <1>1, <1>3 DEF TypeOK, Ending, LaunchFailed, ACTIVE, Terminal
  <2>2. \A q \in Processes : pc[q] = "fit" => status'[task[q]] = status[task[q]]
      BY <1>1, <1>3 DEF LaunchFailed, TypeOK, OwnJobAlone
  <2>3. Goto(c, Rest(c)) /\ Release(c) /\ UNCHANGED <<old, crashes>>
      BY <1>2, <1>3 DEF Launch, Release
  <2> QED
      BY <1>3, <2>1, <2>2, <2>3, StopJobsInv DEF TypeOK
<1>4. CASE /\ pc' = [pc EXCEPT ![c] = "idle", ![<<"child", j>>] = "try"]
           /\ task' = [task EXCEPT ![c] = 0, ![<<"child", j>>] = j]
           /\ UNCHANGED status
  <2>1. UNCHANGED <<status, old, lock, crashes>>
      BY <1>4 DEF Launch
  <2>2. TypeOK'
      BY <1>1, <1>4, <2>1, JobsAssumption DEF TypeOK
  <2>3. \A q \in Processes : q \notin {c, <<"child", j>>} => pc'[q] = pc[q] /\ task'[q] = task[q]
      BY <1>4 DEF TypeOK
  <2>4. /\ pc'[c] = "idle" /\ pc'[<<"child", j>>] = "try" /\ task'[<<"child", j>>] = j
      BY <1>1, <1>4 DEF TypeOK
  <2>5. LockHeld'
      BY <1>1, <1>2, <2>1, <2>3, <2>4 DEF LockHeld, LockSteps
  <2>6. NoTwoActive' /\ OwnJobAlone' /\ RowLeft'
      BY <2>1, <2>3, <2>4 DEF NoTwoActive, OwnJobAlone, Active, RowLeft
  <2>7. \A d \in Clients : pc'[d] = "launch" =>
          d # c /\ pc[d] = "launch" /\ task'[d] = task[d] /\ task[d] # j
      BY <1>1, <2>3, <2>4
  <2>8. \A i \in Jobs : i # j => /\ pc'[<<"child", i>>] = pc[<<"child", i>>]
                                 /\ task'[<<"child", i>>] = task[<<"child", i>>]
      BY <2>3
  <2>9. ASSUME NEW d \in Clients, pc'[d] = "launch"
        PROVE  /\ task'[d] \in Jobs /\ status'[task'[d]] # "none" /\ pc'[<<"child", task'[d]>>] = "exit"
               /\ \A e \in Clients : pc'[e] = "launch" /\ task'[e] = task'[d] => e = d
    <3>1. task'[d] = task[d] /\ task[d] # j /\ pc[d] = "launch"
        BY <2>7, <2>9
    <3>2. task[d] \in Jobs /\ status[task[d]] # "none" /\ pc[<<"child", task[d]>>] = "exit"
        BY <3>1 DEF LaunchedOnce
    <3>3. ASSUME NEW e \in Clients, pc'[e] = "launch", task'[e] = task'[d] PROVE e = d
      <4>1. pc[e] = "launch" /\ task[e] = task[d]
          BY <3>1, <3>3, <2>7
      <4> QED
          BY <3>1, <4>1 DEF LaunchedOnce
    <3> QED
        BY <3>1, <3>2, <3>3, <2>1, <2>8
  <2>10. \A i \in Jobs : pc'[<<"child", i>>] # "exit" => status'[i] # "none" /\ task'[<<"child", i>>] = i
      BY <1>1, <2>1, <2>4, <2>8 DEF LaunchedOnce
  <2> QED
      BY <2>2, <2>5, <2>6, <2>9, <2>10 DEF LaunchedOnce
<1> QED
    BY <1>3, <1>4 DEF Launch

\* A run marks its job running, whatever became of it meanwhile.
LEMMA StartJobsInv ==
    ASSUME JobsInv, NEW p \in Processes, StartJob(p)
    PROVE  JobsInv'
<1> USE ProcessFacts DEF JobsInv, Goto, StartJob
<1>1. task[p] \in Jobs /\ Active \subseteq {task[p]}
    BY DEF OwnJobAlone
<1>2. TypeOK' /\ LockHeld'
    BY <1>1 DEF TypeOK, ACTIVE, LockHeld, LockSteps
<1>3. Active' \subseteq {task[p]} /\ status'[task[p]] = "running"
    BY <1>1 DEF TypeOK, Active
<1>4. NoTwoActive'
    BY <1>3 DEF NoTwoActive
<1>5. \A q \in Processes : pc[q] \in LockSteps => q = p
    BY DEF LockHeld, LockSteps
<1>6. OwnJobAlone' /\ RowLeft'
    BY <1>1, <1>3, <1>5 DEF TypeOK, OwnJobAlone, LockSteps, RowLeft
<1>7. LaunchedOnce'
    BY <1>1 DEF TypeOK, LaunchedOnce
<1> QED
    BY <1>2, <1>4, <1>6, <1>7

\* The steps of an API worker keep the invariant.
LEMMA ServeJobsInv ==
    ASSUME JobsInv, NEW c \in Clients, Enqueue(c) \/ Poll(c) \/ Serve(c)
    PROVE  JobsInv'
<1> USE ProcessFacts
<1>1. CASE Enqueue(c) \/ Poll(c)
    BY <1>1, EnterJobsInv DEF Enqueue, Poll
<1>2. CASE EnqueueRecovers(c)
    BY <1>2, RecoverJobsInv DEF EnqueueRecovers
<1>3. CASE CreateJob(c)
    BY <1>3, CreateJobsInv
<1>4. CASE Launch(c)
    BY <1>4, LaunchJobsInv
<1>5. CASE PollRecovers(c)
  <2>1. TypeOK /\ lock = c /\ Rest(c) = "idle"
      BY <1>5 DEF JobsInv, PollRecovers, LockHeld, LockSteps, Rest, Workers
  <2>2. Ending(status')
      BY <1>5, <2>1, RecoveryEndsJobs DEF PollRecovers, Ending, Recovered, ACTIVE
  <2>3. \A q \in Processes : q # c => pc[q] # "fit"
      BY <2>1 DEF JobsInv, LockHeld, LockSteps
  <2> QED
      BY <1>5, <2>1, <2>2, <2>3, StopJobsInv DEF PollRecovers, TypeOK
<1> QED
    BY <1>1, <1>2, <1>3, <1>4, <1>5 DEF Serve

\* The steps of a run, in a child or scheduled, keep the invariant.
LEMMA RunJobsInv ==
    ASSUME JobsInv, NEW p \in Workers \union {Scheduler}, Run(p)
    PROVE  JobsInv'
<1> USE ProcessFacts
<1>1. p \in Processes /\ TypeOK
    BY DEF JobsInv
<1>2. ASSUME UNCHANGED status PROVE Ending(status')
    BY <1>1, <1>2 DEF Ending, TypeOK
<1>3. CASE TryLock(p)
  <2>1. CASE lock = Free
      BY <1>1, <1>3, <2>1, EnterJobsInv DEF TryLock
  <2>2. CASE lock # Free
    <3>1. lock # p
        BY <1>1, <1>3 DEF TryLock, JobsInv, LockHeld, LockSteps
    <3> QED
        BY <1>1, <1>2, <1>3, <2>2, <3>1, StopJobsInv DEF TryLock, Ends, Release, TypeOK
  <2> QED
      BY <2>1, <2>2
<1>4. CASE RunRecovers(p)
    BY <1>1, <1>4, RecoverJobsInv DEF RunRecovers
<1>5. CASE PickOwnJob(p)
  <2>1. task[p] \in Jobs
      BY <1>5 DEF PickOwnJob, JobsInv, LaunchedOnce
  <2>2. CASE status[task[p]] = "queued"
    <3>1. Active \subseteq {task[p]}
        BY <2>1, <2>2 DEF JobsInv, NoTwoActive, Active, ACTIVE
    <3>2. /\ task' = [task EXCEPT ![p] = task[p]]
          /\ status' = [status EXCEPT ![task[p]] = "queued"]
        BY <1>1, <1>5, <2>1, <2>2 DEF PickOwnJob, TypeOK
    <3> QED
        BY <1>1, <1>5, <2>1, <2>2, <3>1, <3>2, AdoptJobsInv DEF PickOwnJob
  <2>3. CASE status[task[p]] # "queued"
      BY <1>1, <1>2, <1>5, <2>3, StopJobsInv DEF PickOwnJob, Ends, TypeOK
  <2> QED
      BY <2>2, <2>3
<1>6. CASE StartJob(p)
    BY <1>1, <1>6, StartJobsInv
<1>7. CASE FinishJob(p)
  <2>1. lock = p /\ task[p] \in Jobs /\ status[task[p]] = "running"
      BY <1>1, <1>7 DEF FinishJob, JobsInv, LockHeld, LockSteps, OwnJobAlone
  <2>2. Ending(status')
      BY <1>1, <1>7, <2>1 DEF FinishJob, Ending, TypeOK, ACTIVE, Terminal
  <2>3. \A q \in Processes : q # p => pc[q] # "fit"
      BY <2>1 DEF JobsInv, LockHeld, LockSteps
  <2> QED
      BY <1>1, <1>7, <2>2, <2>3, StopJobsInv DEF FinishJob, Ends, TypeOK
<1> QED
    BY <1>3, <1>4, <1>5, <1>6, <1>7 DEF Run

\* The scheduled run adopts the latest queued job: after its recovery that is
\* the only active one.
LEMMA PickAnyJobsInv ==
    ASSUME JobsInv, PickAnyJob
    PROVE  JobsInv'
<1> USE ProcessFacts
<1>1. /\ TypeOK /\ pc[Scheduler] = "pick"
      /\ \A j \in Jobs : status[j] # "running"
    BY DEF JobsInv, PickAnyJob, OwnJobAlone
<1>2. CASE Queued \union Unused = {}
  <2>1. Ending(status')
      BY <1>1, <1>2 DEF PickAnyJob, Ending, TypeOK
  <2> QED
      BY <1>1, <1>2, <2>1, StopJobsInv DEF PickAnyJob, Ends, TypeOK
<1>3. CASE Queued \union Unused # {}
  <2> DEFINE j == IF Queued # {} THEN Max(Queued) ELSE Min(Unused)
  <2>1. j \in Jobs /\ (Queued # {} => status[j] = "queued")
      BY <1>3, PickedRows
  <2>2. Active \subseteq {j}
      BY <1>1, <2>1 DEF JobsInv, NoTwoActive, Active, Queued, ACTIVE
  <2>3. /\ Goto(Scheduler, "start") /\ task' = [task EXCEPT ![Scheduler] = j]
        /\ status' = [status EXCEPT ![j] = "queued"]
        /\ UNCHANGED <<old, lock, crashes>>
      BY <1>3 DEF PickAnyJob
  <2> HIDE DEF j
  <2>4. Scheduler \notin Workers
      BY ProcessAssumption
  <2> QED
      BY <1>1, <2>1, <2>2, <2>3, <2>4, AdoptJobsInv
<1> QED
    BY <1>2, <1>3

\* The invariant is inductive.
LEMMA NextJobsInv == JobsInv /\ [JobsNext]_jobVars => JobsInv'
<1> SUFFICES ASSUME JobsInv, [JobsNext]_jobVars PROVE JobsInv'
    OBVIOUS
<1> USE ProcessFacts
<1>1. ASSUME NEW c \in Clients, Enqueue(c) \/ Poll(c) \/ Serve(c) PROVE JobsInv'
    BY <1>1, ServeJobsInv
<1>2. CASE ScheduledRun
  <2> USE <1>2 DEF ScheduledRun, Goto, JobsInv
  <2>1. TypeOK' /\ LockHeld'
      BY DEF TypeOK, LockHeld, LockSteps
  <2>2. NoTwoActive' /\ OwnJobAlone' /\ RowLeft'
      BY DEF TypeOK, NoTwoActive, OwnJobAlone, Active, RowLeft
  <2>3. LaunchedOnce'
      BY DEF TypeOK, LaunchedOnce
  <2> QED
      BY <2>1, <2>2, <2>3
<1>3. CASE PickAnyJob
    BY <1>3, PickAnyJobsInv
<1>4. ASSUME NEW p \in Workers \union {Scheduler}, Run(p) PROVE JobsInv'
    BY <1>4, RunJobsInv
<1>5. ASSUME NEW p \in Processes, Crash(p) PROVE JobsInv'
  <2>1. Ending(status') /\ crashes' \in 0..MaxCrashes
      BY <1>5, JobsAssumption DEF Crash, JobsInv, TypeOK, Ending
  <2> QED
      BY <1>5, <2>1, StopJobsInv DEF Crash, Ends
<1>6. ASSUME NEW j \in Jobs, TenMinutesPass(j) PROVE JobsInv'
    BY <1>6 DEF TenMinutesPass, JobsInv, TypeOK, LockHeld, NoTwoActive, Active, OwnJobAlone,
                RowLeft, LaunchedOnce
<1>7. CASE UNCHANGED jobVars
    BY <1>7 DEF jobVars, JobsInv, TypeOK, LockHeld, NoTwoActive, Active, OwnJobAlone, RowLeft,
                LaunchedOnce
<1> QED
    BY <1>1, <1>2, <1>3, <1>4, <1>5, <1>6, <1>7 DEF JobsNext

\* Every reachable job table satisfies the invariant.
LEMMA JobsInvHolds == JobsSpec => []JobsInv
BY InitJobsInv, NextJobsInv, PTL DEF JobsSpec

-----------------------------------------------------------------------------
\* The state variables keep their types.
THEOREM JobsTypeCorrect == JobsSpec => []TypeOK
<1>1. JobsInv => TypeOK
    BY DEF JobsInv
<1> QED
    BY <1>1, JobsInvHolds, PTL

\* A job whose models are being fitted is running in the table, and no second
\* job is active, whoever polls, starts, crashes or is scheduled meanwhile.
THEOREM AlwaysOneLiveJob == JobsSpec => []OneLiveJob
<1>1. JobsInv => OneLiveJob
  <2> SUFFICES ASSUME JobsInv PROVE Cardinality(Active) <= 1
      BY DEF JobsInv, OwnJobAlone, OneLiveJob, FittingJobIsRunning, AtMostOneActive
  <2>1. CASE Active = {}
      BY <2>1, FS_EmptySet
  <2>2. CASE Active # {}
    <3>1. PICK j \in Active : Active = {j}
        BY <2>2 DEF JobsInv, NoTwoActive
    <3> QED
        BY <3>1, FS_Singleton
  <2> QED
      BY <2>1, <2>2
<1> QED
    BY <1>1, JobsInvHolds, PTL

-----------------------------------------------------------------------------
(***************************************************************************)
(* For every calendar, ledger and number of refreshes: a chosen model was  *)
(* earned, a shown projection or graph is the one of what is recorded now, *)
(* and what was forecast for the past stays.                               *)
(***************************************************************************)

(***************************************************************************)
(* Numbers.                                                                *)
(***************************************************************************)
LEMMA SummedIsSigma == \A f : Summed(f) = Sigma(f, DOMAIN f)
BY DEF Summed, Sigma

\* A finite set of numbers has a greatest and a least one.
LEMMA MaxFacts ==
    ASSUME NEW S \in SUBSET Int, IsFiniteSet(S), S # {}
    PROVE  Max(S) \in S /\ \A x \in S : x <= Max(S)
<1> DEFINE G == {T \in SUBSET S : T # {} => \E x \in T : \A y \in T : x >= y}
<1>1. ASSUME NEW T \in SUBSET S, \A U \in SUBSET T : U # T => U \in G
      PROVE  T \in G
  <2> SUFFICES ASSUME T # {} PROVE \E x \in T : \A y \in T : x >= y
      OBVIOUS
  <2>1. PICK x \in T : TRUE
      OBVIOUS
  <2>2. CASE T \ {x} = {}
      BY <2>1, <2>2
  <2>3. CASE T \ {x} # {}
    <3>0. (T \ {x}) \in G
      <4> HIDE DEF G
      <4> QED
          BY <1>1, <2>1
    <3>1. PICK z \in T \ {x} : \A y \in T \ {x} : z >= y
        BY <2>3, <3>0
    <3>2. CASE x >= z
        BY <2>1, <3>1, <3>2
    <3>3. CASE ~(x >= z)
        BY <2>1, <3>1, <3>3
    <3> QED
        BY <3>2, <3>3
  <2> QED
      BY <2>2, <2>3
<1> HIDE DEF G
<1>2. S \in G
    BY <1>1, SetInduction
<1>3. \E x \in S : \A y \in S : x >= y
    BY <1>2 DEF G
<1>4. \A y \in S : Max(S) >= y
    BY <1>3 DEF Max
<1> QED
    BY <1>3, <1>4 DEF Max

-----------------------------------------------------------------------------
(***************************************************************************)
(* The selection.  Findings are the outcome of a training on some rows,    *)
(* and everything they claim is computed from these rows.                  *)
(***************************************************************************)
Rows == Seq(0..MaxAmount)

Histories == Seq(Known)

\* The run of a refresh that read the history h.
MadeOf(run, h) ==
    /\ run.coverage = CoverageRevision(h)
    /\ \E other : run.source = SalesRevision(h, other)
    /\ \E o \in Outcomes(TrainingRows(h)) : run.findings = Findings(TrainingRows(h), o)

Made(run) == \E h \in Histories : MadeOf(run, h)

SelectionInv ==
    /\ history \in Histories
    /\ fitting # None => Made(fitting)
    /\ retained # None => Made(retained)

LEMMA HistoryFacts ==
    ASSUME NEW h \in Histories
    PROVE  /\ TrainingRows(h) \in Rows /\ Len(TrainingRows(h)) = Len(h)
           /\ DOMAIN TrainingRows(h) = DOMAIN h /\ DOMAIN h = 1..Len(h) /\ Len(h) \in Nat
           /\ \A i \in DOMAIN h : h[i] # None => TrainingRows(h)[i] = h[i]
           /\ trainer # "monthly" => TrainingRows(h) = h /\ \A i \in DOMAIN h : h[i] # None
<1>1. h \in Seq(Known) /\ Len(h) \in Nat /\ DOMAIN h = 1..Len(h)
    BY LenProperties DEF Histories
<1>2. \A i \in 1..Len(h) : h[i] \in Known
    BY <1>1, ElementOfSeq
<1>3. 0 \in 0..MaxAmount
    BY ChartAssumption
<1>4. \A i \in 1..Len(h) : (IF h[i] = None THEN 0 ELSE h[i]) \in 0..MaxAmount
    BY <1>2, <1>3 DEF Known
<1>5. TrainingRows(h) = [i \in 1..Len(h) |-> IF h[i] = None THEN 0 ELSE h[i]]
    BY <1>1 DEF TrainingRows
<1>6. TrainingRows(h) \in [1..Len(h) -> 0..MaxAmount]
    BY <1>4, <1>5
<1>7. TrainingRows(h) \in Rows
  <2>1. PICK n \in Nat : n = Len(h)
      BY <1>1
  <2>2. TrainingRows(h) \in [1..n -> 0..MaxAmount]
      BY <1>6, <2>1
  <2> QED
      BY <2>1, <2>2, SeqDef DEF Rows
<1>8. Len(TrainingRows(h)) = Len(h)
    BY <1>1, <1>6, <1>7, LenProperties DEF Rows
<1>9. ASSUME trainer # "monthly" PROVE TrainingRows(h) = h /\ \A i \in DOMAIN h : h[i] # None
  <2>1. \A i \in 1..Len(h) : h[i] # None
      BY <1>2, <1>9, SelectionAssumption DEF Known
  <2>2. h = [i \in 1..Len(h) |-> h[i]]
      BY <1>1
  <2> QED
      BY <1>1, <1>5, <2>1, <2>2
<1> QED
    BY <1>1, <1>5, <1>7, <1>8, <1>9

LEMMA NamesAre ==
    /\ ToSet(CONFIGS) = {"simple", "seasonal"} /\ ToSet(BASELINES) = {"previous"}
    /\ Names = {"simple", "seasonal", "previous"}
    /\ DOMAIN CONFIGS = {1, 2} /\ CONFIGS[1] = "simple" /\ CONFIGS[2] = "seasonal"
    /\ DOMAIN BASELINES = {1} /\ BASELINES[1] = "previous"
<1>1. DOMAIN CONFIGS = {1, 2} /\ DOMAIN BASELINES = {1}
    BY DEF CONFIGS, BASELINES
<1>2. CONFIGS[1] = "simple" /\ CONFIGS[2] = "seasonal" /\ BASELINES[1] = "previous"
    BY DEF CONFIGS, BASELINES
<1> QED
    BY <1>1, <1>2 DEF ToSet, Names

\* A comparison of the recorded amounts of some periods with predictions, or none.
Compares(folds, rows, from, to) ==
    \/ folds = <<>>
    \/ /\ DOMAIN folds = from..to
       /\ \A i \in from..to : folds[i].actual = rows[i] /\ folds[i].actual \in Int /\ folds[i].predicted \in Int

LEMMA FoldsCompare ==
    ASSUME NEW rows \in Rows, NEW from \in Int, NEW to \in Int, from..to \subseteq DOMAIN rows, NEW predicted,
           \A i \in from..to : predicted[i] # None => predicted[i] \in Int
    PROVE  /\ Compares(Folds(predicted, rows, from, to), rows, from, to)
<1>1. \A i \in DOMAIN rows : rows[i] \in 0..MaxAmount
    BY ElementOfSeq, LenProperties DEF Rows
<1>2. \A i \in from..to : rows[i] \in Int
    BY <1>1, ChartAssumption
<1> QED
    BY <1>2 DEF Folds, Compares

LEMMA ScoreFacts ==
    ASSUME NEW rows, NEW from \in Int, NEW to \in Int, NEW folds, Compares(folds, rows, from, to)
    PROVE  /\ Score(folds) # None => Score(folds) \in Int
           /\ folds = <<>> => Score(folds) = None
           /\ (\A i \in DOMAIN folds : folds[i].actual = 0) => Score(folds) = None
<1> DEFINE a == [i \in DOMAIN folds |-> folds[i].actual]
<1> DEFINE d == [i \in DOMAIN folds |-> Deviation(folds[i])]
<1> DEFINE S == DOMAIN folds
<1>1. IsFiniteSet(S)
  <2>1. folds = <<>> => S = {}
      OBVIOUS
  <2> QED
      BY <2>1, FS_EmptySet, FS_Interval DEF Compares
<1>2. DOMAIN a = S /\ DOMAIN d = S
    OBVIOUS
<1>3. \A i \in S : d[i] \in Int
  <2>1. folds = <<>> => S = {}
      OBVIOUS
  <2> QED
      BY <2>1 DEF Compares, Deviation
<1>4. (\A i \in S : folds[i].actual = 0) => \A i \in S : a[i] = 0
    OBVIOUS
<1>5. Score(folds) = IF Summed(a) = 0 THEN None ELSE Summed(d)
    BY DEF Score
<1>6. folds = <<>> => \A i \in DOMAIN folds : folds[i].actual = 0
    OBVIOUS
<1> HIDE DEF a, d, S
<1>7. Sigma(d, S) \in Int
    BY <1>1, <1>3, SumInt
<1>8. (\A i \in S : folds[i].actual = 0) => Sigma(a, S) = 0
    BY <1>1, <1>4, SumZero
<1> QED
    BY <1>2, <1>5, <1>6, <1>7, <1>8, SummedIsSigma DEF S

\* There is a winner as soon as a candidate has a score.
LEMMA WinnerFacts ==
    ASSUME NEW order \in {CONFIGS, BASELINES}, NEW merits,
           \A n \in Names : merits[n] # None => merits[n] \in Int, Winner(order, merits) # None
    PROVE  LET w == Winner(order, merits)
           IN  /\ w \in ToSet(order) /\ merits[w] # None
               /\ \A n \in ToSet(order) : merits[n] # None => merits[w] <= merits[n]
<1> DEFINE eligible == {i \in DOMAIN order : merits[order[i]] # None}
<1> DEFINE Beats(i, j) == \/ merits[order[i]] < merits[order[j]]
                          \/ merits[order[i]] = merits[order[j]] /\ i <= j
<1> DEFINE first == CHOOSE i \in eligible : \A j \in eligible : Beats(i, j)
<1>1. eligible # {} /\ Winner(order, merits) = order[first]
    BY DEF Winner
<1>2. \A i \in eligible : i \in {1, 2} /\ merits[order[i]] \in Int /\ order[i] \in ToSet(order)
    BY NamesAre DEF ToSet
<1>3. \E i \in eligible : \A j \in eligible : Beats(i, j)
  <2> HIDE DEF eligible
  <2>1. CASE 1 \notin eligible
      BY <1>1, <1>2, <2>1
  <2>2. CASE 2 \notin eligible
      BY <1>1, <1>2, <2>2
  <2>3. CASE 1 \in eligible /\ 2 \in eligible
    <3>1. CASE merits[order[1]] <= merits[order[2]]
      <4>1. \A j \in eligible : Beats(1, j)
          BY <1>2, <2>3, <3>1
      <4> QED
          BY <2>3, <4>1
    <3>2. CASE ~(merits[order[1]] <= merits[order[2]])
      <4>1. \A j \in eligible : Beats(2, j)
          BY <1>2, <2>3, <3>2
      <4> QED
          BY <2>3, <4>1
    <3> QED
        BY <3>1, <3>2
  <2> QED
      BY <2>1, <2>2, <2>3
<1>4. first \in eligible /\ \A j \in eligible : Beats(first, j)
  <2> HIDE DEF eligible, Beats
  <2> QED
      BY <1>3
<1> HIDE DEF first
<1>5. \A n \in ToSet(order) : merits[n] # None => \E j \in eligible : n = order[j]
    BY DEF ToSet
<1> QED
    BY <1>1, <1>2, <1>4, <1>5

\* A prediction of a number is a number, of nothing nothing.
LEMMA PredictionFacts ==
    ASSUME NEW x, x \in Int \/ x = None
    PROVE  PredictModel(x) # None => PredictModel(x) \in Int
<1> SUFFICES ASSUME x # None PROVE PredictModel(x) \in Int
    BY DEF PredictModel
<1>1. IsFiniteSet({0}) /\ IsFiniteSet({0} \union {x})
    BY FS_AddElement, FS_Singleton
<1>2. {0, x} = {0} \union {x}
    OBVIOUS
<1>3. {0, x} \in SUBSET Int /\ IsFiniteSet({0, x}) /\ {0, x} # {}
    BY <1>1, <1>2
<1>4. Max({0, x}) \in {0, x}
    BY <1>3, MaxFacts
<1> QED
    BY <1>3, <1>4 DEF PredictModel

\* The periods that are compared lie within the rows, with a row before each.
LEMMA PeriodFacts ==
    ASSUME NEW rows \in Rows, Enough(rows)
    PROVE  /\ Len(rows) \in Nat /\ DOMAIN rows = 1..Len(rows)
           /\ \A i \in 1..Len(rows) : rows[i] \in Int
           /\ ValidationStart(rows) \in Int /\ TestStart(rows) \in Int
           /\ 2 <= ValidationStart(rows) /\ ValidationStart(rows) <= TestStart(rows)
           /\ TestStart(rows) <= Len(rows)
<1>1. Len(rows) \in Nat /\ DOMAIN rows = 1..Len(rows)
    BY LenProperties DEF Rows
<1>2. \A i \in 1..Len(rows) : rows[i] \in Int
    BY ElementOfSeq, ChartAssumption DEF Rows
<1>3. MIN_TRAIN \in Nat \ {0} /\ VALIDATION \in Nat \ {0} /\ TEST \in Nat \ {0}
    BY SelectionAssumption
<1> QED
    BY <1>1, <1>2, <1>3 DEF Enough, ValidationStart, TestStart

\* What is compared is from the rows, for each way of walking through them.
LEMMA WalksCompare ==
    ASSUME NEW rows \in Rows, Enough(rows), NEW o \in Outcomes(rows), NEW n \in Names,
           NEW from \in Int, NEW to \in Int, ValidationStart(rows) <= from, to <= Len(rows)
    PROVE  /\ Compares(WalkWeekly(n, rows, o, from, to), rows, from, to)
           /\ Compares(WalkForward(n, rows, o, from, to), rows, from, to)
           /\ n \in ToSet(CONFIGS) => Compares(Evaluate(n, rows, o, from, to), rows, from, to)
<1>1. from..to \subseteq DOMAIN rows /\ from..to \subseteq ValidationStart(rows)..(Len(rows) + 1)
    BY PeriodFacts
<1>2. \A i \in from..to : rows[i - 1] \in Int
    BY PeriodFacts
<1>3. \A x : x \in Int \/ x = None => (PredictModel(x) # None => PredictModel(x) \in Int)
    BY PredictionFacts
<1>4. n \in ToSet(CONFIGS) => \A i \in from..to : o[n][i] \in Int \/ o[n][i] = None
  <2> SUFFICES ASSUME n \in ToSet(CONFIGS), NEW i \in from..to PROVE o[n][i] \in Int \/ o[n][i] = None
      OBVIOUS
  <2>1. i \in ValidationStart(rows)..(Len(rows) + 1)
      BY <1>1
  <2>2. o[n][i] \in {-1, MaxAmount, None}
      BY <2>1 DEF Outcomes
  <2> QED
      BY <2>2, ChartAssumption
<1> DEFINE weekly == [i \in from..to |-> PredictModel(IF n \in ToSet(CONFIGS) THEN FitWeekly(n, rows, o, i) ELSE Baseline(rows, i))]
<1> DEFINE monthly == [i \in from..to |-> PredictModel(FitModel(n, rows, o, i))]
<1> DEFINE short == [i \in from..to |-> Project(n, o, from, i)]
<1>5. \A i \in from..to : weekly[i] # None => weekly[i] \in Int
    BY <1>2, <1>3, <1>4 DEF FitWeekly, FitSarima, Baseline
<1>6. \A i \in from..to : monthly[i] # None => monthly[i] \in Int
    BY <1>2, <1>3, <1>4 DEF FitModel, FitSarima, Baseline
<1>7. n \in ToSet(CONFIGS) => \A i \in from..to : short[i] # None => short[i] \in Int
    BY <1>3, <1>4 DEF Project
<1>8. /\ WalkWeekly(n, rows, o, from, to) = Folds(weekly, rows, from, to)
      /\ WalkForward(n, rows, o, from, to) = Folds(monthly, rows, from, to)
      /\ Evaluate(n, rows, o, from, to) = Folds(short, rows, from, to)
    BY DEF WalkWeekly, WalkForward, Evaluate
<1> HIDE DEF weekly, monthly, short
<1> QED
    BY <1>1, <1>5, <1>6, <1>7, <1>8, FoldsCompare

\* A candidate that stays after training won on validation periods and passed its
\* own test; all that is kept is from the rows.
Kept(f, rows) ==
    LET merits == [n \in Names |-> Score(f.validation[n])]
    IN  /\ Enough(rows) /\ f.rows = rows
        /\ \A n \in Names : Compares(f.validation[n], rows, ValidationStart(rows), TestStart(rows) - 1)
        /\ f.selected = Winner(CONFIGS, merits) /\ f.selected # None
        /\ f.test[f.selected] # <<>>
        /\ Compares(f.test[f.selected], rows, TestStart(rows), Len(rows))

LEMMA TrainKeeps ==
    ASSUME NEW rows \in Rows, NEW o, NEW validation, NEW tested,
           Enough(rows) => \A n \in Names :
              /\ Compares(validation[n], rows, ValidationStart(rows), TestStart(rows) - 1)
              /\ Compares(tested[n], rows, TestStart(rows), Len(rows)),
           NEW f, f = Train(rows, o, validation, tested)
    PROVE  /\ f.rows = rows
           /\ f.status \in {"insufficient_history", "no_valid_candidates", "no_valid_baseline",
                            "selected_model_failed", "research_candidate"}
           /\ f.status = "research_candidate" =>
                /\ Kept(f, rows)
                /\ f.baseline = Winner(BASELINES, [n \in Names |-> Score(f.validation[n])])
                /\ f.baseline # None
                /\ trainer = "weekly" => /\ f.test[f.baseline] # <<>>
                                         /\ Compares(f.test[f.baseline], rows, TestStart(rows), Len(rows))
<1> DEFINE merits == [n \in Names |-> Score(validation[n])]
<1> DEFINE test == [n \in Names |-> IF merits[n] = None THEN <<>> ELSE tested[n]]
<1> DEFINE selected == Winner(CONFIGS, merits)
<1> DEFINE baseline == Winner(BASELINES, merits)
<1>1. CASE ~Enough(rows)
    BY <1>1 DEF Train, NoFindings
<1>2. CASE Enough(rows)
  <2>1. \A n \in Names : merits[n] # None => merits[n] \in Int
      BY <1>2, PeriodFacts, ScoreFacts
  <2>2. \A n \in Names : test[n] # <<>> => Compares(test[n], rows, TestStart(rows), Len(rows))
      BY <1>2
  <2>3. selected # None => selected \in Names
    <3> HIDE DEF merits
    <3> QED
        BY <2>1, WinnerFacts, NamesAre
  <2>4. baseline # None => baseline \in Names
    <3> HIDE DEF merits
    <3> QED
        BY <2>1, WinnerFacts, NamesAre
  <2> HIDE DEF merits, test, selected, baseline
  <2>5. f = [status |-> CASE selected = None -> "no_valid_candidates"
                          [] selected # None /\ baseline = None ->
                               IF trainer = "weekly" THEN "no_valid_candidates" ELSE "no_valid_baseline"
                          [] selected # None /\ baseline # None ->
                               IF \/ test[selected] = <<>>
                                  \/ trainer = "weekly" /\ test[baseline] = <<>>
                                  \/ FitSarima(selected, o, Len(rows) + 1) = None
                               THEN "selected_model_failed" ELSE "research_candidate",
             rows |-> rows, selected |-> selected, baseline |-> baseline,
             validation |-> validation, test |-> test]
      BY <1>2 DEF Train, merits, test, selected, baseline
  <2>6. /\ f.rows = rows /\ f.selected = selected /\ f.baseline = baseline
        /\ f.validation = validation /\ f.test = test
        /\ f.status \in {"no_valid_candidates", "no_valid_baseline", "selected_model_failed", "research_candidate"}
        /\ f.status = "research_candidate" =>
             /\ selected # None /\ baseline # None /\ test[selected] # <<>>
             /\ trainer = "weekly" => test[baseline] # <<>>
      BY <2>5
  <2>7. merits = [n \in Names |-> Score(f.validation[n])]
      BY <2>6 DEF merits
  <2>8. selected = Winner(CONFIGS, [n \in Names |-> Score(f.validation[n])])
        /\ baseline = Winner(BASELINES, [n \in Names |-> Score(f.validation[n])])
      BY <2>7 DEF selected, baseline
  <2>9. \A n \in Names : Compares(f.validation[n], rows, ValidationStart(rows), TestStart(rows) - 1)
      BY <1>2, <2>6
  <2> QED
      BY <1>2, <2>2, <2>3, <2>4, <2>6, <2>8, <2>9 DEF Kept
<1> QED
    BY <1>1, <1>2

LEMMA ShortKeeps ==
    ASSUME NEW rows \in Rows, NEW o \in Outcomes(rows), NEW f, f = TrainShort(rows, o)
    PROVE  /\ f.rows = rows
           /\ f.status \in {"insufficient_data", "fit_failed", "provisional"}
           /\ f.status = "provisional" => Kept(f, rows)
           /\ ~Enough(rows) => \A n \in Names : f.validation[n] = <<>>
           /\ Enough(rows) => \A n \in Names :
                Compares(f.validation[n], rows, ValidationStart(rows), TestStart(rows) - 1)
           /\ f = [status |-> f.status, rows |-> f.rows, selected |-> f.selected,
                    baseline |-> f.baseline, validation |-> f.validation, test |-> f.test]
<1> DEFINE validation == [n \in Names |-> IF n \notin ToSet(CONFIGS) THEN <<>>
                            ELSE Evaluate(n, rows, o, ValidationStart(rows), TestStart(rows) - 1)]
<1> DEFINE merits == [n \in Names |-> Score(validation[n])]
<1> DEFINE selected == Winner(CONFIGS, merits)
<1> DEFINE test == [n \in Names |-> IF n # selected THEN <<>>
                      ELSE Evaluate(n, rows, o, TestStart(rows), Len(rows))]
<1> DEFINE passes == /\ selected # None
                     /\ test[selected] # <<>>
                     /\ FitShort(selected, o, Len(rows) + 1) # None
<1>1. CASE ~Enough(rows)
  <2>1. f = [status |-> "insufficient_data", rows |-> rows, selected |-> None, baseline |-> None,
             validation |-> [n \in Names |-> <<>>], test |-> [n \in Names |-> <<>>]]
      BY <1>1 DEF TrainShort, NoFindings
  <2> QED
      BY <1>1, <2>1
<1>2. CASE Enough(rows)
  <2>1. \A n \in Names : Compares(validation[n], rows, ValidationStart(rows), TestStart(rows) - 1)
    <3> SUFFICES ASSUME NEW n \in Names
                 PROVE  Compares(validation[n], rows, ValidationStart(rows), TestStart(rows) - 1)
        OBVIOUS
    <3>1. CASE n \notin ToSet(CONFIGS)
        BY <3>1 DEF Compares
    <3>2. CASE n \in ToSet(CONFIGS)
      <4>1. Compares(Evaluate(n, rows, o, ValidationStart(rows), TestStart(rows) - 1),
                     rows, ValidationStart(rows), TestStart(rows) - 1)
          BY <1>2, <3>2, PeriodFacts, WalksCompare
      <4> QED
          BY <3>2, <4>1
    <3> QED
        BY <3>1, <3>2
  <2>2. \A n \in Names : merits[n] # None => merits[n] \in Int
      BY <1>2, <2>1, PeriodFacts, ScoreFacts
  <2>3. selected # None => selected \in ToSet(CONFIGS)
    <3> HIDE DEF merits
    <3> QED
        BY <2>2, WinnerFacts
  <2>4. selected # None => Compares(test[selected], rows, TestStart(rows), Len(rows))
    <3> SUFFICES ASSUME selected # None PROVE Compares(test[selected], rows, TestStart(rows), Len(rows))
        OBVIOUS
    <3>1. selected \in Names /\ selected \in ToSet(CONFIGS)
        BY <2>3, NamesAre
    <3>2. test[selected] = Evaluate(selected, rows, o, TestStart(rows), Len(rows))
        BY <3>1
    <3> HIDE DEF selected, test
    <3> QED
        BY <1>2, <3>1, <3>2, PeriodFacts, WalksCompare
  <2>5. f = [status |-> IF passes THEN "provisional" ELSE "fit_failed", rows |-> rows,
             selected |-> selected, baseline |-> None, validation |-> validation, test |-> test]
      BY <1>2 DEF TrainShort
  <2> HIDE DEF passes, merits, test, selected, validation
  <2>6. /\ f.rows = rows /\ f.selected = selected /\ f.validation = validation /\ f.test = test
        /\ f.status \in {"fit_failed", "provisional"} /\ (f.status = "provisional" => passes)
        /\ f.baseline = None
      BY <2>5
  <2>7. merits = [n \in Names |-> Score(f.validation[n])]
      BY <2>6 DEF merits
  <2>8. selected = Winner(CONFIGS, [n \in Names |-> Score(f.validation[n])])
      BY <2>7 DEF selected
  <2>9. f = [status |-> f.status, rows |-> f.rows, selected |-> f.selected,
             baseline |-> f.baseline, validation |-> f.validation, test |-> f.test]
      BY <2>5
  <2> QED
      BY <1>2, <2>1, <2>4, <2>6, <2>8, <2>9 DEF Kept, passes
<1> QED
    BY <1>1, <1>2

\* The graph takes the simplest model where nothing could be compared.
LEMMA GraphKeeps ==
    ASSUME NEW rows \in Rows, NEW o \in Outcomes(rows), NEW f, f = TrainGraph(rows, o)
    PROVE  /\ f.rows = rows
           /\ f.status # "research_candidate"
           /\ f.status = "provisional" =>
                \/ Kept(f, rows)
                \/ f.selected = "simple" /\ \A n \in Names : Score(f.validation[n]) = None
<1> DEFINE result == TrainShort(rows, o)
<1> DEFINE folds == UNION {Range(result.validation[n]) : n \in Names}
<1>0. result = TrainShort(rows, o)
    OBVIOUS
<1>1. /\ result.rows = rows
      /\ result.status \in {"insufficient_data", "fit_failed", "provisional"}
      /\ result.status = "provisional" => Kept(result, rows)
      /\ ~Enough(rows) => \A n \in Names : result.validation[n] = <<>>
      /\ Enough(rows) => \A n \in Names :
           Compares(result.validation[n], rows, ValidationStart(rows), TestStart(rows) - 1)
      /\ result = [status |-> result.status, rows |-> result.rows, selected |-> result.selected,
                   baseline |-> result.baseline, validation |-> result.validation, test |-> result.test]
  <2> HIDE DEF result
  <2> QED
      BY <1>0, ShortKeeps
<1>2. CASE f = result
  <2> HIDE DEF result
  <2> QED
      BY <1>1, <1>2
<1>3. CASE f # result
  <2>1. f = [result EXCEPT !.status = "provisional", !.selected = "simple"]
        /\ (Enough(rows) => \A fold \in folds : fold.actual = 0)
      BY <1>3 DEF TrainGraph
  <2> HIDE DEF result
  <2>2. f.rows = rows /\ f.validation = result.validation /\ f.selected = "simple" /\ f.status = "provisional"
    <3>1. \A a, b, c, d, v, t :
             LET x == [status |-> a, rows |-> b, selected |-> c, baseline |-> d, validation |-> v, test |-> t]
                 y == [x EXCEPT !.status = "provisional", !.selected = "simple"]
             IN  y.rows = b /\ y.validation = v /\ y.selected = "simple" /\ y.status = "provisional"
        OBVIOUS
    <3> QED
        BY <1>1, <2>1, <3>1
  <2>3. \A n \in Names : Score(result.validation[n]) = None
    <3> SUFFICES ASSUME NEW n \in Names PROVE Score(result.validation[n]) = None
        OBVIOUS
    <3>1. CASE Enough(rows)
      <4>1. \A i \in DOMAIN result.validation[n] : result.validation[n][i].actual = 0
          BY <2>1, <3>1 DEF Range
      <4> QED
          BY <1>1, <3>1, <4>1, PeriodFacts, ScoreFacts
    <3>2. CASE ~Enough(rows)
      <4>1. result.validation[n] = <<>> /\ Compares(<<>>, rows, 0, 0)
          BY <1>1, <3>2 DEF Compares
      <4> QED
          BY <4>1, ScoreFacts
    <3> QED
        BY <3>1, <3>2
  <2> QED
      BY <2>2, <2>3
<1> QED
    BY <1>2, <1>3

\* Compared periods pass the check of the graph: their amounts are the recorded ones.
LEMMA ComparedIsValid ==
    ASSUME NEW folds, NEW rows, NEW from, NEW to, Compares(folds, rows, from, to), folds # <<>>
    PROVE  ValidFolds(folds, rows, from, to)
BY DEF Compares, ValidFolds

LEMMA KeptIsEarned ==
    ASSUME NEW rows \in Rows, NEW f, Kept(f, rows)
    PROVE  /\ f.test[f.selected] # <<>>
           /\ \A n \in ToSet(CONFIGS) :
                [m \in Names |-> Score(f.validation[m])][n] # None =>
                    [m \in Names |-> Score(f.validation[m])][f.selected] <= [m \in Names |-> Score(f.validation[m])][n]
           /\ ~\A n \in Names : Score(f.validation[n]) = None
<1> DEFINE merits == [n \in Names |-> Score(f.validation[n])]
<1>1. \A n \in Names : merits[n] # None => merits[n] \in Int
    BY PeriodFacts, ScoreFacts DEF Kept
<1>2. f.selected = Winner(CONFIGS, merits) /\ f.selected # None /\ f.test[f.selected] # <<>>
    BY DEF Kept
<1>3. \A n \in Names : merits[n] = Score(f.validation[n])
    OBVIOUS
<1> HIDE DEF merits
<1>4. /\ f.selected \in ToSet(CONFIGS) /\ merits[f.selected] # None
      /\ \A n \in ToSet(CONFIGS) : merits[n] # None => merits[f.selected] <= merits[n]
    BY <1>1, <1>2, WinnerFacts
<1>5. f.selected \in Names
    BY <1>4, NamesAre
<1> QED
    BY <1>2, <1>3, <1>4, <1>5 DEF merits

\* Everything the readers check of saved findings holds of trained ones.
LEMMA TrainedIsEarned ==
    ASSUME NEW rows \in Rows, NEW o \in Outcomes(rows), NEW f, f = Findings(rows, o),
           f.status \in {"research_candidate", "provisional"},
           trainer \in {"weekly", "monthly", "short", "graph"}
    PROVE  LET merits == [n \in Names |-> Score(f.validation[n])]
           IN  /\ trainer \in {"weekly", "monthly"} =>
                     /\ f.rows = rows /\ f.status = "research_candidate" /\ Enough(rows)
                     /\ f.test[f.selected] # <<>>
                     /\ ValidFolds(f.test[f.selected], rows, TestStart(rows), Len(rows))
               /\ trainer = "weekly" => ValidFindings(f, rows)
               /\ IF f.status = "provisional" /\ \A n \in Names : merits[n] = None
                  THEN f.selected = "simple"
                  ELSE /\ f.test[f.selected] # <<>>
                       /\ \A n \in ToSet(CONFIGS) : merits[n] # None => merits[f.selected] <= merits[n]
<1> DEFINE merits == [n \in Names |-> Score(f.validation[n])]
<1>2. f = Findings(rows, o)
    OBVIOUS
<1>3. Enough(rows) => /\ ValidationStart(rows) \in Int /\ TestStart(rows) \in Int /\ Len(rows) \in Int
                      /\ TestStart(rows) - 1 <= Len(rows) /\ ValidationStart(rows) <= TestStart(rows)
    BY PeriodFacts
<1>4. CASE trainer \in {"weekly", "monthly"}
  <2> DEFINE walked == IF trainer = "weekly"
                       THEN [n \in Names |-> WalkWeekly(n, rows, o, ValidationStart(rows), TestStart(rows) - 1)]
                       ELSE [n \in Names |-> WalkForward(n, rows, o, ValidationStart(rows), TestStart(rows) - 1)]
  <2> DEFINE tested == IF trainer = "weekly"
                       THEN [n \in Names |-> WalkWeekly(n, rows, o, TestStart(rows), Len(rows))]
                       ELSE [n \in Names |-> WalkForward(n, rows, o, TestStart(rows), Len(rows))]
  <2>1. f = Train(rows, o, walked, tested)
      BY <1>2, <1>4 DEF Findings, TrainWeekly, TrainMonthly
  <2>2. Enough(rows) => \A n \in Names :
              /\ Compares(walked[n], rows, ValidationStart(rows), TestStart(rows) - 1)
              /\ Compares(tested[n], rows, TestStart(rows), Len(rows))
    <3> SUFFICES ASSUME Enough(rows), NEW n \in Names
                 PROVE  /\ Compares(walked[n], rows, ValidationStart(rows), TestStart(rows) - 1)
                        /\ Compares(tested[n], rows, TestStart(rows), Len(rows))
        OBVIOUS
    <3>1. /\ Compares(WalkWeekly(n, rows, o, ValidationStart(rows), TestStart(rows) - 1),
                      rows, ValidationStart(rows), TestStart(rows) - 1)
          /\ Compares(WalkForward(n, rows, o, ValidationStart(rows), TestStart(rows) - 1),
                      rows, ValidationStart(rows), TestStart(rows) - 1)
        BY <1>3, WalksCompare
    <3>2. /\ Compares(WalkWeekly(n, rows, o, TestStart(rows), Len(rows)), rows, TestStart(rows), Len(rows))
          /\ Compares(WalkForward(n, rows, o, TestStart(rows), Len(rows)), rows, TestStart(rows), Len(rows))
        BY <1>3, WalksCompare
    <3>3. CASE trainer = "weekly"
        BY <3>1, <3>2, <3>3
    <3>4. CASE trainer # "weekly"
        BY <3>1, <3>2, <3>4
    <3> QED
        BY <3>3, <3>4
  <2> HIDE DEF walked, tested
  <2>3. /\ f.rows = rows /\ f.status # "provisional"
        /\ f.status = "research_candidate" =>
             /\ Kept(f, rows)
             /\ f.baseline = Winner(BASELINES, merits)
             /\ trainer = "weekly" => /\ f.test[f.baseline] # <<>>
                                      /\ Compares(f.test[f.baseline], rows, TestStart(rows), Len(rows))
    <3> HIDE DEF merits
    <3> QED
        BY <2>1, <2>2, TrainKeeps DEF merits
  <2>4. f.status = "research_candidate" /\ Kept(f, rows)
      BY <2>3
  <2>5. ValidFolds(f.test[f.selected], rows, TestStart(rows), Len(rows))
      BY <2>4, ComparedIsValid DEF Kept
  <2>7. trainer = "weekly" => ValidFindings(f, rows)
    <3>1. \A n \in Names : f.validation[n] # <<>> =>
              ValidFolds(f.validation[n], rows, ValidationStart(rows), TestStart(rows) - 1)
        BY <2>4, ComparedIsValid DEF Kept
    <3>2. trainer = "weekly" => ValidFolds(f.test[f.baseline], rows, TestStart(rows), Len(rows))
        BY <2>3, <2>4, ComparedIsValid
    <3> QED
        BY <2>3, <2>4, <2>5, <3>1, <3>2 DEF ValidFindings, SameHistory, Kept
  <2>8. Enough(rows) /\ f.test[f.selected] # <<>>
      BY <2>4 DEF Kept
  <2> QED
      BY <2>3, <2>4, <2>5, <2>7, <2>8, KeptIsEarned
<1>5. CASE trainer \in {"short", "graph"}
  <2>1. trainer = "short" => f = TrainShort(rows, o)
      BY <1>2 DEF Findings
  <2>2. trainer = "graph" => f = TrainGraph(rows, o)
      BY <1>2 DEF Findings
  <2>3. /\ f.status = "provisional"
        /\ \/ Kept(f, rows)
           \/ f.selected = "simple" /\ \A n \in Names : Score(f.validation[n]) = None
    <3>1. CASE trainer = "short"
        BY <2>1, <3>1, ShortKeeps
    <3>2. CASE trainer = "graph"
        BY <2>2, <3>2, GraphKeeps
    <3> QED
        BY <1>5, <3>1, <3>2
  <2> QED
      BY <1>5, <2>3, KeptIsEarned
<1> QED
    BY <1>4, <1>5

\* The least error in validation, or nothing to compare with.
EarnedModel(f) ==
    LET merits == [n \in Names |-> Score(f.validation[n])]
    IN  IF f.status = "provisional" /\ \A n \in Names : merits[n] = None
        THEN f.selected = "simple"
        ELSE /\ f.test[f.selected] # <<>>
             /\ \A n \in ToSet(CONFIGS) : merits[n] # None => merits[f.selected] <= merits[n]

LEMMA TrainedModelEarned ==
    ASSUME NEW rows \in Rows, NEW o \in Outcomes(rows), NEW f, f = Findings(rows, o),
           f.status \in {"research_candidate", "provisional"},
           trainer \in {"weekly", "monthly", "short", "graph"}
    PROVE  EarnedModel(f)
BY TrainedIsEarned DEF EarnedModel

\* The readers find a run by its source, and what they compare is then what it was
\* computed from.
LEMMA MadeIsShown ==
    ASSUME NEW run, Made(run), run.findings.status \in {"research_candidate", "provisional"},
           history \in Histories, trainer \in {"weekly", "monthly", "short", "graph"}
    PROVE  LET fresh == run.source = SalesRevision(history, others)
           IN  /\ trainer = "weekly" => (UsedByGraph(run) <=> fresh)
               /\ trainer \in {"weekly", "monthly"} => (ComparisonShown(run) <=> fresh /\ TestedOnSales(run))
<1> DEFINE f == run.findings
<1>1. PICK h \in Histories : MadeOf(run, h)
    BY DEF Made
<1> DEFINE rows == TrainingRows(h)
<1>2. PICK other : run.source = SalesRevision(h, other)
    BY <1>1 DEF MadeOf
<1>3. PICK o \in Outcomes(rows) : f = Findings(rows, o)
    BY <1>1 DEF MadeOf
<1>4. /\ rows \in Rows /\ Len(rows) = Len(h) /\ DOMAIN h = 1..Len(h) /\ Len(h) \in Nat
      /\ \A i \in DOMAIN h : h[i] # None => rows[i] = h[i]
      /\ trainer # "monthly" => rows = h /\ \A i \in DOMAIN h : h[i] # None
    BY HistoryFacts
<1>5. /\ trainer \in {"weekly", "monthly"} =>
             /\ f.rows = rows /\ f.status = "research_candidate" /\ Enough(rows)
             /\ f.test[f.selected] # <<>>
             /\ ValidFolds(f.test[f.selected], rows, TestStart(rows), Len(rows))
      /\ trainer = "weekly" => ValidFindings(f, rows)
  <2> HIDE DEF f, rows
  <2>1. f.status \in {"research_candidate", "provisional"}
      BY DEF f
  <2> QED
      BY <1>3, <1>4, <2>1, TrainedIsEarned
<1>6. run.coverage = {i \in DOMAIN h : h[i] = None}
    BY <1>1 DEF MadeOf, CoverageRevision
<1>7. ASSUME run.source = SalesRevision(history, others)
      PROVE  {i \in DOMAIN h : h[i] # None} = {i \in DOMAIN history : history[i] # None}
             /\ \A i \in DOMAIN h : h[i] # None => history[i] = h[i]
  <2> DEFINE A == {i \in DOMAIN h : h[i] # None}
  <2> DEFINE B == {i \in DOMAIN history : history[i] # None}
  <2>1. Restrict(h, A) = Restrict(history, B)
    <3>1. SalesRevision(h, other).regular = SalesRevision(history, others).regular
        BY <1>2, <1>7
    <3>2. SalesRevision(h, other).regular = Restrict(h, A) /\ SalesRevision(history, others).regular = Restrict(history, B)
        BY DEF SalesRevision
    <3> QED
        BY <3>1, <3>2
  <2>2. [i \in A |-> h[i]] = [i \in B |-> history[i]]
      BY <2>1 DEF Restrict
  <2> HIDE DEF A, B
  <2>3. A = B /\ \A i \in A : h[i] = history[i]
      BY <2>2
  <2> QED
      BY <2>3 DEF A, B
<1> HIDE DEF f, rows
<1>8. ASSUME trainer = "weekly" PROVE UsedByGraph(run) <=> run.source = SalesRevision(history, others)
  <2>1. ASSUME run.source = SalesRevision(history, others) PROVE ValidFindings(f, TrainingRows(history))
    <3>1. /\ TrainingRows(history) = history /\ DOMAIN history = 1..Len(history) /\ Len(history) \in Nat
          /\ \A i \in DOMAIN history : history[i] # None
        BY <1>8, HistoryFacts
    <3>2. rows = h /\ \A i \in DOMAIN h : h[i] # None
        BY <1>4, <1>8
    <3>3. DOMAIN h = DOMAIN history /\ \A i \in DOMAIN h : history[i] = h[i]
        BY <1>7, <2>1, <3>1, <3>2
    <3>4. h = [i \in DOMAIN h |-> h[i]] /\ history = [i \in DOMAIN history |-> history[i]]
        BY <1>4, <3>1 DEF Histories
    <3>5. h = history
        BY <3>3, <3>4
    <3> QED
        BY <1>5, <1>8, <3>1, <3>2, <3>5
  <2> QED
      BY <2>1 DEF UsedByGraph, f
<1>9. ASSUME trainer \in {"weekly", "monthly"}
      PROVE  ComparisonShown(run) <=> run.source = SalesRevision(history, others) /\ TestedOnSales(run)
  <2> DEFINE folds == f.test[f.selected]
  <2> DEFINE tested == TestStart(rows)..Len(rows)
  <2>1. folds # <<>> /\ f.status = "research_candidate" /\ DOMAIN folds = tested
        /\ \A i \in tested : folds[i].actual = rows[i]
      BY <1>5, <1>9 DEF ValidFolds
  <2>2. tested \subseteq DOMAIN h
      BY <1>4, <1>5, <1>9, PeriodFacts
  <2>3. TestedOnSales(run) <=> \A i \in tested : h[i] # None
      BY <1>5, <1>6, <1>9, <2>2 DEF TestedOnSales, f
  <2>4. ComparisonShown(run) <=>
          /\ run.source = SalesRevision(history, others)
          /\ \A i \in tested : i \in DOMAIN history /\ history[i] # None /\ rows[i] = history[i]
      BY <2>1 DEF ComparisonShown, f
  <2> HIDE DEF folds, tested
  <2>5. ASSUME run.source = SalesRevision(history, others)
        PROVE  \A i \in tested : h[i] # None <=> i \in DOMAIN history /\ history[i] # None /\ rows[i] = history[i]
      BY <1>4, <1>7, <2>2, <2>5
  <2> QED
      BY <2>3, <2>4, <2>5
<1> QED
    BY <1>8, <1>9

\* A chosen model is the one its findings justify, at every time and for every
\* history: the invariant, and the theorem.
LEMMA SelectionStarts == ASSUME Init PROVE SelectionInv
<1>1. history \in Histories
  <2>1. PICK n \in HistoryLengths : history \in [1..n -> Known]
      BY DEF Init, SelectionInit
  <2>2. n \in Nat
      BY SelectionAssumption
  <2> QED
      BY <2>1, <2>2, SeqDef DEF Histories
<1>3. fitting = None /\ retained = None
    BY DEF Init, SelectionInit
<1> QED
    BY <1>1, <1>3 DEF SelectionInv

LEMMA FindingsOfRows ==
    ASSUME NEW rows, NEW o, trainer = "weekly"
    PROVE  Findings(rows, o).rows = rows
<1>1. \A v, t : Train(rows, o, v, t).rows = rows
  <2> SUFFICES ASSUME NEW v, NEW t PROVE Train(rows, o, v, t).rows = rows
      OBVIOUS
  <2>1. CASE ~Enough(rows)
      BY <2>1 DEF Train, NoFindings
  <2>2. CASE Enough(rows)
      BY <2>2 DEF Train
  <2> QED
      BY <2>1, <2>2
<1> QED
    BY <1>1 DEF Findings, TrainWeekly

\* A run that is made now, of new findings or of those of the same rows.
LEMMA RunOfIsMade ==
    ASSUME SelectionInv, NEW f, NEW o \in Outcomes(TrainingRows(history)),
           f = Findings(TrainingRows(history), o)
    PROVE  Made(RunOf(f))
<1>1. /\ RunOf(f).source = SalesRevision(history, others)
      /\ RunOf(f).coverage = CoverageRevision(history) /\ RunOf(f).findings = f
    BY DEF RunOf
<1>2. MadeOf(RunOf(f), history)
    BY <1>1 DEF MadeOf
<1> QED
    BY <1>2 DEF Made, SelectionInv

LEMMA SelectionKept ==
    ASSUME SelectionInv, [Next]_vars
    PROVE  SelectionInv'
<1>0. trainer' = trainer
    BY DEF Next, vars, SourceStep, GraphStep, ProjectionStep, SelectionStep, SelectionNext, FitCandidates,
           ReuseFindings, RetainRun, ChangeHistory, ChangeOthers, selectionVars
<1>1. Histories' = Histories
    BY <1>0 DEF Histories, Known
<1>2. \A run, h : (\E o \in Outcomes(TrainingRows(h)) : run.findings = Findings(TrainingRows(h), o))'
                   <=> \E o \in Outcomes(TrainingRows(h)) : run.findings = Findings(TrainingRows(h), o)
    BY <1>0 DEF Findings, TrainWeekly, TrainMonthly, TrainShort, TrainGraph, Train
<1>3. \A run, h : MadeOf(run, h)' <=> MadeOf(run, h)
    BY <1>2 DEF MadeOf
<1>4. \A run : (\E h \in Histories : MadeOf(run, h))' <=> Made(run)
    BY <1>1, <1>3 DEF Made
<1>5. /\ (fitting' # None => Made(fitting')) => (fitting # None => Made(fitting))'
      /\ (retained' # None => Made(retained')) => (retained # None => Made(retained))'
    BY <1>4 DEF Made
<1>6. CASE UNCHANGED selectionVars
    BY <1>1, <1>5, <1>6 DEF selectionVars, SelectionInv
<1>7. CASE SelectionNext
  <2>1. ASSUME NEW o \in Outcomes(TrainingRows(history)), FitCandidates(o) PROVE SelectionInv'
    <3>1. fitting' = RunOf(Findings(TrainingRows(history), o)) /\ history' = history /\ retained' = retained
        BY <2>1 DEF FitCandidates
    <3>2. Made(fitting')
        BY <3>1, RunOfIsMade
    <3> QED
        BY <1>1, <1>5, <3>1, <3>2 DEF SelectionInv
  <2>2. ASSUME ReuseFindings PROVE SelectionInv'
    <3>1. /\ fitting' = RunOf(retained.findings) /\ history' = history /\ retained' = retained
          /\ retained # None /\ trainer = "weekly" /\ retained.findings.rows = TrainingRows(history)
        BY <2>2 DEF ReuseFindings, SameHistory
    <3>2. PICK h \in Histories : MadeOf(retained, h)
        BY <3>1 DEF SelectionInv, Made
    <3>3. PICK o \in Outcomes(TrainingRows(h)) : retained.findings = Findings(TrainingRows(h), o)
        BY <3>2 DEF MadeOf
    <3>4. TrainingRows(h) = TrainingRows(history)
        BY <3>1, <3>3, FindingsOfRows
    <3>5. Made(fitting')
        BY <3>1, <3>3, <3>4, RunOfIsMade
    <3> QED
        BY <1>1, <1>5, <3>1, <3>5 DEF SelectionInv
  <2>3. ASSUME RetainRun PROVE SelectionInv'
    <3>1. fitting' = None /\ history' = history /\ (retained' = fitting \/ retained' = retained) /\ fitting # None
        BY <2>3 DEF RetainRun
    <3> QED
        BY <1>1, <1>5, <3>1 DEF SelectionInv
  <2>4. ASSUME ChangeOthers PROVE SelectionInv'
    <3>1. fitting' = fitting /\ retained' = retained /\ history' = history
        BY <2>4 DEF ChangeOthers
    <3> QED
        BY <1>1, <1>5, <3>1 DEF SelectionInv
  <2>5. ASSUME NEW h \in Histories, ChangeHistory(h) PROVE SelectionInv'
    <3>1. fitting' = fitting /\ retained' = retained /\ history' = h
        BY <2>5 DEF ChangeHistory
    <3> QED
        BY <1>1, <1>5, <3>1 DEF SelectionInv
  <2>6. \A v \in Known : /\ Append(history, v) \in Histories
                        /\ \A i \in DOMAIN history : [history EXCEPT ![i] = v] \in Histories
    <3> SUFFICES ASSUME NEW v \in Known
                 PROVE  /\ Append(history, v) \in Histories
                        /\ \A i \in DOMAIN history : [history EXCEPT ![i] = v] \in Histories
        OBVIOUS
    <3>1. history \in Seq(Known)
        BY DEF SelectionInv, Histories
    <3>2. Append(history, v) \in Histories
        BY <3>1, AppendProperties DEF Histories
    <3>3. ASSUME NEW i \in DOMAIN history PROVE [history EXCEPT ![i] = v] \in Histories
        BY <3>1, ExceptSeq DEF Histories
    <3> QED
        BY <3>2, <3>3
  <2> QED
      BY <1>7, <2>1, <2>2, <2>3, <2>4, <2>5, <2>6 DEF SelectionNext
<1> QED
    BY <1>6, <1>7 DEF Next, vars, SourceStep, GraphStep, ProjectionStep, SelectionStep

LEMMA TrainerKept ==
    ASSUME trainer \in Trainers, [Next]_vars PROVE trainer' \in Trainers
BY DEF Next, vars, SourceStep, GraphStep, ProjectionStep, SelectionStep, SelectionNext,
       FitCandidates, ReuseFindings, RetainRun, ChangeHistory, ChangeOthers, selectionVars

LEMMA SelectionInvMeans ==
    ASSUME SelectionInv, trainer \in Trainers PROVE SelectionIsEarned
<1>1. trainer \in {"weekly", "monthly", "short", "graph"}
    BY SelectionAssumption
<1> SUFFICES ASSUME retained # None /\ retained.findings.status \in {"research_candidate", "provisional"}
             PROVE  SelectionIsEarned
    BY DEF SelectionIsEarned
<1> DEFINE f == retained.findings
<1>2. Made(retained) /\ history \in Histories
    BY DEF SelectionInv
<1>3. LET fresh == retained.source = SalesRevision(history, others)
      IN  /\ trainer = "weekly" => (UsedByGraph(retained) <=> fresh)
          /\ trainer \in {"weekly", "monthly"} =>
                (ComparisonShown(retained) <=> fresh /\ TestedOnSales(retained))
    BY <1>1, <1>2, MadeIsShown
<1>4. EarnedModel(f)
  <2>1. PICK h \in Histories : MadeOf(retained, h)
      BY <1>2 DEF Made
  <2>2. PICK o \in Outcomes(TrainingRows(h)) : f = Findings(TrainingRows(h), o)
      BY <2>1 DEF MadeOf
  <2>3. TrainingRows(h) \in Rows
      BY HistoryFacts
  <2>4. f.status \in {"research_candidate", "provisional"}
      OBVIOUS
  <2> HIDE DEF f
  <2> QED
      BY <1>1, <2>2, <2>3, <2>4, TrainedModelEarned
<1> QED
    BY <1>3, <1>4 DEF SelectionIsEarned, EarnedModel

\* A weekly, monthly, short-history or graph model that is in use was chosen on
\* the validation periods alone and passed its own test; a saved weekly fit is used,
\* and a comparison shown, exactly while all recorded sales are those it was computed
\* from (a monthly one only over months with sales), for any lengths of history,
\* folds and amounts (train_weekly, train, _train, _valid_findings, weekly_report,
\* _regular_backtest).
THEOREM ModelsAlwaysEarned == Spec => []SelectionIsEarned
<1>1. Init => SelectionInv /\ trainer \in Trainers
    BY SelectionStarts DEF Init, SelectionInit
<1>2. SelectionInv /\ trainer \in Trainers /\ [Next]_vars => (SelectionInv /\ trainer \in Trainers)'
    BY SelectionKept, TrainerKept
<1>3. SelectionInv /\ trainer \in Trainers => SelectionIsEarned
    BY SelectionInvMeans
<1> QED
    BY <1>1, <1>2, <1>3, PTL DEF Spec

-----------------------------------------------------------------------------
(***************************************************************************)
(* What only grows: the reviews and the saved fits.                        *)
(***************************************************************************)
IsSeq(s) == \E S : s \in Seq(S)

LEMMA SeqFacts ==
    ASSUME NEW s, IsSeq(s), NEW e
    PROVE  /\ Len(s) \in Nat /\ DOMAIN s = 1..Len(s) /\ IsFiniteSet(DOMAIN s)
           /\ IsSeq(Append(s, e)) /\ DOMAIN Append(s, e) = DOMAIN s \union {Len(s) + 1}
           /\ \A i \in DOMAIN s : Append(s, e)[i] = s[i]
           /\ Append(s, e)[Len(s) + 1] = e
           /\ s # <<>> => Len(s) \in DOMAIN s /\ Last(s) = s[Len(s)]
<1>1. PICK S : s \in Seq(S)
    BY DEF IsSeq
<1>2. s \in Seq(S \union {e})
    BY <1>1, SeqMonotonic
<1>3. Len(s) \in Nat /\ DOMAIN s = 1..Len(s)
    BY <1>1, LenProperties
<1>4. /\ Append(s, e) \in Seq(S \union {e}) /\ Len(Append(s, e)) = Len(s) + 1
      /\ \A i \in 1..Len(s) : Append(s, e)[i] = s[i]
      /\ Append(s, e)[Len(s) + 1] = e
    BY <1>2, AppendProperties
<1>5. DOMAIN Append(s, e) = 1..(Len(s) + 1)
    BY <1>4, LenProperties
<1>6. IsFiniteSet(1..Len(s))
    BY <1>3, FS_Interval
<1>7. s # <<>> => Len(s) \in Nat \ {0}
    BY <1>1, EmptySeq
<1> QED
    BY <1>3, <1>4, <1>5, <1>6, <1>7 DEF IsSeq, Last

SourcesInv == IsSeq(fits) /\ unit \in {"monthly", "weekly"}

\* Reviews stay and fits are only added.
SourcesGrow ==
    /\ unit' = unit /\ reviewed \subseteq reviewed' /\ IsSeq(fits')
    /\ DOMAIN fits \subseteq DOMAIN fits' /\ \A i \in DOMAIN fits : fits'[i] = fits[i]

LEMMA SourcesKept ==
    ASSUME SourcesInv, [Next]_vars
    PROVE  SourcesGrow /\ SourcesInv'
<1>1. CASE UNCHANGED sourceVars
    BY <1>1 DEF sourceVars, SourcesGrow, SourcesInv
<1>2. ASSUME NEW p \in Periods, NEW ok \in BOOLEAN, SavePrimary(p, ok) PROVE SourcesGrow /\ SourcesInv'
  <2>1. \E e : fits' = Append(fits, e)
      BY <1>2 DEF SavePrimary
  <2>2. unit' = unit /\ reviewed' = reviewed
      BY <1>2 DEF SavePrimary
  <2> QED
      BY <2>1, <2>2, SeqFacts DEF SourcesGrow, SourcesInv
<1>3. ASSUME NEW p \in Periods, AttestMonth(p) PROVE SourcesGrow /\ SourcesInv'
    BY <1>3 DEF AttestMonth, SourcesGrow, SourcesInv
<1>4. ASSUME NEW s, NEW p, NEW a, LedgerChange(s, p, a) PROVE SourcesGrow /\ SourcesInv'
    BY <1>4 DEF LedgerChange, SourcesGrow, SourcesInv
<1>5. ASSUME NextDay PROVE SourcesGrow /\ SourcesInv'
    BY <1>5 DEF NextDay, SourcesGrow, SourcesInv
<1>6. GraphStep \/ ProjectionStep \/ SelectionStep => UNCHANGED sourceVars
    BY DEF GraphStep, ProjectionStep, SelectionStep, GraphRefreshBuilds, GraphRefreshCommits,
           BundleReads, BundleBuilds, BundleCommits, IssueCurrent, AttestProjection, ScoreClosed
<1> QED
    BY <1>1, <1>2, <1>3, <1>4, <1>5, <1>6 DEF Next, vars, SourceStep

-----------------------------------------------------------------------------
(***************************************************************************)
(* Where the regular component of a projection comes from.                 *)
(***************************************************************************)

\* The rows of the primary model, from the regular rows and their basis.
RowsOf(rows, basis) ==
    Block(IF unit = "monthly"
          THEN [p \in DOMAIN rows |-> IF rows[p] = None /\ p \in basis.from[2] THEN 0 ELSE rows[p]]
          ELSE rows)

LEMMA RowsOfBasis ==
    ASSUME SourcesInv, NEW src
    PROVE  PrimaryRows(src) = RowsOf(src["regular"], RegularBasis(src))
<1>1. CASE unit = "monthly"
  <2>1. RegularBasis(src).from[2] = ValidCoverage(src)
      BY <1>1 DEF RegularBasis, CoverageKey
  <2> QED
      BY <1>1, <2>1 DEF PrimaryRows, RowsOf, WithZeros
<1>2. CASE unit # "monthly"
    BY <1>2 DEF PrimaryRows, RowsOf
<1> QED
    BY <1>1, <1>2

\* A basis of the same source is later when more is reviewed, or more is saved.
Precedes(a, b) ==
    /\ a.from[2] \subseteq b.from[2]
    /\ a.from[2] = b.from[2] =>
         /\ a.from[1] \subseteq b.from[1]
         /\ a.from[1] = b.from[1] => a = b

LEMMA PrecedesIsOrder ==
    ASSUME NEW a, NEW b, NEW c, Precedes(a, b), Precedes(b, c)
    PROVE  Precedes(a, c) /\ (a = c => a = b)
BY DEF Precedes

LEMMA NewestStays ==
    ASSUME SourcesInv, SourcesGrow, NEW ids, ids \subseteq DOMAIN fits, ids # {}
    PROVE  NewestFit(ids)' = NewestFit(ids)
<1>1. IsFiniteSet(ids) /\ ids \in SUBSET Int
  <2>1. IsFiniteSet(DOMAIN fits) /\ DOMAIN fits = 1..Len(fits) /\ Len(fits) \in Nat
      BY SeqFacts DEF SourcesInv
  <2> QED
      BY <2>1, FS_Subset
<1>2. Max(ids) \in DOMAIN fits
    BY <1>1, MaxFacts
<1> QED
    BY <1>2 DEF NewestFit, SourcesGrow

LEMMA BasisPrecedesNext ==
    ASSUME SourcesInv, SourcesGrow, NEW src
    PROVE  Precedes(RegularBasis(src), RegularBasis(src)')
<1>1. CASE unit = "monthly"
  <2>0. unit' = "monthly"
      BY <1>1 DEF SourcesGrow
  <2>1. ValidCoverage(src) \subseteq ValidCoverage(src)'
      BY DEF ValidCoverage, SourcesGrow
  <2>2. CoverageKey(src) = ValidCoverage(src) /\ CoverageKey(src)' = ValidCoverage(src)'
      BY <1>1, <2>0 DEF CoverageKey
  <2>3. /\ RegularBasis(src) = [status |-> PrimaryMonthly(src), from |-> <<FitsFor(src), CoverageKey(src)>>]
        /\ RegularBasis(src)' = [status |-> PrimaryMonthly(src)', from |-> <<FitsFor(src)', CoverageKey(src)'>>]
      BY <1>1, <2>0 DEF RegularBasis
  <2>4. ASSUME CoverageKey(src) = CoverageKey(src)'
        PROVE  FitsFor(src) \subseteq FitsFor(src)'
      BY <2>4 DEF FitsFor, SourcesGrow
  <2>5. ASSUME CoverageKey(src) = CoverageKey(src)', FitsFor(src) = FitsFor(src)'
        PROVE  PrimaryMonthly(src) = PrimaryMonthly(src)'
    <3>1. PrimaryRows(src) = PrimaryRows(src)'
        BY <1>1, <2>0, <2>2, <2>5 DEF PrimaryRows, WithZeros, Block, Observed
    <3>2. FitsFor(src) \subseteq DOMAIN fits
        BY DEF FitsFor
    <3>3. FitsFor(src) # {} => NewestFit(FitsFor(src)) = NewestFit(FitsFor(src))'
      <4>1. \A ids : ids \subseteq DOMAIN fits /\ ids # {} => fits[Max(ids)] = fits'[Max(ids)]
          BY NewestStays DEF NewestFit
      <4> QED
          BY <2>5, <3>2, <4>1 DEF NewestFit
    <3>4. IsLong(PrimaryRows(src)) = IsLong(PrimaryRows(src))'
        BY <3>1 DEF IsLong
    <3> QED
        BY <2>5, <3>3, <3>4 DEF PrimaryMonthly
  <2> QED
      BY <2>1, <2>2, <2>3, <2>4, <2>5 DEF Precedes
<1>2. CASE unit = "weekly"
  <2>0. unit' = "weekly"
      BY <1>2 DEF SourcesGrow
  <2>1. PrimaryRows(src) = PrimaryRows(src)'
      BY <1>2, <2>0 DEF PrimaryRows, Block, Observed
  <2>2. IsLong(PrimaryRows(src)) = IsLong(PrimaryRows(src))'
      BY <2>1 DEF IsLong
  <2>3. WeeklyFits(src) \subseteq WeeklyFits(src)' /\ WeeklyFits(src) \subseteq DOMAIN fits
      BY DEF WeeklyFits, SourcesGrow
  <2>4. CASE ~IsLong(PrimaryRows(src))
    <3>1. WeeklyDependency(src) = "insufficient_history" /\ WeeklyDependency(src)' = "insufficient_history"
        BY <2>2, <2>4 DEF WeeklyDependency
    <3> QED
        BY <1>2, <2>0, <3>1 DEF RegularBasis, Precedes
  <2>5. CASE IsLong(PrimaryRows(src))
    <3>1. WeeklyDependency(src) # "insufficient_history" /\ WeeklyDependency(src)' # "insufficient_history"
        BY <2>2, <2>5 DEF WeeklyDependency
    <3>2. /\ RegularBasis(src) = [status |-> WeeklyDependency(src), from |-> <<src, WeeklyFits(src)>>]
          /\ RegularBasis(src)' = [status |-> WeeklyDependency(src)', from |-> <<src, WeeklyFits(src)'>>]
        BY <1>2, <2>0, <3>1 DEF RegularBasis
    <3>3. ASSUME WeeklyFits(src) = WeeklyFits(src)' PROVE WeeklyDependency(src) = WeeklyDependency(src)'
      <4>1. \A ids : ids \subseteq DOMAIN fits /\ ids # {} => fits[Max(ids)] = fits'[Max(ids)]
          BY NewestStays DEF NewestFit
      <4>2. WeeklyFits(src) # {} => NewestFit(WeeklyFits(src)) = NewestFit(WeeklyFits(src))'
          BY <2>3, <3>3, <4>1 DEF NewestFit
      <4> QED
          BY <2>2, <3>3, <4>2 DEF WeeklyDependency
    <3> QED
        BY <2>3, <3>2, <3>3 DEF Precedes
  <2> QED
      BY <2>4, <2>5
<1> QED
    BY <1>1, <1>2 DEF SourcesInv

-----------------------------------------------------------------------------
(***************************************************************************)
(* Bundles.  A component is determined by its segment and its signature,   *)
(* whichever refresh fitted it, and a saved bundle is signed with the      *)
(* basis of its own context: no review or fit can have come and gone       *)
(* between the two times the refresh reads the basis.                      *)
(***************************************************************************)
StateOf(segment, sig) ==
    LET kind == IF segment = "regular" /\ sig[2].status # "fallback" THEN "primary" ELSE "fallback"
    IN  [kind |-> kind, rows |-> IF kind = "primary" THEN RowsOf(sig[1], sig[2]) ELSE sig[1]]

SoundComponent(c, src, basis) ==
    /\ c.segment \in Segments
    /\ c.signature = Signature(c.segment, src[c.segment], basis)
    /\ c.state # None => c.state = StateOf(c.segment, c.signature)

SoundComponents(cs, src, basis) ==
    /\ \A s \in Segments : \E c \in cs : c.segment = s
    /\ \A c \in cs : SoundComponent(c, src, basis)

BundlesInv ==
    /\ IsSeq(bundles)
    /\ \A i \in DOMAIN bundles :
          SoundComponents(bundles[i].components, bundles[i].context.source, bundles[i].context.regular)

JobInv ==
    bundleJob # None =>
        LET src   == bundleJob.context.source
            first == bundleJob.context.regular
        IN  /\ bundleJob = [context |-> bundleJob.context, components |-> bundleJob.components]
            /\ bundleJob.components = None => Precedes(first, RegularBasis(src))
            /\ bundleJob.components # None =>
                  \E basis : /\ Precedes(first, basis) /\ Precedes(basis, RegularBasis(src))
                             /\ SoundComponents(bundleJob.components, src, basis)

LEMMA ComponentIsSound ==
    ASSUME SourcesInv, NEW src, NEW previous, NEW converged, NEW s \in Segments,
           \A c \in previous : c.state # None => c.state = StateOf(c.segment, c.signature)
    PROVE  LET c == Component(s, src, RegularBasis(src), previous, converged)
           IN  c.segment = s /\ SoundComponent(c, src, RegularBasis(src))
<1> DEFINE basis == RegularBasis(src)
<1> DEFINE rows == src[s]
<1> DEFINE sig == Signature(s, rows, basis)
<1> DEFINE kind == IF s = "regular" /\ basis.status # "fallback" THEN "primary" ELSE "fallback"
<1> DEFINE state == [kind |-> kind, rows |-> IF kind = "primary" THEN PrimaryRows(src) ELSE rows]
<1> DEFINE had == {c \in previous : c.segment = s /\ c.signature = sig /\ c.state # None}
<1> DEFINE made == Component(s, src, basis, previous, converged)
<1>1. /\ made.segment = s /\ made.signature = sig
      /\ made.state \in {(CHOOSE c \in had : TRUE).state, state, None}
      /\ made.state = (CHOOSE c \in had : TRUE).state => had # {} \/ made.state \in {state, None}
    BY DEF Component
<1>2. state = StateOf(s, sig)
  <2>1. CASE s = "regular"
    <3>1. sig = <<rows, basis>>
        BY <2>1 DEF Signature
    <3>2. PrimaryRows(src) = RowsOf(rows, basis)
        BY <2>1, RowsOfBasis
    <3> HIDE DEF basis, rows, sig
    <3> QED
        BY <2>1, <3>1, <3>2 DEF StateOf
  <2>2. CASE s # "regular"
    <3>1. sig = <<rows>>
        BY <2>2 DEF Signature
    <3> HIDE DEF basis, rows, sig
    <3> QED
        BY <2>2, <3>1 DEF StateOf
  <2> QED
      BY <2>1, <2>2
<1>3. had # {} => (CHOOSE c \in had : TRUE).state = StateOf(s, sig)
    OBVIOUS
<1>4. made.state # None => made.state = StateOf(s, sig)
  <2> HIDE DEF made, sig, state, had
  <2> QED
      BY <1>1, <1>2, <1>3
<1> HIDE DEF made, basis
<1> QED
    BY <1>1, <1>4 DEF SoundComponent, made, basis

LEMMA BundlesKept ==
    ASSUME SourcesInv, BundlesInv, JobInv, [Next]_vars
    PROVE  BundlesInv' /\ JobInv'
<1>0. SourcesGrow /\ SourcesInv'
    BY SourcesKept
<1>1. \A src : Precedes(RegularBasis(src), RegularBasis(src)')
    BY <1>0, BasisPrecedesNext
<1>2. /\ \A cs, src, basis : SoundComponents(cs, src, basis) = SoundComponents(cs, src, basis)'
    BY <1>0 DEF SourcesGrow, SoundComponents, SoundComponent, StateOf, Signature, RowsOf, Block, Observed
<1>3. CASE UNCHANGED <<bundles, bundleJob>>
  <2>1. BundlesInv'
      BY <1>2, <1>3 DEF BundlesInv
  <2>2. ASSUME bundleJob # None PROVE JobInv'
    <3>1. Precedes(RegularBasis(bundleJob.context.source), RegularBasis(bundleJob.context.source)')
        BY <1>1, <1>3
    <3> QED
        BY <1>2, <1>3, <2>2, <3>1, PrecedesIsOrder DEF JobInv
  <2> QED
      BY <1>3, <2>1, <2>2 DEF JobInv
<1>4. CASE BundleReads
  <2>1. /\ bundles' = bundles /\ bundleJob' = [context |-> BundleContext, components |-> None]
      BY <1>4 DEF BundleReads
  <2>2. BundlesInv'
      BY <1>2, <2>1 DEF BundlesInv
  <2>3. PICK src : src = Snapshot(Current)
      OBVIOUS
  <2>4. BundleContext.source = src /\ BundleContext.regular = RegularBasis(src)
      BY <2>3 DEF BundleContext
  <2>5. /\ bundleJob' = [context |-> bundleJob'.context, components |-> bundleJob'.components]
        /\ bundleJob'.components = None /\ bundleJob'.context.source = src
        /\ bundleJob'.context.regular = RegularBasis(src)
      BY <2>1, <2>4
  <2>6. Precedes(RegularBasis(src), RegularBasis(src)')
      BY <1>1
  <2> QED
      BY <2>2, <2>5, <2>6 DEF JobInv
<1>5. ASSUME NEW converged \in FitOutcomes, BundleBuilds(converged) PROVE BundlesInv' /\ JobInv'
  <2>0. PICK src : src = bundleJob.context.source
      OBVIOUS
  <2> DEFINE basis == RegularBasis(src)
  <2> DEFINE previous == IF bundles = <<>> THEN {} ELSE Last(bundles).components
  <2> DEFINE built == {Component(s, src, basis, previous, converged) : s \in Segments}
  <2>1. /\ bundles' = bundles /\ bundleJob # None /\ bundleJob.components = None
        /\ bundleJob' = [bundleJob EXCEPT !.components = built]
      BY <1>5, <2>0 DEF BundleBuilds
  <2>2. BundlesInv'
      BY <1>2, <2>1 DEF BundlesInv
  <2>3. \A c \in previous : c.state # None => c.state = StateOf(c.segment, c.signature)
    <3>1. CASE bundles = <<>>
        BY <3>1
    <3>2. CASE bundles # <<>>
      <4>1. Len(bundles) \in DOMAIN bundles /\ Last(bundles) = bundles[Len(bundles)]
          BY <3>2, SeqFacts DEF BundlesInv
      <4> QED
          BY <3>2, <4>1 DEF BundlesInv, SoundComponents, SoundComponent
    <3> QED
        BY <3>1, <3>2
  <2>4. SoundComponents(built, src, basis)
    <3> HIDE DEF previous
    <3>1. \A s \in Segments : LET c == Component(s, src, basis, previous, converged)
                              IN  c.segment = s /\ SoundComponent(c, src, basis)
        BY <2>3, ComponentIsSound
    <3> QED
        BY <3>1 DEF SoundComponents
  <2>5. Precedes(bundleJob.context.regular, basis)
      BY <2>0, <2>1 DEF JobInv
  <2>6. bundleJob' = [context |-> bundleJob.context, components |-> built]
    <3>1. bundleJob = [context |-> bundleJob.context, components |-> bundleJob.components]
        BY <2>1 DEF JobInv
    <3> HIDE DEF built
    <3> QED
        BY <2>1, <3>1
  <2>7. bundleJob'.context = bundleJob.context /\ bundleJob'.components = built
    <3> HIDE DEF built
    <3> QED
        BY <2>6
  <2>8. Precedes(basis, RegularBasis(src)')
      BY <1>1
  <2>9. /\ Precedes(bundleJob'.context.regular, RegularBasis(src)')
        /\ Precedes(bundleJob'.context.regular, basis) /\ bundleJob'.context.source = src
        /\ SoundComponents(bundleJob'.components, src, basis)
    <3> HIDE DEF basis, built
    <3> QED
        BY <2>0, <2>4, <2>5, <2>7, <2>8, PrecedesIsOrder
  <2>10. bundleJob' = [context |-> bundleJob'.context, components |-> bundleJob'.components]
    <3> HIDE DEF built
    <3> QED
        BY <2>6, <2>7
  <2>11. JobInv'
    <3> HIDE DEF basis, built
    <3> QED
        BY <1>2, <2>8, <2>9, <2>10 DEF JobInv
  <2> QED
      BY <2>2, <2>11
<1>6. CASE BundleCommits
  <2>1. bundleJob' = None /\ bundleJob # None /\ bundleJob.components # None /\ UNCHANGED sourceVars
      BY <1>6 DEF BundleCommits
  <2>2. CASE bundles' = bundles
      BY <1>2, <2>1, <2>2 DEF BundlesInv, JobInv
  <2>3. CASE bundles' = Append(bundles, bundleJob) /\ bundleJob.context = BundleContext
    <3>1. bundleJob.context.regular = RegularBasis(bundleJob.context.source)
        BY <2>3 DEF BundleContext
    <3>2. SoundComponents(bundleJob.components, bundleJob.context.source, bundleJob.context.regular)
        BY <2>1, <3>1, PrecedesIsOrder DEF JobInv
    <3>3. \A i \in DOMAIN bundles' : bundles'[i] = bundleJob \/ (i \in DOMAIN bundles /\ bundles'[i] = bundles[i])
      <4>1. IsSeq(bundles)
          BY DEF BundlesInv
      <4>2. /\ DOMAIN Append(bundles, bundleJob) = DOMAIN bundles \union {Len(bundles) + 1}
            /\ \A i \in DOMAIN bundles : Append(bundles, bundleJob)[i] = bundles[i]
            /\ Append(bundles, bundleJob)[Len(bundles) + 1] = bundleJob
          BY <4>1, SeqFacts
      <4>3. ASSUME NEW i \in DOMAIN bundles'
            PROVE  bundles'[i] = bundleJob \/ (i \in DOMAIN bundles /\ bundles'[i] = bundles[i])
        <5> HIDE DEF BundlesInv
        <5>1. i \in DOMAIN bundles \union {Len(bundles) + 1}
            BY <2>3, <4>2, <4>3
        <5>2. CASE i \in DOMAIN bundles
            BY <2>3, <4>2, <5>2
        <5>3. CASE i = Len(bundles) + 1
            BY <2>3, <4>2, <5>3
        <5> QED
            BY <5>1, <5>2, <5>3
      <4> QED
          BY <4>3
    <3>4. IsSeq(bundles')
        BY <2>3, SeqFacts DEF BundlesInv
    <3>5. BundlesInv'
        BY <1>2, <3>2, <3>3, <3>4 DEF BundlesInv
    <3> QED
        BY <2>1, <3>5 DEF JobInv
  <2> QED
      BY <1>6, <2>2, <2>3 DEF BundleCommits, StillCurrent
<1>7. CASE IssueCurrent \/ ScoreClosed \/ \E s \in Segments, p \in Periods : AttestProjection(s, p)
    BY <1>3, <1>7 DEF IssueCurrent, ScoreClosed, AttestProjection
<1> QED
    BY <1>3, <1>4, <1>5, <1>6, <1>7 DEF Next, vars, projectionVars, SourceStep, GraphStep, ProjectionStep, SelectionStep

LEMMA BundlesInvMeans ==
    ASSUME SourcesInv, BundlesInv
    PROVE  BundleMatchesInputs
<1> DEFINE src == Snapshot(Current)
<1> DEFINE kind(s) == IF s = "regular" /\ RegularBasis(src).status # "fallback" THEN "primary" ELSE "fallback"
<1> SUFFICES ASSUME NEW i \in BundleNow, NEW s \in Segments,
                    (CHOOSE c \in bundles[i].components : c.segment = s).state # None
             PROVE  (CHOOSE c \in bundles[i].components : c.segment = s).state =
                        [kind |-> kind(s), rows |-> IF kind(s) = "primary" THEN PrimaryRows(src) ELSE src[s]]
    BY DEF BundleMatchesInputs
<1> DEFINE chosen == CHOOSE c \in bundles[i].components : c.segment = s
<1>1. /\ i \in DOMAIN bundles /\ bundles[i].context.source = src
      /\ bundles[i].context.regular = RegularBasis(src)
    BY DEF BundleNow, BundleContext
<1>2. SoundComponents(bundles[i].components, src, RegularBasis(src))
    BY <1>1 DEF BundlesInv
<1>3. chosen.segment = s /\ SoundComponent(chosen, src, RegularBasis(src))
    BY <1>2 DEF SoundComponents
<1>4. chosen.state = StateOf(s, Signature(s, src[s], RegularBasis(src)))
    BY <1>3 DEF SoundComponent
<1>5. PrimaryRows(src) = RowsOf(src["regular"], RegularBasis(src))
    BY RowsOfBasis
<1>6. StateOf(s, Signature(s, src[s], RegularBasis(src))) =
          [kind |-> kind(s), rows |-> IF kind(s) = "primary" THEN PrimaryRows(src) ELSE src[s]]
  <2> HIDE DEF src
  <2>1. CASE s = "regular"
      BY <1>5, <2>1 DEF StateOf, Signature
  <2>2. CASE s # "regular"
      BY <2>2 DEF StateOf, Signature
  <2> QED
      BY <2>1, <2>2
<1> HIDE DEF src
<1> QED
    BY <1>4, <1>6

-----------------------------------------------------------------------------
\* A score counts what its own revision of the outcome says was recorded.
ScoresInv ==
    \A x \in scores :
        x.actual = Summed([s \in Parts(x.issue.view) |-> Amount(x.revision[s][1])])

LEMMA ScoresKept ==
    ASSUME ScoresInv, [Next]_vars PROVE ScoresInv'
<1>1. CASE UNCHANGED scores
    BY <1>1 DEF ScoresInv
<1>2. CASE ScoreClosed
  <2>1. \A i : Actual(i.view, i.target) = Summed([s \in Parts(i.view) |-> Amount(Revision(i)[s][1])])
    <3> SUFFICES ASSUME NEW i
                 PROVE  Actual(i.view, i.target) = Summed([s \in Parts(i.view) |-> Amount(Revision(i)[s][1])])
        OBVIOUS
    <3>1. \A s \in Parts(i.view) : Revision(i)[s][1] = ledger[s][i.target]
        BY DEF Revision, Fingerprint
    <3>2. [s \in Parts(i.view) |-> Amount(Revision(i)[s][1])] = [s \in Parts(i.view) |-> Amount(ledger[s][i.target])]
        BY <3>1
    <3> QED
        BY <3>2 DEF Actual
  <2>2. \A x \in scores' : x \in scores \/ \E i : x = [issue |-> i, revision |-> Revision(i), actual |-> Actual(i.view, i.target)]
      BY <1>2 DEF ScoreClosed
  <2> QED
      BY <2>1, <2>2 DEF ScoresInv
<1> QED
    BY <1>1, <1>2 DEF Next, vars, projectionVars, SourceStep, GraphStep, ProjectionStep, SelectionStep,
                      BundleReads, BundleBuilds, BundleCommits, IssueCurrent, AttestProjection

LEMMA ScoresInvMeans ==
    ASSUME ScoresInv PROVE ProjectionEvidenceCurrent
<1> SUFFICES ASSUME NEW x \in Evidence
             PROVE  /\ x.issue.day < Start(x.issue.target)
                    /\ x.actual = Actual(x.issue.view, x.issue.target)
                    /\ \A s \in Parts(x.issue.view) :
                          \E row \in coverage : /\ row.segment = s /\ row.target = x.issue.target
                                                /\ Amount(row.content[1]) = Amount(ledger[s][x.issue.target])
    BY DEF ProjectionEvidenceCurrent
<1>1. x \in scores /\ HasOutcome(x.issue) /\ x.revision = Revision(x.issue)
    BY DEF Evidence
<1>2. \A s \in Parts(x.issue.view) : x.revision[s][1] = ledger[s][x.issue.target]
    BY <1>1 DEF Revision, Fingerprint
<1>3. [s \in Parts(x.issue.view) |-> Amount(x.revision[s][1])] =
          [s \in Parts(x.issue.view) |-> Amount(ledger[s][x.issue.target])]
    BY <1>2
<1>4. x.actual = Actual(x.issue.view, x.issue.target)
    BY <1>1, <1>3 DEF ScoresInv, Actual
<1>5. ASSUME NEW s \in Parts(x.issue.view)
      PROVE  \E row \in coverage : /\ row.segment = s /\ row.target = x.issue.target
                                   /\ Amount(row.content[1]) = Amount(ledger[s][x.issue.target])
  <2> DEFINE row == [segment |-> s, target |-> x.issue.target, content |-> Fingerprint(s, x.issue.target)]
  <2>1. row \in coverage
      BY <1>1, <1>5 DEF HasOutcome, Reviewed
  <2>2. row.segment = s /\ row.target = x.issue.target /\ row.content[1] = ledger[s][x.issue.target]
      BY DEF Fingerprint
  <2> QED
      BY <2>1, <2>2
<1> QED
    BY <1>1, <1>4, <1>5 DEF HasOutcome

\* Whatever reviews, fits and corrections come between the steps of a refresh, a
\* bundle that is found for the present inputs was computed from them, and the
\* evidence compares forecasts made in advance with what is recorded and reviewed
\* now (refresh, report, reviewed_outcome, evidence_report).
THEOREM ProjectionsAlwaysCurrent == Spec => []ProjectionsCurrent
<1>1. Init => SourcesInv /\ BundlesInv /\ JobInv /\ ScoresInv
  <2> SUFFICES ASSUME Init PROVE SourcesInv /\ BundlesInv /\ JobInv /\ ScoresInv
      OBVIOUS
  <2>1. fits = <<>> /\ bundles = <<>> /\ bundleJob = None /\ scores = {} /\ unit \in {"monthly", "weekly"}
      BY ChartAssumption DEF Init, SourcesInit, ProjectionInit
  <2>2. IsSeq(<<>>) /\ DOMAIN <<>> = {}
      BY EmptySeq DEF IsSeq
  <2> QED
      BY <2>1, <2>2 DEF SourcesInv, BundlesInv, JobInv, ScoresInv
<1>2. SourcesInv /\ BundlesInv /\ JobInv /\ ScoresInv /\ [Next]_vars
         => (SourcesInv /\ BundlesInv /\ JobInv /\ ScoresInv)'
    BY SourcesKept, BundlesKept, ScoresKept
<1>3. SourcesInv /\ BundlesInv /\ ScoresInv => ProjectionsCurrent
    BY BundlesInvMeans, ScoresInvMeans DEF ProjectionsCurrent
<1> QED
    BY <1>1, <1>2, <1>3, PTL DEF Spec

-----------------------------------------------------------------------------
(***************************************************************************)
(* Days and periods.                                                       *)
(***************************************************************************)
LEMMA DivFacts ==
    ASSUME NEW d \in Nat, NEW D \in Nat \ {0}
    PROVE  d \div D \in Nat /\ (d \div D) * D <= d /\ d < (d \div D) * D + D
OBVIOUS

LEMMA TimesGrows ==
    ASSUME NEW a \in Int, NEW b \in Int, NEW D \in Nat \ {0}, a <= b
    PROVE  a * D <= b * D
OBVIOUS

LEMMA DivGrows ==
    ASSUME NEW d \in Nat, NEW e \in Nat, NEW D \in Nat \ {0}, d <= e
    PROVE  d \div D <= e \div D
<1> DEFINE q == d \div D
<1> DEFINE r == e \div D
<1>1. q \in Nat /\ r \in Nat /\ q * D <= d /\ e < r * D + D
    BY DivFacts
<1>2. r * D + D = (r + 1) * D
    BY <1>1
<1>3. ASSUME r < q PROVE FALSE
  <2> HIDE DEF q, r
  <2>1. (r + 1) * D <= q * D
      BY <1>1, <1>3, TimesGrows
  <2>2. (r + 1) * D \in Int /\ q * D \in Int
      BY <1>1
  <2> QED
      BY <1>1, <1>2, <2>1, <2>2
<1> QED
    BY <1>1, <1>3

\* The least of some days.
LEMMA MinFacts ==
    ASSUME NEW S \in SUBSET Nat, S # {}
    PROVE  Min(S) \in S /\ \A x \in S : Min(S) <= x
<1>1. PICK some \in S : TRUE
    OBVIOUS
<1> DEFINE below == {d \in 0..some : \A y \in S : d <= y}
<1>2. 0 \in below /\ below \in SUBSET Int /\ IsFiniteSet(below)
  <2>1. IsFiniteSet(0..some)
      BY FS_Interval
  <2> QED
      BY <2>1, FS_Subset
<1>3. Max(below) \in below /\ \A d \in below : d <= Max(below)
  <2> HIDE DEF below
  <2> QED
      BY <1>2, MaxFacts
<1>4. Max(below) \in S
  <2>1. SUFFICES ASSUME Max(below) \notin S PROVE FALSE
      OBVIOUS
  <2>2. \A y \in S : Max(below) + 1 <= y
      BY <1>3, <2>1
  <2>3. Max(below) + 1 \in below
      BY <1>3, <2>2
  <2> QED
      BY <1>3, <2>3
<1>5. \E x \in S : \A y \in S : x <= y
    BY <1>3, <1>4
<1> QED
    BY <1>5 DEF Min

DaysInv == today \in BusinessDays /\ today \in Nat

LEMMA DaysKept ==
    ASSUME DaysInv, [Next]_vars PROVE DaysInv' /\ today <= today'
<1>1. CASE today' = today
    BY <1>1 DEF DaysInv
<1>2. CASE NextDay
  <2> DEFINE later == {d \in BusinessDays : d > today}
  <2>1. later # {} /\ later \in SUBSET Nat /\ today' = Min(later)
      BY <1>2, ChartAssumption DEF NextDay
  <2>2. today' \in later
    <3> HIDE DEF later
    <3> QED
        BY <2>1, MinFacts
  <2> QED
      BY <2>1, <2>2 DEF DaysInv
<1> QED
    BY <1>1, <1>2 DEF Next, vars, sourceVars, SourceStep, GraphStep, ProjectionStep, SelectionStep,
           SavePrimary, AttestMonth, LedgerChange, GraphRefreshBuilds, GraphRefreshCommits,
           BundleReads, BundleBuilds, BundleCommits, IssueCurrent, AttestProjection, ScoreClosed

LEMMA DaysStart == Init => DaysInv
<1>1. Min(BusinessDays) \in BusinessDays
    BY MinFacts, ChartAssumption
<1> QED
    BY <1>1, ChartAssumption DEF Init, SourcesInit, FirstDay, DaysInv

\* A period that is past has begun.
LEMMA PeriodFactsOf ==
    ASSUME NEW d \in Nat
    PROVE  /\ PeriodOf(d) \in Nat
           /\ \A t \in Int : t <= PeriodOf(d) => Start(t) <= d
           /\ \A t \in Int : Start(t) \in Int
           /\ \A e \in Nat : d <= e => PeriodOf(d) <= PeriodOf(e)
<1>1. DaysPerPeriod \in Nat \ {0}
    BY ChartAssumption
<1>2. PeriodOf(d) \in Nat /\ PeriodOf(d) * DaysPerPeriod <= d
    BY <1>1, DivFacts DEF PeriodOf
<1>3. \A t \in Int : Start(t) \in Int
    BY <1>1 DEF Start
<1>4. ASSUME NEW t \in Int, t <= PeriodOf(d) PROVE Start(t) <= d
  <2>1. t * DaysPerPeriod <= PeriodOf(d) * DaysPerPeriod
      BY <1>1, <1>2, <1>4, TimesGrows
  <2>2. t * DaysPerPeriod \in Int /\ PeriodOf(d) * DaysPerPeriod \in Int
      BY <1>1, <1>2
  <2> QED
      BY <1>2, <2>1, <2>2 DEF Start
<1>5. \A e \in Nat : d <= e => PeriodOf(d) <= PeriodOf(e)
    BY <1>1, DivGrows DEF PeriodOf
<1> QED
    BY <1>2, <1>3, <1>4, <1>5

LEMMA TargetsAreInt == Targets \subseteq Int /\ \A d \in Nat : Window(d) \subseteq Int /\ OutlookDates(d) \subseteq Int
<1>1. IsFiniteSet(BusinessDays) /\ BusinessDays \in SUBSET Int /\ BusinessDays # {} /\ BusinessDays \subseteq Nat
    BY ChartAssumption
<1>2. PeriodOf(Max(BusinessDays)) \in Nat
    BY <1>1, MaxFacts, PeriodFactsOf
<1>3. IsFiniteSet(Periods) /\ 0 \in Periods /\ Periods \in SUBSET Int
    BY <1>2, FS_Interval DEF Periods
<1>4. Max(Periods) \in Int
    BY <1>3, MaxFacts
<1> QED
    BY <1>4, PeriodFactsOf, GraphAssumption DEF Targets, Window, OutlookDates

-----------------------------------------------------------------------------
(***************************************************************************)
(* Issued predictions.                                                     *)
(***************************************************************************)
PredictionsInv ==
    /\ IsFiniteSet(predictions)
    /\ \A p \in predictions : /\ p.run \in Nat /\ p.value # None /\ p.target \in Int
                              /\ p.day \in Int /\ p.day <= today /\ p.day < Start(p.target)

AddsUp(combined, regular, feeding) ==
    combined # None => regular # None /\ feeding # None /\ combined = regular + feeding

\* All views of one run, or parts without a combined value, or nothing.
LEMMA IssuedFacts ==
    ASSUME PredictionsInv, NEW t, NEW asOf
    PROVE  LET issued == IssuedPredictions(t, asOf)
           IN  \/ DOMAIN issued = {}
               \/ /\ DOMAIN issued = VIEWS
                  /\ AddsUp(issued["combined"], issued["regular"], issued["feeding"])
               \/ "combined" \in DOMAIN issued /\ issued["combined"] = None
<1> DEFINE records == IssuedFor(t, asOf)
<1> DEFINE coherent == {q \in records : IsCoherent(Bundle(q.run, records))}
<1> DEFINE complete == {p.run : p \in coherent}
<1> DEFINE parts == {p.view : p \in records} \intersect Segments
<1> DEFINE run == Max(complete)
<1> DEFINE issued == IssuedPredictions(t, asOf)
<1>1. records \subseteq predictions /\ coherent \subseteq records
    BY DEF IssuedFor
<1>2. CASE complete # {}
  <2>1. IsFiniteSet(complete)
    <3> DEFINE runOf == [p \in coherent |-> p.run]
    <3>1. IsFiniteSet(coherent)
        BY <1>1, FS_Subset DEF PredictionsInv
    <3>2. complete = {runOf[p] : p \in coherent}
        OBVIOUS
    <3> HIDE DEF runOf, coherent, complete
    <3> QED
        BY <3>1, <3>2, LabelsFinite
  <2>2. complete \in SUBSET Int
      BY <1>1 DEF PredictionsInv
  <2>3. run \in complete
    <3> HIDE DEF complete
    <3> QED
        BY <1>2, <2>1, <2>2, MaxFacts
  <2>4. IsCoherent(Bundle(run, records))
    <3> HIDE DEF run
    <3> QED
        BY <2>3
  <2>5. issued = [v \in VIEWS |-> ValueIn(v, Bundle(run, records))]
      BY <1>2 DEF IssuedPredictions
  <2>6. \A v \in VIEWS : ValueIn(v, Bundle(run, records)) # None
    <3> SUFFICES ASSUME NEW v \in VIEWS PROVE ValueIn(v, Bundle(run, records)) # None
        OBVIOUS
    <3> HIDE DEF run, records
    <3>1. \E p \in Bundle(run, records) : p.view = v
        BY <2>4 DEF IsCoherent
    <3>2. \A p \in Bundle(run, records) : p.value # None
        BY <1>1 DEF Bundle, PredictionsInv
    <3> QED
        BY <3>1, <3>2 DEF ValueIn
  <2>7. VIEWS = {"regular", "feeding", "combined"}
      BY DEF VIEWS, Segments
  <2> HIDE DEF run, records, issued
  <2> QED
      BY <2>4, <2>5, <2>6, <2>7 DEF IsCoherent, AddsUp, issued
<1>3. CASE complete = {} /\ parts # {}
  <2>1. issued = [v \in parts \union {"combined"} |-> IF v = "combined" THEN None ELSE Newest(v, records)]
      BY <1>3 DEF IssuedPredictions
  <2> HIDE DEF parts, records, issued
  <2>2. "combined" \in DOMAIN issued /\ issued["combined"] = None
      BY <2>1
  <2> QED
      BY <2>2 DEF issued
<1>4. CASE complete = {} /\ parts = {}
  <2>1. issued = [v \in {} |-> None]
      BY <1>4 DEF IssuedPredictions
  <2> QED
      BY <2>1
<1> QED
    BY <1>2, <1>3, <1>4

LEMMA ShownAdds ==
    ASSUME PredictionsInv, NEW t, NEW asOf, NEW c, NEW r, NEW f, AddsUp(c, r, f)
    PROVE  LET shown(saved, v) == PointShown(saved, IssuedPredictions(t, asOf), t, v, asOf)
           IN  AddsUp(shown(c, "combined"), shown(r, "regular"), shown(f, "feeding"))
<1> DEFINE issued == IssuedPredictions(t, asOf)
<1>1. \/ DOMAIN issued = {}
      \/ /\ DOMAIN issued = VIEWS
         /\ AddsUp(issued["combined"], issued["regular"], issued["feeding"])
      \/ "combined" \in DOMAIN issued /\ issued["combined"] = None
    BY IssuedFacts
<1>2. "regular" \in VIEWS /\ "feeding" \in VIEWS /\ "combined" \in VIEWS
    BY DEF VIEWS, Segments
<1> HIDE DEF issued
<1>3. CASE t < PeriodOf(asOf)
    BY <1>1, <1>2, <1>3 DEF PointShown, AddsUp, issued
<1>4. CASE ~(t < PeriodOf(asOf))
    BY <1>4 DEF PointShown, AddsUp
<1> QED
    BY <1>3, <1>4

-----------------------------------------------------------------------------
(***************************************************************************)
(* Graphs.  A component is determined by its input, whichever refresh      *)
(* fitted it; a point from the current period on is the path of a          *)
(* component of that graph's own inputs.                                   *)
(***************************************************************************)
KindOf(input) == IF input.basis = "fallback" THEN "fallback" ELSE "primary"
PathOf(input, target) == Path(KindOf(input), input.rows, target)

SoundArtifact(a) == a.state # None => a.state = [kind |-> KindOf(a.input), rows |-> a.input.rows]

SoundGraph(g) ==
    LET asOf == g.context.asOf
        now  == PeriodOf(asOf)
    IN  /\ \A a \in g.artifacts : SoundArtifact(a)
        /\ asOf \in Nat
        /\ \A t \in Window(asOf) :
              /\ AddsUp(g.points["combined"][t], g.points["regular"][t], g.points["feeding"][t])
              /\ t >= now => \A s \in Segments : g.points[s][t] \in {None, PathOf(g.context.inputs[t][s], t)}
        /\ \A t \in OutlookDates(asOf) \ Window(asOf) :
              /\ AddsUp(g.outlook["combined"][t], g.outlook["regular"][t], g.outlook["feeding"][t])
              /\ \A s \in Segments : g.outlook[s][t] \in {None, PathOf(g.context.inputs[now][s], t)}

Bases == {"fallback", "saved", "primary_refresh_required", "offline_training_required", "saved_sarima",
          "invalid_saved_artifact"}

LEMMA InputHasBasis == \A s, src : Input(s, src).basis \in Bases
<1> SUFFICES ASSUME NEW s, NEW src PROVE Input(s, src).basis \in Bases
    OBVIOUS
<1>1. WeeklyDependency(src) \in {"insufficient_history", "offline_training_required", "saved_sarima",
                                 "invalid_saved_artifact"}
    BY DEF WeeklyDependency
<1>2. CASE s = "regular" /\ unit = "monthly"
    BY <1>2 DEF Input, Bases
<1>3. CASE ~(s = "regular" /\ unit = "monthly") /\ s = "regular" /\ unit = "weekly" /\ WeeklyDependency(src) # "insufficient_history"
    BY <1>1, <1>3 DEF Input, Bases
<1>4. CASE ~(s = "regular" /\ unit = "monthly") /\ ~(s = "regular" /\ unit = "weekly" /\ WeeklyDependency(src) # "insufficient_history")
    BY <1>4 DEF Input, Bases
<1> QED
    BY <1>2, <1>3, <1>4

LEMMA ComponentOfInput ==
    ASSUME NEW s, NEW input, input.basis \in Bases, NEW converged,
           NEW state, state = GraphComponent(s, input, converged), state # None
    PROVE  state = [kind |-> KindOf(input), rows |-> input.rows]
BY DEF GraphComponent, KindOf, Bases

\* There is a component for every input of a context.
Covers(artifacts, ctx) ==
    \A t \in Window(ctx.asOf), s \in Segments :
        \E a \in artifacts : a.segment = s /\ a.input = ctx.inputs[t][s]

LEMMA ArtifactsAreSound ==
    ASSUME NEW asOf, NEW prior, \A a \in prior : SoundArtifact(a), NEW converged
    PROVE  LET ctx   == GraphContext(asOf)
               built == Artifacts(ctx, prior, converged)
           IN  /\ \A a \in built : SoundArtifact(a)
               /\ Covers(built, ctx)
<1> DEFINE ctx == GraphContext(asOf)
<1> DEFINE built == Artifacts(ctx, prior, converged)
<1> DEFINE had(t, s) == {a \in prior : a.segment = s /\ a.input = ctx.inputs[t][s]}
<1> DEFINE made(t, s) == IF had(t, s) # {} THEN CHOOSE a \in had(t, s) : TRUE
                         ELSE [segment |-> s, input |-> ctx.inputs[t][s],
                               state |-> GraphComponent(s, ctx.inputs[t][s], converged)]
<1>1. ctx.asOf = asOf /\ built = {made(t, s) : t \in Window(asOf), s \in Segments}
    BY DEF GraphContext, Artifacts
<1>2. \A t \in Window(asOf), s \in Segments : ctx.inputs[t][s].basis \in Bases
  <2> SUFFICES ASSUME NEW t \in Window(asOf), NEW s \in Segments PROVE ctx.inputs[t][s].basis \in Bases
      OBVIOUS
  <2>1. \E src : ctx.inputs[t][s] = Input(s, src)
      BY DEF GraphContext
  <2> QED
      BY <2>1, InputHasBasis
<1>3. ASSUME NEW t \in Window(asOf), NEW s \in Segments
      PROVE  made(t, s).segment = s /\ made(t, s).input = ctx.inputs[t][s] /\ SoundArtifact(made(t, s))
  <2>1. CASE had(t, s) # {}
      BY <2>1
  <2>2. CASE had(t, s) = {}
    <3> DEFINE state == GraphComponent(s, ctx.inputs[t][s], converged)
    <3>1. made(t, s) = [segment |-> s, input |-> ctx.inputs[t][s], state |-> state]
        BY <2>2
    <3>2. state # None => state = [kind |-> KindOf(ctx.inputs[t][s]), rows |-> ctx.inputs[t][s].rows]
        BY <1>2, ComponentOfInput
    <3> HIDE DEF made, state
    <3> QED
        BY <3>1, <3>2 DEF SoundArtifact
  <2> QED
      BY <2>1, <2>2
<1> HIDE DEF made, ctx, built
<1> QED
    BY <1>1, <1>3 DEF Covers, ctx, built

LEMMA PointFacts ==
    ASSUME NEW ctx, NEW artifacts, \A a \in artifacts : SoundArtifact(a), NEW origin, NEW s,
           \E a \in artifacts : a.segment = s /\ a.input = ctx.inputs[origin][s], NEW t
    PROVE  Point(ctx, artifacts, s, origin, t) \in {None, PathOf(ctx.inputs[origin][s], t)}
<1> DEFINE a == CHOOSE a \in artifacts : a.segment = s /\ a.input = ctx.inputs[origin][s]
<1>1. a \in artifacts /\ a.input = ctx.inputs[origin][s]
    OBVIOUS
<1>2. Point(ctx, artifacts, s, origin, t) = IF a.state = None THEN None ELSE Path(a.state.kind, a.state.rows, t)
    BY DEF Point
<1> HIDE DEF a
<1>3. CASE a.state # None
  <2>1. a.state = [kind |-> KindOf(a.input), rows |-> a.input.rows]
      BY <1>1, <1>3 DEF SoundArtifact
  <2>2. a.state.kind = KindOf(a.input) /\ a.state.rows = a.input.rows
      BY <2>1
  <2> QED
      BY <1>1, <1>2, <1>3, <2>2 DEF PathOf
<1> QED
    BY <1>2, <1>3

LEMMA AddUpAdds == \A r, f : AddsUp(AddUp(r, f), r, f)
BY DEF AddUp, AddsUp

LEMMA BuiltIsSound ==
    ASSUME PredictionsInv, NEW asOf \in Nat, NEW prior, \A a \in prior : SoundArtifact(a), NEW converged,
           NEW ctx, ctx = GraphContext(asOf), NEW built, built = Artifacts(ctx, prior, converged),
           NEW points, points = Build(ctx, built),
           NEW g, g = [context |-> ctx, artifacts |-> built, points |-> points,
                       outlook |-> BuildOutlook(ctx, built, points)]
    PROVE  SoundGraph(g)
<1> DEFINE now == PeriodOf(asOf)
<1> DEFINE at(s, o, t) == Point(ctx, built, s, o, t)
<1> DEFINE shown(saved, t, v) == PointShown(saved, IssuedPredictions(t, asOf), t, v, asOf)
<1>1. /\ g.context = ctx /\ g.artifacts = built /\ g.points = points
      /\ g.outlook = BuildOutlook(ctx, built, points) /\ ctx.asOf = asOf
    BY DEF GraphContext
<1>2. /\ \A a \in built : SoundArtifact(a)
      /\ \A t \in Window(asOf), s \in Segments :
            \E a \in built : a.segment = s /\ a.input = ctx.inputs[t][s]
  <2> HIDE DEF now, at, shown
  <2>1. \A a \in built : SoundArtifact(a)
      BY ArtifactsAreSound
  <2>2. Covers(built, ctx)
      BY ArtifactsAreSound
  <2> QED
      BY <1>1, <2>1, <2>2 DEF Covers
<1>3. now \in Nat /\ now \in Window(asOf) /\ Window(asOf) \subseteq Int
    BY PeriodFactsOf, GraphAssumption DEF Window
<1>4. \A s \in Segments, o \in Window(asOf) : \A t : at(s, o, t) \in {None, PathOf(ctx.inputs[o][s], t)}
    BY <1>2, PointFacts
<1>5. /\ "regular" \in VIEWS /\ "feeding" \in VIEWS /\ "combined" \in VIEWS /\ Segments \subseteq VIEWS
      /\ "combined" \notin Segments
    BY DEF VIEWS, Segments
<1>6. \A v \in VIEWS, t \in Window(asOf) :
          points[v][t] = shown(IF v = "combined" THEN AddUp(at("regular", t, t), at("feeding", t, t)) ELSE at(v, t, t), t, v)
    BY <1>1 DEF Build
<1>7. \A v \in VIEWS, t \in OutlookDates(asOf) \ Window(asOf) :
          g.outlook[v][t] = IF v = "combined" THEN AddUp(at("regular", now, t), at("feeding", now, t)) ELSE at(v, now, t)
    BY <1>1 DEF BuildOutlook
<1> HIDE DEF at
<1>8. ASSUME NEW t \in Window(asOf)
      PROVE  AddsUp(points["combined"][t], points["regular"][t], points["feeding"][t])
  <2>1. /\ points["combined"][t] = shown(AddUp(at("regular", t, t), at("feeding", t, t)), t, "combined")
        /\ points["regular"][t] = shown(at("regular", t, t), t, "regular")
        /\ points["feeding"][t] = shown(at("feeding", t, t), t, "feeding")
      BY <1>5, <1>6
  <2>2. AddsUp(AddUp(at("regular", t, t), at("feeding", t, t)), at("regular", t, t), at("feeding", t, t))
      BY AddUpAdds
  <2> QED
      BY <2>1, <2>2, ShownAdds
<1>9. ASSUME NEW t \in Window(asOf), t >= now, NEW s \in Segments
      PROVE  points[s][t] \in {None, PathOf(ctx.inputs[t][s], t)}
  <2>1. points[s][t] = shown(at(s, t, t), t, s)
      BY <1>5, <1>6
  <2>2. ~(t < now)
      BY <1>3, <1>9
  <2> QED
      BY <1>4, <2>1, <2>2 DEF PointShown
<1>10. ASSUME NEW t \in OutlookDates(asOf) \ Window(asOf)
       PROVE  /\ AddsUp(g.outlook["combined"][t], g.outlook["regular"][t], g.outlook["feeding"][t])
              /\ \A s \in Segments : g.outlook[s][t] \in {None, PathOf(ctx.inputs[now][s], t)}
  <2>1. /\ g.outlook["combined"][t] = AddUp(at("regular", now, t), at("feeding", now, t))
        /\ g.outlook["regular"][t] = at("regular", now, t) /\ g.outlook["feeding"][t] = at("feeding", now, t)
      BY <1>5, <1>7
  <2>2. \A s \in Segments : g.outlook[s][t] = at(s, now, t)
      BY <1>5, <1>7
  <2> QED
      BY <1>3, <1>4, <2>1, <2>2, AddUpAdds
<1> QED
    BY <1>1, <1>2, <1>8, <1>9, <1>10 DEF SoundGraph

GraphsInv ==
    /\ IsSeq(graphs)
    /\ \A i \in DOMAIN graphs : SoundGraph(graphs[i])
    /\ graphJob # None => SoundGraph(graphJob)

\* The issued predictions after a commit are those before and those of targets
\* that have not begun.
LEMMA PredictionsKept ==
    ASSUME PredictionsInv, DaysInv, GraphsInv, [Next]_vars
    PROVE  /\ PredictionsInv'
           /\ predictions \subseteq predictions'
           /\ \A p \in predictions' \ predictions : Start(p.target) > today
<1>0. DaysInv' /\ today <= today'
    BY DaysKept
<1>1. CASE predictions' = predictions
    BY <1>0, <1>1 DEF PredictionsInv, DaysInv
<1>2. CASE GraphRefreshCommits /\ predictions' # predictions
  <2> DEFINE asOf == graphJob.context.asOf
  <2> DEFINE run == Len(graphs) + 1
  <2> DEFINE ahead == {x \in VIEWS \X Window(asOf) : /\ MayIssue(asOf, x[2]) /\ graphJob.points[x[1]][x[2]] # None}
  <2> DEFINE row == [vt \in ahead |-> [run |-> run, view |-> vt[1], target |-> vt[2], day |-> today,
                                       value |-> graphJob.points[vt[1]][vt[2]]]]
  <2>1. predictions' = predictions \union {row[vt] : vt \in ahead} /\ graphJob # None
      BY <1>2 DEF GraphRefreshCommits
  <2>2. asOf \in Nat /\ run \in Nat /\ Window(asOf) \subseteq Int /\ IsFiniteSet(Window(asOf))
    <3>1. asOf \in Nat
        BY <2>1 DEF GraphsInv, SoundGraph
    <3>2. PeriodOf(asOf) \in Nat
        BY <3>1, PeriodFactsOf
    <3>3. Len(graphs) \in Nat
        BY SeqFacts DEF GraphsInv
    <3>4. IsFiniteSet((PeriodOf(asOf) - Radius)..(PeriodOf(asOf) + Radius))
        BY <3>2, FS_Interval, GraphAssumption
    <3> QED
        BY <3>1, <3>2, <3>3, <3>4, GraphAssumption DEF Window
  <2>3. IsFiniteSet(VIEWS)
    <3>1. VIEWS = (({} \union {"regular"}) \union {"feeding"}) \union {"combined"}
        BY DEF VIEWS, Segments
    <3> QED
        BY <3>1, FS_EmptySet, FS_AddElement
  <2>4. IsFiniteSet(VIEWS \X Window(asOf))
      BY <2>2, <2>3, FS_Product
  <2>5. IsFiniteSet(ahead)
      BY <2>4, FS_Subset
  <2>6. IsFiniteSet({row[vt] : vt \in ahead})
    <3> HIDE DEF ahead, row
    <3> QED
        BY <2>5, LabelsFinite
  <2>7. ASSUME NEW vt \in ahead
        PROVE  /\ row[vt].run \in Nat /\ row[vt].value # None /\ row[vt].target \in Int
               /\ row[vt].day = today /\ Start(row[vt].target) > today
    <3>1. vt[2] \in Window(asOf) /\ MayIssue(asOf, vt[2]) /\ graphJob.points[vt[1]][vt[2]] # None
        BY <2>7
    <3>2. row[vt] = [run |-> run, view |-> vt[1], target |-> vt[2], day |-> today,
                     value |-> graphJob.points[vt[1]][vt[2]]]
        BY <2>7
    <3> HIDE DEF row, ahead, run, asOf
    <3> QED
        BY <2>2, <3>1, <3>2 DEF MayIssue
  <2>8. today' = today /\ DaysPerPeriod \in Nat
      BY <1>2, ChartAssumption DEF GraphRefreshCommits, sourceVars
  <2>9. \A t \in Int : Start(t) \in Int
      BY <2>8 DEF Start
  <2> HIDE DEF ahead, row
  <2>10. IsFiniteSet(predictions')
      BY <2>1, <2>6, FS_Union DEF PredictionsInv
  <2>11. \A p \in predictions' \ predictions : Start(p.target) > today
      BY <2>1, <2>7
  <2>12. \A p \in predictions' : /\ p.run \in Nat /\ p.value # None /\ p.target \in Int
                                 /\ p.day \in Int /\ p.day <= today /\ p.day < Start(p.target)
    <3> SUFFICES ASSUME NEW p \in predictions'
                 PROVE  /\ p.run \in Nat /\ p.value # None /\ p.target \in Int
                        /\ p.day \in Int /\ p.day <= today /\ p.day < Start(p.target)
        OBVIOUS
    <3>1. CASE p \in predictions
        BY <3>1 DEF PredictionsInv
    <3>2. CASE p \notin predictions
        BY <2>1, <2>7, <2>9, <3>2 DEF DaysInv
    <3> QED
        BY <3>1, <3>2
  <2> QED
      BY <2>1, <2>8, <2>10, <2>11, <2>12 DEF PredictionsInv
<1> QED
    BY <1>1, <1>2 DEF Next, vars, graphVars, SourceStep, GraphStep, ProjectionStep, SelectionStep, GraphRefreshBuilds

LEMMA GraphsKept ==
    ASSUME PredictionsInv, DaysInv, GraphsInv, [Next]_vars
    PROVE  GraphsInv'
<1>1. CASE UNCHANGED <<graphs, graphJob>>
    BY <1>1 DEF GraphsInv
<1>2. ASSUME NEW asOf \in Dates, NEW converged \in FitOutcomes, GraphRefreshBuilds(asOf, converged)
      PROVE  GraphsInv'
  <2> DEFINE ctx == GraphContext(asOf)
  <2> DEFINE prior == IF graphs = <<>> THEN {} ELSE Last(graphs).artifacts
  <2> DEFINE built == Artifacts(ctx, prior, converged)
  <2> DEFINE points == Build(ctx, built)
  <2>1. /\ graphs' = graphs
        /\ graphJob' = [context |-> ctx, artifacts |-> built, points |-> points,
                        outlook |-> BuildOutlook(ctx, built, points)]
      BY <1>2 DEF GraphRefreshBuilds
  <2>2. asOf \in Nat
      BY ChartAssumption DEF Dates
  <2>3. \A a \in prior : SoundArtifact(a)
    <3>1. CASE graphs = <<>>
        BY <3>1
    <3>2. CASE graphs # <<>>
      <4>1. Len(graphs) \in DOMAIN graphs /\ Last(graphs) = graphs[Len(graphs)]
          BY <3>2, SeqFacts DEF GraphsInv
      <4> QED
          BY <3>2, <4>1 DEF GraphsInv, SoundGraph
    <3> QED
        BY <3>1, <3>2
  <2>4. SoundGraph(graphJob')
    <3> HIDE DEF prior
    <3> QED
        BY <2>1, <2>2, <2>3, BuiltIsSound
  <2> QED
      BY <2>1, <2>4 DEF GraphsInv
<1>3. CASE GraphRefreshCommits
  <2>1. graphJob # None /\ graphJob' = None /\ (graphs' = graphs \/ graphs' = Append(graphs, graphJob))
      BY <1>3 DEF GraphRefreshCommits
  <2>2. CASE graphs' = graphs
      BY <2>1, <2>2 DEF GraphsInv
  <2>3. CASE graphs' = Append(graphs, graphJob)
    <3>1. IsSeq(graphs)
        BY DEF GraphsInv
    <3>2. /\ IsSeq(graphs') /\ DOMAIN graphs' = DOMAIN graphs \union {Len(graphs) + 1}
          /\ \A i \in DOMAIN graphs : graphs'[i] = graphs[i]
          /\ graphs'[Len(graphs) + 1] = graphJob
        BY <2>3, <3>1, SeqFacts
    <3> QED
        BY <2>1, <3>2 DEF GraphsInv
  <2> QED
      BY <2>1, <2>2, <2>3
<1> QED
    BY <1>1, <1>2, <1>3 DEF Next, vars, graphVars, SourceStep, GraphStep, ProjectionStep, SelectionStep

-----------------------------------------------------------------------------
(***************************************************************************)
(* What a GET shows.                                                       *)
(***************************************************************************)
LEMMA FoundFacts ==
    ASSUME GraphsInv, NEW asOf, NEW found, found = GraphFor(asOf), found # {}
    PROVE  SoundGraph(graphs[Max(found)]) /\ graphs[Max(found)].context = GraphContext(asOf)
<1>1. found \subseteq DOMAIN graphs
    BY DEF GraphFor
<1>2. IsFiniteSet(found) /\ found \in SUBSET Int
    BY <1>1, SeqFacts, FS_Subset DEF GraphsInv
<1>3. Max(found) \in found
    BY <1>2, MaxFacts
<1> QED
    BY <1>1, <1>3 DEF GraphsInv, GraphFor

\* The saved value behind a point of the report, and behind one of a range.
ReportSaved(asOf, v, t) ==
    IF GraphFor(asOf) = {} THEN None ELSE graphs[Max(GraphFor(asOf))].points[v][t]

LEMMA ReportPoint ==
    ASSUME NEW asOf, NEW v \in VIEWS, NEW t \in Window(asOf)
    PROVE  Report(asOf)[v][t] = PointShown(ReportSaved(asOf, v, t), IssuedPredictions(t, asOf), t, v, asOf)
BY DEF Report, ReportSaved

RangeSaved(v, t) ==
    CASE t \in Window(today) -> Report(today)[v][t]
      [] t \in OutlookDates(today) \ Window(today) /\ GraphFor(today) # {} ->
            graphs[Max(GraphFor(today))].outlook[v][t]
      [] OTHER -> None

LEMMA RangePoint ==
    ASSUME NEW targets, NEW v \in VIEWS, NEW t \in targets
    PROVE  RangeReport(targets)[v][t] =
             IF t < Current /\ v = "regular" /\ RangeSaved(v, t) = None /\ v \notin DOMAIN IssuedPredictions(t, today)
             THEN Comparison(t)
             ELSE PointShown(RangeSaved(v, t), IssuedPredictions(t, today), t, v, today)
BY DEF RangeReport, RangeSaved

LEMMA ViewsAre ==
    /\ "regular" \in VIEWS /\ "feeding" \in VIEWS /\ "combined" \in VIEWS
    /\ "regular" \in Segments /\ "feeding" \in Segments /\ Segments \subseteq VIEWS
BY DEF VIEWS, Segments

LEMMA ReportAdds ==
    ASSUME PredictionsInv, GraphsInv, NEW asOf, NEW t \in Window(asOf)
    PROVE  AddsUp(Report(asOf)["combined"][t], Report(asOf)["regular"][t], Report(asOf)["feeding"][t])
<1> DEFINE saved(v) == ReportSaved(asOf, v, t)
<1>1. AddsUp(saved("combined"), saved("regular"), saved("feeding"))
  <2>1. CASE GraphFor(asOf) = {}
      BY <2>1 DEF ReportSaved, AddsUp
  <2>2. CASE GraphFor(asOf) # {}
    <3> DEFINE g == graphs[Max(GraphFor(asOf))]
    <3>1. SoundGraph(g) /\ g.context = GraphContext(asOf)
        BY <2>2, FoundFacts
    <3>2. g.context.asOf = asOf
        BY <3>1 DEF GraphContext
    <3>3. AddsUp(g.points["combined"][t], g.points["regular"][t], g.points["feeding"][t])
      <4> HIDE DEF g
      <4> QED
          BY <3>1, <3>2 DEF SoundGraph
    <3> QED
        BY <2>2, <3>3 DEF ReportSaved
  <2> QED
      BY <2>1, <2>2
<1> HIDE DEF saved
<1>2. LET shown(v) == PointShown(saved(v), IssuedPredictions(t, asOf), t, v, asOf)
      IN  AddsUp(shown("combined"), shown("regular"), shown("feeding"))
    BY <1>1, ShownAdds
<1> QED
    BY <1>2, ReportPoint, ViewsAre DEF saved

LEMMA RangeSavedAdds ==
    ASSUME PredictionsInv, GraphsInv, NEW t
    PROVE  AddsUp(RangeSaved("combined", t), RangeSaved("regular", t), RangeSaved("feeding", t))
<1>1. CASE t \in Window(today)
    BY <1>1, ReportAdds DEF RangeSaved
<1>2. CASE t \notin Window(today) /\ t \in OutlookDates(today) /\ GraphFor(today) # {}
  <2> DEFINE g == graphs[Max(GraphFor(today))]
  <2>1. SoundGraph(g) /\ g.context = GraphContext(today)
      BY <1>2, FoundFacts
  <2>2. g.context.asOf = today
      BY <2>1 DEF GraphContext
  <2>3. AddsUp(g.outlook["combined"][t], g.outlook["regular"][t], g.outlook["feeding"][t])
    <3> HIDE DEF g
    <3> QED
        BY <1>2, <2>1, <2>2 DEF SoundGraph
  <2> QED
      BY <1>2, <2>3 DEF RangeSaved
<1>3. CASE t \notin Window(today) /\ ~(t \in OutlookDates(today) /\ GraphFor(today) # {})
  <2>1. \A v \in VIEWS : RangeSaved(v, t) = None
      BY <1>3 DEF RangeSaved
  <2> QED
      BY <2>1, ViewsAre DEF AddsUp
<1> QED
    BY <1>1, <1>2, <1>3

LEMMA RangeAdds ==
    ASSUME PredictionsInv, GraphsInv, NEW targets, NEW t \in targets
    PROVE  AddsUp(RangeReport(targets)["combined"][t], RangeReport(targets)["regular"][t],
                  RangeReport(targets)["feeding"][t])
<1> DEFINE issued == IssuedPredictions(t, today)
<1> DEFINE shown(v) == PointShown(RangeSaved(v, t), issued, t, v, today)
<1> DEFINE range(v) == RangeReport(targets)[v][t]
<1>1. AddsUp(shown("combined"), shown("regular"), shown("feeding"))
    BY RangeSavedAdds, ShownAdds
<1>2. range("combined") = shown("combined") /\ range("feeding") = shown("feeding")
    BY RangePoint, ViewsAre
<1>3. CASE range("regular") = shown("regular")
  <2> HIDE DEF shown, range
  <2>1. AddsUp(range("combined"), range("regular"), range("feeding"))
      BY <1>1, <1>2, <1>3
  <2> QED
      BY <2>1 DEF range
<1>4. CASE range("regular") # shown("regular")
  <2>1. RangeSaved("regular", t) = None /\ "regular" \notin DOMAIN issued
      BY <1>4, RangePoint, ViewsAre
  <2>2. shown("regular") = None
      BY <2>1 DEF PointShown
  <2> HIDE DEF shown, range
  <2>3. AddsUp(range("combined"), range("regular"), range("feeding"))
      BY <1>1, <1>2, <2>2 DEF AddsUp
  <2> QED
      BY <2>3 DEF range
<1> QED
    BY <1>3, <1>4

LEMMA GraphsAdd ==
    ASSUME PredictionsInv, GraphsInv PROVE CombinedIsSum
<1>1. \A asOf \in Dates : \A t \in Window(asOf) :
          AddsUp(Report(asOf)["combined"][t], Report(asOf)["regular"][t], Report(asOf)["feeding"][t])
    BY ReportAdds
<1>2. \A t \in Targets :
          AddsUp(RangeReport(Targets)["combined"][t], RangeReport(Targets)["regular"][t],
                 RangeReport(Targets)["feeding"][t])
    BY RangeAdds
<1> QED
    BY <1>1, <1>2 DEF CombinedIsSum, AddsUp

\* From the current period on, every input of the graph of today reads what is
\* recorded now.
LEMMA CurrentInputs ==
    ASSUME DaysInv, NEW g, g.context = GraphContext(today), NEW s \in Segments
    PROVE  /\ g.context.asOf = today
           /\ \A t \in Window(today) : t >= Current => g.context.inputs[t][s] = Input(s, Snapshot(Current))
<1>1. SUFFICES ASSUME NEW t \in Window(today), t >= Current
               PROVE  GraphContext(today).inputs[t][s] = Input(s, Snapshot(Current))
    BY DEF GraphContext
<1>2. GraphContext(today).inputs[t][s] = Input(s, Snapshot(Cutoff(t, today)))
    BY DEF GraphContext
<1>3. t \in Int /\ Current \in Nat /\ PeriodOf(today) = Current
    BY PeriodFactsOf, TargetsAreInt DEF DaysInv, Current
<1>4. Cutoff(t, today) = Current
    BY <1>1, <1>3 DEF Cutoff
<1> QED
    BY <1>2, <1>4

LEMMA GraphsServeNow ==
    ASSUME PredictionsInv, DaysInv, GraphsInv PROVE ServedFromCurrentLedger
<1> DEFINE ahead == {t \in Targets : t >= Current}
<1>1. SUFFICES ASSUME NEW s \in Segments, NEW t \in ahead
               PROVE  RangeReport(ahead)[s][t] \in {None, PathOf(Input(s, Snapshot(Current)), t)}
    BY DEF ServedFromCurrentLedger, PathOf, KindOf
<1> DEFINE served == {None, PathOf(Input(s, Snapshot(Current)), t)}
<1>2. t \in Int /\ Current \in Nat /\ PeriodOf(today) = Current /\ t >= Current
      /\ Current \in Window(today)
    BY PeriodFactsOf, TargetsAreInt, GraphAssumption DEF DaysInv, Current, Window
<1>3. ~(t < Current)
    BY <1>2
<1>4. s \in VIEWS
    BY ViewsAre
<1>5. GraphFor(today) # {} =>
        LET g == graphs[Max(GraphFor(today))]
        IN  /\ t \in Window(today) => g.points[s][t] \in served
            /\ t \in OutlookDates(today) \ Window(today) => g.outlook[s][t] \in served
  <2> SUFFICES ASSUME GraphFor(today) # {}
               PROVE  LET g == graphs[Max(GraphFor(today))]
                      IN  /\ t \in Window(today) => g.points[s][t] \in served
                          /\ t \in OutlookDates(today) \ Window(today) => g.outlook[s][t] \in served
      OBVIOUS
  <2> DEFINE g == graphs[Max(GraphFor(today))]
  <2>1. SoundGraph(g) /\ g.context = GraphContext(today)
      BY FoundFacts
  <2> HIDE DEF g
  <2>2. /\ g.context.asOf = today
        /\ \A u \in Window(today) : u >= Current => g.context.inputs[u][s] = Input(s, Snapshot(Current))
      BY <2>1, CurrentInputs
  <2>3. t \in Window(today) => g.points[s][t] \in {None, PathOf(g.context.inputs[t][s], t)}
      BY <1>2, <2>1, <2>2 DEF SoundGraph
  <2>4. t \in OutlookDates(today) \ Window(today) => g.outlook[s][t] \in {None, PathOf(g.context.inputs[Current][s], t)}
      BY <1>2, <2>1, <2>2 DEF SoundGraph
  <2> QED
      BY <1>2, <2>2, <2>3, <2>4 DEF g
<1>6. t \in Window(today) => Report(today)[s][t] \in served
  <2> SUFFICES ASSUME t \in Window(today) PROVE Report(today)[s][t] \in served
      OBVIOUS
  <2>1. ReportSaved(today, s, t) \in served
      BY <1>5 DEF ReportSaved
  <2>2. Report(today)[s][t] = ReportSaved(today, s, t)
      BY <1>2, <1>3, <1>4, ReportPoint DEF PointShown
  <2> QED
      BY <2>1, <2>2
<1>7. RangeSaved(s, t) \in served
    BY <1>5, <1>6 DEF RangeSaved
<1>8. RangeReport(ahead)[s][t] = RangeSaved(s, t)
    BY <1>2, <1>3, <1>4, RangePoint DEF PointShown
<1> QED
    BY <1>7, <1>8

LEMMA GraphsStart == ASSUME Init PROVE PredictionsInv /\ GraphsInv
<1>1. graphs = <<>> /\ predictions = {} /\ graphJob = None
    BY DEF Init, GraphInit
<1>2. IsSeq(<<>>) /\ DOMAIN <<>> = {} /\ IsFiniteSet({})
    BY EmptySeq, FS_EmptySet DEF IsSeq
<1> QED
    BY <1>1, <1>2 DEF PredictionsInv, GraphsInv

\* A point of the graph, whatever failed or was issued before: combined is the sum
\* of its parts, predictions were issued before their period began, and what lies
\* ahead is computed from what is recorded, reviewed and fitted now
\* (_issued_predictions, build, refresh, report, range_report).
THEOREM GraphAlwaysHonest == Spec => []GraphIsHonest
<1> DEFINE Inv == PredictionsInv /\ DaysInv /\ GraphsInv
<1>1. Init => Inv
    BY GraphsStart, DaysStart
<1>2. Inv /\ [Next]_vars => Inv'
    BY PredictionsKept, GraphsKept, DaysKept
<1>3. Inv => GraphIsHonest
  <2>1. PredictionsInv => IssuedInAdvance
      BY DEF PredictionsInv, IssuedInAdvance
  <2> QED
      BY <2>1, GraphsAdd, GraphsServeNow DEF GraphIsHonest
<1> QED
    BY <1>1, <1>2, <1>3, PTL DEF Spec

\* A prediction issued for a period that is past depends on the issued rows alone.
LEMMA IssuedPoint ==
    ASSUME NEW targets, NEW t \in targets, t < Current, NEW v \in VIEWS, v \in DOMAIN IssuedPredictions(t, today)
    PROVE  RangeReport(targets)[v][t] = IssuedPredictions(t, today)[v]
<1>1. t < PeriodOf(today)
    BY DEF Current
<1> QED
    BY <1>1, RangePoint DEF PointShown

LEMMA IssuedViews == \A t, asOf : DOMAIN IssuedPredictions(t, asOf) \subseteq VIEWS
BY ViewsAre DEF IssuedPredictions

LEMMA IssuedStays ==
    ASSUME PredictionsInv, DaysInv, GraphsInv, [Next]_vars, NEW t \in Targets, t < Current
    PROVE  (t < Current)' /\ IssuedPredictions(t, today)' = IssuedPredictions(t, today)
<1>1. DaysInv' /\ today <= today'
    BY DaysKept
<1>2. t \in Int /\ Start(t) <= today /\ PeriodOf(today) <= PeriodOf(today') /\ PeriodOf(today) \in Int /\ PeriodOf(today') \in Int
  <2>1. t \in Int /\ today \in Nat /\ today' \in Nat
      BY <1>1, TargetsAreInt DEF DaysInv
  <2>2. PeriodOf(today) \in Nat /\ PeriodOf(today') \in Nat /\ PeriodOf(today) <= PeriodOf(today')
      BY <1>1, <2>1, PeriodFactsOf
  <2>3. t <= PeriodOf(today)
      BY <2>1, <2>2 DEF Current
  <2> QED
      BY <2>1, <2>2, <2>3, PeriodFactsOf
<1>3. t < PeriodOf(today')
    BY <1>2 DEF Current
<1>4. predictions \subseteq predictions' /\ \A p \in predictions' \ predictions : Start(p.target) > today
    BY PredictionsKept
<1>5. IssuedFor(t, today)' = IssuedFor(t, today)
  <2>1. ASSUME NEW p \in predictions, p.target = t
        PROVE  p.day <= today <=> p.day <= today'
      BY <1>1, <2>1 DEF PredictionsInv, DaysInv
  <2>2. ASSUME NEW p \in predictions', p.target = t
        PROVE  p \in predictions
    <3>1. Start(t) \in Int
        BY <1>2, PeriodFactsOf DEF DaysInv
    <3> QED
        BY <1>2, <1>4, <2>2, <3>1 DEF DaysInv
  <2> QED
      BY <1>4, <2>1, <2>2 DEF IssuedFor
<1> QED
    BY <1>3, <1>5 DEF Current, IssuedPredictions

\* Whatever is corrected, refreshed or refitted, the prediction shown for a past
\* period stays the one that was issued for it (_issued_predictions).
THEOREM PastAlwaysFrozen == Spec => PastForecastFrozen
<1> DEFINE Inv == PredictionsInv /\ DaysInv /\ GraphsInv
<1> DEFINE Frozen == LET past == {t \in Targets : t < Current /\ IssuedFor(t, today) # {}}
                     IN  past # {} =>
                         LET before == RangeReport(past)
                             after  == RangeReport(Targets)'
                         IN  \A t \in past : \A v \in DOMAIN IssuedPredictions(t, today) :
                                  after[v][t] = before[v][t]
<1>1. Init => Inv
    BY GraphsStart, DaysStart
<1>2. Inv /\ [Next]_vars => Inv'
    BY PredictionsKept, GraphsKept, DaysKept
<1>3. Inv /\ [Next]_vars => [Frozen]_<<sourceVars, graphVars>>
  <2> SUFFICES ASSUME Inv, [Next]_vars PROVE Frozen
      OBVIOUS
  <2> DEFINE past == {t \in Targets : t < Current /\ IssuedFor(t, today) # {}}
  <2> SUFFICES ASSUME NEW t \in past, NEW v \in DOMAIN IssuedPredictions(t, today)
               PROVE  RangeReport(Targets)'[v][t] = RangeReport(past)[v][t]
      OBVIOUS
  <2>1. t \in Targets /\ t < Current /\ v \in VIEWS
      BY IssuedViews
  <2>2. (t < Current)' /\ IssuedPredictions(t, today)' = IssuedPredictions(t, today)
      BY <2>1, IssuedStays
  <2>3. RangeReport(past)[v][t] = IssuedPredictions(t, today)[v]
      BY <2>1, IssuedPoint
  <2>4. RangeReport(Targets)'[v][t] = IssuedPredictions(t, today)'[v]
    <3>1. v \in DOMAIN IssuedPredictions(t, today)'
        BY <2>2
    <3>2. t < PeriodOf(today)'
        BY <2>2 DEF Current
    <3> QED
        BY <2>1, <2>2, <3>1, <3>2 DEF RangeReport, PointShown
  <2> QED
      BY <2>2, <2>3, <2>4
<1> QED
    BY <1>1, <1>2, <1>3, PTL DEF Spec, PastForecastFrozen
=============================================================================
