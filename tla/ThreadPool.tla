----------------------------- MODULE ThreadPool -----------------------------
(***************************************************************************)
(* CThreadPool, CJobThread (vstdlib/jobthread.cpp) and CJob                *)
(* (public/vstdlib/jobthread.h): worker threads that take jobs from a      *)
(* queue of their own and from a shared one, and one thread -- the master, *)
(* the callers' main thread -- that adds jobs, changes their priority,     *)
(* waits for them, executes or aborts them itself, suspends and resumes    *)
(* the workers, empties the queues and stops the pool.                     *)
(*                                                                         *)
(* The queues are those of module JobQueue; every step of this module that *)
(* touches a queue is a step of that one.  A step is one access to what    *)
(* threads share (a queue, a mutex, an event, the status of a job); the    *)
(* counters m_nJobs and m_nIdleThreads change with the step next to them.  *)
(*                                                                         *)
(* The state is that after Start returned: all workers idle.  A worker's   *)
(* Reply wakes the master only from a wait that also ends by itself after  *)
(* thirty seconds, and after it the master polls until the worker is       *)
(* suspended or gone: the wait for the reply is left out as a mere delay.  *)
(***************************************************************************)
EXTENDS JobQueue

CONSTANTS
  m_Threads,     \* the workers, in the order of the vector
  Master,        \* the thread that calls the pool
  SharedQueue,   \* m_SharedQueue; a worker's own name is that of its m_DirectQueue
  NoJob, NoThread,
  QueueJobs,     \* the jobs with JF_QUEUE or JF_IO
  SerialJobs,    \* the jobs with JF_SERIAL
  FirstPriority, \* the priority of every job when it is made
  MaxCalls       \* bound: the calls of the master beside AddJob and ResumeExecution

Workers == {m_Threads[k] : k \in DOMAIN m_Threads}

ASSUME PoolAssumption ==
  /\ Threads = Workers \cup {Master}
  /\ Queues = Workers \cup {SharedQueue}
  /\ Master \notin Workers /\ SharedQueue \notin Workers
  /\ NoJob \notin Jobs /\ NoThread \notin Threads
  /\ QueueJobs \subseteq Jobs /\ SerialJobs \subseteq Jobs
  /\ m_Threads \in Seq(Workers) /\ m_Threads # <<>>
  /\ \A k, l \in DOMAIN m_Threads : m_Threads[k] = m_Threads[l] => k = l
  /\ FirstPriority \in [Jobs -> Priorities]
  /\ MaxCalls \in Nat

VARIABLES
  pc,            \* where every thread is
  job,           \* the job a thread has in its hands
  bTookJob,      \* the local variable of CJobThread::Run
  m_EventSend,   \* what a worker is called for and has not answered, or "none"
  m_NotSuspendedEvent, \* the event a suspended worker waits for
  m_status, m_priority, m_mutex, m_nRefs,  \* of every job; m_mutex is its owner
  executions,    \* how often DoExecute of a job was called
  m_nJobs, m_nSuspend,
  stopped,       \* the workers are deleted
  op,            \* the call the master is in
  subject,       \* the job it was called for
  filter,        \* ExecuteToPriority: the jobs for which pfnFilter is true
  toPriority, curPriority,  \* ExecuteToPriority
  putBack,       \* ExecuteToPriority: jobsToPutBack
  iThread,       \* the index of a loop over the threads
  calls          \* how many of the bounded calls were made

jobVars == <<m_status, m_priority, m_mutex, m_nRefs, executions>>
workerVars == <<bTookJob, m_EventSend, m_NotSuspendedEvent>>
opVars == <<op, subject, filter, toPriority, curPriority, putBack, calls>>
poolVars == <<m_nJobs, m_nSuspend, stopped>>
vars == <<jqVars, jobVars, workerVars, opVars, poolVars, pc, job, iThread>>

PoolInit ==
  /\ JQInit
  /\ pc = [t \in Threads |-> IF t = Master THEN "ready" ELSE "wait"]
  /\ job = [t \in Threads |-> NoJob]
  /\ bTookJob = [w \in Workers |-> FALSE]
  /\ m_EventSend = [w \in Workers |-> "none"]
  /\ m_NotSuspendedEvent = [w \in Workers |-> TRUE]
  /\ m_status = [j \in Jobs |-> "UNSERVICED"]
  /\ m_priority = FirstPriority
  /\ m_mutex = [j \in Jobs |-> NoThread]
  /\ m_nRefs = [j \in Jobs |-> 1]
  /\ executions = [j \in Jobs |-> 0]
  /\ m_nJobs = 0 /\ m_nSuspend = 0 /\ stopped = FALSE
  /\ op = "none" /\ subject = NoJob /\ filter = {} /\ putBack = <<>>
  /\ toPriority = JP_LOW /\ curPriority = JP_HIGH
  /\ iThread = 1 /\ calls = 0

Goto(t, l) == pc' = [pc EXCEPT ![t] = l]

IsFinished(j) == m_status[j] \notin {"PENDING", "INPROGRESS", "UNSERVICED"}

\* Mutant of CanExecute: a job may be executed whatever became of it.
CanAlways(j) == TRUE

\* CJob::CanExecute, and the two cases of CJob::Execute and CJob::Abort in
\* which there is still something to do.
CanExecute(j) == m_status[j] \in {"PENDING", "UNSERVICED"}

\* The workers that are not between bTookJob = true and the end of the loop.
NumIdleThreads == Cardinality({w \in Workers : ~bTookJob[w] /\ pc[w] # "gone"})

\* InsertJobInQueue: the queue a job goes to; no job of the model names a
\* service thread of its own.
QueueOf(j) == IF j \in SerialJobs THEN m_Threads[1] ELSE SharedQueue
-----------------------------------------------------------------------------
\* CJobThread::Wait: one of the three events is set; Run: if ( PeekCall() ).
Wake(w) ==
  /\ pc[w] = "wait"
  /\ \/ m_JobAvailableEvent[SharedQueue] \/ m_JobAvailableEvent[w]
     \/ m_EventSend[w] # "none"
  /\ Goto(w, IF m_EventSend[w] # "none" THEN "called" ELSE "direct")
  /\ UNCHANGED <<jqVars, jobVars, workerVars, opVars, poolVars, job, iThread>>

\* Run: Reply( true ), which resets m_EventSend.
Reply(w) ==
  /\ pc[w] = "called"
  /\ Goto(w, IF m_EventSend[w] = "TPM_EXIT" THEN "exiting" ELSE "replied")
  /\ m_EventSend' = [m_EventSend EXCEPT ![w] = "none"]
  /\ UNCHANGED <<jqVars, jobVars, bTookJob, m_NotSuspendedEvent, opVars, poolVars, job, iThread>>

\* CThread::Suspend: m_NotSuspendedEvent.Reset(), and then the wait.
Suspend(w) ==
  /\ pc[w] = "replied"
  /\ m_NotSuspendedEvent' = [m_NotSuspendedEvent EXCEPT ![w] = FALSE]
  /\ Goto(w, "suspended")
  /\ UNCHANGED <<jqVars, jobVars, bTookJob, m_EventSend, opVars, poolVars, job, iThread>>

\* CThread::Suspend returns: m_NotSuspendedEvent was set.
Resumed(w) ==
  /\ pc[w] = "suspended"
  /\ m_NotSuspendedEvent[w]
  /\ Goto(w, "wait")
  /\ UNCHANGED <<jqVars, jobVars, workerVars, opVars, poolVars, job, iThread>>

\* Run returns and the thread ends.
Exit(w) ==
  /\ pc[w] = "exiting"
  /\ Goto(w, "gone")
  /\ UNCHANGED <<jqVars, jobVars, workerVars, opVars, poolVars, job, iThread>>

\* Run: m_DirectQueue.Pop, m_SharedQueue.Pop if that returns false, and the end
\* of the loop if that does too.
PopQueues(w) ==
  /\ \/ /\ pc[w] = "direct" /\ TakePermit(w, w)
        /\ Goto(w, "search") /\ UNCHANGED bTookJob
     \/ /\ pc[w] = "direct" /\ Refused(w, w)
        /\ Goto(w, "shared") /\ UNCHANGED <<jqVars, bTookJob>>
     \/ /\ pc[w] = "shared" /\ TakePermit(w, SharedQueue)
        /\ Goto(w, "search") /\ UNCHANGED bTookJob
     \/ /\ pc[w] = "shared" /\ Refused(w, SharedQueue)
        /\ bTookJob' = [bTookJob EXCEPT ![w] = FALSE]
        /\ Goto(w, "wait") /\ UNCHANGED jqVars
  /\ UNCHANGED <<jobVars, m_EventSend, m_NotSuspendedEvent, opVars, poolVars, job, iThread>>

\* Run: Pop returned a job, the worker is no longer idle.
TakeJob(w) ==
  /\ pc[w] = "search"
  /\ \E j \in Jobs : PopItem(w, j) /\ job' = [job EXCEPT ![w] = j]
  /\ bTookJob' = [bTookJob EXCEPT ![w] = TRUE]
  /\ Goto(w, "check")
  /\ UNCHANGED <<jobVars, m_EventSend, m_NotSuspendedEvent, opVars, poolVars, iThread>>
-----------------------------------------------------------------------------
\* CJobQueue::Pop: nothing at this priority.
Search(t) ==
  /\ pc[t] = "search"
  /\ NextPriority(t)
  /\ UNCHANGED <<jobVars, workerVars, opVars, poolVars, pc, job, iThread>>

\* CJob::Execute was called for the job itself and not from
\* ServiceJobAndRelease: it waits for the mutex and releases no reference.
Direct(t) == t = Master /\ op \in {"AddJob", "Execute"}

\* A call of the master returns.
Return ==
  /\ Goto(Master, "ready")
  /\ op' = "none" /\ subject' = NoJob /\ filter' = {} /\ putBack' = <<>>
  /\ toPriority' = JP_LOW /\ curPriority' = JP_HIGH /\ iThread' = 1
  /\ UNCHANGED calls

\* The thread lets go of the job in its hands.
PutDown(t) == job' = [job EXCEPT ![t] = NoJob]

\* ServiceJobAndRelease and CJob::Execute: the first look at the status.
CheckJob(t) ==
  /\ pc[t] = "check"
  /\ Goto(t, IF IsFinished(job[t]) THEN "release" ELSE "lock")
  /\ UNCHANGED <<jqVars, jobVars, workerVars, opVars, poolVars, job, iThread>>

\* TryLock, or Lock, and in the mutex the second look at the status.
LockJob(t) ==
  /\ pc[t] = "lock"
  /\ \/ /\ m_mutex[job[t]] = NoThread /\ CanExecute(job[t])
        /\ m_mutex' = [m_mutex EXCEPT ![job[t]] = t]
        /\ m_status' = [m_status EXCEPT ![job[t]] = "INPROGRESS"]
        /\ executions' = [executions EXCEPT ![job[t]] = @ + 1]
        /\ Goto(t, "run")
     \/ /\ m_mutex[job[t]] = NoThread /\ ~CanExecute(job[t])
        /\ Goto(t, "release") /\ UNCHANGED <<m_mutex, m_status, executions>>
     \/ /\ m_mutex[job[t]] # NoThread /\ ~Direct(t)
        /\ Goto(t, "release") /\ UNCHANGED <<m_mutex, m_status, executions>>
  /\ UNCHANGED <<jqVars, m_priority, m_nRefs, workerVars, opVars, poolVars, job, iThread>>

\* Mutant of FinishJob: the mutex is not unlocked.
FinishLocked(t) ==
  /\ pc[t] = "run"
  /\ m_status' = [m_status EXCEPT ![job[t]] = "OK"]
  /\ Goto(t, "release")
  /\ UNCHANGED <<jqVars, m_priority, m_mutex, m_nRefs, executions, workerVars, opVars,
                 poolVars, job, iThread>>

\* DoExecute returns: the status, m_CompleteEvent and the mutex.
FinishJob(t) ==
  /\ pc[t] = "run"
  /\ m_status' = [m_status EXCEPT ![job[t]] = "OK"]
  /\ m_mutex' = [m_mutex EXCEPT ![job[t]] = NoThread]
  /\ Goto(t, "release")
  /\ UNCHANGED <<jqVars, m_priority, m_nRefs, executions, workerVars, opVars, poolVars,
                 job, iThread>>

\* The end of ServiceJobAndRelease: the reference and the count, and in Run
\* while ( !PeekCall() ).  After a direct call of Execute there is neither.
ReleaseJob(t) ==
  /\ pc[t] = "release"
  /\ PutDown(t)
  /\ IF Direct(t)
     THEN Return /\ UNCHANGED <<m_nRefs, m_nJobs, bTookJob>>
     ELSE /\ m_nRefs' = [m_nRefs EXCEPT ![job[t]] = @ - 1]
          /\ m_nJobs' = m_nJobs - 1
          /\ UNCHANGED <<opVars, iThread>>
          /\ IF t \in Workers
             THEN /\ bTookJob' = [bTookJob EXCEPT ![t] = m_EventSend[t] = "none"]
                  /\ Goto(t, IF m_EventSend[t] = "none" THEN "direct" ELSE "wait")
             ELSE /\ Goto(t, IF op = "YieldWait" THEN "yield" ELSE "drain")
                  /\ UNCHANGED bTookJob
  /\ UNCHANGED <<jqVars, m_status, m_priority, m_mutex, executions, m_EventSend,
                 m_NotSuspendedEvent, m_nSuspend, stopped>>

ServiceJob(t) == Search(t) \/ CheckJob(t) \/ LockJob(t) \/ FinishJob(t) \/ ReleaseJob(t)

\* The steps of a worker.
WorkerNext(w) ==
  \/ Wake(w) \/ Reply(w) \/ Suspend(w) \/ Resumed(w) \/ Exit(w)
  \/ PopQueues(w) \/ TakeJob(w) \/ ServiceJob(w)
-----------------------------------------------------------------------------
\* The master starts a call: its name, its arguments and its first label.
Begin(name, j, fltr, p, l) ==
  /\ pc[Master] = "ready" /\ (name # "AddJob" => calls < MaxCalls)
  /\ Goto(Master, l)
  /\ op' = name /\ subject' = j /\ filter' = fltr /\ toPriority' = p
  /\ calls' = IF name = "AddJob" THEN calls ELSE calls + 1
  /\ UNCHANGED <<curPriority, putBack>>

\* Mutant of Push: the queue takes no reference.
NoAddRef(j) == m_nRefs' = m_nRefs

\* CJobQueue::Push: pJob->AddRef().
AddRef(j) == m_nRefs' = [m_nRefs EXCEPT ![j] = @ + 1]

\* AddJob: the job is executed at once if there are no workers, or if none is
\* idle and the job need not be queued; otherwise it goes to its queue.
AddJob(j) ==
  /\ m_status[j] = "UNSERVICED"
  /\ \/ /\ stopped \/ (j \notin QueueJobs /\ NumIdleThreads = 0)
        /\ Begin("AddJob", j, {}, JP_LOW, "check")
        /\ job' = [job EXCEPT ![Master] = j]
        /\ UNCHANGED <<jqVars, jobVars>>
     \/ /\ ~stopped /\ (j \in QueueJobs \/ NumIdleThreads # 0)
        /\ Begin("AddJob", j, {}, JP_LOW, "count")
        /\ m_priority' = IF j \in QueueJobs THEN m_priority
                         ELSE [m_priority EXCEPT ![j] = JP_HIGH]
        /\ m_status' = [m_status EXCEPT ![j] = "PENDING"]
        /\ AddRef(j)
        /\ PushItem(Master, QueueOf(j), j, m_priority'[j])
        /\ UNCHANGED <<m_mutex, executions, job>>
  /\ UNCHANGED <<workerVars, poolVars, iThread>>

\* ChangePriority: the job is put into the shared queue a second time.
ChangePriority(j, p) ==
  /\ ~stopped
  /\ m_status[j] # "UNSERVICED" /\ m_priority[j] < p
  /\ Begin("ChangePriority", j, {}, JP_LOW, "count")
  /\ m_priority' = [m_priority EXCEPT ![j] = p]
  /\ AddRef(j)
  /\ PushItem(Master, SharedQueue, j, p)
  /\ UNCHANGED <<m_status, m_mutex, executions, workerVars, poolVars, job, iThread>>

\* CJobQueue::Push: the job is counted.  Then AddJob counts it too, and
\* ExecuteToPriority releases its own reference.
Count ==
  /\ pc[Master] = "count"
  /\ CountItem(Master)
  /\ IF op = "ExecuteToPriority"
     THEN /\ m_nRefs' = [m_nRefs EXCEPT ![Head(putBack)] = @ - 1]
          /\ putBack' = Tail(putBack)
          /\ Goto(Master, "putback")
          /\ UNCHANGED <<op, subject, filter, toPriority, curPriority, calls, iThread, m_nJobs>>
     ELSE /\ Return
          /\ m_nJobs' = IF op = "AddJob" THEN m_nJobs + 1 ELSE m_nJobs
          /\ UNCHANGED m_nRefs
  /\ UNCHANGED <<m_status, m_priority, m_mutex, executions, workerVars, m_nSuspend,
                 stopped, job>>
-----------------------------------------------------------------------------
\* A loop over m_Threads goes on, or ends.
NextThread(again, after) ==
  IF iThread = Len(m_Threads)
  THEN iThread' = 1 /\ Goto(Master, after)
  ELSE iThread' = iThread + 1 /\ Goto(Master, again)

\* SuspendExecution does nothing but count if the pool is suspended already.
SuspendFirst == IF m_nSuspend = 0 THEN "call" ELSE "suspend"

\* The calls that begin with SuspendExecution.
SuspendExecution ==
  /\ ~stopped
  /\ Begin("SuspendExecution", NoJob, {}, JP_LOW, SuspendFirst)
  /\ UNCHANGED <<jqVars, jobVars, workerVars, poolVars, job, iThread>>

AbortAll ==
  /\ ~stopped
  /\ Begin("AbortAll", NoJob, {}, JP_LOW, SuspendFirst)
  /\ UNCHANGED <<jqVars, jobVars, workerVars, poolVars, job, iThread>>

ExecuteToPriority(p, fltr) ==
  /\ ~stopped
  /\ Begin("ExecuteToPriority", NoJob, fltr, p, SuspendFirst)
  /\ UNCHANGED <<jqVars, jobVars, workerVars, poolVars, job, iThread>>

\* Stop; the caller has resumed the workers before.
Stop ==
  /\ ~stopped /\ m_nSuspend = 0
  /\ Begin("Stop", NoJob, {}, JP_LOW, "call")
  /\ UNCHANGED <<jqVars, jobVars, workerVars, poolVars, job, iThread>>

\* SuspendExecution and Stop: CallWorker for every thread.
CallWorker ==
  /\ pc[Master] = "call"
  /\ m_EventSend' = [m_EventSend EXCEPT ![m_Threads[iThread]] =
                       IF op = "Stop" THEN "TPM_EXIT" ELSE "TPM_SUSPEND"]
  /\ NextThread("call", IF op = "Stop" THEN "join" ELSE "await")
  /\ UNCHANGED <<jqVars, jobVars, bTookJob, m_NotSuspendedEvent, opVars, poolVars, job>>

\* Mutant of IsSuspended: that the worker has answered is taken for enough.
HasReplied(w) == m_EventSend[w] = "none"

\* CThread::IsSuspended.
IsSuspended(w) == ~m_NotSuspendedEvent[w]

\* SuspendExecution: "Because worker must signal before suspending, we could
\* reach here with the thread not actually suspended".
AwaitSuspended ==
  /\ pc[Master] = "await"
  /\ IsSuspended(m_Threads[iThread])
  /\ NextThread("await", "suspend")
  /\ UNCHANGED <<jqVars, jobVars, workerVars, opVars, poolVars, job>>

\* SuspendExecution: m_nSuspend++, and the caller goes on.
Suspended ==
  /\ pc[Master] = "suspend"
  /\ m_nSuspend' = m_nSuspend + 1
  /\ CASE op = "SuspendExecution" -> Return
       [] op = "AbortAll" -> Goto(Master, "abort") /\ UNCHANGED <<opVars, iThread>>
       [] OTHER -> /\ Goto(Master, "drain")
                   /\ curPriority' = JP_HIGH
                   /\ UNCHANGED <<op, subject, filter, toPriority, putBack, calls, iThread>>
  /\ UNCHANGED <<jqVars, jobVars, workerVars, m_nJobs, stopped, job>>

\* Mutant of Resume: every call wakes the workers.
ResumeAtOnce ==
  /\ m_nSuspend' = m_nSuspend - 1
  /\ m_NotSuspendedEvent' = [w \in Workers |-> TRUE]

\* ResumeExecution: the last one wakes the workers.
Resume ==
  /\ m_nSuspend' = m_nSuspend - 1
  /\ m_NotSuspendedEvent' = IF m_nSuspend = 1 THEN [w \in Workers |-> TRUE]
                            ELSE m_NotSuspendedEvent

\* ResumeExecution, as the caller's answer to its SuspendExecution.
ResumeExecution ==
  /\ pc[Master] = "ready" /\ m_nSuspend > 0
  /\ Resume
  /\ UNCHANGED <<jqVars, jobVars, bTookJob, m_EventSend, opVars, m_nJobs, stopped,
                 pc, job, iThread>>

\* AbortAll and ExecuteToPriority end with ResumeExecution.
ResumeAndReturn ==
  /\ pc[Master] = "resume"
  /\ Resume
  /\ Return
  /\ UNCHANGED <<jqVars, jobVars, bTookJob, m_EventSend, m_nJobs, stopped, job>>
-----------------------------------------------------------------------------
\* Mutant of AbortOrder: AbortAll forgets the workers' own queues.
SharedOnly == <<SharedQueue>>

\* The queues in the order in which AbortAll and ExecuteToPriority empty them.
AbortOrder == <<SharedQueue>> \o m_Threads
ExecuteOrder == Append(m_Threads, SharedQueue)

\* AbortAll: while ( queue.Pop( &pJob ) ), queue after queue.
PopToAbort ==
  /\ pc[Master] = "abort"
  /\ \/ /\ TakePermit(Master, AbortOrder[iThread])
        /\ Goto(Master, "search") /\ UNCHANGED <<iThread, m_nJobs>>
     \/ /\ Refused(Master, AbortOrder[iThread]) /\ iThread < Len(AbortOrder)
        /\ iThread' = iThread + 1 /\ UNCHANGED <<jqVars, pc, m_nJobs>>
     \/ /\ Refused(Master, AbortOrder[iThread]) /\ iThread = Len(AbortOrder)
        /\ m_nJobs' = 0 /\ Goto(Master, "resume") /\ UNCHANGED <<jqVars, iThread>>
  /\ UNCHANGED <<jobVars, workerVars, opVars, m_nSuspend, stopped, job>>

\* CJob::Abort: it waits for the mutex unless the job is finished.
AbortJob ==
  /\ pc[Master] = "aborting"
  /\ LET j == job[Master] IN
       /\ IsFinished(j) \/ m_mutex[j] = NoThread
       /\ m_status' = IF CanExecute(j) THEN [m_status EXCEPT ![j] = "ABORTED"] ELSE m_status
       /\ IF op = "AbortAll"
          THEN /\ m_nRefs' = [m_nRefs EXCEPT ![j] = @ - 1]
               /\ Goto(Master, "abort") /\ UNCHANGED <<opVars, iThread>>
          ELSE Return /\ UNCHANGED m_nRefs
  /\ PutDown(Master)
  /\ UNCHANGED <<jqVars, m_priority, m_mutex, executions, workerVars, poolVars>>

\* ExecuteToPriority: while ( queue.Count( iCurPriority ) ) queue.Pop( &pJob ),
\* priority after priority and queue after queue.
PopToExecute ==
  /\ pc[Master] = "drain"
  /\ LET left == Len(m_pQueues[ExecuteOrder[iThread]][curPriority]) IN
       \/ /\ left > 0 /\ TakePermit(Master, ExecuteOrder[iThread])
          /\ Goto(Master, "search") /\ UNCHANGED <<iThread, curPriority>>
       \/ /\ left = 0 /\ iThread < Len(ExecuteOrder)
          /\ iThread' = iThread + 1 /\ UNCHANGED <<jqVars, pc, curPriority>>
       \/ /\ left = 0 /\ iThread = Len(ExecuteOrder) /\ curPriority > toPriority
          /\ iThread' = 1 /\ curPriority' = curPriority - 1 /\ UNCHANGED <<jqVars, pc>>
       \/ /\ left = 0 /\ iThread = Len(ExecuteOrder) /\ curPriority <= toPriority
          /\ Goto(Master, "putback") /\ UNCHANGED <<jqVars, iThread, curPriority>>
  /\ UNCHANGED <<jobVars, workerVars, op, subject, filter, toPriority, putBack, calls,
                 poolVars, job>>

\* ExecuteToPriority: a job the filter refuses is kept, or given up if it was
\* serviced already.
KeepJob ==
  /\ pc[Master] = "keep"
  /\ IF CanExecute(job[Master])
     THEN /\ putBack' = Append(putBack, job[Master])
          /\ UNCHANGED <<m_nRefs, m_nJobs>>
     ELSE /\ m_nRefs' = [m_nRefs EXCEPT ![job[Master]] = @ - 1]
          /\ m_nJobs' = m_nJobs - 1
          /\ UNCHANGED putBack
  /\ PutDown(Master)
  /\ Goto(Master, "drain")
  /\ UNCHANGED <<jqVars, m_status, m_priority, m_mutex, executions, workerVars, op,
                 subject, filter, toPriority, curPriority, calls, m_nSuspend, stopped,
                 iThread>>

\* ExecuteToPriority: InsertJobInQueue for every job that was kept.
PutBack ==
  /\ pc[Master] = "putback"
  /\ \/ /\ putBack = <<>>
        /\ Goto(Master, "resume") /\ UNCHANGED <<jqVars, m_nRefs>>
     \/ /\ putBack # <<>>
        /\ AddRef(Head(putBack))
        /\ PushItem(Master, QueueOf(Head(putBack)), Head(putBack), m_priority[Head(putBack)])
        /\ Goto(Master, "count")
  /\ UNCHANGED <<m_status, m_priority, m_mutex, executions, workerVars, opVars, poolVars,
                 job, iThread>>

\* The master's Pop returned a job: AbortAll aborts it, ExecuteToPriority
\* keeps it if the filter says so, and YieldWait services it.
MasterTakeJob ==
  /\ pc[Master] = "search"
  /\ \E j \in Jobs :
       /\ PopItem(Master, j)
       /\ job' = [job EXCEPT ![Master] = j]
       /\ Goto(Master, CASE op = "AbortAll" -> "aborting"
                         [] op = "ExecuteToPriority" /\ j \notin filter -> "keep"
                         [] OTHER -> "check")
  /\ UNCHANGED <<jobVars, workerVars, opVars, poolVars, iThread>>
-----------------------------------------------------------------------------
\* YieldWait for one job, which the caller has added; it does not wait while
\* it has suspended the pool.
YieldWait(j) ==
  /\ ~stopped /\ m_nSuspend = 0 /\ m_status[j] # "UNSERVICED"
  /\ Begin("YieldWait", j, {}, JP_LOW, "yield")
  /\ UNCHANGED <<jqVars, jobVars, workerVars, poolVars, job, iThread>>

\* YieldWait: the wait of no time, and a job of the shared queue if the one it
\* waits for is not finished; with none to be had it waits for good.
Yield ==
  /\ pc[Master] = "yield"
  /\ \/ IsFinished(subject) /\ Return /\ UNCHANGED jqVars
     \/ /\ ~IsFinished(subject) /\ TakePermit(Master, SharedQueue)
        /\ Goto(Master, "search") /\ UNCHANGED <<opVars, iThread>>
     \/ /\ ~IsFinished(subject) /\ Refused(Master, SharedQueue)
        /\ Goto(Master, "asleep") /\ UNCHANGED <<jqVars, opVars, iThread>>
  /\ UNCHANGED <<jobVars, workerVars, poolVars, job>>

\* YieldWait: the job's m_CompleteEvent was set.
YieldDone ==
  /\ pc[Master] = "asleep" /\ IsFinished(subject)
  /\ Return
  /\ UNCHANGED <<jqVars, jobVars, workerVars, poolVars, job>>

\* CJob::Execute and CJob::Abort, called by the owner for a job it has added.
OwnerCall(name, j, l) ==
  /\ m_status[j] \in {"PENDING", "INPROGRESS"}
  /\ Begin(name, j, {}, JP_LOW, l)
  /\ job' = [job EXCEPT ![Master] = j]
  /\ UNCHANGED <<jqVars, jobVars, workerVars, poolVars, iThread>>

\* Stop: a thread that has ended is deleted, with the queue of its own.
Join ==
  /\ pc[Master] = "join"
  /\ pc[m_Threads[iThread]] = "gone"
  /\ Empty(m_Threads[iThread])
  /\ NextThread("join", "flush")
  /\ UNCHANGED <<jobVars, workerVars, opVars, poolVars, job>>

\* The places of a queue where a job is, and how many they are.
Places(q, j) ==
  UNION {{<<q, i>>} \X {k \in DOMAIN m_pQueues[q][i] : m_pQueues[q][i][k] = j} : i \in Priorities}
Entries(q, j) == Cardinality(Places(q, j))

\* Stop: Flush aborts and releases what is left in the shared queue.
Flush ==
  /\ pc[Master] = "flush"
  /\ Empty(SharedQueue)
  /\ m_status' = [j \in Jobs |-> IF Entries(SharedQueue, j) > 0 /\ CanExecute(j)
                                 THEN "ABORTED" ELSE m_status[j]]
  /\ m_nRefs' = [j \in Jobs |-> m_nRefs[j] - Entries(SharedQueue, j)]
  /\ m_nJobs' = 0 /\ stopped' = TRUE
  /\ Return
  /\ UNCHANGED <<m_priority, m_mutex, executions, workerVars, m_nSuspend, job>>

\* The calls of the master.
MasterCalls ==
  \/ \E j \in Jobs :
       \/ AddJob(j) \/ YieldWait(j)
       \/ OwnerCall("Execute", j, "check") \/ OwnerCall("Abort", j, "aborting")
       \/ \E p \in Priorities : ChangePriority(j, p)
  \/ \E p \in Priorities, fltr \in {Jobs, SerialJobs} : ExecuteToPriority(p, fltr)
  \/ SuspendExecution \/ AbortAll \/ Stop

\* The steps of a call that was begun.
MasterContinues ==
  \/ Count \/ CallWorker \/ AwaitSuspended \/ Suspended \/ ResumeAndReturn
  \/ PopToAbort \/ AbortJob \/ PopToExecute \/ KeepJob \/ PutBack \/ MasterTakeJob
  \/ Yield \/ YieldDone \/ Join \/ Flush
  \/ ServiceJob(Master)

PoolNext ==
  \/ \E w \in Workers : WorkerNext(w)
  \/ MasterCalls \/ MasterContinues \/ ResumeExecution

PoolSpec == PoolInit /\ [][PoolNext]_vars

\* The scheduler runs every thread that can run, a job that is executed ends,
\* and a caller that has suspended the pool resumes it.
PoolFairness ==
  /\ \A w \in Workers : WF_vars(WorkerNext(w))
  /\ WF_vars(MasterContinues)
  /\ WF_vars(ResumeExecution)

FairPoolSpec == PoolSpec /\ PoolFairness
-----------------------------------------------------------------------------
Labels == {"ready", "wait", "called", "replied", "suspended", "exiting", "gone",
           "direct", "shared", "search", "check", "lock", "run", "release",
           "count", "call", "await", "suspend", "resume", "abort", "aborting", "drain",
           "keep", "putback", "yield", "asleep", "join", "flush"}

\* The types of the variables; the mutex of a job has an owner exactly while
\* the job is executed, and no more calls are made than the bound allows.
TypeOK ==
  /\ JQTypeOK
  /\ pc \in [Threads -> Labels]
  /\ job \in [Threads -> Jobs \cup {NoJob}]
  /\ bTookJob \in [Workers -> BOOLEAN]
  /\ m_EventSend \in [Workers -> {"none", "TPM_EXIT", "TPM_SUSPEND"}]
  /\ m_NotSuspendedEvent \in [Workers -> BOOLEAN]
  /\ m_status \in [Jobs -> {"UNSERVICED", "PENDING", "INPROGRESS", "OK", "ABORTED"}]
  /\ m_priority \in [Jobs -> Priorities]
  /\ m_mutex \in [Jobs -> Threads \cup {NoThread}]
  /\ \A j \in Jobs : m_mutex[j] # NoThread <=> m_status[j] = "INPROGRESS"
  /\ m_nRefs \in [Jobs -> Nat] /\ executions \in [Jobs -> Nat]
  /\ m_nJobs \in Int /\ m_nSuspend \in Nat /\ stopped \in BOOLEAN
  /\ putBack \in Seq(Jobs) /\ iThread \in 1..Len(ExecuteOrder)
  /\ calls \in 0..MaxCalls

\* A job is executed at most once, and not at all once it is aborted, however
\* many queues it is in, whoever else services it and whenever its owner
\* executes or aborts it ("TryLock() would only fail if another thread has
\* entered Execute() or Abort()").
ExecutedOnce ==
  \A j \in Jobs : executions[j] <= IF m_status[j] = "ABORTED" THEN 0 ELSE 1

\* The threads that will release a reference when they are done with the job:
\* AddJob, Execute and Abort only use that of their caller.
Holders(j) ==
  {t \in Threads : job[t] = j /\ ~(t = Master /\ op \in {"AddJob", "Execute", "Abort"})}

\* Every place of a queue that holds a job, every thread that will release one
\* and every job to put back has a reference of its own beside the owner's: no
\* job is freed before the last of them is done with it.
ReferencesCover ==
  \A j \in Jobs :
    m_nRefs[j] > Cardinality(UNION {Places(q, j) : q \in Queues}) + Cardinality(Holders(j))
                 + Cardinality({k \in DOMAIN putBack : putBack[k] = j})

\* While the pool is suspended all workers sleep, in nested suspensions and
\* while AbortAll and ExecuteToPriority empty the queues as well.
SuspendedMeansIdle ==
  m_nSuspend > 0 => \A w \in Workers : pc[w] = "suspended" /\ ~m_NotSuspendedEvent[w]

\* When the pool is not suspended no worker sleeps, or is about to fall
\* asleep, without its event set: nobody would wake it.
NoneLeftAsleep ==
  (m_nSuspend = 0 /\ pc[Master] \notin {"call", "await", "suspend"}) =>
    \A w \in Workers : pc[w] # "replied" /\ (pc[w] = "suspended" => m_NotSuspendedEvent[w])

\* When AbortAll has emptied the queues, nothing waits in any of them.
AbortAllTakesAll ==
  (op = "AbortAll" /\ pc[Master] = "resume") =>
    \A q \in Queues : Stock(q, JP_HIGH) = 0 /\ m_nItems[q] = 0

\* A job that was added is executed or aborted in the end, unless it is still
\* in the queue of a worker when the pool stops.
JobsFinish ==
  \A j \in Jobs :
    m_status[j] \in {"PENDING", "INPROGRESS"} ~>
      (IsFinished(j) \/ (stopped /\ j \in SerialJobs))
=============================================================================
