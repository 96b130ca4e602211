---------------------------- MODULE DispatchPolling ----------------------------
(***************************************************************************)
(* The queue of Dispatch behind the scheduler of WorkerJobs: the poller is a *)
(* thread that runs the job dispatch_orders (run_once) when the scheduler   *)
(* gets to it, between the other jobs of its process.  The stream consumer  *)
(* and the administration run jobs of their own accord, and need not: the   *)
(* message of a new job may fail to be published, a delayed one has none.   *)
(***************************************************************************)
EXTENDS Dispatch

CONSTANTS
  Pollers,   \* worker processes, each the thread of its scheduler among Workers
  NJobs, Interval, NameOf, Slowest,  \* as in WorkerJobs
  PollJob    \* the place of dispatch_orders among the registered jobs

VARIABLES main, since, jobLock, overrun  \* as in WorkerJobs, lock renamed

J == INSTANCE WorkerJobs WITH Procs <- Pollers, lock <- jobLock

SchedulerVars == <<main, since, jobLock, overrun>>
allVars == <<vars, SchedulerVars>>

PollingInit == Init /\ J!Init

InPoll(p) == main[p].pc = "body" /\ main[p].k = PollJob
DueJobs == {<<o, i>> \in Orders \X Slots : job[o][i].st = "queued" /\ job[o][i].due}

\* run_once takes what is due, one job after the other.
Poll(p) ==
  /\ InPoll(p)
  /\ \E o \in Orders, i \in Slots : PollPick(p, o, i)
  /\ UNCHANGED SchedulerVars

Work(w) == Progress(w) /\ UNCHANGED SchedulerVars

\* The loop of the process; dispatch_orders returns when nothing due is left.
Schedule(p) ==
  /\ wk[p].pc = "idle"
  /\ \/ J!Start(p) \/ J!Raise(p)
     \/ J!Loop(p) /\ (InPoll(p) => DueJobs = {})
  /\ UNCHANGED vars

ProcessDies(p) ==
  /\ J!Die(p)
  /\ \/ Crash(p)
     \/ /\ wk[p].pc \in {"idle", "picked"}
        /\ wk' = [wk EXCEPT ![p] = IdleWorker]
        /\ UNCHANGED <<DbVars, lock, se, CarrierVars, Bounds>>

Expires(j) == J!Expire(j) /\ UNCHANGED vars

Elsewhere ==
  /\ \/ \E w \in Workers \ Pollers, o \in Orders :
          RetryRead(w, o) \/ \E i \in Slots : StreamPick(w, o, i)
     \/ \E w \in Workers \ Pollers : Crash(w)
     \/ \E s \in Sessions : SessionStep(s)
     \/ \E o \in Orders : Reschedule(o)
  /\ UNCHANGED SchedulerVars

TimePasses(o, i) == ComesDue(o, i) /\ UNCHANGED SchedulerVars

PollingNext ==
  \/ \E p \in Pollers : Poll(p) \/ Schedule(p) \/ ProcessDies(p)
  \/ \E w \in Workers : Work(w)
  \/ \E j \in 1..NJobs : Expires(j)
  \/ \E o \in Orders, i \in Slots : TimePasses(o, i)
  \/ Elsewhere

PollingSpec == PollingInit /\ [][PollingNext]_allVars

\* Threads run, processes are restarted, calls of the carrier time out, delays
\* run out and keys expire.  Nobody has to click anything, and no message of
\* the stream has to arrive.
PollingFairness ==
  /\ \A w \in Workers : WF_allVars(Work(w))
  /\ \A p \in Pollers : WF_allVars(Poll(p)) /\ WF_allVars(Schedule(p))
  /\ \A j \in 1..NJobs : WF_allVars(Expires(j))
  /\ \A o \in Orders, i \in Slots : WF_allVars(TimePasses(o, i))

FairPolling == PollingSpec /\ PollingFairness

-----------------------------------------------------------------------------
\* What admin_approve counts on when the stream fails ("fallback polling will
\* handle it"): while some worker process lives and its jobs do not raise, an
\* order leaves dispatch_queued, unless a worker died over it or could not
\* record its failure.
QueueDrains ==
  (\E p \in Pollers : <>[]J!Well(p)) =>
    \A o \in Orders : status[o] = "dispatch_queued" ~>
      status[o] # "dispatch_queued" \/ o \in stranded

=============================================================================
