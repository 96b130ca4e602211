------------------------------ MODULE WorkerJobs ------------------------------
(***************************************************************************)
(* The periodic jobs of the worker processes: the loop of workers/main.py   *)
(* (and of workers/tracking_poller.py, which registers one job), the due    *)
(* test of WorkerScheduler.tick, and the Redis lock that every job takes    *)
(* around its body (SET key NX EX ttl, finally DELETE key).                 *)
(*                                                                         *)
(* Time is counted in pauses of the main loop (30 seconds).  What a job     *)
(* does is the matter of the modules Dispatch, Cancellations and Tracking;  *)
(* here it begins, and ends or raises.                                      *)
(***************************************************************************)
EXTENDS Integers

CONSTANTS
  Procs,     \* worker processes (replicas)
  NJobs,     \* registered jobs, in the order of scheduler.register
  Interval,  \* interval of each job, in pauses
  NameOf,    \* fn.__name__ of each job, its key in _last_run
  Free,      \* the lock's key does not exist
  Slowest    \* bound: pauses that pass from one tick to the next

Jobs == 1..NJobs
Names == {NameOf[j] : j \in Jobs}
Longest == CHOOSE d \in {Interval[j] : j \in Jobs} : \A j \in Jobs : Interval[j] <= d

ASSUME JobsAssumption ==
  /\ NJobs \in Nat \ {0} /\ Slowest \in Nat \ {0} /\ Free \notin Procs
  /\ Interval \in [Jobs -> Nat \ {0}]

VARIABLES
  main,     \* the main thread of each process
  since,    \* time.monotonic() - _last_run[name] when the tick began
  lock,     \* the key of each job's lock: who set it, or Free
  overrun   \* jobs of which some run has outlived its key

vars == <<main, since, lock, overrun>>

\* Down, pausing, looking at job k of the tick, or inside its body; gap is the
\* time from the last tick to this one; ran is the job whose body began last
\* in this tick, raised whether some job of it raised.
Threads == [pc: {"down", "pause", "look", "body"}, k: 1..NJobs + 1,
            gap: 1..Slowest, ran: 0..NJobs, raised: BOOLEAN]
Down == [pc |-> "down", k |-> 1, gap |-> 1, ran |-> 0, raised |-> FALSE]
Ages == 0..Longest

\* A new process has run nothing: _last_run is 0.0, so every job is due.
Never == [n \in Names |-> Longest]

Init ==
  /\ main = [p \in Procs |-> Down]
  /\ since = [p \in Procs |-> Never]
  /\ lock = [j \in Jobs |-> Free]
  /\ overrun = {}

Start(p) ==
  /\ main[p].pc = "down"
  /\ main' = [main EXCEPT ![p] = [Down EXCEPT !.pc = "look"]]
  /\ since' = [since EXCEPT ![p] = Never]
  /\ UNCHANGED <<lock, overrun>>

\* The process is killed; the key of a job it was running stays.
Die(p) ==
  /\ main[p].pc # "down"
  /\ main' = [main EXCEPT ![p] = Down]
  /\ UNCHANGED <<since, lock, overrun>>

-----------------------------------------------------------------------------
(* tick: the registered jobs in order.                                       *)

Looking(p) == main[p].pc = "look" /\ main[p].k \in Jobs

Due(p, j) == since[p][NameOf[j]] >= Interval[j]

ToNext(p) == main' = [main EXCEPT ![p].pc = "look", ![p].k = @ + 1]

\* _last_run[fn.__name__] := now, the time this tick began.
MarkRun(p, j) == since' = [since EXCEPT ![p][NameOf[j]] = 0]

NotDue(p) ==
  /\ Looking(p) /\ ~Due(p, main[p].k)
  /\ ToNext(p)
  /\ UNCHANGED <<since, lock, overrun>>

\* Another process holds the lock: the job returns, which counts as a run.
LockedOut(p) ==
  LET j == main[p].k IN
  /\ Looking(p) /\ Due(p, j) /\ lock[j] # Free
  /\ ToNext(p) /\ MarkRun(p, j)
  /\ UNCHANGED <<lock, overrun>>

\* Mutant of Enter: SET without NX.
Enter_Overwrites(p) ==
  LET j == main[p].k IN
  /\ Looking(p) /\ Due(p, j)
  /\ lock' = [lock EXCEPT ![j] = p]
  /\ main' = [main EXCEPT ![p].pc = "body", ![p].ran = j]
  /\ UNCHANGED <<since, overrun>>

Enter(p) ==
  LET j == main[p].k IN
  /\ Looking(p) /\ Due(p, j) /\ lock[j] = Free
  /\ lock' = [lock EXCEPT ![j] = p]
  /\ main' = [main EXCEPT ![p].pc = "body", ![p].ran = j]
  /\ UNCHANGED <<since, overrun>>

\* finally: r.delete(key), whoever has set it by now.
Release(p) == lock' = [lock EXCEPT ![main[p].k] = Free]

Leave(p) ==
  /\ main[p].pc = "body"
  /\ Release(p) /\ ToNext(p) /\ MarkRun(p, main[p].k)
  /\ UNCHANGED overrun

\* The body, or the SET itself, raises: the job is not marked as run.
Raise(p) ==
  /\ \/ main[p].pc = "body" /\ Release(p)
     \/ Looking(p) /\ Due(p, main[p].k) /\ UNCHANGED lock
  /\ main' = [main EXCEPT ![p].pc = "look", ![p].k = @ + 1, ![p].raised = TRUE]
  /\ UNCHANGED <<since, overrun>>

\* The tick is over and the loop waits 30 seconds; gap counts the tick too.
Pause(p) ==
  /\ main[p].pc = "look" /\ main[p].k = NJobs + 1
  /\ main' = [main EXCEPT ![p].pc = "pause"]
  /\ UNCHANGED <<since, lock, overrun>>

\* Mutant of Wake: the clock of the due test stands still.
Wake_NoTime(p) ==
  /\ main[p].pc = "pause"
  /\ main' = [main EXCEPT ![p] = [Down EXCEPT !.pc = "look"]]
  /\ UNCHANGED <<since, lock, overrun>>

Wake(p) ==
  /\ main[p].pc = "pause"
  /\ \E gap \in 1..Slowest :
       /\ main' = [main EXCEPT ![p] = [Down EXCEPT !.pc = "look", !.gap = gap]]
       /\ since' = [since EXCEPT ![p] = [n \in Names |->
            IF @[n] + gap > Longest THEN Longest ELSE @[n] + gap]]
  /\ UNCHANGED <<lock, overrun>>

\* The key's time to live is over.
Expire(j) ==
  /\ lock[j] # Free
  /\ lock' = [lock EXCEPT ![j] = Free]
  /\ overrun' = IF main[lock[j]].pc = "body" /\ main[lock[j]].k = j
                THEN overrun \cup {j} ELSE overrun
  /\ UNCHANGED <<main, since>>

-----------------------------------------------------------------------------
Loop(p) ==
  \/ NotDue(p) \/ LockedOut(p) \/ Enter(p) \/ Leave(p) \/ Raise(p)
  \/ Pause(p) \/ Wake(p)

Next ==
  \/ \E p \in Procs : Start(p) \/ Die(p) \/ Loop(p)
  \/ \E j \in Jobs : Expire(j)

Spec == Init /\ [][Next]_vars

\* Processes are restarted and their threads run; keys expire.
Fairness ==
  /\ \A p \in Procs : WF_vars(Loop(p)) /\ WF_vars(Start(p))
  /\ \A j \in Jobs : WF_vars(Expire(j))

FairSpec == Spec /\ Fairness

-----------------------------------------------------------------------------
\* Every variable has its type.
TypeOK ==
  /\ main \in [Procs -> Threads]
  /\ since \in [Procs -> [Names -> Ages]]
  /\ lock \in [Jobs -> Procs \cup {Free}]
  /\ overrun \subseteq Jobs

InBody(p, j) == main[p].pc = "body" /\ main[p].k = j

\* Two processes are inside the same job only when some run of it has outlived
\* its key: a death, a restart or an exception never opens the lock to two.
OverlapNeedsOverrun ==
  \A j \in Jobs \ overrun, p, q \in Procs : InBody(p, j) /\ InBody(q, j) => p = q

Well(p) == main[p].pc # "down" /\ ~main[p].raised
Begins(p, j) == main[p].ran = j \/ lock[j] # Free

\* In a process that lives, whose jobs stop raising and whose ticks get short, a
\* job whose interval is the pause itself, and which every job before it
\* exceeds, begins again and again or finds its lock taken.  The fairness of
\* Cancellations rests on this.
ShortestJobRecurs ==
  \A p \in Procs, j \in Jobs :
    Interval[j] = 1 /\ (\A i \in 1..(j-1) : Interval[i] > 1) =>
      ([]<>~(Well(p) /\ main[p].gap = 1)) \/ []<>Begins(p, j)

\* What scheduler.register asks for: in a process that lives and whose jobs stop
\* raising, every job begins again and again or finds its lock taken.
EveryJobRecurs == \A p \in Procs, j \in Jobs : ([]<>~Well(p)) \/ []<>Begins(p, j)

=============================================================================
