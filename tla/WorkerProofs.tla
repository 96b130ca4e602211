----------------------------- MODULE WorkerProofs -----------------------------
(***************************************************************************)
(* What the threads of the worker processes keep: the locks of the jobs,    *)
(* and the messages of the mail stream.                                     *)
(*                                                                         *)
(* Two processes are inside one job only after an overrun, for any number   *)
(* of processes and jobs, any intervals and any names.                      *)
(*                                                                         *)
(* OverlapNeedsOverrun is not inductive: it does not say why a third party  *)
(* finds the lock taken.  HolderIsInside does: while no run of a job has    *)
(* outlived its key, whoever is inside the job is the one whose key it is.  *)
(* So the unconditional DELETE of a run that ends removes its own key, and  *)
(* a key that expires with nobody inside lets one process in.               *)
(*                                                                         *)
(* The mail stream (below, from MailInv on) sends nothing twice without a   *)
(* lost answer and forgets nothing, for any number of hosts, messages,      *)
(* faults and deaths: every message sent once and still pending is the one  *)
(* its only possible thread is about to acknowledge.                        *)
(***************************************************************************)
EXTENDS WorkerJobs, MailStream, TLAPS, WellFoundedInduction

LockTypes ==
  /\ main \in [Procs -> Threads]
  /\ \A p \in Procs : main[p].pc = "body" => main[p].k \in Jobs
  /\ lock \in [Jobs -> Procs \cup {Free}]
  /\ overrun \subseteq Jobs

HolderIsInside ==
  \A p \in Procs, j \in Jobs \ overrun : InBody(p, j) => lock[j] = p

LockInv == LockTypes /\ HolderIsInside

\* What a step of p makes of its thread.
Becomes(p, t) == main' = [main EXCEPT ![p] = t]

-----------------------------------------------------------------------------
\* A step that leaves the locks alone and lets p into no job.
LEMMA QuietStep ==
  ASSUME LockInv, NEW p \in Procs, NEW t \in Threads, t.pc # "body",
         Becomes(p, t), UNCHANGED <<lock, overrun>>
  PROVE  LockInv'
<1>1. LockTypes'
  BY DEF LockInv, LockTypes, Becomes
<1>2. \A q \in Procs, j \in Jobs : InBody(q, j)' => InBody(q, j)
  BY DEF LockInv, LockTypes, Becomes, InBody
<1>3. QED BY <1>1, <1>2 DEF LockInv, HolderIsInside

\* p ends a run, or fails to begin one: the key of the job is deleted.
LEMMA ReleaseStep ==
  ASSUME LockInv, NEW p \in Procs, main[p].pc = "body", Release(p),
         NEW t \in Threads, t.pc # "body", Becomes(p, t), UNCHANGED overrun
  PROVE  LockInv'
<1> DEFINE k == main[p].k
<1>1. k \in Jobs /\ lock' = [lock EXCEPT ![k] = Free]
  BY DEF LockInv, LockTypes, Release
<1>2. LockTypes'
  BY <1>1 DEF LockInv, LockTypes, Becomes
<1>3. HolderIsInside'
  <2> SUFFICES ASSUME NEW q \in Procs, NEW j \in Jobs, j \notin overrun, InBody(q, j)'
               PROVE  lock'[j] = q
    BY DEF HolderIsInside
  <2>1. q # p /\ InBody(q, j)
    BY DEF LockInv, LockTypes, Becomes, InBody
  <2>2. lock[j] = q
    BY <2>1 DEF LockInv, HolderIsInside
  <2>3. j # k
    <3>1. k = j => lock[j] = p
      BY <1>1 DEF LockInv, HolderIsInside, InBody
    <3>2. QED BY <2>1, <2>2, <3>1
  <2>4. QED BY <1>1, <2>2, <2>3 DEF LockInv, LockTypes
<1>4. QED BY <1>2, <1>3 DEF LockInv

LEMMA EnterStep ==
  ASSUME LockInv, NEW p \in Procs, Enter(p)
  PROVE  LockInv'
<1> USE JobsAssumption DEF JobsAssumption
<1> DEFINE k == main[p].k
<1>1. k \in Jobs /\ lock[k] = Free /\ lock' = [lock EXCEPT ![k] = p] /\ UNCHANGED overrun
  BY DEF Enter, Looking
<1>2. PICK t \in Threads : t.pc = "body" /\ t.k = k /\ Becomes(p, t)
  <2> DEFINE t == [main[p] EXCEPT !.pc = "body", !.ran = k]
  <2>1. t \in Threads
    <3>1. main[p] \in Threads /\ k \in 0..NJobs
      BY <1>1 DEF LockInv, LockTypes, Jobs
    <3>2. ASSUME NEW x \in Threads, NEW ran \in 0..NJobs
          PROVE  [x EXCEPT !.pc = "body", !.ran = ran] \in Threads
      BY DEF Threads
    <3>3. QED BY <3>1, <3>2
  <2>2. main' = [main EXCEPT ![p] = t]
    BY DEF Enter, LockInv, LockTypes
  <2>3. t.pc = "body" /\ t.k = k
    BY DEF LockInv, LockTypes, Threads
  <2> HIDE DEF t
  <2>4. QED BY <2>1, <2>2, <2>3 DEF Becomes
<1>3. LockTypes'
  BY <1>1, <1>2 DEF LockInv, LockTypes, Becomes
<1>4. HolderIsInside'
  <2> SUFFICES ASSUME NEW q \in Procs, NEW j \in Jobs, j \notin overrun, InBody(q, j)'
               PROVE  lock'[j] = q
    BY <1>1 DEF HolderIsInside
  <2>1. CASE q = p
    <3>1. j = k
      BY <1>2, <2>1 DEF LockInv, LockTypes, Becomes, InBody
    <3>2. QED BY <1>1, <2>1, <3>1 DEF LockInv, LockTypes
  <2>2. CASE q # p
    <3>1. InBody(q, j)
      BY <1>2, <2>2 DEF LockInv, LockTypes, Becomes, InBody
    <3>2. lock[j] = q
      BY <3>1 DEF LockInv, HolderIsInside
    <3>3. j # k
      BY <1>1, <3>2
    <3>4. QED BY <1>1, <3>2, <3>3 DEF LockInv, LockTypes
  <2>3. QED BY <2>1, <2>2
<1>5. QED BY <1>3, <1>4 DEF LockInv

LEMMA ExpireStep ==
  ASSUME LockInv, NEW k \in Jobs, Expire(k)
  PROVE  LockInv'
<1>1. LockTypes'
  BY DEF Expire, LockInv, LockTypes
<1>2. HolderIsInside'
  <2> SUFFICES ASSUME NEW q \in Procs, NEW j \in Jobs, j \notin overrun', InBody(q, j)'
               PROVE  lock'[j] = q
    BY DEF HolderIsInside
  <2>1. j \notin overrun /\ InBody(q, j)
    BY DEF Expire, InBody
  <2>2. lock[j] = q
    BY <2>1 DEF LockInv, HolderIsInside
  <2>3. j # k
    BY <2>1, <2>2 DEF Expire, InBody
  <2>4. QED BY <2>2, <2>3 DEF Expire, LockInv, LockTypes
<1>3. QED BY <1>1, <1>2 DEF LockInv

\* The thread at the beginning of a tick.
LEMMA LookingIsAThread ==
  /\ [Down EXCEPT !.pc = "look"] \in Threads /\ [Down EXCEPT !.pc = "look"].pc # "body"
  /\ \A gap \in 1..Slowest :
       LET t == [Down EXCEPT !.pc = "look", !.gap = gap] IN t \in Threads /\ t.pc # "body"
<1>1. Down \in Threads
  BY JobsAssumption DEF JobsAssumption, Down, Threads
<1>2. ASSUME NEW t \in Threads PROVE [t EXCEPT !.pc = "look"] \in Threads
  BY DEF Threads
<1>3. ASSUME NEW t \in Threads, NEW gap \in 1..Slowest
      PROVE  [t EXCEPT !.pc = "look", !.gap = gap] \in Threads
  BY DEF Threads
<1>4. ASSUME NEW t \in Threads PROVE [t EXCEPT !.pc = "look"].pc # "body"
  BY DEF Threads
<1>5. ASSUME NEW t \in Threads, NEW gap \in 1..Slowest
      PROVE  [t EXCEPT !.pc = "look", !.gap = gap].pc # "body"
  BY DEF Threads
<1>6. QED BY <1>1, <1>2, <1>3, <1>4, <1>5

\* The thread that comes next, after a job or after none.
LEMMA NextThread ==
  ASSUME NEW t \in Threads, t.k \in Jobs, NEW raised \in BOOLEAN
  PROVE  [t EXCEPT !.pc = "look", !.k = t.k + 1, !.raised = raised] \in Threads
<1>1. t.k + 1 \in 1..NJobs + 1
  BY JobsAssumption DEF JobsAssumption, Jobs
<1>2. ASSUME NEW k \in 1..NJobs + 1
      PROVE  [t EXCEPT !.pc = "look", !.k = k, !.raised = raised] \in Threads
  BY DEF Threads
<1>3. QED BY <1>1, <1>2

LEMMA LockStep ==
  ASSUME LockInv, [Next]_vars
  PROVE  LockInv'
<1> USE JobsAssumption DEF JobsAssumption
<1>1. CASE UNCHANGED vars
  BY <1>1 DEF LockInv, LockTypes, HolderIsInside, InBody, vars
<1>2. ASSUME NEW p \in Procs, Start(p) \/ Die(p) \/ Loop(p) PROVE LockInv'
  <2>0. main \in [Procs -> Threads] /\ main[p] \in Threads
    BY DEF LockInv, LockTypes
  <2>1. ASSUME main[p].k \in Jobs, NEW raised \in BOOLEAN,
               main' = [main EXCEPT ![p].pc = "look", ![p].k = @ + 1, ![p].raised = raised]
        PROVE  \E t \in Threads : t.pc # "body" /\ Becomes(p, t)
    <3> DEFINE t == [main[p] EXCEPT !.pc = "look", !.k = main[p].k + 1, !.raised = raised]
    <3>1. t \in Threads
      BY <2>0, <2>1, NextThread
    <3>2. main' = [main EXCEPT ![p] = t]
      BY <2>0, <2>1
    <3>3. t.pc # "body"
      BY <2>0 DEF Threads
    <3> HIDE DEF t
    <3>4. QED BY <3>1, <3>2, <3>3 DEF Becomes
  <2>2. ASSUME main[p].k \in Jobs, ToNext(p)
        PROVE  \E t \in Threads : t.pc # "body" /\ Becomes(p, t)
    <3>1. main' = [main EXCEPT ![p].pc = "look", ![p].k = @ + 1, ![p].raised = main[p].raised]
      BY <2>0, <2>2 DEF ToNext, Threads
    <3>2. main[p].raised \in BOOLEAN
      BY <2>0 DEF Threads
    <3>3. QED BY <2>1, <2>2, <3>1, <3>2
  <2>3. CASE Start(p)
    BY <2>3, LookingIsAThread, QuietStep DEF Start, Becomes
  <2>4. CASE Die(p)
    <3>1. Down \in Threads /\ Down.pc # "body"
      BY DEF Down, Threads
    <3>2. QED BY <2>4, <3>1, QuietStep DEF Die, Becomes
  <2>5. CASE NotDue(p) \/ LockedOut(p)
    <3>1. main[p].k \in Jobs /\ ToNext(p) /\ UNCHANGED <<lock, overrun>>
      BY <2>5 DEF NotDue, LockedOut, Looking
    <3>2. QED BY <2>2, <3>1, QuietStep
  <2>6. CASE Enter(p)
    BY <2>6, EnterStep
  <2>7. CASE Leave(p)
    <3>1. main[p].pc = "body" /\ Release(p) /\ ToNext(p) /\ UNCHANGED overrun
      BY <2>7 DEF Leave
    <3>2. main[p].k \in Jobs
      BY <3>1 DEF LockInv, LockTypes
    <3>3. QED BY <2>2, <3>1, <3>2, ReleaseStep
  <2>8. CASE Raise(p)
    <3>1. main[p].k \in Jobs
      BY <2>8 DEF Raise, Looking, LockInv, LockTypes
    <3>2. PICK t \in Threads : t.pc # "body" /\ Becomes(p, t)
      BY <2>1, <2>8, <3>1 DEF Raise
    <3>3. CASE main[p].pc = "body" /\ Release(p)
      BY <2>8, <3>2, <3>3, ReleaseStep DEF Raise
    <3>4. CASE UNCHANGED lock
      BY <2>8, <3>2, <3>4, QuietStep DEF Raise
    <3>5. QED BY <2>8, <3>3, <3>4 DEF Raise
  <2>9. CASE Pause(p)
    <3> DEFINE t == [main[p] EXCEPT !.pc = "pause"]
    <3>1. t \in Threads /\ t.pc # "body"
      BY <2>0 DEF Threads
    <3>2. Becomes(p, t) /\ UNCHANGED <<lock, overrun>>
      BY <2>0, <2>9 DEF Pause, Becomes
    <3> HIDE DEF t
    <3>3. QED BY <3>1, <3>2, QuietStep
  <2>10. CASE Wake(p)
    <3>1. PICK gap \in 1..Slowest : main' = [main EXCEPT ![p] = [Down EXCEPT !.pc = "look", !.gap = gap]]
      BY <2>10 DEF Wake
    <3> DEFINE t == [Down EXCEPT !.pc = "look", !.gap = gap]
    <3>2. t \in Threads /\ t.pc # "body"
      BY LookingIsAThread
    <3>3. Becomes(p, t) /\ UNCHANGED <<lock, overrun>>
      BY <2>10, <3>1 DEF Wake, Becomes
    <3> HIDE DEF t
    <3>4. QED BY <3>2, <3>3, QuietStep
  <2>11. QED
    BY <1>2, <2>3, <2>4, <2>5, <2>6, <2>7, <2>8, <2>9, <2>10 DEF Loop
<1>3. ASSUME NEW j \in Jobs, Expire(j) PROVE LockInv'
  BY <1>3, ExpireStep
<1>4. QED BY <1>1, <1>2, <1>3 DEF Next

\* Two processes are inside the same job only when some run of it has outlived
\* its key (the SET NX EX and finally DELETE of every job in workers/jobs).
THEOREM OneRunAtATime == Spec => []OverlapNeedsOverrun
<1>1. Init => LockInv
  <2>1. Down \in Threads /\ Down.pc # "body"
    BY JobsAssumption DEF JobsAssumption, Down, Threads
  <2>2. QED BY <2>1 DEF Init, LockInv, LockTypes, HolderIsInside, InBody
<1>2. LockInv /\ [Next]_vars => LockInv'
  BY LockStep
<1>3. LockInv => OverlapNeedsOverrun
  BY DEF LockInv, HolderIsInside, OverlapNeedsOverrun
<1>4. QED BY <1>1, <1>2, <1>3, PTL DEF Spec

-----------------------------------------------------------------------------
(* The consumer of the mail stream, a thread of the same processes.          *)

\* The numbers of messages are natural numbers.
LEMMA MailBounds == Batch \in Nat \ {0} /\ MaxMsgs \in Nat
BY MailAssumption DEF MailAssumption

USE MailBounds

MailTypes ==
  /\ published \in 0..MaxMsgs /\ delivered \in 0..published
  /\ pel \in [Hosts -> SUBSET Msgs] /\ con \in [Hosts -> Consumers]
  /\ sent \in [Msgs -> Nat]

\* What is pending has been delivered, to one name.
Delivered ==
  /\ \A h \in Hosts : pel[h] \subseteq 1..delivered
  /\ \A m \in Msgs : sent[m] > 0 => m <= delivered
  /\ \A g, h \in Hosts : g # h => pel[g] \cap pel[h] = {}

\* A thread works on what is pending under its name.
InHands ==
  \A h \in Hosts :
    /\ con[h].todo \subseteq pel[h]
    /\ con[h].cur # 0 => con[h].cur \in pel[h] /\ con[h].cur \notin con[h].todo
    /\ con[h].pc \notin {"recover", "batch"} => con[h].cur = 0 /\ con[h].todo = {}

\* An e-mail whose sending was not left open was sent once at most, and then
\* its message waits for nothing but its acknowledgement.
Sure ==
  \A m \in Msgs \ unsure :
    /\ sent[m] <= 1
    /\ sent[m] = 1 => \A h \in Hosts : /\ m \notin con[h].todo
                                       /\ m \in pel[h] => con[h].cur = m

\* A message about to be acknowledged was sent, or is being given up.
Owed ==
  \A h \in Hosts : con[h].cur # 0 =>
    IF con[h].ok THEN sent[con[h].cur] > 0 \/ con[h].cur \in blank
                 ELSE con[h].pc = "recover"

MailInv == MailTypes /\ Delivered /\ InHands /\ Sure /\ Owed /\ NoMailForgotten

\* Only the thread of host h moves.
Moves(h) == con' \in [Hosts -> Consumers] /\ \A g \in Hosts \ {h} : con'[g] = con[g]

LEMMA ThreadRecords ==
  ASSUME NEW pc \in {"off", "dead", "start", "recover", "idle", "batch"}, NEW todo \in SUBSET Msgs
  PROVE  /\ At(pc, todo) \in Consumers
         /\ At(pc, todo).pc = pc /\ At(pc, todo).todo = todo
         /\ At(pc, todo).cur = 0 /\ At(pc, todo).ok
<1>1. 0 \in 0..MaxMsgs
  OBVIOUS
<1>2. QED BY <1>1 DEF At, Consumers, Msgs

LEMMA ThreadBecomes ==
  ASSUME MailInv, NEW h \in Hosts, NEW c \in Consumers, con' = [con EXCEPT ![h] = c]
  PROVE  Moves(h) /\ con'[h] = c
BY DEF MailInv, MailTypes, Moves

\* A thread begins anew, ends, or leaves its message: whatever it had sent
\* without an acknowledgement is in doubt.
LEMMA Settles ==
  ASSUME MailInv, NEW h \in Hosts, Moves(h),
         con'[h].cur = 0, con'[h].todo \subseteq pel[h],
         con'[h].pc \notin {"recover", "batch"} => con'[h].todo = {},
         con'[h].pc \in {"recover", "idle", "batch"} => pel[h] \subseteq con'[h].todo \cup failed',
         UNCHANGED <<published, blank, pel, sent, dropped>>,
         failed \subseteq failed', unsure' = unsure \cup ({con[h].cur} \ {0}),
         \/ UNCHANGED <<delivered, missed>>
         \/ delivered' = published /\ missed' = 1..published
  PROVE  MailInv'
<1>0. delivered \in Nat /\ delivered' \in 0..published /\ delivered <= delivered'
  BY DEF MailInv, MailTypes
<1>1. MailTypes'
  BY <1>0 DEF MailInv, MailTypes, Moves
<1>2. Delivered'
  <2>1. 1..delivered \subseteq 1..delivered'
    BY <1>0
  <2>2. \A m \in Msgs : m \in Nat
    BY DEF Msgs
  <2>3. QED BY <1>0, <2>1, <2>2 DEF MailInv, MailTypes, Delivered
<1>3. InHands'
  BY DEF MailInv, InHands, Moves
<1>4. Sure'
  <2> SUFFICES ASSUME NEW m \in Msgs, m \notin unsure'
               PROVE  /\ sent[m] <= 1
                      /\ sent[m] = 1 => \A g \in Hosts : /\ m \notin con'[g].todo
                                                         /\ m \in pel[g] => con'[g].cur = m
    BY DEF Sure
  <2>1. m \notin unsure /\ m # 0
    BY DEF Msgs
  <2>2. m # con[h].cur
    BY <2>1
  <2>3. sent[m] = 1 => m \notin pel[h]
    BY <2>1, <2>2 DEF MailInv, Sure
  <2>4. QED BY <2>1, <2>3 DEF MailInv, Sure, Moves
<1>5. Owed'
  BY DEF MailInv, Owed, Moves
<1>6. NoMailForgotten'
  <2>1. \A m \in 1..delivered' : \/ m \in missed' \cup blank' \cup dropped' \/ sent'[m] > 0
                                 \/ \E g \in Hosts : m \in pel'[g]
    BY DEF MailInv, NoMailForgotten
  <2>2. \A g \in Hosts : con'[g].pc \in {"recover", "idle", "batch"} =>
          pel'[g] \subseteq con'[g].todo \cup {con'[g].cur} \cup failed'
    BY DEF MailInv, NoMailForgotten, Moves
  <2>3. QED BY <2>1, <2>2 DEF NoMailForgotten
<1>7. QED BY <1>1, <1>2, <1>3, <1>4, <1>5, <1>6 DEF MailInv

LEMMA PublishStep ==
  ASSUME MailInv, Publish
  PROVE  MailInv'
<1>1. /\ published' = published + 1 /\ published < MaxMsgs /\ blank \subseteq blank'
      /\ UNCHANGED <<delivered, pel, con, sent, missed, failed, dropped, unsure>>
  BY DEF Publish
<1>2. MailTypes'
  BY <1>1 DEF MailInv, MailTypes
<1>3. Delivered' /\ InHands' /\ Sure'
  BY <1>1 DEF MailInv, Delivered, InHands, Sure
<1>4. Owed'
  BY <1>1 DEF MailInv, Owed
<1>5. NoMailForgotten'
  BY <1>1 DEF MailInv, NoMailForgotten
<1>6. QED BY <1>2, <1>3, <1>4, <1>5 DEF MailInv

LEMMA ProcessSteps ==
  ASSUME MailInv, NEW h \in Hosts,
         Boot(h) \/ HostDies(h) \/ RestartThread(h) \/ RecoverRead(h) \/ Done(h)
  PROVE  MailInv'
<1>0. pel[h] \subseteq Msgs /\ 0 \notin pel[h]
  BY DEF MailInv, MailTypes, Msgs
<1>1. PICK pc \in {"off", "dead", "start", "recover", "idle", "batch"}, todo \in SUBSET Msgs :
        /\ con' = [con EXCEPT ![h] = At(pc, todo)]
        /\ todo \subseteq pel[h]
        /\ pc \notin {"recover", "batch"} => todo = {}
        /\ pc \in {"recover", "idle", "batch"} => pel[h] \subseteq todo \cup failed
  <2>1. CASE Boot(h) \/ RestartThread(h)
    BY <2>1 DEF Boot, RestartThread
  <2>2. CASE HostDies(h)
    <3>1. con' = [con EXCEPT ![h] = At("off", {})]
      BY <2>2 DEF HostDies, Off
    <3>2. {} \in SUBSET Msgs /\ {} \subseteq pel[h]
      OBVIOUS
    <3>3. QED BY <3>1, <3>2
  <2>3. CASE RecoverRead(h)
    BY <1>0, <2>3 DEF RecoverRead
  <2>4. CASE Done(h)
    <3>1. pel[h] \subseteq con[h].todo \cup {con[h].cur} \cup failed
      BY <2>4 DEF MailInv, NoMailForgotten, Done, Working
    <3>2. pel[h] \subseteq failed
      BY <1>0, <2>4, <3>1 DEF Done, Working
    <3>3. QED BY <2>4, <3>2 DEF Done
  <2>5. QED BY <2>1, <2>2, <2>3, <2>4
<1>2. Moves(h) /\ con'[h].cur = 0 /\ con'[h].todo = todo /\ con'[h].pc = pc
  <2> DEFINE c == At(pc, todo)
  <2>1. c \in Consumers /\ c.pc = pc /\ c.todo = todo /\ c.cur = 0
    BY ThreadRecords
  <2>2. con' = [con EXCEPT ![h] = c]
    BY <1>1
  <2> HIDE DEF c
  <2>3. QED BY <2>1, <2>2, ThreadBecomes
<1>3. /\ UNCHANGED <<published, blank, pel, sent, dropped, failed>>
      /\ \/ UNCHANGED <<delivered, missed>>
         \/ delivered' = published /\ missed' = 1..published
  BY DEF Boot, HostDies, RestartThread, RecoverRead, Done, log
<1>4. unsure' = unsure \cup ({con[h].cur} \ {0})
  <2>1. CASE HostDies(h)
    BY <2>1 DEF HostDies
  <2>2. CASE ~HostDies(h)
    <3>1. con[h].cur = 0
      BY <2>2 DEF Boot, RestartThread, RecoverRead, Done, Working,
                  MailInv, InHands
    <3>2. UNCHANGED unsure
      BY <2>2 DEF Boot, RestartThread, RecoverRead, Done
    <3>3. QED BY <3>1, <3>2
  <2>3. QED BY <2>1, <2>2
<1>5. QED BY <1>1, <1>2, <1>3, <1>4, Settles

\* The least message of a batch is one of it.
LEMMA FirstIsTodo ==
  ASSUME MailInv, NEW h \in Hosts, con[h].todo # {}
  PROVE  First(h) \in con[h].todo
<1> DEFINE T == con[h].todo
<1>1. T \subseteq Nat /\ T # {}
  BY DEF MailInv, MailTypes, Consumers, Msgs
<1>2. \E x \in T : \A y \in T : x <= y
  <2> HIDE DEF T
  <2>1. PICK x \in T : \A y \in T : ~(<<y, x>> \in OpToRel(<, Nat))
    BY <1>1, WFMin, NatLessThanWellFounded, Zenon
  <2>2. ASSUME NEW y \in T
        PROVE  x <= y
    <3>1. y < x => <<y, x>> \in OpToRel(<, Nat)
      BY <1>1 DEF OpToRel
    <3>2. ~(y < x)
      BY <2>1, <3>1, Zenon
    <3>3. QED BY <1>1, <3>2
  <2>3. QED BY <2>2
<1>3. QED BY <1>2, Zenon DEF First

\* A thread takes the message m of its batch, and sends it or not.
LEMMA Takes ==
  ASSUME MailInv, NEW h \in Hosts, NEW m \in con[h].todo,
         con[h].cur = 0, con[h].pc \in {"recover", "batch"},
         Moves(h), con'[h].pc = con[h].pc, con'[h].todo = con[h].todo \ {m}, con'[h].cur \in {0, m},
         con'[h].cur = m \/ m \in failed',
         con'[h].cur # 0 => IF con'[h].ok THEN sent'[m] > 0 \/ m \in blank ELSE con[h].pc = "recover",
         sent' \in [Msgs -> Nat], sent'[m] >= sent[m], \A x \in Msgs \ {m} : sent'[x] = sent[x],
         m \in unsure' \/ sent'[m] = sent[m] \/ (sent'[m] = sent[m] + 1 /\ con'[h].cur = m),
         unsure \subseteq unsure', failed \subseteq failed',
         UNCHANGED <<published, blank, delivered, pel, missed, dropped>>
  PROVE  MailInv'
<1>0. /\ m \in pel[h] /\ m \in Msgs /\ m # 0 /\ m <= delivered
      /\ \A g \in Hosts \ {h} : m \notin pel[g] /\ m \notin con[g].todo
      /\ \A x \in Msgs : x # 0 /\ sent[x] \in Nat /\ sent'[x] \in Nat /\ sent'[x] >= sent[x]
  <2>1. m \in pel[h] /\ pel[h] \subseteq 1..delivered /\ pel[h] \subseteq Msgs
    BY DEF MailInv, MailTypes, InHands, Delivered
  <2>2. \A g \in Hosts \ {h} : pel[g] \cap pel[h] = {} /\ con[g].todo \subseteq pel[g]
    BY DEF MailInv, Delivered, InHands
  <2>3. \A x \in Msgs : sent[x] \in Nat /\ sent'[x] \in Nat /\ x # 0
    BY DEF MailInv, MailTypes, Msgs
  <2>4. delivered \in Nat
    BY DEF MailInv, MailTypes
  <2>5. QED BY <2>1, <2>2, <2>3, <2>4
<1>1. MailTypes'
  BY DEF MailInv, MailTypes, Moves
<1>2. Delivered'
  BY <1>0 DEF MailInv, Delivered
<1>3. InHands'
  BY <1>0 DEF MailInv, InHands, Moves
<1>4. Sure'
  <2> SUFFICES ASSUME NEW x \in Msgs, x \notin unsure'
               PROVE  /\ sent'[x] <= 1
                      /\ sent'[x] = 1 => \A g \in Hosts : /\ x \notin con'[g].todo
                                                          /\ x \in pel[g] => con'[g].cur = x
    BY DEF Sure
  <2>1. /\ sent[x] <= 1
        /\ sent[x] = 1 => \A g \in Hosts : /\ x \notin con[g].todo
                                           /\ x \in pel[g] => con[g].cur = x
    BY DEF MailInv, Sure
  <2>0. x # 0 /\ con[h].cur = 0
    BY <1>0
  <2>2. CASE x = m
    <3>0. sent[m] \in Nat /\ sent[m] <= 1 /\ sent[m] # 1
      BY <1>0, <2>1, <2>2
    <3>1. sent[m] = 0
      BY <3>0
    <3>2. sent'[m] = 0 \/ (sent'[m] = 1 /\ con'[h].cur = m)
      BY <2>2, <3>1
    <3>3. \A g \in Hosts : m \notin con'[g].todo /\ (m \in pel[g] => g = h)
      BY <1>0 DEF Moves
    <3>4. QED BY <2>2, <3>2, <3>3
  <2>3. CASE x # m
    <3>1. sent'[x] = sent[x]
      BY <2>3
    <3>2. sent[x] = 1 => x \notin pel[h]
      BY <2>0, <2>1
    <3>3. QED BY <2>1, <2>3, <3>1, <3>2 DEF Moves
  <2>4. QED BY <2>2, <2>3
<1>5. Owed'
  <2> SUFFICES ASSUME NEW g \in Hosts, con'[g].cur # 0
               PROVE  IF con'[g].ok THEN sent'[con'[g].cur] > 0 \/ con'[g].cur \in blank
                                    ELSE con'[g].pc = "recover"
    BY DEF Owed
  <2>1. CASE g = h
    BY <2>1
  <2>2. CASE g # h
    <3>1. con'[g] = con[g]
      BY <2>2 DEF Moves
    <3>2. con[g].cur \in Msgs
      BY <3>1 DEF MailInv, MailTypes, InHands
    <3>3. IF con[g].ok THEN sent[con[g].cur] > 0 \/ con[g].cur \in blank
                       ELSE con[g].pc = "recover"
      BY <3>1 DEF MailInv, Owed
    <3>4. QED BY <1>0, <3>1, <3>2, <3>3
  <2>3. QED BY <2>1, <2>2
<1>6. NoMailForgotten'
  <2>0. 1..delivered \subseteq Msgs
    BY DEF MailInv, MailTypes, Msgs
  <2>1. \A x \in 1..delivered : \/ x \in missed' \cup blank' \cup dropped' \/ sent'[x] > 0
                                \/ \E g \in Hosts : x \in pel'[g]
    BY <1>0, <2>0 DEF MailInv, NoMailForgotten
  <2>2. \A g \in Hosts : con'[g].pc \in {"recover", "idle", "batch"} =>
          pel'[g] \subseteq con'[g].todo \cup {con'[g].cur} \cup failed'
    <3> SUFFICES ASSUME NEW g \in Hosts, con'[g].pc \in {"recover", "idle", "batch"}
                 PROVE  pel[g] \subseteq con'[g].todo \cup {con'[g].cur} \cup failed'
      OBVIOUS
    <3>1. CASE g = h
      <4>1. pel[h] \subseteq con[h].todo \cup {0} \cup failed
        BY DEF MailInv, NoMailForgotten
      <4>2. 0 \notin pel[h]
        BY <1>0 DEF MailInv, MailTypes
      <4>3. QED BY <3>1, <4>1, <4>2
    <3>2. CASE g # h
      BY <3>2 DEF MailInv, NoMailForgotten, Moves
    <3>3. QED BY <3>1, <3>2
  <2>3. QED BY <2>1, <2>2 DEF NoMailForgotten
<1>7. QED BY <1>1, <1>2, <1>3, <1>4, <1>5, <1>6 DEF MailInv

LEMMA ProcessStep ==
  ASSUME MailInv, NEW h \in Hosts, Process(h)
  PROVE  MailInv'
<1>1. PICK m \in con[h].todo :
        /\ con' = [con EXCEPT ![h].cur = m, ![h].ok = TRUE, ![h].todo = @ \ {m}]
        /\ sent' = IF m \in blank THEN sent ELSE [sent EXCEPT ![m] = @ + 1]
  BY FirstIsTodo DEF Process
<1>2. /\ con[h].cur = 0 /\ con[h].pc \in {"recover", "batch"}
      /\ UNCHANGED <<published, blank, delivered, pel, missed, failed, dropped, unsure>>
  BY DEF Process, Working, log
<1>3. m \in Msgs /\ m \in 0..MaxMsgs /\ sent[m] \in Nat
  BY DEF MailInv, MailTypes, Consumers, Msgs
<1>4. Moves(h) /\ con'[h].pc = con[h].pc /\ con'[h].todo = con[h].todo \ {m}
      /\ con'[h].cur = m /\ con'[h].ok
  <2> DEFINE c == [con[h] EXCEPT !.cur = m, !.ok = TRUE, !.todo = @ \ {m}]
  <2>1. con' = [con EXCEPT ![h] = c]
    BY <1>1
  <2>2. c \in Consumers /\ c.pc = con[h].pc /\ c.todo = con[h].todo \ {m} /\ c.cur = m /\ c.ok
    BY <1>3 DEF MailInv, MailTypes, Consumers
  <2> HIDE DEF c
  <2>3. QED BY <2>1, <2>2, ThreadBecomes
<1>5. /\ sent' \in [Msgs -> Nat] /\ sent'[m] >= sent[m] /\ \A x \in Msgs \ {m} : sent'[x] = sent[x]
      /\ sent'[m] > 0 \/ m \in blank
      /\ sent'[m] \in {sent[m], sent[m] + 1}
  BY <1>1, <1>3 DEF MailInv, MailTypes
<1>6. QED BY <1>2, <1>4, <1>5, Takes

LEMMA ProcessFailsStep ==
  ASSUME MailInv, NEW h \in Hosts, ProcessFails(h)
  PROVE  MailInv'
<1>1. PICK m \in con[h].todo :
        /\ failed' = failed \cup {m}
        /\ con' = [con EXCEPT ![h].todo = @ \ {m}, ![h].ok = FALSE,
                              ![h].cur = IF con[h].pc = "recover" THEN m ELSE 0]
        /\ \/ UNCHANGED <<sent, unsure>>
           \/ m \notin blank /\ sent' = [sent EXCEPT ![m] = @ + 1] /\ unsure' = unsure \cup {m}
  BY FirstIsTodo DEF ProcessFails
<1>2. /\ con[h].cur = 0 /\ con[h].pc \in {"recover", "batch"}
      /\ UNCHANGED <<published, blank, delivered, pel, missed, dropped>>
  BY DEF ProcessFails, Working, log
<1>3. m \in Msgs /\ {0, m} \subseteq 0..MaxMsgs /\ sent[m] \in Nat
  BY DEF MailInv, MailTypes, Consumers, Msgs
<1> DEFINE cur == IF con[h].pc = "recover" THEN m ELSE 0
<1>4. Moves(h) /\ con'[h].pc = con[h].pc /\ con'[h].todo = con[h].todo \ {m}
      /\ con'[h].cur = cur /\ con'[h].ok = FALSE
  <2> DEFINE c == [con[h] EXCEPT !.todo = @ \ {m}, !.ok = FALSE, !.cur = cur]
  <2>1. con' = [con EXCEPT ![h] = c]
    BY <1>1
  <2>2. c \in Consumers /\ c.pc = con[h].pc /\ c.todo = con[h].todo \ {m} /\ c.cur = cur
        /\ c.ok = FALSE
    BY <1>3 DEF MailInv, MailTypes, Consumers
  <2> HIDE DEF c, cur
  <2>3. QED BY <2>1, <2>2, ThreadBecomes
<1>5. /\ sent' \in [Msgs -> Nat] /\ sent'[m] >= sent[m] /\ \A x \in Msgs \ {m} : sent'[x] = sent[x]
      /\ m \in unsure' \/ sent'[m] = sent[m]
      /\ unsure \subseteq unsure' /\ failed \subseteq failed' /\ m \in failed'
  BY <1>1, <1>3 DEF MailInv, MailTypes
<1>6. con'[h].cur \in {0, m} /\ (con'[h].cur # 0 => con[h].pc = "recover" /\ ~con'[h].ok)
  BY <1>4
<1>7. QED BY <1>2, <1>4, <1>5, <1>6, Takes

LEMMA AckStep ==
  ASSUME MailInv, NEW h \in Hosts, Ack(h)
  PROVE  MailInv'
<1>1. PICK m \in Msgs :
        /\ m = con[h].cur /\ m # 0 /\ m \in pel[h] /\ m \notin con[h].todo
        /\ pel' = [pel EXCEPT ![h] = @ \ {m}]
        /\ con' = [con EXCEPT ![h].cur = 0]
        /\ dropped' = IF con[h].ok \/ con[h].pc = "batch" THEN dropped ELSE dropped \cup {m}
        /\ UNCHANGED <<published, blank, delivered, sent, missed, failed, unsure>>
  <2>1. con[h].cur # 0 /\ con[h].cur \in pel[h] /\ con[h].cur \notin con[h].todo
        /\ pel[h] \subseteq Msgs
    BY DEF Ack, MailInv, MailTypes, InHands
  <2>2. QED BY <2>1 DEF Ack, log
<1>2. Moves(h) /\ con'[h].pc = con[h].pc /\ con'[h].todo = con[h].todo /\ con'[h].cur = 0
  <2> DEFINE c == [con[h] EXCEPT !.cur = 0]
  <2>1. con' = [con EXCEPT ![h] = c]
    BY <1>1
  <2>2. c \in Consumers /\ c.pc = con[h].pc /\ c.todo = con[h].todo /\ c.cur = 0
    BY DEF MailInv, MailTypes, Consumers
  <2> HIDE DEF c
  <2>3. QED BY <2>1, <2>2, ThreadBecomes
<1>3. /\ pel' \in [Hosts -> SUBSET Msgs] /\ pel'[h] = pel[h] \ {m}
      /\ \A g \in Hosts \ {h} : pel'[g] = pel[g]
  BY <1>1 DEF MailInv, MailTypes
<1>4. MailTypes'
  BY <1>1, <1>2, <1>3 DEF MailInv, MailTypes, Moves
<1>5. Delivered'
  <2>1. \A g \in Hosts : pel'[g] \subseteq pel[g]
    BY <1>3
  <2>2. QED BY <1>1, <2>1 DEF MailInv, Delivered
<1>6. InHands'
  BY <1>1, <1>2, <1>3 DEF MailInv, InHands, Moves
<1>7. Sure'
  <2> SUFFICES ASSUME NEW x \in Msgs, x \notin unsure, NEW g \in Hosts
               PROVE  /\ sent[x] <= 1
                      /\ sent[x] = 1 => x \notin con'[g].todo /\ (x \in pel'[g] => con'[g].cur = x)
    BY <1>1 DEF MailInv, Sure
  <2>1. sent[x] <= 1 /\ (sent[x] = 1 => x \notin con[g].todo /\ (x \in pel[g] => con[g].cur = x))
    BY DEF MailInv, Sure
  <2>2. CASE g = h
    BY <1>1, <1>2, <1>3, <2>1, <2>2
  <2>3. CASE g # h
    BY <1>2, <1>3, <2>1, <2>3 DEF Moves
  <2>4. QED BY <2>2, <2>3
<1>8. Owed'
  BY <1>1, <1>2 DEF MailInv, Owed, Moves
<1>9. NoMailForgotten'
  <2>1. m \in dropped' \cup blank \/ sent[m] > 0
    BY <1>1 DEF MailInv, Owed
  <2>2. \A x \in 1..delivered' : \/ x \in missed' \cup blank' \cup dropped' \/ sent'[x] > 0
                                 \/ \E g \in Hosts : x \in pel'[g]
    <3> SUFFICES ASSUME NEW x \in 1..delivered
                 PROVE  \/ x \in missed \cup blank \cup dropped' \/ sent[x] > 0
                        \/ \E g \in Hosts : x \in pel'[g]
      BY <1>1
    <3>1. \/ x \in missed \cup blank \cup dropped \/ sent[x] > 0
          \/ \E g \in Hosts : x \in pel[g]
      BY DEF MailInv, NoMailForgotten
    <3>2. dropped \subseteq dropped'
      BY <1>1
    <3>3. ASSUME NEW g \in Hosts, x \in pel[g], x # m
          PROVE  x \in pel'[g]
      BY <1>3, <3>3
    <3>4. QED BY <2>1, <3>1, <3>2, <3>3
  <2>3. \A g \in Hosts : con'[g].pc \in {"recover", "idle", "batch"} =>
          pel'[g] \subseteq con'[g].todo \cup {con'[g].cur} \cup failed'
    <3> SUFFICES ASSUME NEW g \in Hosts, con'[g].pc \in {"recover", "idle", "batch"}
                 PROVE  pel'[g] \subseteq con'[g].todo \cup {con'[g].cur} \cup failed
      BY <1>1
    <3>1. CASE g = h
      BY <1>1, <1>2, <1>3, <3>1 DEF MailInv, NoMailForgotten
    <3>2. CASE g # h
      BY <1>2, <1>3, <3>2 DEF MailInv, NoMailForgotten, Moves
    <3>3. QED BY <3>1, <3>2
  <2>4. QED BY <2>2, <2>3 DEF NoMailForgotten
<1>10. QED BY <1>4, <1>5, <1>6, <1>7, <1>8, <1>9 DEF MailInv

LEMMA AckFailsStep ==
  ASSUME MailInv, NEW h \in Hosts, AckFails(h)
  PROVE  MailInv'
<1>1. /\ con[h].cur # 0 /\ failed' = failed \cup {con[h].cur} /\ unsure' = unsure \cup {con[h].cur}
      /\ UNCHANGED <<published, blank, delivered, pel, sent, missed, dropped>>
  BY DEF AckFails, log
<1>2. /\ con[h].pc \in {"recover", "batch"} /\ con[h].todo \subseteq pel[h]
      /\ pel[h] \subseteq con[h].todo \cup {con[h].cur} \cup failed
  BY <1>1 DEF MailInv, InHands, NoMailForgotten
<1>3. Moves(h) /\ con'[h].cur = 0
      /\ \/ con'[h].pc = "dead" /\ con'[h].todo = {}
         \/ con'[h].pc = "batch" /\ con'[h].todo = con[h].todo
  <2>1. CASE con[h].pc = "recover"
    <3> DEFINE c == At("dead", {})
    <3>1. con' = [con EXCEPT ![h] = c]
      BY <2>1 DEF AckFails
    <3>2. {} \in SUBSET Msgs
      OBVIOUS
    <3>3. c \in Consumers /\ c.pc = "dead" /\ c.todo = {} /\ c.cur = 0
      BY <3>2, ThreadRecords
    <3> HIDE DEF c
    <3>4. QED BY <3>1, <3>3, ThreadBecomes
  <2>2. CASE con[h].pc = "batch"
    <3> DEFINE c == [con[h] EXCEPT !.cur = 0]
    <3>1. con' = [con EXCEPT ![h] = c]
      BY <2>2 DEF AckFails
    <3>2. c \in Consumers /\ c.pc = "batch" /\ c.todo = con[h].todo /\ c.cur = 0
      BY <2>2 DEF MailInv, MailTypes, Consumers
    <3> HIDE DEF c
    <3>3. QED BY <3>1, <3>2, ThreadBecomes
  <2>3. QED BY <1>2, <2>1, <2>2
<1>4. /\ con'[h].todo \subseteq pel[h]
      /\ con'[h].pc \notin {"recover", "batch"} => con'[h].todo = {}
      /\ con'[h].pc \in {"recover", "idle", "batch"} => pel[h] \subseteq con'[h].todo \cup failed'
  BY <1>1, <1>2, <1>3
<1>5. QED BY <1>1, <1>3, <1>4, Settles

\* What is read is new: it is pending nowhere and has not been sent.
LEMMA ReadStep ==
  ASSUME MailInv, NEW h \in Hosts, ReadNew(h)
  PROVE  MailInv'
<1>1. /\ published \in 0..MaxMsgs /\ delivered \in Nat /\ delivered < published
      /\ con[h].pc = "idle" /\ con[h].cur = 0 /\ con[h].todo = {}
      /\ UNCHANGED <<published, blank, sent, missed, dropped, unsure>>
  BY DEF MailInv, MailTypes, InHands, ReadNew, log
<1>2. PICK new \in SUBSET Msgs :
        /\ new = delivered + 1 .. delivered'
        /\ delivered' \in 0..published /\ delivered < delivered'
        /\ pel' = [pel EXCEPT ![h] = @ \cup new]
        /\ \/ con' = [con EXCEPT ![h] = At("batch", new)] /\ failed' = failed
           \/ failed' = failed \cup new /\ con' = con
  <2> DEFINE upto == Least(delivered + Batch, published)
             new == delivered + 1 .. upto
  <2>1. upto \in 0..published /\ delivered < upto
    BY <1>1 DEF Least
  <2>2. new \subseteq Msgs
    BY <1>1, <2>1 DEF Msgs
  <2>3. /\ delivered' = upto
        /\ pel' = [pel EXCEPT ![h] = @ \cup new]
        /\ \/ con' = [con EXCEPT ![h] = At("batch", new)] /\ failed' = failed
           \/ failed' = failed \cup new /\ con' = con
    BY DEF ReadNew
  <2> HIDE DEF upto
  <2>4. QED BY <2>1, <2>2, <2>3
<1>3. Moves(h) /\ con'[h].cur = 0
      /\ \/ con'[h].pc = "batch" /\ con'[h].todo = new /\ failed' = failed
         \/ con'[h].pc = "idle" /\ con'[h].todo = {} /\ failed' = failed \cup new
  <2>1. CASE con' = [con EXCEPT ![h] = At("batch", new)] /\ failed' = failed
    <3> DEFINE c == At("batch", new)
    <3>1. c \in Consumers /\ c.pc = "batch" /\ c.todo = new /\ c.cur = 0
      BY ThreadRecords
    <3>2. con' = [con EXCEPT ![h] = c]
      BY <2>1
    <3> HIDE DEF c
    <3>3. QED BY <2>1, <3>1, <3>2, ThreadBecomes
  <2>2. CASE failed' = failed \cup new /\ con' = con
    BY <1>1, <2>2 DEF Moves, MailInv, MailTypes
  <2>3. QED BY <1>2, <2>1, <2>2
<1>4. /\ pel' \in [Hosts -> SUBSET Msgs] /\ pel'[h] = pel[h] \cup new
      /\ \A g \in Hosts \ {h} : pel'[g] = pel[g]
  BY <1>2 DEF MailInv, MailTypes
<1>5. \A x \in new : x > delivered /\ x \in 1..delivered' /\ x \notin 1..delivered
  BY <1>1, <1>2
<1>6. MailTypes'
  BY <1>1, <1>2, <1>3, <1>4 DEF MailInv, MailTypes, Moves
<1>7. Delivered'
  <2>1. 1..delivered \subseteq 1..delivered'
    BY <1>1, <1>2
  <2>2. \A g \in Hosts : pel'[g] \subseteq 1..delivered'
    BY <1>4, <1>5, <2>1 DEF MailInv, Delivered
  <2>3. \A x \in Msgs : sent'[x] > 0 => x <= delivered'
    <3>1. \A x \in Msgs : x \in Nat
      BY DEF Msgs
    <3>2. QED BY <1>1, <1>2, <3>1 DEF MailInv, Delivered
  <2>4. \A f, g \in Hosts : f # g => pel'[f] \cap pel'[g] = {}
    <3>1. \A g \in Hosts : pel[g] \cap new = {}
      BY <1>5 DEF MailInv, Delivered
    <3>2. QED BY <1>4, <3>1 DEF MailInv, Delivered
  <2>5. QED BY <2>2, <2>3, <2>4 DEF Delivered
<1>8. InHands'
  BY <1>3, <1>4 DEF MailInv, InHands, Moves
<1>9. Sure'
  <2> SUFFICES ASSUME NEW x \in Msgs, x \notin unsure, NEW g \in Hosts
               PROVE  /\ sent[x] <= 1
                      /\ sent[x] = 1 => x \notin con'[g].todo /\ (x \in pel'[g] => con'[g].cur = x)
    BY <1>1 DEF MailInv, Sure
  <2>1. sent[x] <= 1 /\ (sent[x] = 1 => x \notin con[g].todo /\ (x \in pel[g] => con[g].cur = x))
    BY DEF MailInv, Sure
  <2>2. sent[x] = 1 => x \notin new
    <3>1. sent[x] = 1 => x <= delivered
      BY DEF MailInv, Delivered
    <3>2. x \in Nat
      BY DEF Msgs
    <3>3. QED BY <1>1, <1>5, <3>1, <3>2
  <2>3. CASE g = h
    BY <1>1, <1>3, <1>4, <2>1, <2>2, <2>3
  <2>4. CASE g # h
    BY <1>3, <1>4, <2>1, <2>4 DEF Moves
  <2>5. QED BY <2>3, <2>4
<1>10. Owed'
  BY <1>1, <1>3 DEF MailInv, Owed, Moves
<1>11. NoMailForgotten'
  <2>1. \A x \in 1..delivered' : \/ x \in missed' \cup blank' \cup dropped' \/ sent'[x] > 0
                                 \/ \E g \in Hosts : x \in pel'[g]
    <3> SUFFICES ASSUME NEW x \in 1..delivered'
                 PROVE  \/ x \in missed \cup blank \cup dropped \/ sent[x] > 0
                        \/ \E g \in Hosts : x \in pel'[g]
      BY <1>1
    <3>1. CASE x \in 1..delivered
      <4>1. \/ x \in missed \cup blank \cup dropped \/ sent[x] > 0
            \/ \E g \in Hosts : x \in pel[g]
        BY <3>1 DEF MailInv, NoMailForgotten
      <4>2. \A g \in Hosts : pel[g] \subseteq pel'[g]
        BY <1>4
      <4>3. QED BY <4>1, <4>2
    <3>2. CASE x \in new
      BY <1>4, <3>2
    <3>3. QED BY <1>1, <1>2, <3>1, <3>2
  <2>2. \A g \in Hosts : con'[g].pc \in {"recover", "idle", "batch"} =>
          pel'[g] \subseteq con'[g].todo \cup {con'[g].cur} \cup failed'
    <3> SUFFICES ASSUME NEW g \in Hosts, con'[g].pc \in {"recover", "idle", "batch"}
                 PROVE  pel'[g] \subseteq con'[g].todo \cup {con'[g].cur} \cup failed'
      OBVIOUS
    <3>1. CASE g = h
      <4>1. pel[h] \subseteq {0} \cup failed
        BY <1>1 DEF MailInv, NoMailForgotten
      <4>2. QED BY <1>3, <1>4, <3>1, <4>1
    <3>2. CASE g # h
      BY <1>2, <1>3, <1>4, <3>2 DEF MailInv, NoMailForgotten, Moves
    <3>3. QED BY <3>1, <3>2
  <2>3. QED BY <2>1, <2>2 DEF NoMailForgotten
<1>12. QED BY <1>6, <1>7, <1>8, <1>9, <1>10, <1>11 DEF MailInv

LEMMA MailStarts ==
  ASSUME MailInit
  PROVE  MailInv
<1>1. {} \in SUBSET Msgs /\ Off \in Consumers /\ Off.todo = {} /\ Off.cur = 0
      /\ Off.pc = "off"
  BY ThreadRecords DEF Off
<1>2. /\ \A h \in Hosts : con[h] = Off /\ pel[h] = {}
      /\ \A m \in Msgs : sent[m] = 0
      /\ published = 0 /\ delivered = 0
  BY DEF MailInit, Msgs
<1>3. MailTypes
  BY <1>1 DEF MailInit, MailTypes, Msgs
<1>4. Delivered /\ InHands
  BY <1>1, <1>2 DEF Delivered, InHands
<1>5. Sure
  BY <1>1, <1>2 DEF Sure
<1>6. Owed
  BY <1>1, <1>2 DEF Owed
<1>7. NoMailForgotten
  BY <1>1, <1>2 DEF NoMailForgotten
<1>8. QED BY <1>3, <1>4, <1>5, <1>6, <1>7 DEF MailInv

LEMMA MailStep ==
  ASSUME MailInv, [MailNext]_mailVars
  PROVE  MailInv'
<1>1. CASE Publish
  BY <1>1, PublishStep
<1>2. CASE UNCHANGED mailVars
  BY <1>2 DEF mailVars, MailInv, MailTypes, Delivered, InHands, Sure, Owed, NoMailForgotten
<1>3. ASSUME NEW h \in Hosts,
             Boot(h) \/ HostDies(h) \/ RestartThread(h) \/ Thread(h)
      PROVE  MailInv'
  <2>1. CASE ReadNew(h)
    BY <2>1, ReadStep
  <2>2. CASE Process(h)
    BY <2>2, ProcessStep
  <2>3. CASE ProcessFails(h)
    BY <2>3, ProcessFailsStep
  <2>4. CASE Ack(h)
    BY <2>4, AckStep
  <2>5. CASE AckFails(h)
    BY <2>5, AckFailsStep
  <2>6. QED BY <1>3, <2>1, <2>2, <2>3, <2>4, <2>5, ProcessSteps DEF Thread
<1>4. QED BY <1>1, <1>2, <1>3 DEF MailNext

\* As long as it runs, and however often processes and threads die and are
\* started again, under old host names or new ones (email_consumer.run): an
\* e-mail leaves twice only when an answer to it was lost.
THEOREM MailTwiceNeedsLoss == MailSpec => []TwiceNeedsLoss
<1>1. MailInit => MailInv
  BY MailStarts
<1>2. MailInv /\ [MailNext]_mailVars => MailInv'
  BY MailStep
<1>3. MailInv => TwiceNeedsLoss
  <2> SUFFICES ASSUME MailInv, NEW m \in Msgs, sent[m] > 1
               PROVE  m \in unsure
    BY DEF TwiceNeedsLoss, Msgs
  <2>1. sent[m] \in Nat /\ ~(sent[m] <= 1)
    BY DEF MailInv, MailTypes
  <2>2. QED BY <2>1 DEF MailInv, Sure
<1>4. QED BY <1>1, <1>2, <1>3, PTL DEF MailSpec

\* A message that is pending nowhere was dealt with, and what is pending under
\* the name of a live consumer is in its hands or has failed there.
THEOREM NoMailForgottenAlways == MailSpec => []NoMailForgotten
<1>1. MailInit => MailInv
  BY MailStarts
<1>2. MailInv /\ [MailNext]_mailVars => MailInv'
  BY MailStep
<1>3. MailInv => NoMailForgotten
  BY DEF MailInv
<1>4. QED BY <1>1, <1>2, <1>3, PTL DEF MailSpec
====
