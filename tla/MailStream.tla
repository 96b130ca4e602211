------------------------------ MODULE MailStream ------------------------------
(***************************************************************************)
(* E-mail from a status change to SMTP: the publishers add to the Redis     *)
(* stream novex:emails, the consumer thread of every worker process reads   *)
(* it in the group email_workers, sends, and acknowledges.  A message read  *)
(* and not acknowledged stays in the pending list of the consumer's name,   *)
(* the host name, and is taken up again only when a thread of that name     *)
(* starts.                                                                  *)
(*                                                                         *)
(* Messages are numbered in the order of the stream.                        *)
(***************************************************************************)
EXTENDS Integers, FiniteSets

CONSTANTS
  Hosts,     \* host names of worker processes, now or after a deployment
  Batch,     \* count of xreadgroup
  MaxMsgs,   \* bound: messages
  MaxFaults, \* bound: calls of Redis or SMTP that fail
  MaxDeaths  \* bound: deaths of a process

ASSUME MailAssumption == Batch \in Nat \ {0} /\ {MaxMsgs, MaxFaults, MaxDeaths} \subseteq Nat

VARIABLES
  published, \* number of messages in the stream
  blank,     \* messages whose recipient has no address, or with no template
  group,     \* the consumer group exists
  delivered, \* last-delivered id of the group
  pel,       \* pending entries of each consumer name
  con,       \* the consumer thread of each host
  sent,      \* times the e-mail of each message has left
  missed,    \* messages published before the group was created
  failed,    \* messages of which a read, a sending or an acknowledgement failed
  dropped,   \* messages acknowledged by the recovery although they failed
  unsure,    \* messages sent without the consumer getting to acknowledge them
  faults, deaths

log == <<published, blank>>
mailVars == <<published, blank, group, delivered, pel, con, sent, missed, failed,
              dropped, unsure, faults, deaths>>

Msgs == 1..MaxMsgs

\* off: no process; dead: the thread has died in a live process; start: about
\* to recover; recover, batch: working through todo, cur being the message
\* between _process and xack, and ok whether _process returned.
Consumers == [pc: {"off", "dead", "start", "recover", "idle", "batch"},
              todo: SUBSET Msgs, cur: 0..MaxMsgs, ok: BOOLEAN]
At(pc, todo) == [pc |-> pc, todo |-> todo, cur |-> 0, ok |-> TRUE]
Off == At("off", {})

MailInit ==
  /\ published = 0 /\ blank = {} /\ group = FALSE /\ delivered = 0
  /\ pel = [h \in Hosts |-> {}] /\ con = [h \in Hosts |-> Off]
  /\ sent = [m \in Msgs |-> 0]
  /\ missed = {} /\ failed = {} /\ dropped = {} /\ unsure = {}
  /\ faults = 0 /\ deaths = 0

\* A handler publishes; when XADD fails it logs that and goes on.
Publish ==
  /\ published < MaxMsgs
  /\ published' = published + 1
  /\ \/ UNCHANGED blank
     \/ blank' = blank \cup {published'}
  /\ UNCHANGED <<group, delivered, pel, con, sent, missed, failed, dropped,
                 unsure, faults, deaths>>

-----------------------------------------------------------------------------
(* Worker processes.                                                         *)

\* A worker starts: the first one ever creates the group at the stream's end.
Boot(h) ==
  /\ con[h].pc = "off"
  /\ group' = TRUE
  /\ IF group THEN UNCHANGED <<delivered, missed>>
     ELSE delivered' = published /\ missed' = 1..published
  /\ con' = [con EXCEPT ![h] = At("start", {})]
  /\ UNCHANGED <<log, pel, sent, failed, dropped, unsure, faults, deaths>>

\* The process is killed, or is told to stop: the thread is a daemon.
HostDies(h) ==
  /\ con[h].pc # "off" /\ deaths < MaxDeaths
  /\ deaths' = deaths + 1
  /\ con' = [con EXCEPT ![h] = Off]
  /\ unsure' = unsure \cup ({con[h].cur} \ {0})
  /\ UNCHANGED <<log, group, delivered, pel, sent, missed, failed, dropped, faults>>

\* Mutant of RestartThread: it is not restarted.
RestartThread_Never(h) == FALSE /\ UNCHANGED mailVars

\* The main loop restarts a consumer thread that exited.
RestartThread(h) ==
  /\ con[h].pc = "dead"
  /\ con' = [con EXCEPT ![h] = At("start", {})]
  /\ UNCHANGED <<log, group, delivered, pel, sent, missed, failed, dropped, unsure,
                 faults, deaths>>

-----------------------------------------------------------------------------
(* The consumer thread.                                                      *)

Fault == faults < MaxFaults /\ faults' = faults + 1

\* _recover_pending: everything pending under this name; an error there ends
\* the thread.
RecoverRead(h) ==
  /\ con[h].pc = "start"
  /\ \/ con' = [con EXCEPT ![h] = At("recover", pel[h])] /\ UNCHANGED faults
     \/ con' = [con EXCEPT ![h] = At("dead", {})] /\ Fault
  /\ UNCHANGED <<log, group, delivered, pel, sent, missed, failed, dropped, unsure, deaths>>

Least(n, k) == IF n < k THEN n ELSE k

\* New messages go to this consumer's pending list; the answer may be lost.
ReadNew(h) ==
  /\ con[h].pc = "idle" /\ delivered < published
  /\ LET upto == Least(delivered + Batch, published)
         new == delivered + 1 .. upto
     IN /\ delivered' = upto
        /\ pel' = [pel EXCEPT ![h] = @ \cup new]
        /\ \/ con' = [con EXCEPT ![h] = At("batch", new)] /\ UNCHANGED <<failed, faults>>
           \/ failed' = failed \cup new /\ Fault /\ UNCHANGED con
  /\ UNCHANGED <<log, group, sent, missed, dropped, unsure, deaths>>

First(h) == CHOOSE m \in con[h].todo : \A n \in con[h].todo : m <= n
Working(h) == con[h].pc \in {"recover", "batch"} /\ con[h].cur = 0

\* _process returns: the e-mail has left, or there is nobody to write to.
Process(h) ==
  /\ Working(h) /\ con[h].todo # {}
  /\ LET m == First(h) IN
     /\ con' = [con EXCEPT ![h].cur = m, ![h].ok = TRUE, ![h].todo = @ \ {m}]
     /\ sent' = IF m \in blank THEN sent ELSE [sent EXCEPT ![m] = @ + 1]
  /\ UNCHANGED <<log, group, delivered, pel, missed, failed, dropped, unsure, faults,
                 deaths>>

\* Mutant of ProcessFails: the acknowledgement is in a finally, as in the recovery.
ProcessFails_Finally(h) ==
  /\ Working(h) /\ con[h].todo # {} /\ Fault
  /\ LET m == First(h) IN
     /\ failed' = failed \cup {m}
     /\ con' = [con EXCEPT ![h].todo = @ \ {m}, ![h].ok = FALSE, ![h].cur = m]
     /\ UNCHANGED <<sent, unsure>>
  /\ UNCHANGED <<log, group, delivered, pel, missed, dropped, deaths>>

\* _process raises; SMTP may have accepted the e-mail all the same.  The main
\* loop leaves the message pending, the recovery acknowledges it.
ProcessFails(h) ==
  /\ Working(h) /\ con[h].todo # {} /\ Fault
  /\ LET m == First(h) IN
     /\ failed' = failed \cup {m}
     /\ con' = [con EXCEPT ![h].todo = @ \ {m}, ![h].ok = FALSE,
                           ![h].cur = IF con[h].pc = "recover" THEN m ELSE 0]
     /\ \/ UNCHANGED <<sent, unsure>>
        \/ m \notin blank /\ sent' = [sent EXCEPT ![m] = @ + 1] /\ unsure' = unsure \cup {m}
  /\ UNCHANGED <<log, group, delivered, pel, missed, dropped, deaths>>

\* Mutant of Ack: the entry stays pending.
Ack_Missing(h) ==
  /\ con[h].cur # 0
  /\ con' = [con EXCEPT ![h].cur = 0]
  /\ UNCHANGED <<log, group, delivered, pel, sent, missed, failed, dropped, unsure,
                 faults, deaths>>

Ack(h) ==
  /\ con[h].cur # 0
  /\ pel' = [pel EXCEPT ![h] = @ \ {con[h].cur}]
  /\ con' = [con EXCEPT ![h].cur = 0]
  /\ dropped' = IF con[h].ok \/ con[h].pc = "batch" THEN dropped
                ELSE dropped \cup {con[h].cur}
  /\ UNCHANGED <<log, group, delivered, sent, missed, failed, unsure, faults, deaths>>

\* XACK fails: the main loop goes on, the recovery dies.
AckFails(h) ==
  /\ con[h].cur # 0 /\ Fault
  /\ con' = [con EXCEPT ![h] =
       IF con[h].pc = "recover" THEN At("dead", {}) ELSE [@ EXCEPT !.cur = 0]]
  /\ failed' = failed \cup {con[h].cur}
  /\ unsure' = unsure \cup {con[h].cur}
  /\ UNCHANGED <<log, group, delivered, pel, sent, missed, dropped, deaths>>

Done(h) ==
  /\ Working(h) /\ con[h].todo = {}
  /\ con' = [con EXCEPT ![h] = At("idle", {})]
  /\ UNCHANGED <<log, group, delivered, pel, sent, missed, failed, dropped, unsure,
                 faults, deaths>>

-----------------------------------------------------------------------------
Thread(h) ==
  \/ RecoverRead(h) \/ ReadNew(h) \/ Process(h) \/ ProcessFails(h)
  \/ Ack(h) \/ AckFails(h) \/ Done(h)

MailNext ==
  \/ Publish
  \/ \E h \in Hosts : Boot(h) \/ HostDies(h) \/ RestartThread(h) \/ Thread(h)

MailSpec == MailInit /\ [][MailNext]_mailVars

\* Some worker runs (compose restarts it, under the old host name or a new one),
\* its main loop restarts its threads, and its threads run.
AllOff == \A h \in Hosts : con[h].pc = "off"
MailFairness ==
  /\ WF_mailVars(AllOff /\ \E h \in Hosts : Boot(h))
  /\ \A h \in Hosts : WF_mailVars(RestartThread(h)) /\ WF_mailVars(Thread(h))

MailFairSpec == MailSpec /\ MailFairness

-----------------------------------------------------------------------------
\* Every variable has its type.
MailTypeOK ==
  /\ published \in 0..MaxMsgs /\ delivered \in 0..published
  /\ blank \subseteq Msgs /\ group \in BOOLEAN
  /\ pel \in [Hosts -> SUBSET Msgs] /\ con \in [Hosts -> Consumers]
  /\ sent \in [Msgs -> 0..MaxMsgs + MaxFaults + MaxDeaths]
  /\ {missed, failed, dropped, unsure} \subseteq SUBSET Msgs
  /\ faults \in 0..MaxFaults /\ deaths \in 0..MaxDeaths

\* An e-mail leaves twice only if SMTP's or Redis's answer to it was lost or its
\* process died between the sending and the acknowledgement: a restart, two
\* replicas or a failed neighbour in the batch never repeat one.
TwiceNeedsLoss == \A m \in Msgs : sent[m] > 1 => m \in unsure

\* A message that is pending nowhere was sent, or needed no sending, or came
\* before the group, or failed and was given up by a recovery; and one that is
\* pending at a live thread is in its hands or has failed there.
NoMailForgotten ==
  /\ \A m \in 1..delivered :
       \/ m \in missed \cup blank \cup dropped \/ sent[m] > 0
       \/ \E h \in Hosts : m \in pel[h]
  /\ \A h \in Hosts : con[h].pc \in {"recover", "idle", "batch"} =>
       pel[h] \subseteq con[h].todo \cup {con[h].cur} \cup failed

\* Every message in the stream is sent, or tried, or needs no sending, or is
\* pending under the name of a host that is down.
EachMailIsTried ==
  \A m \in Msgs : m <= published ~>
    \/ m \in missed \cup blank \cup failed \/ sent[m] > 0
    \/ \E h \in Hosts : m \in pel[h] /\ con[h].pc = "off"

=============================================================================
