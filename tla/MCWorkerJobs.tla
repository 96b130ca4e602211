----------------------------- MODULE MCWorkerJobs -----------------------------
(* Two processes with two of the registered jobs: dispatch_orders (60 s) and  *)
(* retry_cancellations (30 s), whose functions are both called run.           *)
EXTENDS WorkerJobs
CONSTANTS p1, p2
MCInterval == <<2, 1>>
MCNameOf == <<"run", "run">>
=============================================================================
