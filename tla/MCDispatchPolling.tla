--------------------------- MODULE MCDispatchPolling ---------------------------
(* One order, one worker process with its scheduler and its stream consumer,   *)
(* and two of the registered jobs: dispatch_orders (60 s) and                  *)
(* retry_cancellations (30 s), in pauses of 30 seconds.                        *)
EXTENDS DispatchPolling
CONSTANTS o1, w1, w2, s1
MCInterval == <<2, 1>>
\* As in the code, where both functions are called run, and as it was meant.
MCNameOf == <<"run", "run">>
MCNamedApart == <<"dispatch_orders", "retry_cancellations">>
=============================================================================
