--------------------------- MODULE MCTaskHandoff ----------------------------
(* One logical task, which is all that the rows of different tasks share.  *)
EXTENDS TaskHandoff

CONSTANTS t1, w1, w2, r1, r2

MCTasks == {t1}
MCWorkers == {w1, w2}
MCRelays == {r1, r2}

WorkerFaults == {"worker_crash", "slow_worker", "transient", "permanent", "retries_exhausted"}
RelayFaults == {"relay_crash", "slow_relay", "publish", "invalid"}
AllFaults == WorkerFaults \cup RelayFaults \cup {"broker_loss"}
=============================================================================
