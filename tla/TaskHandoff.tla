---------------------------- MODULE TaskHandoff -----------------------------
(***************************************************************************)
(* The durable task hand-off of Crash-Cap: task_handoff.py (intents and    *)
(* executions in PostgreSQL), outbox_relay.py (the relay), tasks.py (the   *)
(* Dramatiq actors) and the skeleton every handler of processor.py follows *)
(* - claim, work without a lock, fenced finalize - with the guard on the   *)
(* target row that verify_upload has.                                      *)
(*                                                                         *)
(* One step is one committed transaction, one broker operation or one      *)
(* failure.  claim_task is the exception: it reads the execution row       *)
(* without a lock and writes it at the end, so it is two steps.  A lease   *)
(* is "live" until time passes its deadline and "lapsed" after.            *)
(***************************************************************************)
EXTENDS Naturals, FiniteSets

CONSTANTS Tasks,       \* logical tasks: (task_type, logical_key)
          Workers,     \* worker threads; each claim of one is a new owner_id
          Relays,      \* relay processes
          NoTask,      \* an idle process works on no task
          NoOwner,     \* a NULL owner column
          FaultKinds,  \* the failures a run lets happen
          MaxFaults,   \* bound: how many of them
          MaxCopies    \* bound: undelivered and unacknowledged copies of a task

ASSUME HandoffAssumption == /\ NoTask \notin Tasks
                            /\ NoOwner \notin Workers
                            /\ NoOwner \notin Relays
                            /\ MaxFaults \in Nat
                            /\ MaxCopies \in Nat \ {0}

VARIABLES intent,      \* task_intents rows
          execution,   \* task_executions rows
          target,      \* the domain row the task settles (Upload.verification_status)
          winner,      \* generation whose finalize settled the target, 0 for none
          broker,      \* broker[t]: copies of t's message queued in Redis
          enqueued,    \* enqueued[t]: relay generations that reached the broker
          relay,       \* relay[r]: local state of relay_once
          worker,      \* worker[w]: local state of one actor call
          faults       \* failures left to happen

rows == <<intent, execution, target, winner>>
vars == <<intent, execution, target, winner, broker, enqueued, relay, worker, faults>>

-----------------------------------------------------------------------------
Leases == {"none", "live", "lapsed"}
Outcomes == {"absent", "running", "succeeded", "failed", "dead"}

IntentRow == [state : {"absent", "pending", "publishing", "published", "dead"},
              due_at : {"past", "future"},
              relay_owner : Relays \cup {NoOwner},
              relay_generation : Nat,
              relay_lease : Leases]

ExecutionRow == [outcome : Outcomes, generation : Nat,
                 owner : Workers \cup {NoOwner}, lease : Leases]

RelayPcs == {"idle", "publish", "ack", "reject", "poison"}
RelayState == [pc : RelayPcs,
               task : Tasks \cup {NoTask}, generation : Nat]

\* generation is claim.generation; seen is the outcome claim_task read.
WorkerPcs == {"idle", "claiming", "working", "returned", "raised", "poisoning"}
WorkerState == [pc : WorkerPcs,
                task : Tasks \cup {NoTask}, generation : Nat, seen : Outcomes]

NoIntent == [state |-> "absent", due_at |-> "future", relay_owner |-> NoOwner,
             relay_generation |-> 0, relay_lease |-> "none"]
NoExecution == [outcome |-> "absent", generation |-> 0, owner |-> NoOwner, lease |-> "none"]
IdleRelay == [pc |-> "idle", task |-> NoTask, generation |-> 0]
IdleWorker == [pc |-> "idle", task |-> NoTask, generation |-> 0, seen |-> "absent"]

TypeOK == /\ intent \in [Tasks -> IntentRow]
          /\ execution \in [Tasks -> ExecutionRow]
          /\ target \in [Tasks -> {"absent", "open", "settled"}]
          /\ winner \in [Tasks -> Nat]
          /\ broker \in [Tasks -> Nat]
          /\ enqueued \in [Tasks -> SUBSET Nat]
          /\ relay \in [Relays -> RelayState]
          /\ worker \in [Workers -> WorkerState]
          /\ faults \in Nat

Init == /\ intent = [t \in Tasks |-> NoIntent]
        /\ execution = [t \in Tasks |-> NoExecution]
        /\ target = [t \in Tasks |-> "absent"]
        /\ winner = [t \in Tasks |-> 0]
        /\ broker = [t \in Tasks |-> 0]
        /\ enqueued = [t \in Tasks |-> {}]
        /\ relay = [r \in Relays |-> IdleRelay]
        /\ worker = [w \in Workers |-> IdleWorker]
        /\ faults = MaxFaults

-----------------------------------------------------------------------------
(* Row predicates of task_handoff.py.                                      *)

\* Mutant: claim_task and the others read the intent without FOR UPDATE.
IntentUnlocked_NoRowLock(t) == TRUE

\* claim_task holds the intent row FOR UPDATE until it commits or rolls back.
IntentUnlocked(t) == \A w \in Workers : ~(worker[w].pc = "claiming" /\ worker[w].task = t)

LeaseActive(t) == execution[t].outcome = "running" /\ execution[t].lease = "live"

\* Mutant: the fence forgets the generation and the owner.
ClaimIsCurrent_OutcomeOnly(w, t) == execution[t].outcome = "running"

\* _matches and the outcome test that heartbeat_claim, claim_is_current and
\* finish_claim share.  None of them looks at the lease.
ClaimIsCurrent(w, t) == /\ execution[t].outcome = "running"
                        /\ execution[t].generation = worker[w].generation
                        /\ execution[t].owner = w

RelayMatches(r, t) == /\ intent[t].state = "publishing"
                      /\ intent[t].relay_owner = r
                      /\ intent[t].relay_generation = relay[r].generation

\* Copies that are queued, held unacknowledged by a worker, or being published.
Copies(t) == broker[t] + Cardinality({w \in Workers : worker[w].task = t})
             + Cardinality({r \in Relays : relay[r].task = t /\ relay[r].pc = "publish"})

Fault(kind) == kind \in FaultKinds /\ faults > 0 /\ faults' = faults - 1

\* finish_claim's write.
Finished(row, outcome) == [row EXCEPT !.outcome = outcome, !.lease = "none"]

\* A heartbeat renews a lease, time ends it.
Leased(row, lease) == [row EXCEPT !.lease = lease]

\* _poison_intent
Poisoned(row) == [row EXCEPT !.state = "dead", !.relay_owner = NoOwner, !.relay_lease = "none"]

\* The row a relay or a redelivery puts back in the outbox.
Pending(row, due_at) == [row EXCEPT !.state = "pending", !.due_at = due_at,
                                    !.relay_owner = NoOwner, !.relay_lease = "none"]

\* The row as claim_relay_intent leaves it, as it is once the relay's lease has
\* run out, and as acknowledge_relay_publish leaves it.
Publishing(row, r) == [row EXCEPT !.state = "publishing", !.relay_owner = r,
                                  !.relay_generation = @ + 1, !.relay_lease = "live"]
Abandoned(row) == [row EXCEPT !.relay_lease = "lapsed"]
Published(row) == [row EXCEPT !.state = "published", !.relay_owner = NoOwner,
                              !.relay_lease = "none"]

\* A process moves on to its next step.
At(state, pc) == [state EXCEPT !.pc = pc]
WorkerTo(w, pc) == worker' = [worker EXCEPT ![w] = At(@, pc)]
RelayTo(r, pc) == relay' = [relay EXCEPT ![r] = At(@, pc)]

-----------------------------------------------------------------------------
(* Producers: the API transaction, and the operator's reconciliation.      *)

\* complete_upload: the domain change and the intent commit together.
CreateTaskIntent(t) ==
    /\ target[t] = "absent"
    /\ target' = [target EXCEPT ![t] = "open"]
    /\ intent' = [intent EXCEPT ![t] = Pending(@, "past")]
    /\ UNCHANGED <<execution, winner, broker, enqueued, relay, worker, faults>>

\* Mutant: an intent marked dead stays dead.
RequestTaskRedelivery_NotTheDead(t) ==
    /\ target[t] = "open"
    /\ IntentUnlocked(t)
    /\ ~LeaseActive(t)
    /\ execution[t].outcome # "succeeded"
    /\ intent[t].state = "published"
    /\ Copies(t) < MaxCopies
    /\ intent' = [intent EXCEPT ![t] = Pending(@, "past")]
    /\ UNCHANGED <<execution, target, winner, broker, enqueued, relay, worker, faults>>

\* _candidates and _candidate: open targets that nobody works on and whose intent is
\* neither waiting for a relay nor with one.  One without an intent is not reached: the
\* intent commits with its target.
Reconcilable(t) ==
    /\ target[t] = "open"
    /\ ~LeaseActive(t)
    /\ intent[t].state \in {"published", "dead"}

\* reconcile_task_intents puts a candidate back in the outbox by
\* request_task_redelivery, whose further early returns follow its row tests.
RequestTaskRedelivery(t) ==
    /\ Reconcilable(t)
    /\ IntentUnlocked(t)
    /\ execution[t].outcome # "succeeded"
    /\ Copies(t) < MaxCopies
    /\ intent' = [intent EXCEPT ![t] = Pending(@, "past")]
    /\ UNCHANGED <<execution, target, winner, broker, enqueued, relay, worker, faults>>

-----------------------------------------------------------------------------
(* relay_once                                                              *)

\* claim_relay_intent: FOR UPDATE SKIP LOCKED over the due and the abandoned.
Claimable(t) == /\ IntentUnlocked(t)
                /\ \/ intent[t].state = "pending" /\ intent[t].due_at = "past"
                   \/ intent[t].state = "publishing" /\ intent[t].relay_lease # "live"

ClaimRelayIntent(r, t) ==
    /\ relay[r].pc = "idle"
    /\ Claimable(t)
    /\ Copies(t) < MaxCopies
    /\ intent' = [intent EXCEPT ![t] = Publishing(@, r)]
    /\ relay' = [relay EXCEPT ![r] = [pc |-> "publish", task |-> t,
                                      generation |-> intent[t].relay_generation + 1]]
    /\ UNCHANGED <<execution, target, winner, broker, enqueued, worker, faults>>

\* claim_relay_intent on a row whose message fails validation.
PoisonInvalidIntent(r, t) ==
    /\ relay[r].pc = "idle"
    /\ Claimable(t)
    /\ Fault("invalid")
    /\ intent' = [intent EXCEPT ![t] = Poisoned(@)]
    /\ UNCHANGED <<execution, target, winner, broker, enqueued, relay, worker>>

PublishTask(r) ==
    LET t == relay[r].task IN
    /\ relay[r].pc = "publish"
    /\ broker' = [broker EXCEPT ![t] = @ + 1]
    /\ enqueued' = [enqueued EXCEPT ![t] = @ \cup {relay[r].generation}]
    /\ RelayTo(r, "ack")
    /\ UNCHANGED <<rows, worker, faults>>

\* publish_task raises: a transient error or a permanent one.
PublishFails(r) ==
    /\ relay[r].pc = "publish"
    /\ Fault("publish")
    /\ \E pc \in {"reject", "poison"} : RelayTo(r, pc)
    /\ UNCHANGED <<rows, broker, enqueued, worker>>

AcknowledgeRelayPublish(r) ==
    LET t == relay[r].task IN
    /\ relay[r].pc = "ack"
    /\ IntentUnlocked(t)
    /\ intent' = IF RelayMatches(r, t)
                 THEN [intent EXCEPT ![t] = Published(@)]
                 ELSE intent
    /\ relay' = [relay EXCEPT ![r] = IdleRelay]
    /\ UNCHANGED <<execution, target, winner, broker, enqueued, worker, faults>>

RejectRelayPublish(r) ==
    LET t == relay[r].task IN
    /\ relay[r].pc \in {"reject", "poison"}
    /\ IntentUnlocked(t)
    /\ intent' = IF ~RelayMatches(r, t) THEN intent
                 ELSE IF relay[r].pc = "poison" THEN [intent EXCEPT ![t] = Poisoned(@)]
                 ELSE [intent EXCEPT ![t] = Pending(@, "future")]
    /\ relay' = [relay EXCEPT ![r] = IdleRelay]
    /\ UNCHANGED <<execution, target, winner, broker, enqueued, worker, faults>>

\* The backoff of a rejected publish runs out.
BackoffElapses(t) ==
    /\ intent[t].state = "pending" /\ intent[t].due_at = "future"
    /\ intent' = [intent EXCEPT ![t] = Pending(@, "past")]
    /\ UNCHANGED <<execution, target, winner, broker, enqueued, relay, worker, faults>>

RelayCrash(r) ==
    /\ relay[r].pc # "idle"
    /\ Fault("relay_crash")
    /\ relay' = [relay EXCEPT ![r] = IdleRelay]
    /\ UNCHANGED <<rows, broker, enqueued, worker>>

\* The relay's lease runs out: for free once its owner is gone, as a fault
\* while the owner is only slow.
RelayLeaseLapses(t) ==
    /\ intent[t].state = "publishing" /\ intent[t].relay_lease = "live"
    /\ IF \E r \in Relays : relay[r].task = t /\ RelayMatches(r, t)
       THEN Fault("slow_relay")
       ELSE UNCHANGED faults
    /\ intent' = [intent EXCEPT ![t] = Abandoned(@)]
    /\ UNCHANGED <<execution, target, winner, broker, enqueued, relay, worker>>

-----------------------------------------------------------------------------
(* _consume and the handlers                                               *)

\* What a worker knows of a task when it turns to pc: the generation it would
\* claim, and the outcome that it would replace.
Receiving(t, pc) == [pc |-> pc, task |-> t, generation |-> execution[t].generation + 1,
                     seen |-> execution[t].outcome]

\* Dramatiq hands a copy to an idle thread; claim_task locks the intent and
\* reads the execution row.  A rejected claim returns, which consumes the copy.
ClaimTaskRead(w, t) ==
    /\ worker[w].pc = "idle"
    /\ broker[t] > 0
    /\ IntentUnlocked(t)
    /\ broker' = [broker EXCEPT ![t] = @ - 1]
    /\ worker' = [worker EXCEPT ![w] =
           Receiving(t, IF execution[t].outcome = "succeeded" \/ LeaseActive(t)
                        THEN "returned" ELSE "claiming")]
    /\ UNCHANGED <<rows, enqueued, relay, faults>>

\* The claim is written.  The ORM sends the columns that differ from what was
\* read, so an execution read as "running" keeps whatever outcome it has now.
ClaimTaskWrite(w, t) ==
    [outcome |-> IF worker[w].seen = "running" THEN execution[t].outcome ELSE "running",
     generation |-> worker[w].generation, owner |-> w, lease |-> "live"]

\* The rest of the claiming transaction: a target that is already settled
\* finishes the claim at once.
ClaimTaskCommit(w) ==
    LET t == worker[w].task IN
    /\ worker[w].pc = "claiming"
    /\ \/ /\ target[t] = "open"
          /\ execution' = [execution EXCEPT ![t] = ClaimTaskWrite(w, t)]
          /\ WorkerTo(w, "working")
       \/ /\ target[t] # "open"
          /\ execution' = [execution EXCEPT ![t] = Finished(ClaimTaskWrite(w, t), "succeeded")]
          /\ WorkerTo(w, "returned")
    /\ UNCHANGED <<intent, target, winner, broker, enqueued, relay, faults>>

\* An exception rolls the claiming transaction back; the fenced failure path
\* that follows finds nothing to finish.  ApiError and TaskReceiptError are
\* permanent, and validate_task_message can raise one before any claim.
ClaimTaskRollback(w) ==
    /\ worker[w].pc = "claiming"
    /\ \/ Fault("transient") /\ WorkerTo(w, "raised")
       \/ Fault("permanent") /\ WorkerTo(w, "poisoning")
    /\ UNCHANGED <<rows, broker, enqueued, relay>>

RejectBeforeClaim(w, t) ==
    /\ worker[w].pc = "idle"
    /\ broker[t] > 0
    /\ Fault("permanent")
    /\ broker' = [broker EXCEPT ![t] = @ - 1]
    /\ worker' = [worker EXCEPT ![w] = Receiving(t, "poisoning")]
    /\ UNCHANGED <<rows, enqueued, relay>>

\* heartbeat_claim, from the handler or from the renewal thread.
HeartbeatClaim(w) ==
    LET t == worker[w].task IN
    /\ worker[w].pc = "working"
    /\ ClaimIsCurrent(w, t)
    /\ execution[t].lease # "live"
    /\ execution' = [execution EXCEPT ![t] = Leased(@, "live")]
    /\ UNCHANGED <<intent, target, winner, broker, enqueued, relay, worker, faults>>

\* The final transaction of verify_upload: fence, target guard, effects,
\* finish_claim.  A claim that is not current writes nothing.
Finalize(w) ==
    LET t == worker[w].task IN
    /\ worker[w].pc = "working"
    /\ \/ /\ ~ClaimIsCurrent(w, t)
          /\ UNCHANGED <<execution, target, winner>>
       \/ /\ ClaimIsCurrent(w, t)
          /\ target[t] = "open"
          /\ target' = [target EXCEPT ![t] = "settled"]
          /\ winner' = [winner EXCEPT ![t] = worker[w].generation]
          /\ execution' = [execution EXCEPT ![t] = Finished(@, "succeeded")]
    /\ WorkerTo(w, "returned")
    /\ UNCHANGED <<intent, broker, enqueued, relay, faults>>

\* Mutant: the failure path finishes the claim as a success.
WorkFails_Succeeded(w) ==
    LET t == worker[w].task IN
    /\ worker[w].pc = "working"
    /\ execution' = IF ClaimIsCurrent(w, t)
                    THEN [execution EXCEPT ![t] = Finished(@, "succeeded")]
                    ELSE execution
    /\ Fault("transient")
    /\ WorkerTo(w, "raised")
    /\ UNCHANGED <<intent, target, winner, broker, enqueued, relay>>

\* An exception during the work: _finish_non_analysis_claim, then re-raised.
WorkFails(w) ==
    LET t == worker[w].task IN
    /\ worker[w].pc = "working"
    /\ execution' = IF ClaimIsCurrent(w, t)
                    THEN [execution EXCEPT ![t] = Finished(@, "failed")]
                    ELSE execution
    /\ \/ Fault("transient") /\ WorkerTo(w, "raised")
       \/ Fault("permanent") /\ WorkerTo(w, "poisoning")
    /\ UNCHANGED <<intent, target, winner, broker, enqueued, relay>>

\* poison_task_delivery: found by attempt_id, whatever generation is running.
PoisonTaskDelivery(w) ==
    LET t == worker[w].task IN
    /\ worker[w].pc = "poisoning"
    /\ IntentUnlocked(t)
    /\ intent' = [intent EXCEPT ![t] = Poisoned(@)]
    /\ execution' = IF execution[t].outcome = "absent" THEN execution
                    ELSE [execution EXCEPT ![t] = Finished(@, "dead")]
    /\ WorkerTo(w, "returned")
    /\ UNCHANGED <<target, winner, broker, enqueued, relay, faults>>

\* The actor returned: the broker's copy is acknowledged.
BrokerAck(w) ==
    /\ worker[w].pc = "returned"
    /\ worker' = [worker EXCEPT ![w] = IdleWorker]
    /\ UNCHANGED <<rows, broker, enqueued, relay, faults>>

\* The actor raised: Dramatiq requeues the copy while retries are left.
BrokerRetry(w) ==
    /\ worker[w].pc = "raised"
    /\ \/ broker' = [broker EXCEPT ![worker[w].task] = @ + 1] /\ UNCHANGED faults
       \/ Fault("retries_exhausted") /\ UNCHANGED broker
    /\ worker' = [worker EXCEPT ![w] = IdleWorker]
    /\ UNCHANGED <<rows, enqueued, relay>>

\* The process dies; its open transaction is rolled back and the copy it had
\* not acknowledged is requeued for the workers that live.
WorkerCrash(w) ==
    /\ worker[w].pc # "idle"
    /\ Fault("worker_crash")
    /\ broker' = [broker EXCEPT ![worker[w].task] = @ + 1]
    /\ worker' = [worker EXCEPT ![w] = IdleWorker]
    /\ UNCHANGED <<rows, enqueued, relay>>

\* Redis loses a queued message.
BrokerLoses(t) ==
    /\ broker[t] > 0
    /\ Fault("broker_loss")
    /\ broker' = [broker EXCEPT ![t] = @ - 1]
    /\ UNCHANGED <<rows, enqueued, relay, worker>>

ExecutionLeaseLapses(t) ==
    /\ execution[t].lease = "live"
    /\ IF \E w \in Workers : worker[w].task = t /\ worker[w].pc = "working" /\ ClaimIsCurrent(w, t)
       THEN Fault("slow_worker")
       ELSE UNCHANGED faults
    /\ execution' = [execution EXCEPT ![t] = Leased(@, "lapsed")]
    /\ UNCHANGED <<intent, target, winner, broker, enqueued, relay, worker>>

-----------------------------------------------------------------------------
RelayStep(r) == \/ \E t \in Tasks : ClaimRelayIntent(r, t)
                \/ PublishTask(r)
                \/ AcknowledgeRelayPublish(r)
                \/ RejectRelayPublish(r)

WorkerStep(w) == \/ \E t \in Tasks : ClaimTaskRead(w, t)
                 \/ ClaimTaskCommit(w)
                 \/ Finalize(w)
                 \/ PoisonTaskDelivery(w)
                 \/ BrokerAck(w)
                 \/ BrokerRetry(w)

TimePasses(t) == BackoffElapses(t) \/ RelayLeaseLapses(t) \/ ExecutionLeaseLapses(t)

Failure == \/ \E r \in Relays : PublishFails(r) \/ RelayCrash(r)
           \/ \E r \in Relays, t \in Tasks : PoisonInvalidIntent(r, t)
           \/ \E w \in Workers : ClaimTaskRollback(w) \/ WorkFails(w) \/ WorkerCrash(w)
           \/ \E w \in Workers, t \in Tasks : RejectBeforeClaim(w, t)
           \/ \E t \in Tasks : BrokerLoses(t)

Next == \/ \E t \in Tasks : CreateTaskIntent(t) \/ RequestTaskRedelivery(t) \/ TimePasses(t)
        \/ \E r \in Relays : RelayStep(r)
        \/ \E w \in Workers : WorkerStep(w) \/ HeartbeatClaim(w)
        \/ Failure

Spec == Init /\ [][Next]_vars

\* Processes that are up keep running, and time passes.  Failures are finite
\* in number and never forced.
Fairness == /\ \A r \in Relays : WF_vars(RelayStep(r))
            /\ \A w \in Workers : WF_vars(WorkerStep(w))
            /\ \A t \in Tasks : WF_vars(TimePasses(t))

\* Nobody but an operator runs the reconciliation command; here one does.
FairSpec == Spec /\ Fairness /\ \A t \in Tasks : WF_vars(RequestTaskRedelivery(t))

-----------------------------------------------------------------------------
(* Properties                                                              *)

\* Two workers never hold the same generation of a task, and no worker holds
\* one that the execution row has not reached: the claim read without a lock
\* (session.get in claim_task) is made safe by the lock on the intent.
ClaimsDistinct ==
    \A w1, w2 \in Workers :
        worker[w1].pc = "working" =>
            /\ worker[w1].generation =< execution[worker[w1].task].generation
            /\ (worker[w2].pc = "working" /\ worker[w1].task = worker[w2].task
                /\ worker[w1].generation = worker[w2].generation) => w1 = w2

\* An intent recorded as published was put in the broker by the very relay
\* claim the record belongs to: a slow relay's late acknowledgement never
\* stands in for a successor's publish that has not happened.
AckNamesARealPublish ==
    \A t \in Tasks : intent[t].state = "published" =>
                          intent[t].relay_generation \in enqueued[t]

\* Whatever relays and workers do to each other's claims: rows and local states
\* keep their types, live claims differ, and what is recorded as published was.
ClaimsAreSound == TypeOK /\ ClaimsDistinct /\ AckNamesARealPublish

\* An execution is "succeeded" only once its target is settled.  Redelivery
\* refuses a succeeded execution, so an open target behind one would be
\* stranded for good.
NoStrandedSuccess ==
    \A t \in Tasks : execution[t].outcome = "succeeded" => target[t] = "settled"

\* The hand-off implements fenced, at-most-once tasks: whatever is duplicated,
\* lost, late or poisoned, a target is settled once, by the newest claim.
FT == INSTANCE FencedTask WITH
          Holders <- Workers, Nobody <- NoOwner,
          grant <- [t \in Tasks |-> execution[t].generation],
          holder <- [t \in Tasks |-> IF execution[t].outcome = "running"
                                      THEN execution[t].owner ELSE NoOwner]
AtMostOnceFenced == FT!Spec

\* With an operator who reconciles, every open target is settled, whichever
\* finitely many crashes, losses, lapses and errors happen on the way.
OpenTargetsSettle == \A t \in Tasks : target[t] = "open" ~> target[t] = "settled"
=============================================================================
