--------------------------- MODULE ServicesProofs ---------------------------
(***************************************************************************)
(* What holds of four parts of the platform that share no state, for any   *)
(* number of tasks, processes, accounts, files, modules and failures:      *)
(* TaskHandoff (its invariants, and that it implements FencedTask),        *)
(* Accounts, SymbolSource and SymbolGateway.  Every part has an inductive  *)
(* invariant of its own, stated where its section begins.                  *)
(***************************************************************************)
EXTENDS TaskHandoff, Accounts, SymbolSource, SymbolGateway, FiniteSetTheorems,
        NaturalsInduction, WellFoundedInduction, TLAPS


\* A busy process is busy with a task, and nothing is in flight for a task
\* whose domain row does not exist yet.
InFlight ==
    /\ \A w \in Workers : worker[w].pc # "idle" => /\ worker[w].task \in Tasks
                                                   /\ target[worker[w].task] # "absent"
    /\ \A r \in Relays : relay[r].pc # "idle" => /\ relay[r].task \in Tasks
                                                 /\ target[relay[r].task] # "absent"
    /\ \A t \in Tasks : broker[t] > 0 \/ intent[t].state # "absent" => target[t] # "absent"

\* The lock on the intent row: one claiming transaction per task, and the
\* generation it is about to write is the successor of the committed one.
ClaimLock ==
    /\ \A w1, w2 \in Workers : (/\ worker[w1].pc = "claiming" /\ worker[w2].pc = "claiming"
                                /\ worker[w1].task = worker[w2].task) => w1 = w2
    /\ \A w \in Workers : worker[w].pc = "claiming" =>
           worker[w].generation = execution[worker[w].task].generation + 1

\* A relay that is about to acknowledge has published.
AckAfterPublish ==
    \A r \in Relays : relay[r].pc = "ack" => relay[r].generation \in enqueued[relay[r].task]

\* Only a settled target has a winner.
WinnerSettled == \A t \in Tasks : target[t] # "settled" => winner[t] = 0

IInv == /\ TypeOK
        /\ InFlight
        /\ ClaimLock
        /\ AckAfterPublish
        /\ WinnerSettled
        /\ ClaimsDistinct
        /\ AckNamesARealPublish
        /\ NoStrandedSuccess

USE HandoffAssumption

\* The empty tables and idle processes satisfy the invariant.
LEMMA InitIInv == Init => IInv
  BY DEF Init, IInv, TypeOK, InFlight, ClaimLock, AckAfterPublish, WinnerSettled,
         ClaimsDistinct, AckNamesARealPublish, NoStrandedSuccess, IntentRow, ExecutionRow,
         RelayState, WorkerState, RelayPcs, WorkerPcs, NoIntent, NoExecution, IdleRelay, IdleWorker, Leases, Outcomes

\* Every operation on a task_intents row leaves a well-formed row, with the
\* state, the owner and the relay generation the operation is meant to leave.
LEMMA IntentRows ==
  ASSUME NEW row \in IntentRow
  PROVE  /\ row.relay_generation \in Nat
         /\ Poisoned(row) \in IntentRow /\ Poisoned(row).state = "dead"
         /\ \A d \in {"past", "future"} : Pending(row, d) \in IntentRow /\ Pending(row, d).state = "pending"
         /\ \A r \in Relays : Publishing(row, r) \in IntentRow /\ Publishing(row, r).state = "publishing"
         /\ Published(row) \in IntentRow /\ Published(row).state = "published"
         /\ Published(row).relay_generation = row.relay_generation
         /\ Abandoned(row) \in IntentRow /\ Abandoned(row).state = row.state
  <1> USE DEF IntentRow, Leases
  <1>1. Poisoned(row) \in IntentRow /\ Poisoned(row).state = "dead" /\ row.relay_generation \in Nat
    BY DEF Poisoned
  <1>2. ASSUME NEW d \in {"past", "future"}
        PROVE  Pending(row, d) \in IntentRow /\ Pending(row, d).state = "pending"
    BY DEF Pending
  <1>3. ASSUME NEW r \in Relays
        PROVE  Publishing(row, r) \in IntentRow /\ Publishing(row, r).state = "publishing"
    <2> DEFINE kept == [row EXCEPT !.state = "publishing", !.relay_owner = r, !.relay_lease = "live"]
    <2>1. kept \in IntentRow /\ kept.state = "publishing" /\ kept.relay_generation = row.relay_generation
      OBVIOUS
    <2>2. Publishing(row, r) = [kept EXCEPT !.relay_generation = @ + 1]
      BY DEF Publishing
    <2> HIDE DEF kept
    <2>3. [kept EXCEPT !.relay_generation = @ + 1] \in IntentRow
          /\ [kept EXCEPT !.relay_generation = @ + 1].state = kept.state
      BY <2>1
    <2> QED  BY <2>1, <2>2, <2>3
  <1>4. /\ Published(row) \in IntentRow /\ Published(row).state = "published"
        /\ Published(row).relay_generation = row.relay_generation
    BY DEF Published
  <1>5. Abandoned(row) \in IntentRow /\ Abandoned(row).state = row.state
    BY DEF Abandoned
  <1> HIDE DEF IntentRow
  <1> QED  BY <1>1, <1>2, <1>3, <1>4, <1>5

\* The same for task_executions: finishing or leasing a row keeps its
\* generation and its owner.
LEMMA ExecutionRows ==
  ASSUME NEW row \in ExecutionRow
  PROVE  /\ row.generation \in Nat /\ row.outcome \in Outcomes
         /\ \A o \in Outcomes :
               /\ Finished(row, o) \in ExecutionRow
               /\ Finished(row, o).outcome = o
               /\ Finished(row, o).generation = row.generation
         /\ \A l \in Leases :
               /\ Leased(row, l) \in ExecutionRow
               /\ Leased(row, l).outcome = row.outcome
               /\ Leased(row, l).generation = row.generation
               /\ Leased(row, l).owner = row.owner
  BY DEF ExecutionRow, Leases, Outcomes, Finished, Leased

\* Moving an actor call to another step keeps its claim.
LEMMA WorkerStates ==
  /\ IdleWorker \in WorkerState /\ IdleWorker.pc = "idle"
  /\ \A s \in WorkerState, pc \in WorkerPcs :
        /\ s.generation \in Nat /\ s.seen \in Outcomes
        /\ At(s, pc) \in WorkerState
        /\ At(s, pc).pc = pc
        /\ At(s, pc).task = s.task
        /\ At(s, pc).generation = s.generation
  BY DEF WorkerState, IdleWorker, WorkerPcs, Outcomes, At

\* An actor call that read a well-formed execution row holds a well-formed claim.
LEMMA ReceivingState ==
  ASSUME TypeOK, NEW t \in Tasks, NEW pc \in WorkerPcs
  PROVE  /\ Receiving(t, pc) \in WorkerState
         /\ Receiving(t, pc).pc = pc
         /\ Receiving(t, pc).task = t
         /\ Receiving(t, pc).generation = execution[t].generation + 1
  <1>1. execution[t] \in ExecutionRow  BY DEF TypeOK
  <1>2. execution[t].generation \in Nat /\ execution[t].outcome \in Outcomes  BY <1>1, ExecutionRows
  <1> QED  BY <1>2 DEF Receiving, WorkerState

\* Moving a relay to another step keeps its claim.
LEMMA RelayStates ==
  /\ IdleRelay \in RelayState /\ IdleRelay.pc = "idle"
  /\ \A s \in RelayState, pc \in RelayPcs :
        /\ s.generation \in Nat
        /\ At(s, pc) \in RelayState
        /\ At(s, pc).pc = pc
        /\ At(s, pc).task = s.task
        /\ At(s, pc).generation = s.generation
  BY DEF RelayState, IdleRelay, RelayPcs, At

\* What a move of one worker changes.
LEMMA WorkerMoves ==
  ASSUME TypeOK, NEW w \in Workers, NEW pc \in WorkerPcs, WorkerTo(w, pc)
  PROVE  /\ worker' \in [Workers -> WorkerState]
         /\ \A v \in Workers :
               /\ worker'[v].task = worker[v].task
               /\ worker'[v].generation = worker[v].generation
               /\ worker'[v].pc = IF v = w THEN pc ELSE worker[v].pc
  BY WorkerStates DEF TypeOK, WorkerTo

\* What finishing a task's execution changes.
LEMMA FinishWrites ==
  ASSUME TypeOK, NEW t \in Tasks, NEW o \in Outcomes,
         execution' = [execution EXCEPT ![t] = Finished(@, o)]
  PROVE  /\ execution' \in [Tasks -> ExecutionRow]
         /\ \A u \in Tasks :
               /\ execution'[u].generation = execution[u].generation
               /\ execution'[u].outcome = IF u = t THEN o ELSE execution[u].outcome
               /\ u # t => execution'[u] = execution[u]
  <1>1. execution \in [Tasks -> ExecutionRow]  BY DEF TypeOK
  <1>2. /\ Finished(execution[t], o) \in ExecutionRow
        /\ Finished(execution[t], o).outcome = o
        /\ Finished(execution[t], o).generation = execution[t].generation
    BY <1>1, ExecutionRows
  <1>3. execution' = [u \in Tasks |-> IF u = t THEN Finished(execution[t], o) ELSE execution[u]]
    BY <1>1
  <1>4. execution' \in [Tasks -> ExecutionRow]
    BY <1>1, <1>2, <1>3
  <1>5. ASSUME NEW u \in Tasks
        PROVE  /\ execution'[u].generation = execution[u].generation
               /\ execution'[u].outcome = IF u = t THEN o ELSE execution[u].outcome
               /\ u # t => execution'[u] = execution[u]
    <2>1. CASE u = t
      <3>1. execution'[u] = Finished(execution[t], o)  BY <1>3, <2>1
      <3> QED  BY <3>1, <2>1, <1>2
    <2>2. CASE u # t
      <3>1. execution'[u] = execution[u]  BY <1>3, <2>2
      <3> QED  BY <3>1, <2>2
    <2> QED  BY <2>1, <2>2
  <1> QED  BY <1>4, <1>5

\* The typing part of the invariant: one step per operation.
LEMMA TypeStep == TypeOK /\ InFlight /\ [Next]_vars => TypeOK'
  <1> SUFFICES ASSUME TypeOK, InFlight, [Next]_vars PROVE TypeOK'
    OBVIOUS
  <1> USE DEF TypeOK
  <1>1. ASSUME NEW t \in Tasks, CreateTaskIntent(t) PROVE TypeOK'
    BY <1>1, IntentRows DEF CreateTaskIntent
  <1>2. ASSUME NEW t \in Tasks, RequestTaskRedelivery(t) PROVE TypeOK'
    BY <1>2, IntentRows DEF RequestTaskRedelivery, Reconcilable
  <1>3. ASSUME NEW t \in Tasks, TimePasses(t) PROVE TypeOK'
    <2>1. CASE BackoffElapses(t)  BY <2>1, IntentRows DEF BackoffElapses
    <2>2. CASE RelayLeaseLapses(t)  BY <2>2, IntentRows DEF RelayLeaseLapses, Fault
    <2>3. CASE ExecutionLeaseLapses(t)
      BY <2>3, ExecutionRows DEF ExecutionLeaseLapses, Fault, Leases
    <2> QED  BY <1>3, <2>1, <2>2, <2>3 DEF TimePasses
  <1>4. ASSUME NEW r \in Relays, RelayStep(r) PROVE TypeOK'
    <2>1. ASSUME NEW t \in Tasks, ClaimRelayIntent(r, t) PROVE TypeOK'
      <3>1. [pc |-> "publish", task |-> t, generation |-> intent[t].relay_generation + 1] \in RelayState
        BY DEF RelayState, RelayPcs, IntentRow
      <3> QED  BY <2>1, <3>1, IntentRows DEF ClaimRelayIntent
    <2>2. CASE PublishTask(r)
      BY <2>2, RelayStates DEF PublishTask, InFlight, RelayTo, RelayPcs, rows
    <2>3. CASE AcknowledgeRelayPublish(r)
      BY <2>3, IntentRows, RelayStates DEF AcknowledgeRelayPublish, InFlight
    <2>4. CASE RejectRelayPublish(r)
      BY <2>4, IntentRows, RelayStates DEF RejectRelayPublish, InFlight
    <2> QED  BY <1>4, <2>1, <2>2, <2>3, <2>4 DEF RelayStep
  <1>5. ASSUME NEW w \in Workers, WorkerStep(w) \/ HeartbeatClaim(w) PROVE TypeOK'
    <2>1. ASSUME NEW t \in Tasks, ClaimTaskRead(w, t) PROVE TypeOK'
      BY <2>1, ReceivingState DEF ClaimTaskRead, WorkerPcs, rows
    <2>2. CASE ClaimTaskCommit(w)
      <3>1. worker[w].task \in Tasks  BY <2>2 DEF ClaimTaskCommit, InFlight
      <3>2. ClaimTaskWrite(w, worker[w].task) \in ExecutionRow
        BY <3>1, ExecutionRows, WorkerStates
        DEF ClaimTaskWrite, ExecutionRow, Leases, Outcomes, WorkerState
      <3> QED
        <4>0. Finished(ClaimTaskWrite(w, worker[w].task), "succeeded") \in ExecutionRow
          BY <3>2, ExecutionRows DEF Outcomes
        <4>1. execution' \in [Tasks -> ExecutionRow]
          BY <2>2, <3>1, <3>2, <4>0 DEF ClaimTaskCommit
        <4>2. worker' \in [Workers -> WorkerState]
          BY <2>2, WorkerMoves DEF ClaimTaskCommit, WorkerPcs
        <4> QED  BY <2>2, <4>1, <4>2 DEF ClaimTaskCommit
    <2>3. CASE Finalize(w)
      <3>1. worker[w].task \in Tasks /\ worker[w].generation \in Nat
        BY <2>3, WorkerStates DEF Finalize, InFlight, WorkerPcs
      <3>2. execution' \in [Tasks -> ExecutionRow]
        BY <2>3, <3>1, FinishWrites DEF Finalize, Outcomes
      <3>3. worker' \in [Workers -> WorkerState]
        BY <2>3, WorkerMoves DEF Finalize, WorkerPcs
      <3> QED  BY <2>3, <3>1, <3>2, <3>3 DEF Finalize
    <2>4. CASE PoisonTaskDelivery(w)
      <3>1. worker[w].task \in Tasks  BY <2>4 DEF PoisonTaskDelivery, InFlight
      <3>2. execution' \in [Tasks -> ExecutionRow]
        BY <2>4, <3>1, FinishWrites DEF PoisonTaskDelivery, Outcomes
      <3>3. worker' \in [Workers -> WorkerState]
        BY <2>4, WorkerMoves DEF PoisonTaskDelivery, WorkerPcs
      <3> QED  BY <2>4, <3>1, <3>2, <3>3, IntentRows DEF PoisonTaskDelivery
    <2>5. CASE BrokerAck(w)  BY <2>5, WorkerStates DEF BrokerAck, rows
    <2>6. CASE BrokerRetry(w)  BY <2>6, WorkerStates DEF BrokerRetry, InFlight, Fault, rows
    <2>7. CASE HeartbeatClaim(w)  BY <2>7, ExecutionRows DEF HeartbeatClaim, InFlight, Leases
    <2> QED  BY <1>5, <2>1, <2>2, <2>3, <2>4, <2>5, <2>6, <2>7 DEF WorkerStep
  <1>6. CASE Failure
    <2>1. ASSUME NEW r \in Relays, PublishFails(r) \/ RelayCrash(r) PROVE TypeOK'
      BY <2>1, RelayStates DEF PublishFails, RelayCrash, RelayTo, RelayPcs, Fault, rows
    <2>2. ASSUME NEW r \in Relays, NEW t \in Tasks, PoisonInvalidIntent(r, t) PROVE TypeOK'
      BY <2>2, IntentRows DEF PoisonInvalidIntent, Fault
    <2>3. ASSUME NEW w \in Workers, ClaimTaskRollback(w) PROVE TypeOK'
      BY <2>3, WorkerMoves DEF ClaimTaskRollback, WorkerPcs, Fault, rows
    <2>4. ASSUME NEW w \in Workers, WorkFails(w) PROVE TypeOK'
      <3>1. worker[w].task \in Tasks  BY <2>4 DEF WorkFails, InFlight
      <3>2. execution' \in [Tasks -> ExecutionRow]
        BY <2>4, <3>1, FinishWrites DEF WorkFails, Outcomes
      <3>3. worker' \in [Workers -> WorkerState]
        BY <2>4, WorkerMoves DEF WorkFails, WorkerPcs
      <3> QED  BY <2>4, <3>2, <3>3 DEF WorkFails, Fault
    <2>5. ASSUME NEW w \in Workers, WorkerCrash(w) PROVE TypeOK'
      BY <2>5, WorkerStates DEF WorkerCrash, InFlight, Fault, rows
    <2>6. ASSUME NEW w \in Workers, NEW t \in Tasks, RejectBeforeClaim(w, t) PROVE TypeOK'
      BY <2>6, ReceivingState DEF RejectBeforeClaim, WorkerPcs, Fault, rows
    <2>7. ASSUME NEW t \in Tasks, BrokerLoses(t) PROVE TypeOK'
      BY <2>7 DEF BrokerLoses, Fault, rows
    <2> QED  BY <1>6, <2>1, <2>2, <2>3, <2>4, <2>5, <2>6, <2>7 DEF Failure
  <1>7. CASE UNCHANGED vars  BY <1>7 DEF vars
  <1> QED  BY <1>1, <1>2, <1>3, <1>4, <1>5, <1>6, <1>7 DEF Next

\* Facts about a state that the steps below share: the row and process states
\* are well formed, whatever their fields are.
LEMMA Fields ==
  ASSUME TypeOK
  PROVE  /\ \A t \in Tasks :
               /\ intent[t] \in IntentRow
               /\ execution[t] \in ExecutionRow
               /\ execution[t].generation \in Nat
               /\ broker[t] \in Nat
         /\ \A w \in Workers : worker[w] \in WorkerState /\ worker[w].generation \in Nat
         /\ \A r \in Relays : relay[r] \in RelayState /\ relay[r].generation \in Nat
  BY ExecutionRows, WorkerStates, RelayStates DEF TypeOK, WorkerPcs, RelayPcs

\* A relay past claim_relay_intent, and an actor call past its first read,
\* always names a task, with a generation the rows have reached.
LEMMA InFlightStep == TypeOK /\ InFlight /\ [Next]_vars => InFlight'
  <1> SUFFICES ASSUME TypeOK, InFlight, [Next]_vars PROVE InFlight'
    OBVIOUS
  <1> USE Fields DEF TypeOK, InFlight
  <1>1. ASSUME NEW t \in Tasks, CreateTaskIntent(t) PROVE InFlight'
    BY <1>1 DEF CreateTaskIntent
  <1>2. ASSUME NEW t \in Tasks, RequestTaskRedelivery(t) PROVE InFlight'
    BY <1>2 DEF RequestTaskRedelivery, Reconcilable
  <1>3. ASSUME NEW t \in Tasks, TimePasses(t) PROVE InFlight'
    BY <1>3 DEF TimePasses, BackoffElapses, RelayLeaseLapses, ExecutionLeaseLapses
  <1>4. ASSUME NEW r \in Relays, RelayStep(r) PROVE InFlight'
    <2>1. ASSUME NEW t \in Tasks, ClaimRelayIntent(r, t) PROVE InFlight'
      BY <2>1 DEF ClaimRelayIntent, Claimable
    <2>2. CASE PublishTask(r)
      BY <2>2, RelayStates DEF PublishTask, RelayTo, RelayPcs, rows
    <2>3. CASE AcknowledgeRelayPublish(r)
      BY <2>3, RelayStates DEF AcknowledgeRelayPublish
    <2>4. CASE RejectRelayPublish(r)
      BY <2>4, RelayStates DEF RejectRelayPublish
    <2> QED  BY <1>4, <2>1, <2>2, <2>3, <2>4 DEF RelayStep
  <1>5. ASSUME NEW w \in Workers, WorkerStep(w) \/ HeartbeatClaim(w) PROVE InFlight'
    <2>1. ASSUME NEW t \in Tasks, ClaimTaskRead(w, t) PROVE InFlight'
      BY <2>1, ReceivingState DEF ClaimTaskRead, WorkerPcs, rows
    <2>2. CASE ClaimTaskCommit(w)
      BY <2>2, WorkerMoves, SMTT(30) DEF ClaimTaskCommit, WorkerPcs
    <2>3. CASE Finalize(w)
      <3>1. \A t \in Tasks : target[t] # "absent" => target'[t] # "absent"
        BY <2>3 DEF Finalize
      <3>2. UNCHANGED <<intent, broker, relay>> /\ WorkerTo(w, "returned") /\ worker[w].pc = "working"
        BY <2>3 DEF Finalize
      <3> QED  BY <3>1, <3>2, WorkerMoves DEF WorkerPcs
    <2>4. CASE PoisonTaskDelivery(w)
      BY <2>4, WorkerMoves, SMTT(30) DEF PoisonTaskDelivery, WorkerPcs
    <2>5. CASE BrokerAck(w)  BY <2>5, WorkerStates DEF BrokerAck, rows
    <2>6. CASE BrokerRetry(w)  BY <2>6, WorkerStates DEF BrokerRetry, rows
    <2>7. CASE HeartbeatClaim(w)  BY <2>7 DEF HeartbeatClaim
    <2> QED  BY <1>5, <2>1, <2>2, <2>3, <2>4, <2>5, <2>6, <2>7 DEF WorkerStep
  <1>6. CASE Failure
    <2>1. ASSUME NEW r \in Relays, PublishFails(r) \/ RelayCrash(r) PROVE InFlight'
      <3>1. CASE PublishFails(r)
        <4>1. PICK pc \in {"reject", "poison"} : RelayTo(r, pc)  BY <3>1 DEF PublishFails
        <4>2. relay[r].pc = "publish" /\ UNCHANGED <<intent, target, broker, worker>>
          BY <3>1 DEF PublishFails, rows
        <4>3. ASSUME NEW q \in Relays
              PROVE  relay'[q].task = relay[q].task /\ (q # r => relay'[q].pc = relay[q].pc)
          BY <4>1, RelayStates DEF RelayTo, RelayPcs
        <4> QED  BY <4>2, <4>3
      <3>2. CASE RelayCrash(r)  BY <3>2, RelayStates DEF RelayCrash, rows
      <3> QED  BY <2>1, <3>1, <3>2
    <2>2. ASSUME NEW r \in Relays, NEW t \in Tasks, PoisonInvalidIntent(r, t) PROVE InFlight'
      BY <2>2 DEF PoisonInvalidIntent, Claimable
    <2>3. ASSUME NEW w \in Workers, ClaimTaskRollback(w) PROVE InFlight'
      <3>1. PICK pc \in {"raised", "poisoning"} : WorkerTo(w, pc)  BY <2>3 DEF ClaimTaskRollback
      <3> QED  BY <2>3, <3>1, WorkerMoves DEF ClaimTaskRollback, WorkerPcs, rows
    <2>4. ASSUME NEW w \in Workers, WorkFails(w) PROVE InFlight'
      <3>1. PICK pc \in {"raised", "poisoning"} : WorkerTo(w, pc)  BY <2>4 DEF WorkFails
      <3>2. UNCHANGED <<intent, target, broker, relay>> /\ worker[w].pc = "working"
        BY <2>4 DEF WorkFails
      <3> QED  BY <3>1, <3>2, WorkerMoves DEF WorkerPcs
    <2>5. ASSUME NEW w \in Workers, WorkerCrash(w) PROVE InFlight'
      BY <2>5, WorkerStates DEF WorkerCrash, rows
    <2>6. ASSUME NEW w \in Workers, NEW t \in Tasks, RejectBeforeClaim(w, t) PROVE InFlight'
      BY <2>6, ReceivingState DEF RejectBeforeClaim, WorkerPcs, rows
    <2>7. ASSUME NEW t \in Tasks, BrokerLoses(t) PROVE InFlight'
      BY <2>7 DEF BrokerLoses, rows
    <2> QED  BY <1>6, <2>1, <2>2, <2>3, <2>4, <2>5, <2>6, <2>7 DEF Failure
  <1>7. CASE UNCHANGED vars  BY <1>7 DEF vars
  <1> QED  BY <1>1, <1>2, <1>3, <1>4, <1>5, <1>6, <1>7 DEF Next

\* Claims survive a step as they are, or end: true of every step but the two
\* of claim_task.
ClaimsKept ==
    /\ \A t \in Tasks : execution'[t].generation = execution[t].generation
    /\ \A v \in Workers : worker'[v].pc \in {"claiming", "working"} =>
           /\ worker'[v].pc = worker[v].pc
           /\ worker'[v].task = worker[v].task
           /\ worker'[v].generation = worker[v].generation

\* Which steps leave the execution rows and the claims of workers alone.
LEMMA QuietSteps ==
  ASSUME TypeOK, InFlight, [Next]_vars
  PROVE  \/ ClaimsKept
         \/ \E w \in Workers, t \in Tasks : ClaimTaskRead(w, t)
         \/ \E w \in Workers : ClaimTaskCommit(w)
  <1> USE Fields DEF TypeOK
  <1>0. ASSUME UNCHANGED <<execution, worker>> PROVE ClaimsKept
    BY <1>0 DEF ClaimsKept
  <1>1. ASSUME NEW t \in Tasks, CreateTaskIntent(t) \/ RequestTaskRedelivery(t) PROVE ClaimsKept
    BY <1>0, <1>1 DEF CreateTaskIntent, RequestTaskRedelivery, Reconcilable
  <1>2. ASSUME NEW t \in Tasks, TimePasses(t) PROVE ClaimsKept
    <2>1. CASE BackoffElapses(t) \/ RelayLeaseLapses(t)
      BY <1>0, <2>1 DEF BackoffElapses, RelayLeaseLapses
    <2>2. CASE ExecutionLeaseLapses(t)
      BY <2>2, ExecutionRows DEF ExecutionLeaseLapses, ClaimsKept, Leases
    <2> QED  BY <1>2, <2>1, <2>2 DEF TimePasses
  <1>3. ASSUME NEW r \in Relays, RelayStep(r) PROVE ClaimsKept
    BY <1>0, <1>3
    DEF RelayStep, ClaimRelayIntent, PublishTask, AcknowledgeRelayPublish, RejectRelayPublish, rows
  <1>4. ASSUME NEW w \in Workers, Finalize(w) PROVE ClaimsKept
    <2>1. \A t \in Tasks : execution'[t].generation = execution[t].generation
      BY <1>4, FinishWrites DEF Finalize, InFlight, Outcomes
    <2> QED  BY <1>4, <2>1, WorkerMoves DEF Finalize, ClaimsKept, WorkerPcs
  <1>5. ASSUME NEW w \in Workers, PoisonTaskDelivery(w) PROVE ClaimsKept
    <2>1. \A t \in Tasks : execution'[t].generation = execution[t].generation
      BY <1>5, FinishWrites DEF PoisonTaskDelivery, InFlight, Outcomes
    <2> QED  BY <1>5, <2>1, WorkerMoves DEF PoisonTaskDelivery, ClaimsKept, WorkerPcs
  <1>6. ASSUME NEW w \in Workers, BrokerAck(w) \/ BrokerRetry(w) \/ WorkerCrash(w) PROVE ClaimsKept
    BY <1>6, WorkerStates DEF BrokerAck, BrokerRetry, WorkerCrash, ClaimsKept, rows
  <1>7. ASSUME NEW w \in Workers, HeartbeatClaim(w) PROVE ClaimsKept
    BY <1>7, ExecutionRows DEF HeartbeatClaim, InFlight, ClaimsKept, Leases
  <1>8. ASSUME NEW w \in Workers, ClaimTaskRollback(w) PROVE ClaimsKept
    <2>1. PICK pc \in {"raised", "poisoning"} : WorkerTo(w, pc)  BY <1>8 DEF ClaimTaskRollback
    <2> QED  BY <1>8, <2>1, WorkerMoves DEF ClaimTaskRollback, ClaimsKept, WorkerPcs, rows
  <1>9. ASSUME NEW w \in Workers, WorkFails(w) PROVE ClaimsKept
    <2>1. PICK pc \in {"raised", "poisoning"} : WorkerTo(w, pc)  BY <1>9 DEF WorkFails
    <2>2. \A t \in Tasks : execution'[t].generation = execution[t].generation
      BY <1>9, FinishWrites DEF WorkFails, InFlight, Outcomes
    <2> QED  BY <2>1, <2>2, WorkerMoves DEF ClaimsKept, WorkerPcs
  <1>10. ASSUME NEW w \in Workers, NEW t \in Tasks, RejectBeforeClaim(w, t) PROVE ClaimsKept
    BY <1>10, ReceivingState DEF RejectBeforeClaim, ClaimsKept, WorkerPcs, rows
  <1>11. ASSUME NEW r \in Relays, PublishFails(r) \/ RelayCrash(r) PROVE ClaimsKept
    BY <1>0, <1>11 DEF PublishFails, RelayCrash, rows
  <1>12. ASSUME NEW r \in Relays, NEW t \in Tasks, PoisonInvalidIntent(r, t) PROVE ClaimsKept
    BY <1>0, <1>12 DEF PoisonInvalidIntent
  <1>13. ASSUME NEW t \in Tasks, BrokerLoses(t) PROVE ClaimsKept
    BY <1>0, <1>13 DEF BrokerLoses, rows
  <1>14. ASSUME UNCHANGED vars PROVE ClaimsKept
    BY <1>0, <1>14 DEF vars
  <1> QED
    BY <1>1, <1>2, <1>3, <1>4, <1>5, <1>6, <1>7, <1>8, <1>9, <1>10, <1>11, <1>12, <1>13, <1>14
    DEF Next, WorkerStep, Failure

\* The lock on the intent keeps the generations of the claims apart.
LEMMA ClaimStep ==
  TypeOK /\ InFlight /\ ClaimLock /\ ClaimsDistinct /\ [Next]_vars => (ClaimLock /\ ClaimsDistinct)'
  <1> SUFFICES ASSUME TypeOK, InFlight, ClaimLock, ClaimsDistinct, [Next]_vars
               PROVE  (ClaimLock /\ ClaimsDistinct)'
    OBVIOUS
  <1> USE Fields DEF TypeOK
  <1>1. CASE ClaimsKept
    <2>1. TypeOK'  BY TypeStep
    <2>2. \A v \in Workers : worker'[v].pc \in {"claiming", "working"} => worker[v].task \in Tasks
      BY <1>1 DEF ClaimsKept, InFlight
    <2> QED  BY <1>1, <2>2 DEF ClaimsKept, ClaimLock, ClaimsDistinct
  <1>2. ASSUME NEW w \in Workers, NEW t \in Tasks, ClaimTaskRead(w, t)
        PROVE  (ClaimLock /\ ClaimsDistinct)'
    <2>1. PICK pc \in {"returned", "claiming"} : worker' = [worker EXCEPT ![w] = Receiving(t, pc)]
      BY <1>2 DEF ClaimTaskRead
    <2>2. \A v \in Workers : v # w => worker'[v] = worker[v]  BY <2>1
    <2>3. /\ worker'[w].pc = pc
          /\ worker'[w].task = t
          /\ worker'[w].generation = execution[t].generation + 1
      BY <2>1, ReceivingState DEF WorkerPcs
    <2>4. execution' = execution /\ IntentUnlocked(t)  BY <1>2 DEF ClaimTaskRead, rows
    <2>5. ClaimLock'  BY <2>2, <2>3, <2>4 DEF ClaimLock, IntentUnlocked
    <2>6. ClaimsDistinct'  BY <2>2, <2>3, <2>4 DEF ClaimsDistinct
    <2> QED  BY <2>5, <2>6
  <1>3. ASSUME NEW w \in Workers, ClaimTaskCommit(w)
        PROVE  (ClaimLock /\ ClaimsDistinct)'
    <2> DEFINE t == worker[w].task
    <2>1. t \in Tasks /\ worker[w].pc = "claiming"  BY <1>3 DEF ClaimTaskCommit, InFlight
    <2>2. worker[w].generation = execution[t].generation + 1  BY <2>1 DEF ClaimLock
    <2>3. ClaimTaskWrite(w, t) \in ExecutionRow /\ ClaimTaskWrite(w, t).generation = worker[w].generation
      BY <2>1, ExecutionRows, WorkerStates
      DEF ClaimTaskWrite, ExecutionRow, Leases, Outcomes, WorkerState
    <2>4. /\ execution'[t].generation = worker[w].generation
          /\ \A u \in Tasks : u # t => execution'[u] = execution[u]
      <3>1. PICK row \in ExecutionRow : /\ execution' = [execution EXCEPT ![t] = row]
                                        /\ row.generation = worker[w].generation
        <4>1. /\ Finished(ClaimTaskWrite(w, t), "succeeded") \in ExecutionRow
              /\ Finished(ClaimTaskWrite(w, t), "succeeded").generation = worker[w].generation
          BY <2>3, ExecutionRows DEF Outcomes
        <4> QED  BY <1>3, <2>3, <4>1 DEF ClaimTaskCommit
      <3> QED  BY <2>1, <3>1
    <2>5. PICK pc \in {"working", "returned"} : WorkerTo(w, pc)  BY <1>3 DEF ClaimTaskCommit
    <2>6. \A v \in Workers : /\ worker'[v].task = worker[v].task
                             /\ worker'[v].generation = worker[v].generation
                             /\ worker'[v].pc = IF v = w THEN pc ELSE worker[v].pc
      BY <2>5, WorkerMoves DEF WorkerPcs
    <2> HIDE DEF t
    <2>7. t = worker[w].task  BY DEF t
    <2>8. ClaimLock'
      BY <2>1, <2>2, <2>4, <2>6, <2>7 DEF ClaimLock, InFlight
    <2>9. ClaimsDistinct'
      <3>1. ASSUME NEW v \in Workers, worker'[v].pc = "working"
            PROVE  /\ worker'[v].generation =< execution'[worker'[v].task].generation
                   /\ (v # w /\ worker'[v].task = t) => worker'[v].generation # worker[w].generation
        <4>1. CASE v = w  BY <2>4, <2>6, <2>7, <4>1
        <4>2. CASE v # w
          <5>1. worker[v].pc = "working" /\ worker[v].task \in Tasks  BY <2>6, <3>1, <4>2 DEF InFlight
          <5>2. worker[v].generation =< execution[worker[v].task].generation
            BY <5>1 DEF ClaimsDistinct
          <5> QED  BY <2>1, <2>2, <2>4, <2>6, <4>2, <5>1, <5>2
        <4> QED  BY <4>1, <4>2
      <3> QED  BY <2>6, <2>7, <3>1 DEF ClaimsDistinct
    <2> QED  BY <2>8, <2>9
  <1> QED  BY <1>1, <1>2, <1>3, QuietSteps

\* An acknowledgement that is accepted belongs to a publish that happened.
LEMMA AckStep ==
  ASSUME TypeOK, InFlight, AckAfterPublish, AckNamesARealPublish, [Next]_vars
  PROVE  (AckAfterPublish /\ AckNamesARealPublish)'
  <1> DEFINE Goal == (AckAfterPublish /\ AckNamesARealPublish)'
  <1> USE Fields DEF TypeOK, AckAfterPublish, AckNamesARealPublish
  <1>0. ASSUME UNCHANGED <<intent, enqueued, relay>> PROVE Goal
    BY <1>0
  <1>1. ASSUME NEW t \in Tasks, UNCHANGED <<enqueued, relay>>,
               NEW row \in IntentRow, row.state # "published",
               intent' = [intent EXCEPT ![t] = row]
        PROVE  Goal
    BY <1>1
  <1>2. ASSUME NEW t \in Tasks, CreateTaskIntent(t) \/ RequestTaskRedelivery(t) PROVE Goal
    BY <1>1, <1>2, IntentRows DEF CreateTaskIntent, RequestTaskRedelivery, Reconcilable
  <1>3. ASSUME NEW t \in Tasks, TimePasses(t) PROVE Goal
    <2>1. CASE BackoffElapses(t)  BY <1>1, <2>1, IntentRows DEF BackoffElapses
    <2>2. CASE RelayLeaseLapses(t)  BY <1>1, <2>2, IntentRows DEF RelayLeaseLapses
    <2>3. CASE ExecutionLeaseLapses(t)  BY <1>0, <2>3 DEF ExecutionLeaseLapses
    <2> QED  BY <1>3, <2>1, <2>2, <2>3 DEF TimePasses
  <1>4. ASSUME NEW r \in Relays, NEW t \in Tasks, ClaimRelayIntent(r, t) PROVE Goal
    <2>1. /\ Publishing(intent[t], r) \in IntentRow /\ Publishing(intent[t], r).state = "publishing"
          /\ intent' = [intent EXCEPT ![t] = Publishing(intent[t], r)]
      BY <1>4, IntentRows DEF ClaimRelayIntent
    <2>2. \A q \in Relays : relay'[q].pc = "ack" => relay'[q] = relay[q]
      BY <1>4 DEF ClaimRelayIntent
    <2> QED  BY <1>4, <2>1, <2>2 DEF ClaimRelayIntent
  <1>5. ASSUME NEW r \in Relays, PublishTask(r) PROVE Goal
    <2> DEFINE t == relay[r].task
    <2>1. t \in Tasks /\ intent' = intent  BY <1>5 DEF PublishTask, InFlight, rows
    <2>2. enqueued' = [enqueued EXCEPT ![t] = @ \cup {relay[r].generation}]  BY <1>5 DEF PublishTask
    <2> HIDE DEF t
    <2>3. /\ \A u \in Tasks : enqueued[u] \subseteq enqueued'[u]
          /\ relay[r].generation \in enqueued'[t]
      BY <2>1, <2>2
    <2>4. ASSUME NEW q \in Relays, relay'[q].pc = "ack"
          PROVE  relay'[q].generation \in enqueued'[relay'[q].task]
      <3>1. CASE q = r
        BY <1>5, <2>3, <3>1, RelayStates DEF PublishTask, RelayTo, RelayPcs, t
      <3>2. CASE q # r
        <4>1. relay'[q] = relay[q]  BY <1>5, <3>2 DEF PublishTask, RelayTo
        <4>2. relay[q].task \in Tasks  BY <2>4, <4>1 DEF InFlight
        <4> QED  BY <2>3, <2>4, <4>1, <4>2
      <3> QED  BY <3>1, <3>2
    <2> QED  BY <2>1, <2>3, <2>4
  <1>6. ASSUME NEW r \in Relays, AcknowledgeRelayPublish(r) PROVE Goal
    <2> DEFINE t == relay[r].task
    <2>1. /\ t \in Tasks /\ relay[r].pc = "ack" /\ enqueued' = enqueued
          /\ \A q \in Relays : relay'[q].pc = "ack" => relay'[q] = relay[q]
      BY <1>6, RelayStates DEF AcknowledgeRelayPublish, InFlight
    <2>2. CASE RelayMatches(r, t)
      <3>1. intent' = [intent EXCEPT ![t] = Published(intent[t])]
        BY <1>6, <2>2 DEF AcknowledgeRelayPublish
      <3>2. intent[t].relay_generation \in enqueued[t]  BY <2>1, <2>2 DEF RelayMatches
      <3>3. /\ intent'[t].relay_generation \in enqueued[t]
            /\ \A u \in Tasks : u # t => intent'[u] = intent[u]
        BY <2>1, <3>1, <3>2, IntentRows
      <3> HIDE DEF t
      <3> QED  BY <2>1, <3>3
    <2>3. CASE ~RelayMatches(r, t)
      BY <1>6, <2>1, <2>3 DEF AcknowledgeRelayPublish
    <2> QED  BY <2>2, <2>3
  <1>7. ASSUME NEW r \in Relays, RejectRelayPublish(r) PROVE Goal
    <2> DEFINE t == relay[r].task
    <2>1. /\ t \in Tasks /\ enqueued' = enqueued
          /\ \A q \in Relays : relay'[q].pc = "ack" => relay'[q] = relay[q]
      BY <1>7, RelayStates DEF RejectRelayPublish, InFlight
    <2>2. \/ intent' = intent
          \/ intent' = [intent EXCEPT ![t] = Poisoned(intent[t])]
          \/ intent' = [intent EXCEPT ![t] = Pending(intent[t], "future")]
      BY <1>7 DEF RejectRelayPublish
    <2> HIDE DEF t
    <2> QED  BY <2>1, <2>2, IntentRows
  <1>8. ASSUME NEW w \in Workers, PoisonTaskDelivery(w) PROVE Goal
    <2>1. PICK t \in Tasks : intent' = [intent EXCEPT ![t] = Poisoned(intent[t])]
      BY <1>8 DEF PoisonTaskDelivery, InFlight
    <2> QED  BY <1>1, <1>8, <2>1, IntentRows DEF PoisonTaskDelivery
  <1>9. ASSUME NEW w \in Workers, WorkerStep(w) \/ HeartbeatClaim(w) PROVE Goal
    BY <1>0, <1>8, <1>9
    DEF WorkerStep, HeartbeatClaim, ClaimTaskRead, ClaimTaskCommit, Finalize, BrokerAck, BrokerRetry, rows
  <1>10. CASE Failure
    <2>1. ASSUME NEW r \in Relays, PublishFails(r) PROVE Goal
      <3>1. PICK pc \in {"reject", "poison"} : RelayTo(r, pc)  BY <2>1 DEF PublishFails
      <3>2. \A q \in Relays : relay'[q].pc = "ack" => relay'[q] = relay[q]
        BY <3>1, RelayStates DEF RelayTo, RelayPcs
      <3> QED  BY <2>1, <3>2 DEF PublishFails, rows
    <2>2. ASSUME NEW r \in Relays, RelayCrash(r) PROVE Goal
      BY <2>2, RelayStates DEF RelayCrash, rows
    <2>3. ASSUME NEW r \in Relays, NEW t \in Tasks, PoisonInvalidIntent(r, t) PROVE Goal
      BY <1>1, <2>3, IntentRows DEF PoisonInvalidIntent
    <2>4. ASSUME NEW w \in Workers, ClaimTaskRollback(w) \/ WorkFails(w) \/ WorkerCrash(w) PROVE Goal
      BY <1>0, <2>4 DEF ClaimTaskRollback, WorkFails, WorkerCrash, rows
    <2>5. ASSUME NEW w \in Workers, NEW t \in Tasks, RejectBeforeClaim(w, t) \/ BrokerLoses(t) PROVE Goal
      BY <1>0, <2>5 DEF RejectBeforeClaim, BrokerLoses, rows
    <2>6. ASSUME NEW t \in Tasks, BrokerLoses(t) PROVE Goal
      BY <1>0, <2>6 DEF BrokerLoses, rows
    <2> QED  BY <1>10, <2>1, <2>2, <2>3, <2>4, <2>5, <2>6 DEF Failure
  <1>11. CASE UNCHANGED vars  BY <1>0, <1>11 DEF vars
  <1> QED  BY <1>2, <1>3, <1>4, <1>5, <1>6, <1>7, <1>9, <1>10, <1>11 DEF Next, RelayStep

\* What a step does to an execution, seen from the outside: nothing that
\* counts, an end without a result, a new claim, or the accepted result.
Untouched ==
    /\ winner' = winner
    /\ \A t \in Tasks : target[t] # target'[t] => target[t] = "absent" /\ target'[t] = "open"
    /\ \A t \in Tasks : /\ execution'[t].outcome = execution[t].outcome
                        /\ execution'[t].generation = execution[t].generation
                        /\ execution'[t].owner = execution[t].owner

Ended(t) ==
    /\ UNCHANGED <<winner, target>>
    /\ \E o \in {"failed", "dead"} : execution' = [execution EXCEPT ![t] = Finished(@, o)]

Claimed(w, t) ==
    /\ UNCHANGED <<winner, target>>
    /\ target[t] # "absent"
    /\ \/ execution' = [execution EXCEPT ![t] = ClaimTaskWrite(w, t)]
       \/ /\ target[t] # "open"
          /\ execution' = [execution EXCEPT ![t] = Finished(ClaimTaskWrite(w, t), "succeeded")]
    /\ worker[w].generation = execution[t].generation + 1

Accepted(w, t) ==
    /\ ClaimIsCurrent(w, t)
    /\ target[t] = "open"
    /\ target' = [target EXCEPT ![t] = "settled"]
    /\ winner' = [winner EXCEPT ![t] = worker[w].generation]
    /\ execution' = [execution EXCEPT ![t] = Finished(@, "succeeded")]

\* What one step can do to a task's execution and target: leave them, change
\* only the lease, claim, finish, settle, or kill.
LEMMA StepEffects ==
  ASSUME TypeOK, InFlight, ClaimLock, [Next]_vars
  PROVE  \/ Untouched
         \/ \E t \in Tasks : Ended(t)
         \/ \E w \in Workers, t \in Tasks : Claimed(w, t) \/ Accepted(w, t)
  <1> USE Fields DEF TypeOK
  <1>0. ASSUME UNCHANGED <<execution, target, winner>> PROVE Untouched
    BY <1>0 DEF Untouched
  <1>1. ASSUME NEW t \in Tasks, CreateTaskIntent(t) PROVE Untouched
    BY <1>1 DEF CreateTaskIntent, Untouched
  <1>2. ASSUME NEW t \in Tasks, RequestTaskRedelivery(t) PROVE Untouched
    BY <1>0, <1>2 DEF RequestTaskRedelivery, Reconcilable
  <1>3. ASSUME NEW t \in Tasks, TimePasses(t) PROVE Untouched
    <2>1. CASE BackoffElapses(t) \/ RelayLeaseLapses(t)
      BY <1>0, <2>1 DEF BackoffElapses, RelayLeaseLapses
    <2>2. CASE ExecutionLeaseLapses(t)
      BY <2>2, ExecutionRows DEF ExecutionLeaseLapses, Untouched, Leases
    <2> QED  BY <1>3, <2>1, <2>2 DEF TimePasses
  <1>4. ASSUME NEW r \in Relays, RelayStep(r) PROVE Untouched
    BY <1>0, <1>4
    DEF RelayStep, ClaimRelayIntent, PublishTask, AcknowledgeRelayPublish, RejectRelayPublish, rows
  <1>5. ASSUME NEW w \in Workers, ClaimTaskCommit(w) PROVE Claimed(w, worker[w].task)
    BY <1>5 DEF ClaimTaskCommit, Claimed, InFlight, ClaimLock
  <1>6. ASSUME NEW w \in Workers, Finalize(w) PROVE Untouched \/ Accepted(w, worker[w].task)
    BY <1>0, <1>6 DEF Finalize, Accepted
  <1>7. ASSUME NEW w \in Workers, PoisonTaskDelivery(w) PROVE Untouched \/ Ended(worker[w].task)
    BY <1>0, <1>7 DEF PoisonTaskDelivery, Ended
  <1>8. ASSUME NEW w \in Workers, WorkFails(w) PROVE Untouched \/ Ended(worker[w].task)
    BY <1>0, <1>8 DEF WorkFails, Ended
  <1>9. ASSUME NEW w \in Workers, HeartbeatClaim(w) PROVE Untouched
    BY <1>9, ExecutionRows DEF HeartbeatClaim, InFlight, Untouched, Leases
  <1>10. ASSUME NEW w \in Workers,
                \/ BrokerAck(w) \/ BrokerRetry(w) \/ WorkerCrash(w) \/ ClaimTaskRollback(w)
                \/ \E t \in Tasks : ClaimTaskRead(w, t) \/ RejectBeforeClaim(w, t)
         PROVE  Untouched
    BY <1>0, <1>10
    DEF BrokerAck, BrokerRetry, WorkerCrash, ClaimTaskRollback, ClaimTaskRead, RejectBeforeClaim, rows
  <1>11. ASSUME NEW r \in Relays,
                PublishFails(r) \/ RelayCrash(r) \/ \E t \in Tasks : PoisonInvalidIntent(r, t)
         PROVE  Untouched
    BY <1>0, <1>11 DEF PublishFails, RelayCrash, PoisonInvalidIntent, rows
  <1>12. ASSUME NEW t \in Tasks, BrokerLoses(t) PROVE Untouched
    BY <1>0, <1>12 DEF BrokerLoses, rows
  <1>13. ASSUME UNCHANGED vars PROVE Untouched
    BY <1>0, <1>13 DEF vars
  <1>14. \A w \in Workers : \/ ClaimTaskCommit(w) \/ Finalize(w) \/ PoisonTaskDelivery(w) \/ WorkFails(w)
                            => worker[w].task \in Tasks
    BY DEF ClaimTaskCommit, Finalize, PoisonTaskDelivery, WorkFails, InFlight
  <1> QED
    BY <1>1, <1>2, <1>3, <1>4, <1>5, <1>6, <1>7, <1>8, <1>9, <1>10, <1>11, <1>12, <1>13, <1>14
    DEF Next, WorkerStep, Failure

\* The fields of the row a claim writes.
LEMMA ClaimedRow ==
  ASSUME TypeOK, NEW w \in Workers, NEW t \in Tasks
  PROVE  /\ ClaimTaskWrite(w, t).outcome \in {execution[t].outcome, "running"}
         /\ ClaimTaskWrite(w, t).owner = w
         /\ ClaimTaskWrite(w, t).generation = worker[w].generation
         /\ Finished(ClaimTaskWrite(w, t), "succeeded").outcome = "succeeded"
         /\ Finished(ClaimTaskWrite(w, t), "succeeded").generation = worker[w].generation
  <1>1. ClaimTaskWrite(w, t) \in ExecutionRow
    BY Fields, ExecutionRows, WorkerStates DEF ClaimTaskWrite, ExecutionRow, Leases, Outcomes, WorkerPcs
  <1>2. /\ ClaimTaskWrite(w, t).outcome \in {execution[t].outcome, "running"}
        /\ ClaimTaskWrite(w, t).owner = w
        /\ ClaimTaskWrite(w, t).generation = worker[w].generation
    BY DEF ClaimTaskWrite
  <1>3. "succeeded" \in Outcomes  BY DEF Outcomes
  <1> QED  BY <1>1, <1>2, <1>3, ExecutionRows

\* A succeeded execution keeps its target settled, and only its winner's
\* generation settled it, across every step.
LEMMA OutcomeStep ==
  ASSUME TypeOK, InFlight, ClaimLock, WinnerSettled, NoStrandedSuccess, [Next]_vars
  PROVE  (WinnerSettled /\ NoStrandedSuccess)'
  <1> USE DEF TypeOK, WinnerSettled, NoStrandedSuccess
  <1>1. CASE Untouched  BY <1>1 DEF Untouched
  <1>2. ASSUME NEW t \in Tasks, Ended(t) PROVE (WinnerSettled /\ NoStrandedSuccess)'
    <2>1. PICK o \in {"failed", "dead"} : execution' = [execution EXCEPT ![t] = Finished(@, o)]
      BY <1>2 DEF Ended
    <2>2. o \in Outcomes /\ o # "succeeded"  BY DEF Outcomes
    <2>3. \A u \in Tasks : execution'[u].outcome = "succeeded" => execution[u].outcome = "succeeded"
      BY <2>1, <2>2, FinishWrites
    <2> QED  BY <1>2, <2>3 DEF Ended
  <1>3. ASSUME NEW w \in Workers, NEW t \in Tasks, Claimed(w, t)
        PROVE  (WinnerSettled /\ NoStrandedSuccess)'
    BY <1>3, ClaimedRow, SMTT(30) DEF Claimed
  <1>4. ASSUME NEW w \in Workers, NEW t \in Tasks, Accepted(w, t)
        PROVE  (WinnerSettled /\ NoStrandedSuccess)'
    <2>1. "succeeded" \in Outcomes  BY DEF Outcomes
    <2>2. \A u \in Tasks : u # t => execution'[u] = execution[u]
      BY <1>4, <2>1, FinishWrites DEF Accepted
    <2> QED  BY <1>4, <2>2 DEF Accepted
  <1> QED  BY <1>1, <1>2, <1>3, <1>4, StepEffects

\* The invariant is inductive: the five parts above, put together.
LEMMA NextIInv == IInv /\ [Next]_vars => IInv'
  BY TypeStep, InFlightStep, ClaimStep, AckStep, OutcomeStep DEF IInv

\* The inductive invariant holds in every reachable state, whatever the
\* number of tasks, relays, workers and failures.
THEOREM Invariance == Spec => []IInv
  <1> QED  BY InitIInv, NextIInv, PTL DEF Spec

\* Every column holds a value its type and check constraint allow, and every
\* process state is one of relay_once's or _consume's, for any instance.
THEOREM TypeCorrect == Spec => []TypeOK
  <1>1. IInv => TypeOK  BY DEF IInv
  <1> QED  BY <1>1, Invariance, PTL

\* Two live claims of a task never share a generation (claim_task).
THEOREM ClaimsAreDistinct == Spec => []ClaimsDistinct
  <1>1. IInv => ClaimsDistinct  BY DEF IInv
  <1> QED  BY <1>1, Invariance, PTL

\* "published" is always backed by the publish of the relay claim it names.
THEOREM AcknowledgedWasPublished == Spec => []AckNamesARealPublish
  <1>1. IInv => AckNamesARealPublish  BY DEF IInv
  <1> QED  BY <1>1, Invariance, PTL

\* A succeeded execution never hides a target that is still open.
THEOREM SuccessIsNeverStranded == Spec => []NoStrandedSuccess
  <1>1. IInv => NoStrandedSuccess  BY DEF IInv
  <1> QED  BY <1>1, Invariance, PTL

\* Every step of the hand-off is a step of FencedTask or a stutter.
LEMMA Simulation == IInv /\ [Next]_vars => [FT!Next]_(FT!fencedVars)
  <1> SUFFICES ASSUME IInv, [Next]_vars PROVE [FT!Next]_(FT!fencedVars)
    OBVIOUS
  <1> DEFINE g == [t \in Tasks |-> execution[t].generation]
             h == [t \in Tasks |-> IF execution[t].outcome = "running"
                                   THEN execution[t].owner ELSE NoOwner]
  <1>0. TypeOK  BY DEF IInv
  <1> USE DEF TypeOK
  <1>1. CASE Untouched
    <2>1. g' = g /\ h' = h  BY <1>1 DEF Untouched
    <2> QED  BY <1>1, <2>1 DEF Untouched, FT!fencedVars
  <1>2. ASSUME NEW t \in Tasks, Ended(t) PROVE FT!Revoke(t)
    <2>1. PICK o \in {"failed", "dead"} : execution' = [execution EXCEPT ![t] = Finished(@, o)]
      BY <1>2 DEF Ended
    <2>2. o \in Outcomes /\ o # "running"  BY DEF Outcomes
    <2>3. /\ \A u \in Tasks : execution'[u].generation = execution[u].generation
          /\ execution'[t].outcome = o
          /\ \A u \in Tasks : u # t => execution'[u] = execution[u]
      BY <1>0, <2>1, <2>2, FinishWrites
    <2>4. g' = g /\ h' = [h EXCEPT ![t] = NoOwner]  BY <2>2, <2>3
    <2> QED  BY <1>2, <2>4 DEF Ended, FT!Revoke
  <1>3. ASSUME NEW w \in Workers, NEW t \in Tasks, Claimed(w, t) PROVE FT!Grant(t)
    <2>1. /\ execution'[t].generation = execution[t].generation + 1
          /\ execution'[t].outcome = "running" => execution'[t].owner \in Workers
          /\ \A u \in Tasks : u # t => execution'[u] = execution[u]
      BY <1>0, <1>3, ClaimedRow DEF Claimed
    <2>2. g' = [g EXCEPT ![t] = @ + 1]  BY <2>1
    <2>3. PICK o \in Workers \cup {NoOwner} : h' = [h EXCEPT ![t] = o]
      <3>1. CASE execution'[t].outcome = "running"
        <4>1. h' = [h EXCEPT ![t] = execution'[t].owner]  BY <2>1, <3>1
        <4> QED  BY <2>1, <3>1, <4>1
      <3>2. CASE execution'[t].outcome # "running"
        <4>1. h' = [h EXCEPT ![t] = NoOwner]  BY <2>1, <3>2
        <4> QED  BY <4>1
      <3> QED  BY <3>1, <3>2
    <2> QED  BY <1>3, <2>2, <2>3 DEF Claimed, FT!Grant
  <1>4. ASSUME NEW w \in Workers, NEW t \in Tasks, Accepted(w, t) PROVE FT!Apply(t)
    <2>0. "succeeded" \in Outcomes  BY DEF Outcomes
    <2>1. /\ \A u \in Tasks : execution'[u].generation = execution[u].generation
          /\ execution'[t].outcome = "succeeded"
          /\ \A u \in Tasks : u # t => execution'[u] = execution[u]
      BY <1>0, <1>4, <2>0, FinishWrites DEF Accepted
    <2>2. g' = g /\ h' = [h EXCEPT ![t] = NoOwner]  BY <2>1
    <2>3. h[t] = w /\ g[t] = worker[w].generation /\ w # NoOwner
      BY <1>4 DEF Accepted, ClaimIsCurrent, HandoffAssumption
    <2>4. winner[t] = 0  BY <1>4 DEF Accepted, IInv, WinnerSettled
    <2> QED  BY <1>4, <2>2, <2>3, <2>4 DEF Accepted, FT!Apply
  <1>5. \/ Untouched
        \/ \E t \in Tasks : Ended(t)
        \/ \E w \in Workers, t \in Tasks : Claimed(w, t) \/ Accepted(w, t)
    BY StepEffects DEF IInv
  <1> QED  BY <1>1, <1>2, <1>3, <1>4, <1>5 DEF FT!Next

\* Whatever the broker, the relays and the workers do, a task is granted with
\* growing generations and its result is applied at most once, by the newest
\* holder: the hand-off implements FencedTask.
THEOREM ImplementsFencedTask == Spec => AtMostOnceFenced
  <1>1. Init => FT!Init
    BY DEF Init, FT!Init, NoExecution
  <1> QED  BY <1>1, Simulation, Invariance, PTL DEF Spec, AtMostOnceFenced, FT!Spec

\* Types, distinct claims and truthful acknowledgements hold together, for every
\* number of tasks, relays, workers, copies and failures.
THEOREM ClaimsStaySound == Spec => []ClaimsAreSound
  <1>1. IInv => ClaimsAreSound  BY DEF IInv, ClaimsAreSound
  <1> QED  BY <1>1, Invariance, PTL


HIDE HandoffAssumption
-----------------------------------------------------------------------------
(* Accounts: credentials, locks and the last administrator. *)

\* A request that was authenticated has a credential that stays its own: as long as it is
\* live, nothing of the account was revoked since, and a request that is not restricted
\* belongs to an account whose password is not temporary.
AuthenticatedIsTrue ==
    \A r \in AcctRequests : acctRequest[r].pc = "ready" =>
       LET q == acctRequest[r] IN
       /\ q.cred \in Credentials /\ q.user \in Accts
       /\ acctCred[q.cred].state # "unused" /\ acctCred[q.cred].user = q.user
       /\ acctCred[q.cred].state = "live" =>
             ~q.late /\ (~q.restricted => ~acctUser[q.user].temporary)

\* A login holds the row of the account whose password it looked at, an edit that of its
\* target and of the administrators it counted.
LocksAreHeld ==
    \A r \in AcctRequests :
       LET q == acctRequest[r] IN
       /\ q.pc = "login" =>
             /\ q.user \in Humans /\ acctLock[q.user] = r /\ ~q.late
             /\ acctUser[q.user].there /\ acctUser[q.user].enabled
       /\ q.pc = "edit" =>
             /\ q.target \in Accts /\ acctLock[q.target] = r /\ acctUser[q.target].there
             /\ q.admins # {} /\ q.admins \subseteq Admins
             /\ \A a \in q.admins : acctLock[a] = r
       /\ q.role = "admin" => Admins # {}

\* Credentials and temporary passwords are those of accounts there are.
AccountsAreThere ==
    /\ \A c \in Credentials : acctCred[c].state # "unused" =>
          acctCred[c].user \in Accts /\ acctUser[acctCred[c].user].there
    /\ \A c \in Credentials : acctCred[c].state = "unused" => acctCred[c].user = NoAccount
    /\ \A u \in Accts : acctUser[u].temporary => acctUser[u].there

AcctInv == CredentialsAreCurrent /\ AuthenticatedIsTrue /\ LocksAreHeld /\ AccountsAreThere

USE AccountsAssumption

\* What revoke_all leaves.
LEMMA RevokedRows ==
  ASSUME AcctTypeOK, NEW u, NEW also, NEW new, DOMAIN new \subseteq Credentials,
         \A c \in DOMAIN new : new[c] \in CredentialRow
  PROVE  /\ RevokedAll(u, also, new) \in [Credentials -> CredentialRow]
         /\ \A c \in Credentials :
              /\ c \in DOMAIN new => RevokedAll(u, also, new)[c] = new[c]
              /\ c \notin DOMAIN new =>
                   /\ RevokedAll(u, also, new)[c].user = acctCred[c].user
                   /\ RevokedAll(u, also, new)[c].kind = acctCred[c].kind
                   /\ RevokedAll(u, also, new)[c].late = acctCred[c].late
                   /\ RevokedAll(u, also, new)[c].state = "unused" <=> acctCred[c].state = "unused"
                   /\ RevokedAll(u, also, new)[c].state = "live" <=>
                        /\ acctCred[c].state = "live"
                        /\ acctCred[c].user # u /\ c \notin also
  <1> SUFFICES ASSUME NEW c \in Credentials
               PROVE /\ RevokedAll(u, also, new)[c] \in CredentialRow
                     /\ c \in DOMAIN new => RevokedAll(u, also, new)[c] = new[c]
                     /\ c \notin DOMAIN new =>
                          /\ RevokedAll(u, also, new)[c].user = acctCred[c].user
                          /\ RevokedAll(u, also, new)[c].kind = acctCred[c].kind
                          /\ RevokedAll(u, also, new)[c].late = acctCred[c].late
                          /\ RevokedAll(u, also, new)[c].state = "unused" <=> acctCred[c].state = "unused"
                          /\ RevokedAll(u, also, new)[c].state = "live" <=>
                               /\ acctCred[c].state = "live"
                               /\ acctCred[c].user # u /\ c \notin also
    BY DEF RevokedAll
  <1>1. acctCred[c] \in CredentialRow  BY DEF AcctTypeOK
  <1>2. CASE c \in DOMAIN new  BY <1>2 DEF RevokedAll
  <1>3. CASE c \notin DOMAIN new  BY <1>1, <1>3 DEF RevokedAll, CredentialRow
  <1> QED  BY <1>2, <1>3

\* The handler of r that returns is idle, and only requests of the accounts whose
\* credentials were all revoked become late.
LEMMA ReturnedRequests ==
  ASSUME AcctTypeOK, NEW r \in AcctRequests, NEW U, Returns(r, U)
  PROVE  /\ acctRequest' \in [AcctRequests -> AcctRequestState]
         /\ acctRequest'[r] = AcctIdle
         /\ \A q \in AcctRequests \ {r} :
              /\ acctRequest'[q].pc = acctRequest[q].pc
              /\ acctRequest'[q].user = acctRequest[q].user
              /\ acctRequest'[q].role = acctRequest[q].role
              /\ acctRequest'[q].restricted = acctRequest[q].restricted
              /\ acctRequest'[q].cred = acctRequest[q].cred
              /\ acctRequest'[q].target = acctRequest[q].target
              /\ acctRequest'[q].admins = acctRequest[q].admins
              /\ acctRequest'[q].late <=> acctRequest[q].late \/ acctRequest[q].user \in U
  <1>1. AcctIdle \in AcctRequestState  BY DEF AcctIdle, AcctRequestState
  <1>2. \A q \in AcctRequests : acctRequest[q] \in AcctRequestState  BY DEF AcctTypeOK
  <1>3. \A q \in AcctRequests : [acctRequest[q] EXCEPT !.late = TRUE] \in AcctRequestState
    BY <1>2 DEF AcctRequestState
  <1>4. acctRequest' \in [AcctRequests -> AcctRequestState]  BY <1>1, <1>2, <1>3 DEF Returns
  <1>5. acctRequest'[r] = AcctIdle  BY DEF Returns
  <1>6. ASSUME NEW q \in AcctRequests \ {r}
        PROVE  acctRequest'[q] = IF acctRequest[q].user \in U
                                 THEN [acctRequest[q] EXCEPT !.late = TRUE] ELSE acctRequest[q]
    BY DEF Returns
  <1>7. ASSUME NEW q \in AcctRequests \ {r}
        PROVE /\ acctRequest'[q].pc = acctRequest[q].pc
              /\ acctRequest'[q].user = acctRequest[q].user
              /\ acctRequest'[q].role = acctRequest[q].role
              /\ acctRequest'[q].restricted = acctRequest[q].restricted
              /\ acctRequest'[q].cred = acctRequest[q].cred
              /\ acctRequest'[q].target = acctRequest[q].target
              /\ acctRequest'[q].admins = acctRequest[q].admins
              /\ acctRequest'[q].late <=> acctRequest[q].late \/ acctRequest[q].user \in U
    BY <1>2, <1>6, ZenonT(60) DEF AcctRequestState
  <1> QED  BY <1>4, <1>5, <1>7

\* The seeded accounts, none of them with a credential, satisfy the invariant.
LEMMA AcctInitInv == AcctInit => AcctInv
  BY DEF AcctInit, AcctInv, CredentialsAreCurrent, AcctTypeOK, AuthenticatedIsTrue, LocksAreHeld,
         AccountsAreThere, UserRow, CredentialRow, AcctRequestState, AcctIdle, LiveOf, Accts

\* A handler that commits: the credentials of the accounts in U are all revoked, those in N
\* are new, others are at most revoked, and only rows that nobody else holds were written.
HandlerWrites(r, U, N) ==
    /\ Returns(r, U)
    /\ acctUser' \in [Accts -> UserRow]
    /\ acctLock' \in [Accts -> AcctRequests \cup {NoRequest}]
    /\ acctCred' \in [Credentials -> CredentialRow]
    /\ \A v \in Accts : acctLock'[v] = acctLock[v] \/ acctLock[v] = r
    /\ \A v \in Accts \ U : acctUser'[v] = acctUser[v]
    /\ \A u \in U : acctLock[u] \in {NoRequest, r} /\ acctUser'[u].there
    /\ \A c \in Credentials \ N :
          /\ acctCred'[c].user = acctCred[c].user /\ acctCred'[c].kind = acctCred[c].kind
          /\ acctCred'[c].late = acctCred[c].late
          /\ acctCred'[c].state = "unused" <=> acctCred[c].state = "unused"
          /\ acctCred'[c].state = "live" => acctCred[c].state = "live" /\ acctCred[c].user \notin U
    /\ \A c \in N :
          /\ FreshCredential(c) /\ acctCred'[c].state = "live" /\ ~acctCred'[c].late
          /\ acctCred'[c].user \in Accts
          /\ acctUser'[acctCred'[c].user].there /\ acctUser'[acctCred'[c].user].enabled
          /\ acctCred'[c].user \in Humans /\ acctUser'[acctCred'[c].user].temporary =>
                /\ acctCred'[c].user \in U /\ acctCred'[c].kind = "session"
                /\ ~acctUser'[acctCred'[c].user].known
    /\ \A c, d \in N : c = d
    /\ Admins # {} => Admins' # {}

\* What such a commit keeps.
LEMMA HandlerCommits ==
  ASSUME AcctInv, NEW r \in AcctRequests, NEW U \in SUBSET Accts, NEW N \in SUBSET Credentials,
         HandlerWrites(r, U, N)
  PROVE  AcctInv'
  <1> USE DEF AcctInv, HandlerWrites
  <1>1. AcctTypeOK  BY DEF CredentialsAreCurrent
  <1>2. /\ acctRequest' \in [AcctRequests -> AcctRequestState]
        /\ acctRequest'[r] = AcctIdle
        /\ \A q \in AcctRequests \ {r} :
              /\ acctRequest'[q].pc = acctRequest[q].pc
              /\ acctRequest'[q].user = acctRequest[q].user
              /\ acctRequest'[q].role = acctRequest[q].role
              /\ acctRequest'[q].restricted = acctRequest[q].restricted
              /\ acctRequest'[q].cred = acctRequest[q].cred
              /\ acctRequest'[q].target = acctRequest[q].target
              /\ acctRequest'[q].admins = acctRequest[q].admins
              /\ acctRequest'[q].late <=> acctRequest[q].late \/ acctRequest[q].user \in U
    BY <1>1, ReturnedRequests
  <1>3. AcctTypeOK'  BY <1>1, <1>2 DEF AcctTypeOK
  <1>4. CredentialsAreCurrent'
    <2>1. ASSUME NEW c \in Credentials, acctCred'[c].state = "live"
          PROVE  ~acctCred'[c].late /\ acctUser'[acctCred'[c].user].enabled
      <3>1. CASE c \in N  BY <3>1
      <3>2. CASE c \notin N
        <4>1. acctCred[c].state = "live" /\ acctCred[c].user \in Accts \ U
          BY <2>1, <3>2 DEF AccountsAreThere
        <4> QED  BY <2>1, <3>2, <4>1 DEF CredentialsAreCurrent
      <3> QED  BY <3>1, <3>2
    <2>2. ASSUME NEW u \in Humans, acctUser'[u].temporary,
                 NEW c \in Credentials, NEW d \in Credentials,
                 acctCred'[c].user = u, acctCred'[c].state = "live",
                 acctCred'[d].user = u, acctCred'[d].state = "live"
          PROVE  c = d /\ acctCred'[c].kind = "session" /\ ~acctUser'[u].known
      <3>1. CASE u \in U
        <4>1. c \in N /\ d \in N  BY <2>2, <3>1
        <4> QED  BY <2>2, <4>1
      <3>2. CASE u \notin U
        <4>1. c \notin N /\ d \notin N  BY <2>2, <3>2
        <4>2. acctUser'[u] = acctUser[u]  BY <3>2 DEF Accts
        <4>3. c \in LiveOf(u) /\ d \in LiveOf(u)  BY <2>2, <4>1 DEF LiveOf
        <4> QED  BY <2>2, <4>1, <4>2, <4>3 DEF CredentialsAreCurrent
      <3> QED  BY <3>1, <3>2
    <2> QED  BY <1>3, <2>1, <2>2 DEF CredentialsAreCurrent, LiveOf
  <1>5. AuthenticatedIsTrue'
    <2> SUFFICES ASSUME NEW q \in AcctRequests, acctRequest'[q].pc = "ready"
                 PROVE LET x == acctRequest'[q] IN
                       /\ x.cred \in Credentials /\ x.user \in Accts
                       /\ acctCred'[x.cred].state # "unused" /\ acctCred'[x.cred].user = x.user
                       /\ acctCred'[x.cred].state = "live" =>
                             ~x.late /\ (~x.restricted => ~acctUser'[x.user].temporary)
      BY DEF AuthenticatedIsTrue
    <2>1. q # r  BY <1>2 DEF AcctIdle
    <2> DEFINE old == acctRequest[q]
    <2>2. /\ old.cred \in Credentials /\ old.user \in Accts
          /\ acctCred[old.cred].state # "unused" /\ acctCred[old.cred].user = old.user
          /\ acctCred[old.cred].state = "live" =>
                ~old.late /\ (~old.restricted => ~acctUser[old.user].temporary)
      BY <1>2, <2>1 DEF AuthenticatedIsTrue
    <2>3. old.cred \notin N  BY DEF FreshCredential
    <2> HIDE DEF old
    <2>4. /\ acctRequest'[q].cred = old.cred /\ acctRequest'[q].user = old.user
          /\ acctRequest'[q].restricted = old.restricted
          /\ acctRequest'[q].late <=> old.late \/ old.user \in U
      BY <1>2, <2>1 DEF old
    <2> QED  BY <2>2, <2>3, <2>4
  <1>6. LocksAreHeld'
    <2> SUFFICES ASSUME NEW q \in AcctRequests
                 PROVE LET x == acctRequest'[q] IN
                       /\ x.pc = "login" =>
                             /\ x.user \in Humans /\ acctLock'[x.user] = q /\ ~x.late
                             /\ acctUser'[x.user].there /\ acctUser'[x.user].enabled
                       /\ x.pc = "edit" =>
                             /\ x.target \in Accts /\ acctLock'[x.target] = q /\ acctUser'[x.target].there
                             /\ x.admins # {} /\ x.admins \subseteq Admins'
                             /\ \A a \in x.admins : acctLock'[a] = q
                       /\ x.role = "admin" => Admins' # {}
      BY DEF LocksAreHeld
    <2>1. CASE q = r  BY <2>1, <1>2 DEF AcctIdle
    <2>2. CASE q # r
      <3>0. q # NoRequest  OBVIOUS
      <3> DEFINE old == acctRequest[q]
      <3>1. /\ acctRequest'[q].pc = old.pc /\ acctRequest'[q].user = old.user
            /\ acctRequest'[q].role = old.role /\ acctRequest'[q].target = old.target
            /\ acctRequest'[q].admins = old.admins
            /\ acctRequest'[q].late <=> old.late \/ old.user \in U
        BY <1>2, <2>2
      <3>2. /\ old.pc = "login" =>
                 /\ old.user \in Humans /\ acctLock[old.user] = q /\ ~old.late
                 /\ acctUser[old.user].there /\ acctUser[old.user].enabled
            /\ old.pc = "edit" =>
                 /\ old.target \in Accts /\ acctLock[old.target] = q /\ acctUser[old.target].there
                 /\ old.admins # {} /\ old.admins \subseteq Admins
                 /\ \A a \in old.admins : acctLock[a] = q
            /\ old.role = "admin" => Admins # {}
        BY DEF LocksAreHeld
      <3> HIDE DEF old
      <3>3. ASSUME NEW v \in Accts, acctLock[v] = q
            PROVE  v \notin U /\ acctLock'[v] = q /\ acctUser'[v] = acctUser[v]
        BY <2>2, <3>0, <3>3
      <3>4. CASE old.pc = "login"  BY <3>1, <3>2, <3>3, <3>4 DEF Accts
      <3>5. CASE old.pc = "edit"
        <4>1. old.admins \subseteq Admins'  BY <3>2, <3>3, <3>5 DEF Admins
        <4> QED  BY <3>1, <3>2, <3>3, <3>5, <4>1 DEF Admins
      <3>6. CASE old.pc \notin {"login", "edit"}  BY <3>1, <3>2, <3>6
      <3> QED  BY <3>4, <3>5, <3>6
    <2> QED  BY <2>1, <2>2
  <1>7. AccountsAreThere'
    <2>1. ASSUME NEW c \in Credentials, acctCred'[c].state # "unused"
          PROVE  acctCred'[c].user \in Accts /\ acctUser'[acctCred'[c].user].there
      <3>1. CASE c \in N  BY <3>1
      <3>2. CASE c \notin N  BY <2>1, <3>2 DEF AccountsAreThere
      <3> QED  BY <3>1, <3>2
    <2>2. \A u \in Accts : acctUser'[u].temporary => acctUser'[u].there
      BY DEF AccountsAreThere
    <2>3. \A c \in Credentials : acctCred'[c].state = "unused" => acctCred'[c].user = NoAccount
      BY DEF AccountsAreThere
    <2> QED  BY <2>1, <2>2, <2>3 DEF AccountsAreThere
  <1> QED  BY <1>4, <1>5, <1>6, <1>7

\* No handler takes the last enabled administrator away.
LEMMA AdminStays ==
  ASSUME AcctInv, AcctNext \/ UNCHANGED acctVars, Admins # {}
  PROVE  Admins' # {}
  <1> USE DEF AcctInv
  <1>1. AcctTypeOK  BY DEF CredentialsAreCurrent
  <1>2. \A u \in Accts : acctUser[u] \in UserRow  BY <1>1 DEF AcctTypeOK
  <1>3. CASE UNCHANGED acctUser  BY <1>3 DEF Admins
  <1>4. ASSUME NEW u \in Humans, Register(u) \/ CreateAdmin(u)
        PROVE  Admins' # {}
    <2>1. \A a \in Admins : a # u /\ acctUser'[a] = acctUser[a]
      BY <1>1, <1>4 DEF Register, CreateAdmin, Admins, AcctTypeOK
    <2> QED  BY <2>1 DEF Admins
  <1>5. ASSUME NEW r \in AcctRequests, NEW u \in Accts,
               \/ ChangePassword(r) /\ acctRequest[r].user = u
               \/ ResetPassword(r, u)
        PROVE  Admins' # {}
    <2>1. \A a \in Accts : /\ acctUser'[a].there = acctUser[a].there
                          /\ acctUser'[a].role = acctUser[a].role
                          /\ acctUser'[a].enabled = acctUser[a].enabled
      BY <1>1, <1>2, <1>5 DEF ChangePassword, ResetPassword, AcctTypeOK, UserRow
    <2> QED  BY <2>1 DEF Admins
  <1>6. ASSUME NEW r \in AcctRequests, NEW c \in Credentials, FinishLogin(r, c)
        PROVE  Admins' # {}
    <2>1. \A a \in Accts : /\ acctUser'[a].there = acctUser[a].there
                          /\ acctUser'[a].role = acctUser[a].role
                          /\ acctUser'[a].enabled = acctUser[a].enabled
      BY <1>1, <1>2, <1>6 DEF FinishLogin, AcctTypeOK, UserRow
    <2> QED  BY <2>1 DEF Admins
  <1>7. ASSUME NEW r \in AcctRequests, FinishEdit(r)
        PROVE  Admins' # {}
    <2> DEFINE q == acctRequest[r]
    <2>1. /\ q.target \in Accts /\ q.admins # {} /\ q.admins \subseteq Admins
      BY <1>7 DEF FinishEdit, LocksAreHeld
    <2>2. PICK enabled \in BOOLEAN, role \in {"member", "admin"} :
             /\ EditAllowed(q, enabled, role)
             /\ acctUser' = [acctUser EXCEPT ![q.target].enabled = enabled, ![q.target].role = role]
      BY <1>7 DEF FinishEdit
    <2> HIDE DEF q
    <2>3. \A a \in Accts \ {q.target} : acctUser'[a] = acctUser[a]
      BY <1>1, <2>2 DEF AcctTypeOK
    <2>4. CASE \E a \in q.admins : a # q.target
      BY <2>1, <2>3, <2>4 DEF Admins
    <2>5. CASE \A a \in q.admins : a = q.target
      <3>1. q.admins = {q.target} /\ q.target \in Admins  BY <2>1, <2>5
      <3>2. Cardinality(q.admins) = 1  BY <3>1, FS_Singleton
      <3>3. enabled = TRUE /\ role = "admin"
        BY <2>2, <3>1, <3>2 DEF EditAllowed, Admins
      <3>4. acctUser'[q.target] = [acctUser[q.target] EXCEPT !.enabled = TRUE, !.role = "admin"]
        BY <1>1, <2>1, <2>2, <3>3 DEF AcctTypeOK
      <3>5. q.target \in Admins'
        BY <1>2, <2>1, <3>1, <3>4 DEF Admins, UserRow
      <3> QED  BY <3>5
    <2> QED  BY <2>4, <2>5
  <1>8. CASE AcctNext
    <2>1. ASSUME NEW r \in AcctRequests, AcctHandler(r)  PROVE Admins' # {}
      <3>1. \/ UNCHANGED acctUser \/ ChangePassword(r) \/ FinishEdit(r)
            \/ \E u \in Accts : ResetPassword(r, u)
        BY <2>1 DEF AcctHandler, Refused, Logout, BeginEdit, IssueToken, RevokeToken
      <3>2. ChangePassword(r) => acctRequest[r].user \in Accts
        BY DEF ChangePassword, Asks, AuthenticatedIsTrue
      <3> QED  BY <3>1, <3>2, <1>3, <1>5, <1>7
    <2>2. ASSUME NEW r \in AcctRequests, NEW u \in Humans, BeginLogin(r, u) PROVE Admins' # {}
      BY <2>2, <1>3 DEF BeginLogin
    <2>3. ASSUME NEW r \in AcctRequests, NEW c \in Credentials, Authenticate(r, c) PROVE Admins' # {}
      BY <2>3, <1>3 DEF Authenticate
    <2> QED  BY <1>4, <1>6, <1>8, <2>1, <2>2, <2>3 DEF AcctNext
  <1> QED  BY <1>3, <1>8 DEF acctVars

\* A login that takes the lock has looked at an enabled account.
LEMMA LoginSteps ==
  ASSUME AcctInv, NEW r \in AcctRequests, NEW u \in Humans, BeginLogin(r, u)
  PROVE  AcctInv'
  <1> USE DEF AcctInv
  <1>1. AcctTypeOK  BY DEF CredentialsAreCurrent
  <1> DEFINE new == [AcctIdle EXCEPT !.pc = "login", !.user = u]
  <1>2. /\ new \in AcctRequestState /\ new.pc = "login" /\ new.user = u /\ ~new.late /\ new.role = "member"
    BY DEF AcctIdle, AcctRequestState, Accts
  <1>3. /\ acctRequest' \in [AcctRequests -> AcctRequestState] /\ acctRequest'[r] = new
        /\ \A q \in AcctRequests \ {r} : acctRequest'[q] = acctRequest[q]
    BY <1>1, <1>2 DEF BeginLogin, AcctTypeOK
  <1> HIDE DEF new
  <1>4. /\ acctLock' \in [Accts -> AcctRequests \cup {NoRequest}] /\ acctLock'[u] = r
        /\ \A v \in Accts \ {u} : acctLock'[v] = acctLock[v]
        /\ acctLock[u] = NoRequest /\ acctUser[u].there /\ acctUser[u].enabled
        /\ acctRequest[r].pc = "idle"
        /\ UNCHANGED <<acctUser, acctCred>>
    BY <1>1 DEF BeginLogin, Account, Unlocked, AcctTypeOK, Accts
  <1>5. CredentialsAreCurrent'
    BY <1>1, <1>3, <1>4 DEF CredentialsAreCurrent, AcctTypeOK, LiveOf
  <1>6. AuthenticatedIsTrue'  BY <1>2, <1>3, <1>4 DEF AuthenticatedIsTrue
  <1>7. Admins' = Admins  BY <1>4 DEF Admins
  <1>8. LocksAreHeld'
    <2>1. \A v \in Accts : acctLock[v] \in AcctRequests => acctLock'[v] = acctLock[v]  BY <1>4
    <2> QED  BY <1>2, <1>3, <1>4, <1>7, <2>1 DEF LocksAreHeld, Accts, Admins
  <1>9. AccountsAreThere'  BY <1>4 DEF AccountsAreThere
  <1> QED  BY <1>5, <1>6, <1>8, <1>9

\* The credential that a request shows is live when it is read.
LEMMA AuthenticateSteps ==
  ASSUME AcctInv, NEW r \in AcctRequests, NEW c \in Credentials, Authenticate(r, c)
  PROVE  AcctInv'
  <1> USE DEF AcctInv
  <1>1. AcctTypeOK  BY DEF CredentialsAreCurrent
  <1> DEFINE u == acctCred[c].user
             new == [AcctIdle EXCEPT !.pc = "ready", !.user = u, !.cred = c, !.role = acctUser[u].role,
                                     !.restricted = acctUser[u].temporary]
  <1>2. /\ u \in Accts /\ acctUser[u].there /\ acctUser[u].enabled /\ acctUser[u] \in UserRow
        /\ acctCred[c].state = "live" /\ ~acctCred[c].late
        /\ UNCHANGED <<acctUser, acctCred, acctLock>> /\ acctRequest[r].pc = "idle"
    BY <1>1 DEF Authenticate, AccountsAreThere, CredentialsAreCurrent, AcctTypeOK
  <1>3. /\ new \in AcctRequestState /\ new.pc = "ready" /\ new.user = u /\ new.cred = c
        /\ new.role = acctUser[u].role /\ new.restricted = acctUser[u].temporary /\ ~new.late
    BY <1>2 DEF AcctIdle, AcctRequestState, UserRow
  <1>4. /\ acctRequest' \in [AcctRequests -> AcctRequestState] /\ acctRequest'[r] = new
        /\ \A q \in AcctRequests \ {r} : acctRequest'[q] = acctRequest[q]
    BY <1>1, <1>3 DEF Authenticate, AcctTypeOK
  <1> HIDE DEF new
  <1>5. CredentialsAreCurrent'
    BY <1>1, <1>2, <1>4 DEF CredentialsAreCurrent, AcctTypeOK, LiveOf
  <1>6. AuthenticatedIsTrue'  BY <1>2, <1>3, <1>4 DEF AuthenticatedIsTrue
  <1>7. Admins' = Admins /\ (new.role = "admin" => Admins # {})  BY <1>2, <1>3 DEF Admins
  <1>8. LocksAreHeld'  BY <1>2, <1>3, <1>4, <1>7 DEF LocksAreHeld
  <1>9. AccountsAreThere'  BY <1>2 DEF AccountsAreThere
  <1> QED  BY <1>5, <1>6, <1>8, <1>9

\* An edit takes the locks of its target and of the administrators it counts.
LEMMA BeginEditSteps ==
  ASSUME AcctInv, NEW r \in AcctRequests, NEW u \in Accts, BeginEdit(r, u)
  PROVE  AcctInv'
  <1> USE DEF AcctInv
  <1>1. AcctTypeOK  BY DEF CredentialsAreCurrent
  <1> DEFINE old == acctRequest[r]
             new == [old EXCEPT !.pc = "edit", !.target = u, !.admins = Admins]
  <1>2. /\ old \in AcctRequestState /\ old.role = "admin" /\ old.pc = "ready" /\ acctUser[u].there
        /\ acctLock[u] = NoRequest /\ \A a \in Admins : acctLock[a] = NoRequest
        /\ UNCHANGED <<acctUser, acctCred>>
    BY <1>1 DEF BeginEdit, AsksFreely, Asks, IsAdmin, Account, Unlocked, AcctTypeOK
  <1>3. Admins # {} /\ Admins \subseteq Accts  BY <1>2 DEF LocksAreHeld, Admins
  <1>4. /\ new \in AcctRequestState /\ new.pc = "edit" /\ new.target = u /\ new.admins = Admins
    BY <1>2, <1>3 DEF AcctRequestState
  <1>5. /\ acctRequest' \in [AcctRequests -> AcctRequestState] /\ acctRequest'[r] = new
        /\ \A q \in AcctRequests \ {r} : acctRequest'[q] = acctRequest[q]
    BY <1>1, <1>4 DEF BeginEdit, AcctTypeOK
  <1>6. /\ acctLock' \in [Accts -> AcctRequests \cup {NoRequest}]
        /\ acctLock'[u] = r /\ \A a \in Admins : acctLock'[a] = r
        /\ \A v \in Accts : acctLock[v] # NoRequest => acctLock'[v] = acctLock[v]
    BY <1>1, <1>2, <1>3 DEF BeginEdit, AcctTypeOK
  <1> HIDE DEF new, old
  <1>7. CredentialsAreCurrent'
    BY <1>1, <1>2, <1>5, <1>6 DEF CredentialsAreCurrent, AcctTypeOK, LiveOf
  <1>8. AuthenticatedIsTrue'  BY <1>2, <1>4, <1>5 DEF AuthenticatedIsTrue
  <1>9. Admins' = Admins  BY <1>2 DEF Admins
  <1>10. LocksAreHeld'
    <2>1. ASSUME NEW q \in AcctRequests \ {r}
          PROVE /\ acctRequest[q].pc = "login" =>
                      acctRequest[q].user \in Accts /\ acctLock'[acctRequest[q].user] = q
                /\ acctRequest[q].pc = "edit" =>
                      /\ acctLock'[acctRequest[q].target] = q
                      /\ \A a \in acctRequest[q].admins : acctLock'[a] = q
      BY <1>3, <1>6 DEF LocksAreHeld, Accts
    <2> QED  BY <1>2, <1>3, <1>4, <1>5, <1>6, <1>9, <2>1 DEF LocksAreHeld
  <1>11. AccountsAreThere'  BY <1>2 DEF AccountsAreThere
  <1> QED  BY <1>7, <1>8, <1>10, <1>11

\* An account that did not exist has nothing that could be affected.
LEMMA NewAccountSteps ==
  ASSUME AcctInv, NEW u \in Humans, Register(u) \/ CreateAdmin(u)
  PROVE  AcctInv'
  <1> USE DEF AcctInv
  <1>1. AcctTypeOK  BY DEF CredentialsAreCurrent
  <1>2. /\ u \in Accts /\ ~acctUser[u].there /\ ~acctUser[u].temporary
        /\ UNCHANGED <<acctCred, acctLock, acctRequest>>
    BY DEF Register, CreateAdmin, Accts, AccountsAreThere
  <1>3. /\ acctUser' \in [Accts -> UserRow] /\ acctUser'[u].there
        /\ acctUser'[u].temporary = acctUser[u].temporary
        /\ \A v \in Accts \ {u} : acctUser'[v] = acctUser[v]
    <2>0. acctUser[u] \in UserRow  BY <1>1, <1>2 DEF AcctTypeOK
    <2>1. CASE Register(u)
      <3>1. acctUser'[u] = [acctUser[u] EXCEPT !.there = TRUE, !.known = TRUE]
        BY <1>1, <1>2, <2>1 DEF Register, AcctTypeOK
      <3>2. acctUser'[u] \in UserRow /\ acctUser'[u].there
            /\ acctUser'[u].temporary = acctUser[u].temporary
        BY <2>0, <3>1 DEF UserRow
      <3> QED  BY <1>1, <1>2, <2>1, <3>2 DEF Register, AcctTypeOK
    <2>2. CASE CreateAdmin(u)
      <3>1. acctUser'[u] = [acctUser[u] EXCEPT !.there = TRUE, !.known = TRUE, !.role = "admin"]
        BY <1>1, <1>2, <2>2 DEF CreateAdmin, AcctTypeOK
      <3>2. acctUser'[u] \in UserRow /\ acctUser'[u].there
            /\ acctUser'[u].temporary = acctUser[u].temporary
        BY <2>0, <3>1 DEF UserRow
      <3> QED  BY <1>1, <1>2, <2>2, <3>2 DEF CreateAdmin, AcctTypeOK
    <2> QED  BY <2>1, <2>2
  <1>4. \A v \in Accts : acctUser[v].there => v # u /\ acctUser'[v] = acctUser[v]
    BY <1>2, <1>3
  <1>5. \A c \in Credentials : acctCred[c].state # "unused" =>
           acctCred[c].user \in Accts /\ acctUser'[acctCred[c].user] = acctUser[acctCred[c].user]
                                    /\ acctUser[acctCred[c].user].there
    BY <1>4 DEF AccountsAreThere
  <1>6. CredentialsAreCurrent'
    <2>1. \A v \in Humans : acctUser'[v].temporary => acctUser'[v] = acctUser[v]
      BY <1>2, <1>3 DEF Accts
    <2>2. \A c \in Credentials : acctCred[c].state = "live" =>
             ~acctCred'[c].late /\ acctUser'[acctCred[c].user].enabled
      BY <1>2, <1>5 DEF CredentialsAreCurrent
    <2> QED  BY <1>1, <1>2, <1>3, <2>1, <2>2 DEF CredentialsAreCurrent, AcctTypeOK, LiveOf
  <1>7. AuthenticatedIsTrue'
    <2>1. \A v \in Accts : acctUser'[v].temporary = acctUser[v].temporary  BY <1>3
    <2> QED  BY <1>2, <2>1 DEF AuthenticatedIsTrue
  <1>8. LocksAreHeld'
    <2>1. Admins \subseteq Admins'  BY <1>4 DEF Admins
    <2> QED  BY <1>2, <1>4, <2>1 DEF LocksAreHeld, Accts
  <1>9. AccountsAreThere'  BY <1>2, <1>3, <1>5 DEF AccountsAreThere
  <1> QED  BY <1>6, <1>7, <1>8, <1>9

\* The handlers that commit.
LEMMA HandlerSteps ==
  ASSUME AcctInv, NEW r \in AcctRequests,
         \/ Refused(r) \/ Logout(r) \/ ChangePassword(r) \/ FinishEdit(r)
         \/ \E u \in Accts : \/ ResetPassword(r, u)
                            \/ \E c \in Credentials : IssueToken(r, u, c) \/ RevokeToken(r, u, c)
  PROVE  AcctInv'
  <1> USE DEF AcctInv
  <1>1. AcctTypeOK  BY DEF CredentialsAreCurrent
  <1>2. /\ \A u \in Accts : acctUser[u] \in UserRow /\ acctLock[u] \in AcctRequests \cup {NoRequest}
        /\ \A c \in Credentials : acctCred[c] \in CredentialRow
    BY <1>1 DEF AcctTypeOK
  <1>3. Admins # {} => Admins' # {}
    <2>1. AcctHandler(r)  BY DEF AcctHandler
    <2>2. AcctNext  BY <2>1 DEF AcctNext
    <2> QED  BY <2>2, AdminStays
  <1>4. ASSUME UnlockedBy(r)
        PROVE /\ acctLock' \in [Accts -> AcctRequests \cup {NoRequest}]
              /\ \A v \in Accts : acctLock'[v] = acctLock[v] \/ acctLock[v] = r
    BY <1>2, <1>4 DEF UnlockedBy
  <1>5. ASSUME UNCHANGED acctLock
        PROVE /\ acctLock' \in [Accts -> AcctRequests \cup {NoRequest}]
              /\ \A v \in Accts : acctLock'[v] = acctLock[v] \/ acctLock[v] = r
    BY <1>1, <1>5 DEF AcctTypeOK
  <1>6. ASSUME NEW u, acctCred' = RevokedAll(u, {}, <<>>)
        PROVE /\ acctCred' \in [Credentials -> CredentialRow]
              /\ \A c \in Credentials :
                    /\ acctCred'[c].user = acctCred[c].user /\ acctCred'[c].kind = acctCred[c].kind
                    /\ acctCred'[c].late = acctCred[c].late
                    /\ acctCred'[c].state = "unused" <=> acctCred[c].state = "unused"
                    /\ acctCred'[c].state = "live" => acctCred[c].state = "live" /\ acctCred[c].user # u
    <2>1. DOMAIN <<>> = {}  OBVIOUS
    <2> QED  BY <1>1, <1>6, <2>1, RevokedRows
  <1>7. CASE Refused(r)
    <2>1. /\ Returns(r, {}) /\ UnlockedBy(r) /\ UNCHANGED <<acctUser, acctCred>>  BY <1>7 DEF Refused
    <2>2. acctUser' \in [Accts -> UserRow] /\ acctCred' \in [Credentials -> CredentialRow]
      BY <1>1, <2>1 DEF AcctTypeOK
    <2>3. {} \in SUBSET Accts /\ {} \in SUBSET Credentials  OBVIOUS
    <2>90. HandlerWrites(r, {}, {})
       BY <1>3, <1>4, <2>1, <2>2, <2>3 DEF HandlerWrites
    <2> QED  BY <2>90, <2>3, HandlerCommits
  <1>8. ASSUME NEW c \in Credentials, acctCred[c].state # "unused",
               acctCred' = [acctCred EXCEPT ![c].state = "revoked"],
               Returns(r, {}), UNCHANGED <<acctUser, acctLock>>
        PROVE AcctInv'
    <2>1. acctUser' \in [Accts -> UserRow]  BY <1>1, <1>8 DEF AcctTypeOK
    <2>2. /\ acctCred'[c] = [acctCred[c] EXCEPT !.state = "revoked"]
          /\ \A d \in Credentials \ {c} : acctCred'[d] = acctCred[d]
      BY <1>1, <1>8 DEF AcctTypeOK
    <2>3. [acctCred[c] EXCEPT !.state = "revoked"] \in CredentialRow  BY <1>2 DEF CredentialRow
    <2>4. acctCred' \in [Credentials -> CredentialRow]  BY <1>1, <1>8, <2>3 DEF AcctTypeOK
    <2>5. /\ acctCred'[c].user = acctCred[c].user /\ acctCred'[c].kind = acctCred[c].kind
          /\ acctCred'[c].late = acctCred[c].late /\ acctCred'[c].state = "revoked"
      BY <1>2, <2>2 DEF CredentialRow
    <2>6. \A d \in Credentials :
            /\ acctCred'[d].user = acctCred[d].user /\ acctCred'[d].kind = acctCred[d].kind
            /\ acctCred'[d].late = acctCred[d].late
            /\ acctCred'[d].state = "unused" <=> acctCred[d].state = "unused"
            /\ acctCred'[d].state = "live" => acctCred[d].state = "live"
      BY <1>8, <2>2, <2>5
    <2>7. {} \in SUBSET Accts /\ {} \in SUBSET Credentials  OBVIOUS
    <2>90. HandlerWrites(r, {}, {})
       BY <1>3, <1>5, <1>8, <2>1, <2>4, <2>6, <2>7 DEF HandlerWrites
    <2> QED  BY <2>90, <2>7, HandlerCommits
  <1>9. CASE Logout(r)
    BY <1>8, <1>9 DEF Logout, Asks, AuthenticatedIsTrue
  <1>10. ASSUME NEW u \in Accts, NEW c \in Credentials, RevokeToken(r, u, c)
         PROVE  AcctInv'
    <2>1. CASE acctCred[c].state = "unused"
      <3>1. acctCred[c].user = u  BY <1>10 DEF RevokeToken
      <3> QED  BY <2>1, <3>1 DEF AccountsAreThere
    <2>2. CASE acctCred[c].state # "unused"
      BY <1>8, <1>10, <2>2 DEF RevokeToken
    <2> QED  BY <2>1, <2>2
  <1>11. CASE ChangePassword(r)
    <2> DEFINE u == acctRequest[r].user
               row == [acctUser[u] EXCEPT !.known = TRUE, !.temporary = FALSE]
    <2>1. /\ u \in Accts /\ Returns(r, {u}) /\ UNCHANGED acctLock /\ acctLock[u] = NoRequest
          /\ acctUser[u].there /\ acctCred' = RevokedAll(u, {}, <<>>)
      BY <1>11 DEF ChangePassword, Asks, AuthenticatedIsTrue, Human, Account, Unlocked
    <2>2. row \in UserRow /\ row.there  BY <1>2, <2>1, ZenonT(60) DEF UserRow
    <2>3. /\ acctUser' \in [Accts -> UserRow] /\ acctUser'[u] = row
          /\ \A v \in Accts \ {u} : acctUser'[v] = acctUser[v]
      BY <1>1, <1>11, <2>1, <2>2 DEF ChangePassword, AcctTypeOK
    <2> HIDE DEF row, u
    <2>4. {u} \in SUBSET Accts /\ {} \in SUBSET Credentials  BY <2>1
    <2>90. HandlerWrites(r, {u}, {})
       BY <1>3, <1>5, <1>6, <2>1, <2>2, <2>3, <2>4 DEF HandlerWrites
    <2> QED  BY <2>90, <2>4, HandlerCommits
  <1>12. ASSUME NEW u \in Accts, ResetPassword(r, u)
         PROVE  AcctInv'
    <2> DEFINE row == [acctUser[u] EXCEPT !.known = TRUE, !.temporary = TRUE]
    <2>1. /\ Returns(r, {u}) /\ UNCHANGED acctLock /\ acctLock[u] = NoRequest
          /\ acctUser[u].there /\ acctCred' = RevokedAll(u, {}, <<>>)
      BY <1>12 DEF ResetPassword, Account, Unlocked
    <2>2. row \in UserRow /\ row.there  BY <1>2, <2>1 DEF UserRow
    <2>3. /\ acctUser' \in [Accts -> UserRow] /\ acctUser'[u] = row
          /\ \A v \in Accts \ {u} : acctUser'[v] = acctUser[v]
      BY <1>1, <1>12, <2>1, <2>2 DEF ResetPassword, AcctTypeOK
    <2> HIDE DEF row
    <2>4. {u} \in SUBSET Accts /\ {} \in SUBSET Credentials  BY <2>1
    <2>90. HandlerWrites(r, {u}, {})
       BY <1>3, <1>5, <1>6, <2>1, <2>2, <2>3, <2>4 DEF HandlerWrites
    <2> QED  BY <2>90, <2>4, HandlerCommits
  <1>13. CASE FinishEdit(r)
    <2> DEFINE u == acctRequest[r].target
    <2>1. /\ u \in Accts /\ Returns(r, {u}) /\ UnlockedBy(r) /\ acctLock[u] = r
          /\ acctUser[u].there /\ acctCred' = RevokedAll(u, {}, <<>>)
      BY <1>13 DEF FinishEdit, LocksAreHeld
    <2>2. PICK enabled \in BOOLEAN, role \in {"member", "admin"} :
             acctUser' = [acctUser EXCEPT ![u].enabled = enabled, ![u].role = role]
      BY <1>13 DEF FinishEdit
    <2> DEFINE row == [acctUser[u] EXCEPT !.enabled = enabled, !.role = role]
    <2>3. row \in UserRow /\ row.there  BY <1>2, <2>1, ZenonT(60) DEF UserRow
    <2> HIDE DEF u
    <2>4. /\ acctUser' \in [Accts -> UserRow] /\ acctUser'[u] = row
          /\ \A v \in Accts \ {u} : acctUser'[v] = acctUser[v]
      BY <1>1, <2>1, <2>2, <2>3 DEF AcctTypeOK
    <2> HIDE DEF row
    <2>5. {u} \in SUBSET Accts /\ {} \in SUBSET Credentials  BY <2>1
    <2>90. HandlerWrites(r, {u}, {})
       BY <1>3, <1>4, <1>6, <2>1, <2>3, <2>4, <2>5 DEF HandlerWrites
    <2> QED  BY <2>90, <2>5, HandlerCommits
  <1>14. ASSUME NEW u \in Accts, NEW c \in Credentials, IssueToken(r, u, c)
         PROVE  AcctInv'
    <2>1. /\ Returns(r, {}) /\ UNCHANGED <<acctUser, acctLock>> /\ FreshCredential(c)
          /\ acctUser[u].there /\ acctUser[u].enabled
      BY <1>14 DEF IssueToken, OwnTokens, ServiceTokens, Human, Account
    <2>2. PICK late \in BOOLEAN :
            /\ acctCred' = [acctCred EXCEPT ![c] = Issued("token", u, late)]
            /\ ~late /\ (u \in Humans => ~acctUser[u].temporary)
      <3>1. CASE OwnTokens(r, u) /\ acctCred' = [acctCred EXCEPT ![c] = Issued("token", u, acctRequest[r].late)]
        <4>1. acctRequest[r].pc = "ready" /\ ~acctRequest[r].restricted /\ u = acctRequest[r].user
              /\ acctCred[acctRequest[r].cred].state # "revoked"
          BY <1>14, <3>1 DEF IssueToken, AsksFreely, Asks, OwnTokens, Human
        <4>2. acctRequest[r].cred \in Credentials  BY <4>1 DEF AuthenticatedIsTrue
        <4>3. acctCred[acctRequest[r].cred].state = "live"
          BY <1>2, <4>1, <4>2 DEF AuthenticatedIsTrue, CredentialRow
        <4>4. ~acctRequest[r].late /\ ~acctUser[u].temporary
          BY <4>1, <4>3 DEF AuthenticatedIsTrue
        <4> QED  BY <1>1, <3>1, <4>4 DEF AcctTypeOK, AcctRequestState
      <3>2. CASE ServiceTokens(r, u) /\ acctCred' = [acctCred EXCEPT ![c] = Issued("token", u, FALSE)]
        BY <3>2 DEF ServiceTokens
      <3> QED  BY <1>14, <3>1, <3>2 DEF IssueToken
    <2> DEFINE new == Issued("token", u, late)
    <2>3. /\ new \in CredentialRow /\ new.user = u /\ new.state = "live" /\ new.late = late
      BY DEF Issued, CredentialRow
    <2>4. /\ acctCred' \in [Credentials -> CredentialRow] /\ acctCred'[c] = new
          /\ \A d \in Credentials \ {c} : acctCred'[d] = acctCred[d]
      BY <1>1, <2>2, <2>3 DEF AcctTypeOK
    <2> HIDE DEF new
    <2>5. acctUser' \in [Accts -> UserRow]  BY <1>1, <2>1 DEF AcctTypeOK
    <2>6. {} \in SUBSET Accts /\ {c} \in SUBSET Credentials  OBVIOUS
    <2>90. HandlerWrites(r, {}, {c})
       BY <1>3, <1>5, <2>1, <2>2, <2>3, <2>4, <2>5, <2>6 DEF HandlerWrites
    <2> QED  BY <2>90, <2>6, HandlerCommits
  <1> QED  BY <1>7, <1>9, <1>10, <1>11, <1>12, <1>13, <1>14

\* A login issues a credential for the account it holds.
LEMMA FinishLoginSteps ==
  ASSUME AcctInv, NEW r \in AcctRequests, NEW c \in Credentials, FinishLogin(r, c)
  PROVE  AcctInv'
  <1> USE DEF AcctInv
  <1>1. AcctTypeOK  BY DEF CredentialsAreCurrent
  <1>2. /\ \A u \in Accts : acctUser[u] \in UserRow /\ acctLock[u] \in AcctRequests \cup {NoRequest}
        /\ \A d \in Credentials : acctCred[d] \in CredentialRow
    BY <1>1 DEF AcctTypeOK
  <1> DEFINE u == acctRequest[r].user
             row == Issued("session", u, acctRequest[r].late)
             new == [k \in {c} |-> row]
  <1>3. Admins # {} => Admins' # {}
    <2>1. AcctNext  BY DEF AcctNext
    <2> QED  BY <2>1, AdminStays
  <1>4. /\ u \in Accts /\ u \in Humans /\ acctLock[u] = r /\ ~acctRequest[r].late
        /\ acctUser[u].there /\ acctUser[u].enabled
        /\ FreshCredential(c) /\ UnlockedBy(r)
    BY DEF FinishLogin, LocksAreHeld, Accts
  <1>5. /\ acctLock' \in [Accts -> AcctRequests \cup {NoRequest}]
        /\ \A v \in Accts : acctLock'[v] = acctLock[v] \/ acctLock[v] = r
    BY <1>2, <1>4 DEF UnlockedBy
  <1>6. /\ row \in CredentialRow /\ row.user = u /\ row.state = "live" /\ ~row.late
        /\ row.kind = "session"
    BY <1>1, <1>4 DEF Issued, CredentialRow, AcctTypeOK, AcctRequestState
  <1>7. /\ DOMAIN new = {c} /\ new[c] = row /\ DOMAIN new \subseteq Credentials
        /\ \A k \in DOMAIN new : new[k] \in CredentialRow
    BY <1>6
  <1>8. PICK old \in SUBSET {o \in Credentials : acctCred[o].kind = "session"} :
         \/ /\ ~acctUser[u].temporary
            /\ acctCred' = RevokedAll(NoAccount, old, new)
            /\ Returns(r, {})
            /\ UNCHANGED acctUser
         \/ /\ acctUser[u].temporary
            /\ acctCred' = RevokedAll(u, old, new)
            /\ acctUser' = [acctUser EXCEPT ![u].known = FALSE]
            /\ Returns(r, {u})
    BY DEF FinishLogin
  <1> HIDE DEF new, row, u
  <1>9. ASSUME NEW v, acctCred' = RevokedAll(v, old, new)
        PROVE /\ acctCred' \in [Credentials -> CredentialRow]
              /\ acctCred'[c] = row
              /\ \A d \in Credentials \ {c} :
                    /\ acctCred'[d].user = acctCred[d].user /\ acctCred'[d].kind = acctCred[d].kind
                    /\ acctCred'[d].late = acctCred[d].late
                    /\ acctCred'[d].state = "unused" <=> acctCred[d].state = "unused"
                    /\ acctCred'[d].state = "live" => acctCred[d].state = "live" /\ acctCred[d].user # v
    BY <1>1, <1>7, <1>9, RevokedRows
  <1>10. {u} \in SUBSET Accts /\ {} \in SUBSET Accts /\ {c} \in SUBSET Credentials  BY <1>4
  <1>11. CASE /\ ~acctUser[u].temporary
              /\ acctCred' = RevokedAll(NoAccount, old, new)
              /\ Returns(r, {})
              /\ UNCHANGED acctUser
    <2>1. acctUser' \in [Accts -> UserRow]  BY <1>1, <1>11 DEF AcctTypeOK
    <2>90. HandlerWrites(r, {}, {c})
       BY <1>3, <1>4, <1>5, <1>6, <1>9, <1>10, <1>11, <2>1 DEF HandlerWrites
    <2> QED  BY <2>90, <1>10, HandlerCommits
  <1>12. CASE /\ acctUser[u].temporary
              /\ acctCred' = RevokedAll(u, old, new)
              /\ acctUser' = [acctUser EXCEPT ![u].known = FALSE]
              /\ Returns(r, {u})
    <2> DEFINE after == [acctUser[u] EXCEPT !.known = FALSE]
    <2>1. after \in UserRow /\ after.there /\ after.enabled /\ ~after.known
      BY <1>2, <1>4 DEF UserRow
    <2>2. /\ acctUser' \in [Accts -> UserRow] /\ acctUser'[u] = after
          /\ \A v \in Accts \ {u} : acctUser'[v] = acctUser[v]
      BY <1>1, <1>4, <1>12, <2>1 DEF AcctTypeOK
    <2> HIDE DEF after
    <2>90. HandlerWrites(r, {u}, {c})
       BY <1>3, <1>4, <1>5, <1>6, <1>9, <1>10, <1>12, <2>1, <2>2 DEF HandlerWrites
    <2> QED  BY <2>90, <1>10, HandlerCommits
  <1> QED  BY <1>8, <1>11, <1>12

\* Every step of the authentication keeps the invariant.
LEMMA AcctStepInv == AcctInv /\ [AcctNext]_acctVars => AcctInv'
  <1> SUFFICES ASSUME AcctInv, [AcctNext]_acctVars PROVE AcctInv'  OBVIOUS
  <1>1. CASE UNCHANGED acctVars
    BY <1>1 DEF acctVars, AcctInv, CredentialsAreCurrent, AcctTypeOK, LiveOf, AuthenticatedIsTrue,
                LocksAreHeld, AccountsAreThere, Admins
  <1>2. ASSUME NEW r \in AcctRequests, AcctHandler(r)  PROVE AcctInv'
    BY <1>2, HandlerSteps, BeginEditSteps DEF AcctHandler
  <1>3. CASE AcctNext
    BY <1>2, <1>3, NewAccountSteps, LoginSteps, FinishLoginSteps, AuthenticateSteps DEF AcctNext
  <1> QED  BY <1>1, <1>3

\* Whatever number of accounts, credentials and requests there is, a live credential rests on
\* nothing that was revoked before it was issued and its account is enabled; while a password
\* is temporary it has opened at most one session: CredentialsAreCurrent always holds.
THEOREM LiveCredentialsAreCurrent == AcctSpec => []CredentialsAreCurrent
  <1>1. AcctInv => CredentialsAreCurrent  BY DEF AcctInv
  <1> QED  BY <1>1, AcctInitInv, AcctStepInv, PTL DEF AcctSpec

\* However registrations, logins, edits and resets interleave, an enabled administrator remains
\* once there is one: two edits that each spare the last one but together would not are kept
\* apart by the locks.
THEOREM AnAdminRemains == AcctSpec => AdminRemains
  <1>1. AcctInv /\ [AcctNext]_acctVars => [Admins # {} => Admins' # {}]_acctVars
    BY AdminStays
  <1> QED  BY <1>1, AcctInitInv, AcctStepInv, PTL DEF AcctSpec, AdminRemains

HIDE AccountsAssumption
-----------------------------------------------------------------------------
(* SymbolSource: the books of the cache, and the classes of failure. *)

\* A request is about a file, and while it fills there is no entry of the file.
RequestIsSound(r) ==
    LET x == srcRequest[r] IN
    /\ x.pc # "idle" => x.file \in SrcFiles
    /\ x.pc = "fill" => ~srcEntry[x.file].here

SrcInv == /\ SourceBooksBalance
          /\ PermanentMeansProven
          /\ IsFiniteSet(srcPending)
          /\ \A r \in SrcRequests : RequestIsSound(r)

USE SymbolSourceAssumption

\* What the invariant says of one file, and of the answer of one request.
FileIsSound(f) ==
    /\ f \notin srcVanished =>
          /\ srcEntry[f].here => srcEntry[f].readers = Cardinality(Readers(f))
          /\ Readers(f) # {} => srcEntry[f].here /\ srcDisk[f] # "absent"
    /\ srcEntry[f].here /\ srcEntry[f].proven => srcDisk[f] # "bad"

Fills(r, f) == srcRequest[r].file = f /\ srcRequest[r].pc \in {"fill", "settle"}

FillsAreKnown ==
    /\ \A f \in SrcFiles : f \in srcPending <=> \E r \in SrcRequests : Fills(r, f)
    /\ \A q, r \in SrcRequests, f \in SrcFiles : Fills(q, f) /\ Fills(r, f) => q = r
    /\ IsFiniteSet(srcPending)
    /\ Cardinality(srcPending) <= MaxConcurrent
    /\ srcWeight <= MaterializeBytes

CapacityComesBack == srcVanished = {} => srcFree = MaxDownloads - Cardinality(Busy)

AnswerIsProven(x) ==
    /\ x.answer = "permanent" /\ ~x.cached =>
          /\ SrcReplicas[x.file] > 0
          /\ \A l \in Locations(x.file) : <<l, "permanent">> \in x.found
    /\ x.answer = "transient" => \A y \in x.found : y[2] = "transient"

SrcParts ==
    /\ SrcTypeOK /\ CapacityComesBack /\ FillsAreKnown
    /\ \A f \in SrcFiles : FileIsSound(f)
    /\ \A r \in SrcRequests : RequestIsSound(r) /\ AnswerIsProven(srcRequest[r])

\* The invariant in the parts that one step changes.
LEMMA SrcInvParts == SrcInv <=> SrcParts
  <1> USE DEF SrcParts
  <1>1. SrcInv => SrcParts
    BY DEF SrcInv, SourceBooksBalance, PermanentMeansProven, CapacityComesBack, FillsAreKnown,
           FileIsSound, AnswerIsProven, Fills
  <1>2. ASSUME SrcTypeOK, CapacityComesBack, FillsAreKnown, \A f \in SrcFiles : FileIsSound(f),
               \A r \in SrcRequests : RequestIsSound(r) /\ AnswerIsProven(srcRequest[r])
        PROVE  SrcInv
    <2>1. ASSUME NEW q \in SrcRequests, NEW r \in SrcRequests,
                 srcRequest[q].pc \in {"fill", "settle"}, srcRequest[r].pc \in {"fill", "settle"},
                 srcRequest[q].file = srcRequest[r].file
          PROVE  q = r
      <3>1. srcRequest[q].file \in SrcFiles  BY <1>2, <2>1 DEF RequestIsSound
      <3> QED  BY <1>2, <2>1, <3>1 DEF FillsAreKnown, Fills
    <2> QED  BY <1>2, <2>1 DEF SrcInv, SourceBooksBalance, PermanentMeansProven, CapacityComesBack,
                    FillsAreKnown, FileIsSound, AnswerIsProven, Fills
  <1> QED  BY <1>1, <1>2

\* The smaller of two numbers.
LEMMA MinOfTwo ==
  ASSUME NEW a \in Nat, NEW b \in Nat
  PROVE  Min({a, b}) \in {a, b} /\ Min({a, b}) <= a /\ Min({a, b}) <= b
  <1>1. \E x \in {a, b} : \A y \in {a, b} : x <= y
    <2>1. CASE a <= b  BY <2>1
    <2>2. CASE b <= a  BY <2>2
    <2> QED  BY <2>1, <2>2
  <1> QED  BY <1>1 DEF Min

\* What a fill weighs.
LEMMA WeightIsBounded ==
  ASSUME NEW f \in SrcFiles
  PROVE  Weight(f) \in Nat
  BY MinOfTwo DEF Weight

\* The replicas that are tried are among those there are.
LEMMA TriedAreLocations ==
  ASSUME NEW f \in SrcFiles
  PROVE  /\ Tried(f) \subseteq Locations(f) /\ Tried(f) \subseteq Nat
         /\ SrcReplicas[f] <= MaxLocations => Tried(f) = Locations(f)
  <1> DEFINE n == Min({MaxLocations, SrcReplicas[f]})
  <1>1. SrcReplicas[f] \in Nat  OBVIOUS
  <1>2. n \in {MaxLocations, SrcReplicas[f]} /\ n <= MaxLocations /\ n <= SrcReplicas[f]
    BY <1>1, MinOfTwo
  <1>3. Tried(f) = 1..n /\ Locations(f) = 1..SrcReplicas[f]  BY DEF Tried, Locations
  <1> HIDE DEF n
  <1> QED  BY <1>1, <1>2, <1>3

-----------------------------------------------------------------------------
Reads(x, f) == x.file = f /\ x.pc \in {"settle", "serve"}
BusyCount(x) == IF x.pc = "idle" THEN 0 ELSE 1

\* What one request does to the counts.
LEMMA MovedRequest ==
  ASSUME SrcTypeOK, NEW r \in SrcRequests, NEW x \in SrcRequestState,
         srcRequest' = [srcRequest EXCEPT ![r] = x]
  PROVE  /\ srcRequest' \in [SrcRequests -> SrcRequestState]
         /\ srcRequest'[r] = x
         /\ \A q \in SrcRequests \ {r} : srcRequest'[q] = srcRequest[q]
         /\ Cardinality(Busy) \in Nat
         /\ Cardinality(Busy') = Cardinality(Busy) - BusyCount(srcRequest[r]) + BusyCount(x)
         /\ \A f \in SrcFiles :
              /\ IsFiniteSet(Readers(f)) /\ Cardinality(Readers(f)) \in Nat
              /\ Reads(x, f) => Readers(f)' = Readers(f) \cup {r}
              /\ ~Reads(x, f) => Readers(f)' = Readers(f) \ {r}
              /\ r \in Readers(f) <=> Reads(srcRequest[r], f)
  <1>1. /\ srcRequest' \in [SrcRequests -> SrcRequestState]
        /\ srcRequest'[r] = x
        /\ \A q \in SrcRequests \ {r} : srcRequest'[q] = srcRequest[q]
    BY DEF SrcTypeOK
  <1>2. IsFiniteSet(Busy) /\ Cardinality(Busy) \in Nat
    BY FS_Subset, FS_CardinalityType DEF Busy
  <1>3. Cardinality(Busy') = Cardinality(Busy) - BusyCount(srcRequest[r]) + BusyCount(x)
    <2>1. CASE srcRequest[r].pc = "idle" /\ x.pc = "idle"
      <3>1. Busy' = Busy  BY <1>1, <2>1 DEF Busy
      <3> QED  BY <1>2, <2>1, <3>1 DEF BusyCount
    <2>2. CASE srcRequest[r].pc # "idle" /\ x.pc # "idle"
      <3>1. Busy' = Busy  BY <1>1, <2>2 DEF Busy
      <3> QED  BY <1>2, <2>2, <3>1 DEF BusyCount
    <2>3. CASE srcRequest[r].pc = "idle" /\ x.pc # "idle"
      <3>1. Busy' = Busy \cup {r} /\ r \notin Busy  BY <1>1, <2>3 DEF Busy
      <3>2. Cardinality(Busy') = Cardinality(Busy) + 1  BY <1>2, <3>1, FS_AddElement
      <3> QED  BY <1>2, <2>3, <3>2 DEF BusyCount
    <2>4. CASE srcRequest[r].pc # "idle" /\ x.pc = "idle"
      <3>1. Busy' = Busy \ {r} /\ r \in Busy  BY <1>1, <2>4 DEF Busy
      <3>2. Cardinality(Busy') = Cardinality(Busy) - 1  BY <1>2, <3>1, FS_RemoveElement
      <3> QED  BY <1>2, <2>4, <3>2 DEF BusyCount
    <2> QED  BY <2>1, <2>2, <2>3, <2>4
  <1>4. ASSUME NEW f \in SrcFiles
        PROVE  /\ IsFiniteSet(Readers(f)) /\ Cardinality(Readers(f)) \in Nat
               /\ Reads(x, f) => Readers(f)' = Readers(f) \cup {r}
               /\ ~Reads(x, f) => Readers(f)' = Readers(f) \ {r}
               /\ r \in Readers(f) <=> Reads(srcRequest[r], f)
    <2>1. IsFiniteSet(Readers(f)) /\ Cardinality(Readers(f)) \in Nat
      BY FS_Subset, FS_CardinalityType DEF Readers
    <2>2. \A q \in SrcRequests : q \in Readers(f)' <=> Reads(srcRequest'[q], f)
      BY DEF Readers, Reading, Reads
    <2>3. \A q \in SrcRequests : q \in Readers(f) <=> Reads(srcRequest[q], f)
      BY DEF Readers, Reading, Reads
    <2>4. Readers(f) \subseteq SrcRequests /\ Readers(f)' \subseteq SrcRequests  BY DEF Readers
    <2> QED  BY <1>1, <2>1, <2>2, <2>3, <2>4
  <1> QED  BY <1>1, <1>2, <1>3, <1>4

\* A step of request r, which becomes x, and what it must keep.
MoveIsSound(r, x) ==
    /\ x \in SrcRequestState
    /\ srcRequest' = [srcRequest EXCEPT ![r] = x]
    /\ AnswerIsProven(x)
    /\ x.pc # "idle" => x.file \in SrcFiles
    /\ srcEntry' \in [SrcFiles -> SrcEntryRow]
    /\ srcDisk' \in [SrcFiles -> {"absent", "good", "bad"}]
    /\ srcPending' \in SUBSET SrcFiles /\ srcWeight' \in Int /\ srcFree' \in Int
    /\ UNCHANGED <<srcVanished, srcFaults>>
    /\ srcVanished = {} => srcFree' = srcFree + BusyCount(srcRequest[r]) - BusyCount(x)
    /\ \A f \in SrcFiles : FileIsSound(f)'
    /\ FillsAreKnown'
    /\ x.pc = "fill" => ~srcEntry'[x.file].here
    /\ \A q \in SrcRequests \ {r} : srcRequest[q].pc = "fill" => ~srcEntry'[srcRequest[q].file].here

\* What such a move keeps.
LEMMA SoundMoveKeeps ==
  ASSUME SrcInv, NEW r \in SrcRequests, NEW x, MoveIsSound(r, x)
  PROVE  SrcInv'
  <1> USE DEF MoveIsSound
  <1>1. /\ SrcTypeOK /\ CapacityComesBack
        /\ \A q \in SrcRequests : RequestIsSound(q) /\ AnswerIsProven(srcRequest[q])
    BY SrcInvParts DEF SrcParts
  <1>2. /\ srcRequest' \in [SrcRequests -> SrcRequestState]
        /\ srcRequest'[r] = x
        /\ \A q \in SrcRequests \ {r} : srcRequest'[q] = srcRequest[q]
        /\ Cardinality(Busy) \in Nat
        /\ Cardinality(Busy') = Cardinality(Busy) - BusyCount(srcRequest[r]) + BusyCount(x)
    BY <1>1, MovedRequest
  <1>3. SrcTypeOK'  BY <1>1, <1>2 DEF SrcTypeOK
  <1>4. CapacityComesBack'
    BY <1>1, <1>2 DEF CapacityComesBack, BusyCount, SrcTypeOK
  <1>5. \A q \in SrcRequests : RequestIsSound(q)'
    BY <1>1, <1>2 DEF RequestIsSound
  <1>6. \A q \in SrcRequests : AnswerIsProven(srcRequest'[q])
    BY <1>1, <1>2
  <1>7. \A q \in SrcRequests : AnswerIsProven(srcRequest[q])'
    BY <1>6 DEF AnswerIsProven
  <1>8. SrcParts'  BY <1>3, <1>4, <1>5, <1>7 DEF SrcParts
  <1> QED  BY <1>8, SrcInvParts, PTL

\* What is evicted is not being read.
LEMMA EvictionKeeps ==
  ASSUME SrcInv, NEW E \in SUBSET Evictable,
         srcEntry' = Without(E), srcDisk' = Unlinked(E), UNCHANGED srcVanished,
         \A f \in SrcFiles : Readers(f)' = Readers(f)
  PROVE  /\ srcEntry' \in [SrcFiles -> SrcEntryRow]
         /\ srcDisk' \in [SrcFiles -> {"absent", "good", "bad"}]
         /\ \A f \in SrcFiles : FileIsSound(f)'
         /\ \A f \in SrcFiles : srcEntry'[f].here => srcEntry[f].here
  <1>1. SrcTypeOK /\ \A f \in SrcFiles : FileIsSound(f)  BY SrcInvParts DEF SrcParts
  <1>2. NoEntry \in SrcEntryRow /\ ~NoEntry.here /\ ~NoEntry.proven  BY DEF NoEntry, SrcEntryRow
  <1>3. /\ srcEntry' \in [SrcFiles -> SrcEntryRow]
        /\ srcDisk' \in [SrcFiles -> {"absent", "good", "bad"}]
    BY <1>1, <1>2 DEF SrcTypeOK, Without, Unlinked
  <1>4. ASSUME NEW f \in SrcFiles
        PROVE  FileIsSound(f)' /\ (srcEntry'[f].here => srcEntry[f].here)
    <2>1. CASE f \in E
      <3>1. srcEntry'[f] = NoEntry  BY <2>1 DEF Without
      <3>2. srcEntry[f].here /\ srcEntry[f].readers = 0  BY <2>1 DEF Evictable
      <3>3. f \notin srcVanished => Readers(f) = {}
        <4>1. IsFiniteSet(Readers(f))  BY FS_Subset DEF Readers
        <4> QED  BY <1>1, <3>2, <4>1, FS_EmptySet DEF FileIsSound
      <3> QED  BY <1>2, <3>1, <3>2, <3>3 DEF FileIsSound
    <2>2. CASE f \notin E
      <3>1. srcEntry'[f] = srcEntry[f] /\ srcDisk'[f] = srcDisk[f]
        BY <2>2 DEF Without, Unlinked
      <3> QED  BY <1>1, <3>1 DEF FileIsSound
    <2> QED  BY <2>1, <2>2
  <1> QED  BY <1>3, <1>4

\* A step between asking and being answered, with what it evicts.
QuietMove(r, x, E) ==
    /\ x \in SrcRequestState
    /\ srcRequest' = [srcRequest EXCEPT ![r] = x]
    /\ srcRequest[r].pc \in {"idle", "acquire"} /\ x.pc \in {"idle", "acquire"}
    /\ AnswerIsProven(x)
    /\ x.pc # "idle" => x.file \in SrcFiles
    /\ E \in SUBSET Evictable /\ srcEntry' = Without(E) /\ srcDisk' = Unlinked(E)
    /\ srcFree' \in Int
    /\ srcFree' = srcFree + BusyCount(srcRequest[r]) - BusyCount(x)
    /\ UNCHANGED <<srcPending, srcWeight, srcVanished, srcFaults>>

\* What a move that evicts files and ends no fill keeps.
LEMMA QuietMoveKeeps ==
  ASSUME SrcInv, NEW r \in SrcRequests, NEW x, NEW E, QuietMove(r, x, E)
  PROVE  SrcInv'
  <1> USE DEF QuietMove
  <1>1. /\ SrcTypeOK /\ FillsAreKnown /\ \A f \in SrcFiles : FileIsSound(f)
        /\ \A q \in SrcRequests : RequestIsSound(q)
    BY SrcInvParts DEF SrcParts
  <1>2. /\ srcRequest'[r] = x
        /\ \A q \in SrcRequests \ {r} : srcRequest'[q] = srcRequest[q]
        /\ \A f \in SrcFiles : /\ ~Reads(x, f) => Readers(f)' = Readers(f) \ {r}
                               /\ r \in Readers(f) <=> Reads(srcRequest[r], f)
    BY <1>1, MovedRequest
  <1>3. ASSUME NEW f \in SrcFiles  PROVE Readers(f)' = Readers(f)
    <2>1. ~Reads(x, f) /\ ~Reads(srcRequest[r], f)  BY DEF Reads
    <2>2. Readers(f)' = Readers(f) \ {r} /\ r \notin Readers(f)  BY <1>2, <2>1
    <2> QED  BY <2>2
  <1>4. /\ srcEntry' \in [SrcFiles -> SrcEntryRow]
        /\ srcDisk' \in [SrcFiles -> {"absent", "good", "bad"}]
        /\ \A f \in SrcFiles : FileIsSound(f)'
        /\ \A f \in SrcFiles : srcEntry'[f].here => srcEntry[f].here
    BY <1>3, EvictionKeeps
  <1>5. \A q \in SrcRequests, f \in SrcFiles : Fills(q, f)' <=> Fills(q, f)
    BY <1>2 DEF Fills
  <1>6. FillsAreKnown'  BY <1>1, <1>5 DEF FillsAreKnown
  <1>7. \A q \in SrcRequests : srcRequest[q].pc = "fill" => ~srcEntry'[srcRequest[q].file].here
    BY <1>1, <1>4 DEF RequestIsSound
  <1>8. srcPending' \in SUBSET SrcFiles /\ srcWeight' \in Int  BY <1>1 DEF SrcTypeOK
  <1>9. MoveIsSound(r, x)  BY <1>4, <1>6, <1>7, <1>8 DEF MoveIsSound
  <1> QED  BY <1>9, SoundMoveKeeps

\* Nothing is evicted.
LEMMA NothingEvicted ==
  ASSUME SrcTypeOK, UNCHANGED <<srcEntry, srcDisk>>
  PROVE  srcEntry' = Without({}) /\ srcDisk' = Unlinked({}) /\ {} \in SUBSET Evictable
  BY DEF SrcTypeOK, Without, Unlinked

\* A thread without a request.
LEMMA IdleRow ==
  /\ SrcIdle \in SrcRequestState /\ SrcIdle.pc = "idle" /\ SrcIdle.answer = "none"
  /\ SrcIdle.found = {} /\ SrcIdle.file = NoFile
  BY DEF SrcIdle, SrcRequestState

\* A request takes its capacity, or is refused.
LEMMA AskSteps ==
  ASSUME SrcInv, NEW r \in SrcRequests, RefuseFetch(r) \/ \E f \in SrcFiles : Fetch(r, f)
  PROVE  SrcInv'
  <1>1. SrcTypeOK /\ srcFree \in Int  BY SrcInvParts DEF SrcParts, SrcTypeOK
  <1>2. CASE RefuseFetch(r)
    <2> DEFINE x == [SrcIdle EXCEPT !.answer = "not_found"]
    <2>1. x \in SrcRequestState /\ x.pc = "idle" /\ AnswerIsProven(x)
      BY DEF SrcIdle, SrcRequestState, AnswerIsProven
    <2>2. /\ srcRequest[r].pc = "idle" /\ srcRequest' = [srcRequest EXCEPT ![r] = x]
          /\ UNCHANGED <<srcEntry, srcDisk, srcPending, srcWeight, srcFree, srcVanished, srcFaults>>
      BY <1>2 DEF RefuseFetch
    <2> HIDE DEF x
    <2>3. QuietMove(r, x, {})
      BY <1>1, <2>1, <2>2, NothingEvicted DEF QuietMove, BusyCount
    <2> QED  BY <2>3, QuietMoveKeeps
  <1>3. ASSUME NEW f \in SrcFiles, Fetch(r, f)  PROVE SrcInv'
    <2>1. /\ srcRequest[r].pc = "idle"
          /\ UNCHANGED <<srcEntry, srcDisk, srcPending, srcWeight, srcVanished, srcFaults>>
      BY <1>3 DEF Fetch
    <2>2. CASE /\ srcFree' = srcFree - 1
               /\ srcRequest' = [srcRequest EXCEPT ![r] = [SrcIdle EXCEPT !.pc = "acquire", !.file = f]]
      <3> DEFINE x == [SrcIdle EXCEPT !.pc = "acquire", !.file = f]
      <3>1. x \in SrcRequestState /\ x.pc = "acquire" /\ x.file = f /\ AnswerIsProven(x)
        BY DEF SrcIdle, SrcRequestState, AnswerIsProven
      <3>2. srcRequest' = [srcRequest EXCEPT ![r] = x]  BY <2>2
      <3> HIDE DEF x
      <3>3. srcFree' \in Int /\ srcFree' = srcFree + BusyCount(srcRequest[r]) - BusyCount(x)
        BY <1>1, <2>1, <2>2, <3>1 DEF BusyCount
      <3>4. srcEntry' = Without({}) /\ srcDisk' = Unlinked({}) /\ {} \in SUBSET Evictable
        BY <1>1, <2>1, NothingEvicted
      <3>5. QuietMove(r, x, {})  BY <2>1, <3>1, <3>2, <3>3, <3>4 DEF QuietMove
      <3> QED  BY <3>5, QuietMoveKeeps
    <2>3. CASE /\ UNCHANGED srcFree
               /\ srcRequest' = [srcRequest EXCEPT
                     ![r] = [SrcIdle EXCEPT !.file = f, !.answer = "transient"]]
      <3> DEFINE x == [SrcIdle EXCEPT !.file = f, !.answer = "transient"]
      <3>1. x \in SrcRequestState /\ x.pc = "idle" /\ AnswerIsProven(x)
        BY DEF SrcIdle, SrcRequestState, AnswerIsProven, Classes
      <3>2. srcRequest' = [srcRequest EXCEPT ![r] = x]  BY <2>3
      <3> HIDE DEF x
      <3>3. srcFree' \in Int /\ srcFree' = srcFree + BusyCount(srcRequest[r]) - BusyCount(x)
        BY <1>1, <2>1, <2>3, <3>1 DEF BusyCount
      <3>4. srcEntry' = Without({}) /\ srcDisk' = Unlinked({}) /\ {} \in SUBSET Evictable
        BY <1>1, <2>1, NothingEvicted
      <3>5. QuietMove(r, x, {})  BY <2>1, <3>1, <3>2, <3>3, <3>4 DEF QuietMove
      <3> QED  BY <3>5, QuietMoveKeeps
    <2> QED  BY <1>3, <2>2, <2>3 DEF Fetch
  <1> QED  BY <1>2, <1>3

AnsweredRow(r, class, cached, found) ==
    [srcRequest[r] EXCEPT !.pc = "idle", !.answer = class, !.cached = cached, !.found = found]

\* What the answer to a request that reads no file leaves.
LEMMA AnsweredRequest ==
  ASSUME SrcTypeOK, NEW r \in SrcRequests, NEW class \in Classes \cup {"error"},
         NEW cached \in BOOLEAN, NEW found \in SUBSET (Nat \X Classes),
         Answered(r, class, cached, found), srcRequest[r].pc # "idle"
  PROVE  LET x == AnsweredRow(r, class, cached, found) IN
         /\ x \in SrcRequestState /\ srcRequest' = [srcRequest EXCEPT ![r] = x]
         /\ x.pc = "idle" /\ x.file = srcRequest[r].file /\ x.answer = class
         /\ x.cached = cached /\ x.found = found
         /\ srcFree' \in Int
         /\ srcFree' = srcFree + BusyCount(srcRequest[r]) - BusyCount(x)
  <1> DEFINE x == AnsweredRow(r, class, cached, found)
  <1>1. srcRequest' = [srcRequest EXCEPT ![r] = x] /\ srcFree' = srcFree + 1
    BY DEF Answered, AnsweredRow, SrcTypeOK
  <1>2. srcRequest[r] \in SrcRequestState /\ srcFree \in Int  BY DEF SrcTypeOK
  <1>3. /\ x \in SrcRequestState
        /\ x.pc = "idle" /\ x.file = srcRequest[r].file /\ x.answer = class
        /\ x.cached = cached /\ x.found = found
    BY <1>2 DEF AnsweredRow, SrcRequestState
  <1> HIDE DEF x
  <1>4. BusyCount(srcRequest[r]) = 1 /\ BusyCount(x) = 0  BY <1>3 DEF BusyCount
  <1>5. srcFree' \in Int /\ srcFree' = srcFree + BusyCount(srcRequest[r]) - BusyCount(x)
    BY <1>1, <1>2, <1>4
  <1> QED  BY <1>1, <1>3, <1>5 DEF x

\* A request that waited for a file is answered, or goes on waiting, after an eviction.
LEMMA WaitSteps ==
  ASSUME SrcInv, NEW r \in SrcRequests,
         \/ WaitForRoom(r) \/ EvictionFails(r)
         \/ /\ srcRequest[r].pc = "acquire"
            /\ Answered(r, "permanent", TRUE, {})
            /\ UNCHANGED <<srcEntry, srcDisk, srcPending, srcWeight, srcVanished, srcFaults>>
  PROVE  SrcInv'
  <1>1. SrcTypeOK /\ RequestIsSound(r)  BY SrcInvParts DEF SrcParts
  <1>2. srcRequest[r].pc = "acquire" /\ UNCHANGED <<srcPending, srcWeight, srcVanished, srcFaults>>
    BY DEF WaitForRoom, EvictionFails
  <1>3. PICK E \in SUBSET Evictable : srcEntry' = Without(E) /\ srcDisk' = Unlinked(E)
    <2>1. CASE UNCHANGED <<srcEntry, srcDisk>>  BY <1>1, <2>1, NothingEvicted
    <2>2. CASE ~UNCHANGED <<srcEntry, srcDisk>>
      <3>1. WaitForRoom(r) \/ EvictionFails(r)  BY <2>2
      <3> QED  BY <2>2, <3>1 DEF WaitForRoom, EvictionFails
    <2> QED  BY <2>1, <2>2
  <1>4. ASSUME NEW class \in {"transient", "error", "permanent"}, NEW cached \in BOOLEAN,
               class = "permanent" => cached, Answered(r, class, cached, {})
        PROVE  SrcInv'
    <2> DEFINE x == AnsweredRow(r, class, cached, {})
    <2>1. class \in Classes \cup {"error"} /\ {} \in SUBSET (Nat \X Classes)  BY DEF Classes
    <2>2. /\ x \in SrcRequestState /\ srcRequest' = [srcRequest EXCEPT ![r] = x]
          /\ x.pc = "idle" /\ x.answer = class /\ x.cached = cached /\ x.found = {}
          /\ srcFree' \in Int
          /\ srcFree' = srcFree + BusyCount(srcRequest[r]) - BusyCount(x)
      BY <1>1, <1>2, <1>4, <2>1, AnsweredRequest
    <2> HIDE DEF x
    <2>3. AnswerIsProven(x)  BY <1>4, <2>2 DEF AnswerIsProven
    <2>4. QuietMove(r, x, E)  BY <1>2, <1>3, <2>2, <2>3 DEF QuietMove
    <2> QED  BY <2>4, QuietMoveKeeps
  <1>5. CASE UNCHANGED <<srcRequest, srcFree>>
    <2> DEFINE x == srcRequest[r]
    <2>1. x \in SrcRequestState /\ srcFree \in Int  BY <1>1 DEF SrcTypeOK
    <2>2. srcRequest' = [srcRequest EXCEPT ![r] = x]  BY <1>1, <1>5 DEF SrcTypeOK
    <2>3. AnswerIsProven(x) /\ x.file \in SrcFiles
      BY <1>1, <1>2, SrcInvParts DEF SrcParts, RequestIsSound
    <2>4. srcFree' \in Int /\ srcFree' = srcFree + BusyCount(srcRequest[r]) - BusyCount(x)
      BY <1>5, <2>1 DEF BusyCount
    <2>5. QuietMove(r, x, E)  BY <1>2, <1>3, <2>1, <2>2, <2>3, <2>4 DEF QuietMove
    <2> QED  BY <2>5, QuietMoveKeeps
  <1>6. CASE WaitForRoom(r)
    <2>1. Answered(r, "transient", FALSE, {}) \/ UNCHANGED <<srcRequest, srcFree>>
      BY <1>6 DEF WaitForRoom
    <2> QED  BY <1>4, <1>5, <2>1
  <1>7. CASE EvictionFails(r)
    <2>1. Answered(r, "error", FALSE, {})  BY <1>7 DEF EvictionFails
    <2> QED  BY <1>4, <2>1
  <1>8. CASE Answered(r, "permanent", TRUE, {})  BY <1>4, <1>8
  <1> QED  BY <1>6, <1>7, <1>8

\* A reader more, and the file is there.
LEMMA ReadSteps ==
  ASSUME SrcInv, NEW r \in SrcRequests, ReadFromCache(r)
  PROVE  SrcInv'
  <1>1. /\ SrcTypeOK /\ FillsAreKnown /\ RequestIsSound(r)
        /\ \A f \in SrcFiles : FileIsSound(f)
        /\ \A q \in SrcRequests : RequestIsSound(q)
    BY SrcInvParts DEF SrcParts
  <1>2. PICK f \in SrcFiles : f = srcRequest[r].file
    BY <1>1 DEF ReadFromCache, RequestIsSound
  <1>3. /\ srcRequest[r].pc = "acquire" /\ srcEntry[f].here /\ srcDisk[f] # "absent"
        /\ UNCHANGED <<srcDisk, srcPending, srcWeight, srcVanished, srcFaults>>
    BY <1>2 DEF ReadFromCache, InCache
  <1>4. CASE Answered(r, "permanent", TRUE, {}) /\ UNCHANGED srcEntry
    BY <1>3, <1>4, WaitSteps
  <1>5. CASE /\ srcEntry[f].proven \/ srcDisk[f] = "good"
             /\ srcEntry' = [srcEntry EXCEPT ![f].readers = @ + 1, ![f].proven = TRUE]
             /\ srcRequest' = [srcRequest EXCEPT ![r].pc = "serve", ![r].answer = "served",
                                  ![r].cached = TRUE]
             /\ UNCHANGED srcFree
    <2> DEFINE x == [srcRequest[r] EXCEPT !.pc = "serve", !.answer = "served", !.cached = TRUE]
               entry == [srcEntry[f] EXCEPT !.readers = srcEntry[f].readers + 1, !.proven = TRUE]
    <2>1. srcRequest' = [srcRequest EXCEPT ![r] = x] /\ srcEntry' = [srcEntry EXCEPT ![f] = entry]
      BY <1>5 DEF SrcTypeOK
    <2>2. /\ x \in SrcRequestState /\ x.pc = "serve" /\ x.answer = "served" /\ x.file = f
      <3>1. srcRequest[r] \in SrcRequestState  BY <1>1 DEF SrcTypeOK
      <3>2. srcRequest[r].file = f  BY <1>2
      <3> QED  BY <3>1, <3>2 DEF SrcRequestState
    <2>3. srcEntry[f] \in SrcEntryRow  BY <1>1 DEF SrcTypeOK
    <2>4. /\ entry \in SrcEntryRow /\ entry.here /\ entry.proven
          /\ entry.readers = srcEntry[f].readers + 1
      <3>1. srcEntry[f].readers + 1 \in Int  BY <2>3 DEF SrcEntryRow
      <3> QED  BY <1>3, <2>3, <3>1 DEF SrcEntryRow
    <2> HIDE DEF x, entry
    <2>5. /\ srcEntry' \in [SrcFiles -> SrcEntryRow] /\ srcEntry'[f] = entry
          /\ \A g \in SrcFiles \ {f} : srcEntry'[g] = srcEntry[g]
      BY <1>1, <2>1, <2>4 DEF SrcTypeOK
    <2>6. /\ srcRequest'[r] = x
          /\ \A q \in SrcRequests \ {r} : srcRequest'[q] = srcRequest[q]
          /\ \A g \in SrcFiles : /\ IsFiniteSet(Readers(g))
                                 /\ Reads(x, g) => Readers(g)' = Readers(g) \cup {r}
                                 /\ ~Reads(x, g) => Readers(g)' = Readers(g) \ {r}
                                 /\ r \in Readers(g) <=> Reads(srcRequest[r], g)
      BY <1>1, <2>1, <2>2, MovedRequest, ZenonT(60)
    <2>7. FileIsSound(f)'
      <3>1. Readers(f)' = Readers(f) \cup {r} /\ r \notin Readers(f) /\ IsFiniteSet(Readers(f))
        BY <1>3, <2>2, <2>6 DEF Reads
      <3>2. Cardinality(Readers(f)') = Cardinality(Readers(f)) + 1  BY <3>1, FS_AddElement
      <3> QED  BY <1>1, <1>3, <1>5, <2>4, <2>5, <3>2 DEF FileIsSound
    <2>8. ASSUME NEW g \in SrcFiles \ {f}  PROVE FileIsSound(g)'
      <3>1. ~Reads(x, g) /\ ~Reads(srcRequest[r], g)  BY <1>3, <2>2 DEF Reads
      <3>2. Readers(g)' = Readers(g) \ {r} /\ r \notin Readers(g)  BY <2>6, <3>1
      <3>3. Readers(g)' = Readers(g)  BY <3>2
      <3> QED  BY <1>1, <1>3, <2>5, <3>3 DEF FileIsSound
    <2>9. FillsAreKnown'
      <3>1. \A q \in SrcRequests, g \in SrcFiles : Fills(q, g)' <=> Fills(q, g)
        BY <1>3, <2>2, <2>6 DEF Fills
      <3> QED  BY <1>1, <1>3, <3>1 DEF FillsAreKnown
    <2>10. \A q \in SrcRequests \ {r} :
              srcRequest[q].pc = "fill" => ~srcEntry'[srcRequest[q].file].here
      BY <1>1, <1>3, <2>5 DEF RequestIsSound
    <2>11. /\ srcPending' \in SUBSET SrcFiles /\ srcWeight' \in Int /\ srcFree' \in Int
           /\ srcDisk' \in [SrcFiles -> {"absent", "good", "bad"}]
           /\ srcFree' = srcFree + BusyCount(srcRequest[r]) - BusyCount(x)
      BY <1>1, <1>3, <1>5, <2>2 DEF SrcTypeOK, BusyCount
    <2>12. AnswerIsProven(x)  BY <2>2 DEF AnswerIsProven
    <2>13. MoveIsSound(r, x)
      BY <1>3, <2>1, <2>2, <2>5, <2>7, <2>8, <2>9, <2>10, <2>11, <2>12 DEF MoveIsSound
    <2> QED  BY <2>13, SoundMoveKeeps
  <1> QED  BY <1>2, <1>4, <1>5 DEF ReadFromCache

\* A file that is gone has no readers, or it vanished under them.
LEMMA ForgetSteps ==
  ASSUME SrcInv, NEW r \in SrcRequests, ForgetEntry(r)
  PROVE  SrcInv'
  <1>1. /\ SrcTypeOK /\ FillsAreKnown
        /\ \A f \in SrcFiles : FileIsSound(f)
        /\ \A q \in SrcRequests : RequestIsSound(q) /\ AnswerIsProven(srcRequest[q])
    BY SrcInvParts DEF SrcParts
  <1>2. PICK f \in SrcFiles : f = srcRequest[r].file
    BY <1>1 DEF ForgetEntry, RequestIsSound
  <1>3. /\ srcRequest[r].pc = "acquire" /\ srcDisk[f] = "absent"
        /\ srcEntry' = [srcEntry EXCEPT ![f] = NoEntry]
        /\ UNCHANGED <<srcDisk, srcPending, srcWeight, srcFree, srcRequest, srcVanished, srcFaults>>
    BY <1>2 DEF ForgetEntry
  <1>4. NoEntry \in SrcEntryRow /\ ~NoEntry.here  BY DEF NoEntry, SrcEntryRow
  <1>5. /\ srcEntry' \in [SrcFiles -> SrcEntryRow] /\ srcEntry'[f] = NoEntry
        /\ \A g \in SrcFiles \ {f} : srcEntry'[g] = srcEntry[g]
    BY <1>1, <1>3, <1>4 DEF SrcTypeOK
  <1>6. ASSUME NEW g \in SrcFiles  PROVE FileIsSound(g)'
    <2>1. Readers(g)' = Readers(g)  BY <1>3 DEF Readers, Reading
    <2>2. CASE g = f  BY <1>1, <1>3, <1>4, <1>5, <2>1, <2>2 DEF FileIsSound
    <2>3. CASE g # f  BY <1>1, <1>3, <1>5, <2>1, <2>3 DEF FileIsSound
    <2> QED  BY <2>2, <2>3
  <1>7. FillsAreKnown'  BY <1>1, <1>3 DEF FillsAreKnown, Fills
  <1>8. \A q \in SrcRequests : srcRequest[q].pc = "fill" => ~srcEntry'[srcRequest[q].file].here
    BY <1>1, <1>4, <1>5 DEF RequestIsSound
  <1>9. /\ srcRequest[r] \in SrcRequestState /\ srcRequest' = [srcRequest EXCEPT ![r] = srcRequest[r]]
        /\ srcFree' = srcFree + BusyCount(srcRequest[r]) - BusyCount(srcRequest[r])
        /\ srcPending' \in SUBSET SrcFiles /\ srcWeight' \in Int /\ srcFree' \in Int
        /\ srcDisk' \in [SrcFiles -> {"absent", "good", "bad"}]
    BY <1>1, <1>3 DEF SrcTypeOK, BusyCount
  <1>10. MoveIsSound(r, srcRequest[r])
    BY <1>1, <1>2, <1>3, <1>5, <1>6, <1>7, <1>8, <1>9 DEF MoveIsSound
  <1> QED  BY <1>10, SoundMoveKeeps

\* A fill begins for a file that nobody fills.
LEMMA StartSteps ==
  ASSUME SrcInv, NEW r \in SrcRequests, StartFill(r)
  PROVE  SrcInv'
  <1>1. /\ SrcTypeOK /\ FillsAreKnown
        /\ \A q \in SrcRequests : RequestIsSound(q) /\ AnswerIsProven(srcRequest[q])
    BY SrcInvParts DEF SrcParts
  <1>2. PICK f \in SrcFiles : f = srcRequest[r].file
    BY <1>1 DEF StartFill, RequestIsSound
  <1>3. PICK E \in SUBSET Evictable : srcEntry' = Without(E) /\ srcDisk' = Unlinked(E)
    BY DEF StartFill
  <1>4. /\ srcRequest[r].pc = "acquire" /\ ~srcEntry[f].here /\ f \notin srcPending
        /\ Cardinality(srcPending) < MaxConcurrent
        /\ srcWeight + Weight(f) <= MaterializeBytes
        /\ srcPending' = srcPending \cup {f} /\ srcWeight' = srcWeight + Weight(f)
        /\ srcRequest' = [srcRequest EXCEPT ![r].pc = "fill"]
        /\ UNCHANGED <<srcFree, srcVanished, srcFaults>>
    BY <1>2 DEF StartFill, MayMaterialize
  <1> DEFINE x == [srcRequest[r] EXCEPT !.pc = "fill"]
  <1>5. srcRequest' = [srcRequest EXCEPT ![r] = x]  BY <1>1, <1>4 DEF SrcTypeOK
  <1>6. /\ x \in SrcRequestState /\ x.pc = "fill" /\ x.file = f
        /\ x.answer = srcRequest[r].answer /\ x.cached = srcRequest[r].cached
        /\ x.found = srcRequest[r].found
    BY <1>1, <1>2 DEF SrcTypeOK, SrcRequestState
  <1> HIDE DEF x
  <1>7. AnswerIsProven(x)  BY <1>1, <1>2, <1>6 DEF AnswerIsProven
  <1>8. /\ srcRequest'[r] = x
        /\ \A q \in SrcRequests \ {r} : srcRequest'[q] = srcRequest[q]
        /\ \A g \in SrcFiles : /\ ~Reads(x, g) => Readers(g)' = Readers(g) \ {r}
                               /\ r \in Readers(g) <=> Reads(srcRequest[r], g)
    BY <1>1, <1>5, <1>6, MovedRequest
  <1>9. ASSUME NEW g \in SrcFiles  PROVE Readers(g)' = Readers(g)
    <2>1. ~Reads(x, g) /\ ~Reads(srcRequest[r], g)  BY <1>4, <1>6 DEF Reads
    <2>2. Readers(g)' = Readers(g) \ {r} /\ r \notin Readers(g)  BY <1>8, <2>1
    <2> QED  BY <2>2
  <1>10. /\ srcEntry' \in [SrcFiles -> SrcEntryRow]
         /\ srcDisk' \in [SrcFiles -> {"absent", "good", "bad"}]
         /\ \A g \in SrcFiles : FileIsSound(g)'
         /\ \A g \in SrcFiles : srcEntry'[g].here => srcEntry[g].here
    BY <1>3, <1>4, <1>9, EvictionKeeps
  <1>11. \A q \in SrcRequests, g \in SrcFiles :
            Fills(q, g)' <=> Fills(q, g) \/ (q = r /\ g = f)
    BY <1>4, <1>6, <1>8 DEF Fills
  <1>12. IsFiniteSet(srcPending') /\ Cardinality(srcPending') = Cardinality(srcPending) + 1
    BY <1>1, <1>4, FS_AddElement DEF FillsAreKnown
  <1>13. Cardinality(srcPending') <= MaxConcurrent
    BY <1>1, <1>4, <1>12, FS_CardinalityType DEF FillsAreKnown
  <1>14. FillsAreKnown'
    <2>1. \A g \in SrcFiles : g \in srcPending' <=> \E q \in SrcRequests : Fills(q, g)'
      BY <1>1, <1>4, <1>11 DEF FillsAreKnown
    <2>2. \A q, s \in SrcRequests, g \in SrcFiles : Fills(q, g)' /\ Fills(s, g)' => q = s
      BY <1>1, <1>4, <1>11 DEF FillsAreKnown
    <2> QED  BY <1>4, <1>12, <1>13, <2>1, <2>2 DEF FillsAreKnown
  <1>15. /\ x.pc = "fill" => ~srcEntry'[x.file].here
         /\ \A q \in SrcRequests \ {r} : srcRequest[q].pc = "fill" => ~srcEntry'[srcRequest[q].file].here
    BY <1>1, <1>4, <1>6, <1>10 DEF RequestIsSound
  <1>16. /\ srcPending' \in SUBSET SrcFiles /\ srcWeight' \in Int /\ srcFree' \in Int
         /\ srcFree' = srcFree + BusyCount(srcRequest[r]) - BusyCount(x)
    BY <1>1, <1>4, <1>6, WeightIsBounded DEF SrcTypeOK, BusyCount
  <1>17. MoveIsSound(r, x)
    BY <1>4, <1>5, <1>6, <1>7, <1>10, <1>14, <1>15, <1>16 DEF MoveIsSound
  <1> QED  BY <1>17, SoundMoveKeeps

\* The fill of f by r is over.
LEMMA FillEnds ==
  ASSUME SrcTypeOK, FillsAreKnown, NEW r \in SrcRequests, NEW f \in SrcFiles, Fills(r, f),
         NoLongerPending(f), srcRequest'[r].pc \notin {"fill", "settle"},
         \A q \in SrcRequests \ {r} : srcRequest'[q] = srcRequest[q]
  PROVE  FillsAreKnown' /\ srcPending' \in SUBSET SrcFiles /\ srcWeight' \in Int
  <1>1. srcPending' = srcPending \ {f} /\ srcWeight' = srcWeight - Weight(f) /\ f \in srcPending
    BY DEF NoLongerPending, FillsAreKnown
  <1>2. \A q \in SrcRequests, g \in SrcFiles : Fills(q, g)' <=> Fills(q, g) /\ q # r
    BY DEF Fills
  <1>3. \A g \in SrcFiles : g \in srcPending' <=> \E q \in SrcRequests : Fills(q, g)'
    <2> SUFFICES ASSUME NEW g \in SrcFiles
                 PROVE  g \in srcPending' <=> \E q \in SrcRequests : Fills(q, g)'
      OBVIOUS
    <2>1. CASE g = f  BY <1>1, <1>2, <2>1 DEF FillsAreKnown
    <2>2. CASE g # f
      <3>1. ~Fills(r, g)  BY <2>2 DEF Fills
      <3> QED  BY <1>1, <1>2, <2>2, <3>1 DEF FillsAreKnown
    <2> QED  BY <2>1, <2>2
  <1>4. \A q, s \in SrcRequests, g \in SrcFiles : Fills(q, g)' /\ Fills(s, g)' => q = s
    BY <1>2 DEF FillsAreKnown
  <1>5. /\ IsFiniteSet(srcPending') /\ Cardinality(srcPending') = Cardinality(srcPending) - 1
        /\ Cardinality(srcPending) \in Nat
    BY <1>1, FS_RemoveElement, FS_CardinalityType DEF FillsAreKnown
  <1>6. /\ Cardinality(srcPending') <= MaxConcurrent
        /\ srcWeight' \in Int /\ srcWeight' <= MaterializeBytes
    BY <1>1, <1>5, WeightIsBounded DEF FillsAreKnown, SrcTypeOK
  <1> QED  BY <1>1, <1>3, <1>4, <1>5, <1>6 DEF FillsAreKnown, SrcTypeOK

\* A request that is answered after a fill that failed.
LEMMA FailedFill ==
  ASSUME SrcInv, NEW r \in SrcRequests, srcRequest[r].pc = "fill",
         NEW f \in SrcFiles, f = srcRequest[r].file,
         NEW class \in Classes, NEW found \in SUBSET (Nat \X Classes),
         Answered(r, class, FALSE, found), AnswerIsProven(AnsweredRow(r, class, FALSE, found)),
         NoLongerPending(f), NEW d \in {"good", srcDisk[f]},
         srcDisk' = [srcDisk EXCEPT ![f] = d], UNCHANGED <<srcEntry, srcVanished, srcFaults>>
  PROVE  SrcInv'
  <1>1. /\ SrcTypeOK /\ FillsAreKnown
        /\ \A g \in SrcFiles : FileIsSound(g)
        /\ \A q \in SrcRequests : RequestIsSound(q)
    BY SrcInvParts DEF SrcParts
  <1>0. PICK cached \in BOOLEAN : cached = FALSE  OBVIOUS
  <1> DEFINE x == AnsweredRow(r, class, cached, found)
  <1>2. /\ x \in SrcRequestState /\ srcRequest' = [srcRequest EXCEPT ![r] = x]
        /\ x.pc = "idle" /\ srcFree' \in Int
        /\ srcFree' = srcFree + BusyCount(srcRequest[r]) - BusyCount(x)
    <2>1. class \in Classes \cup {"error"} /\ srcRequest[r].pc # "idle"  OBVIOUS
    <2>2. Answered(r, class, cached, found)  BY <1>0
    <2> QED  BY <1>1, <2>1, <2>2, AnsweredRequest
  <1>3. AnswerIsProven(x)  BY <1>0
  <1> HIDE DEF x
  <1>4. /\ srcRequest'[r] = x
        /\ \A q \in SrcRequests \ {r} : srcRequest'[q] = srcRequest[q]
        /\ \A g \in SrcFiles : /\ ~Reads(x, g) => Readers(g)' = Readers(g) \ {r}
                               /\ r \in Readers(g) <=> Reads(srcRequest[r], g)
    BY <1>1, <1>2, MovedRequest
  <1>5. ASSUME NEW g \in SrcFiles  PROVE Readers(g)' = Readers(g)
    <2>1. ~Reads(x, g) /\ ~Reads(srcRequest[r], g)  BY <1>2 DEF Reads
    <2>2. Readers(g)' = Readers(g) \ {r} /\ r \notin Readers(g)  BY <1>4, <2>1
    <2> QED  BY <2>2
  <1>6. /\ srcDisk' \in [SrcFiles -> {"absent", "good", "bad"}] /\ srcDisk'[f] = d
        /\ \A g \in SrcFiles \ {f} : srcDisk'[g] = srcDisk[g]
    BY <1>1 DEF SrcTypeOK
  <1>7. ASSUME NEW g \in SrcFiles  PROVE FileIsSound(g)'
    <2>1. Readers(g)' = Readers(g)  BY <1>5
    <2>2. srcDisk'[g] \in {"good", srcDisk[g]}  BY <1>6
    <2> QED  BY <1>1, <2>1, <2>2 DEF FileIsSound
  <1>8. Fills(r, f)  BY DEF Fills
  <1>9. FillsAreKnown' /\ srcPending' \in SUBSET SrcFiles /\ srcWeight' \in Int
    BY <1>1, <1>2, <1>4, <1>8, FillEnds
  <1>10. \A q \in SrcRequests : srcRequest[q].pc = "fill" => ~srcEntry'[srcRequest[q].file].here
    BY <1>1 DEF RequestIsSound
  <1>11. srcEntry' \in [SrcFiles -> SrcEntryRow]  BY <1>1 DEF SrcTypeOK
  <1>12. MoveIsSound(r, x)
    BY <1>2, <1>3, <1>6, <1>7, <1>9, <1>10, <1>11 DEF MoveIsSound
  <1> QED  BY <1>12, SoundMoveKeeps

\* A fill that fails answers with the class of what was found.
LEMMA FillFailsSteps ==
  ASSUME SrcInv, NEW r \in SrcRequests, FillFails(r) \/ FillCannotBeStored(r)
  PROVE  SrcInv'
  <1>1. SrcTypeOK /\ RequestIsSound(r)  BY SrcInvParts DEF SrcParts
  <1>2. srcRequest[r].pc = "fill"  BY DEF FillFails, FillCannotBeStored
  <1>3. PICK f \in SrcFiles : f = srcRequest[r].file  BY <1>1, <1>2 DEF RequestIsSound
  <1>4. CASE FillFails(r)
    <2>1. PICK o \in [Tried(f) -> Classes] :
             Answered(r, FailureClass(f, o), FALSE, {<<l, o[l]>> : l \in Tried(f)})
      <3>1. LocationFailures = Classes  BY DEF LocationFailures, DecodeFailures, Classes
      <3>2. PICK o \in [Tried(f) -> LocationFailures] :
               Answered(r, FailureClass(f, o), FALSE, {<<l, o[l]>> : l \in Tried(f)})
        BY <1>3, <1>4 DEF FillFails
      <3>3. o \in [Tried(f) -> Classes]  BY <3>1, <3>2, Zenon
      <3> QED  BY <3>2, <3>3
    <2>2. NoLongerPending(f) /\ UNCHANGED <<srcEntry, srcDisk, srcVanished, srcFaults>>
      BY <1>3, <1>4 DEF FillFails
    <2> DEFINE class == FailureClass(f, o)
               found == {<<l, o[l]>> : l \in Tried(f)}
               x == AnsweredRow(r, class, FALSE, found)
    <2>3. SrcReplicas[f] \in Nat /\ Locations(f) = 1..SrcReplicas[f]  BY DEF Locations
    <2>4. found \in SUBSET (Nat \X Classes)  BY TriedAreLocations
    <2>5. CASE /\ SrcReplicas[f] \in 1..MaxLocations
               /\ \E c \in Classes : \A l \in Tried(f) : o[l] = c
      <3>1. Tried(f) = Locations(f) /\ 1 \in Tried(f)  BY <2>3, <2>5, TriedAreLocations
      <3>2. class = o[1] /\ class \in Classes /\ \A l \in Tried(f) : o[l] = class
        BY <2>5, <3>1 DEF FailureClass
      <3>3. \A y \in found : y[2] = class  BY <3>2
      <3>4. \A l \in Locations(f) : <<l, class>> \in found  BY <3>1, <3>2
      <3> HIDE DEF found, class
      <3>5. x.file = f /\ x.answer = class /\ x.found = found /\ ~x.cached
        BY <1>1, <1>3 DEF SrcTypeOK, AnsweredRow, SrcRequestState
      <3>6. AnswerIsProven(x)
        <4> HIDE DEF x
        <4>1. SrcReplicas[f] > 0  BY <2>3, <2>5
        <4>2. x.answer = "permanent" => \A l \in Locations(x.file) : <<l, "permanent">> \in x.found
          BY <3>4, <3>5
        <4>3. x.answer = "transient" => \A y \in x.found : y[2] = "transient"
          BY <3>3, <3>5
        <4> QED  BY <3>5, <4>1, <4>2, <4>3 DEF AnswerIsProven
      <3>7. Answered(r, class, FALSE, found)  BY <2>1 DEF class, found
      <3>8. srcDisk' = [srcDisk EXCEPT ![f] = srcDisk[f]]  BY <1>1, <2>2 DEF SrcTypeOK
      <3> QED  BY <1>2, <1>3, <2>2, <2>4, <3>2, <3>6, <3>7, <3>8, FailedFill
    <2>6. CASE ~(/\ SrcReplicas[f] \in 1..MaxLocations
                 /\ \E c \in Classes : \A l \in Tried(f) : o[l] = c)
      <3>1. class = "unknown" /\ class \in Classes  BY <2>6 DEF FailureClass, Classes
      <3> HIDE DEF found, class
      <3>2. x.answer = class
        BY <1>1 DEF SrcTypeOK, AnsweredRow, SrcRequestState
      <3>3. AnswerIsProven(x)
        <4> HIDE DEF x
        <4>1. x.answer = "unknown"  BY <3>1, <3>2
        <4> QED  BY <4>1 DEF AnswerIsProven
      <3>4. Answered(r, class, FALSE, found)  BY <2>1 DEF class, found
      <3>5. srcDisk' = [srcDisk EXCEPT ![f] = srcDisk[f]]  BY <1>1, <2>2 DEF SrcTypeOK
      <3> QED  BY <1>2, <1>3, <2>2, <2>4, <3>1, <3>3, <3>4, <3>5, FailedFill
    <2> QED  BY <2>5, <2>6
  <1>5. CASE FillCannotBeStored(r)
    <2>1. PICK d \in {"good", srcDisk[f]} : srcDisk' = [srcDisk EXCEPT ![f] = d]
      BY <1>3, <1>5 DEF FillCannotBeStored
    <2>2. /\ Answered(r, "transient", FALSE, {}) /\ NoLongerPending(f)
          /\ UNCHANGED <<srcEntry, srcVanished, srcFaults>>
      BY <1>3, <1>5 DEF FillCannotBeStored
    <2> DEFINE x == AnsweredRow(r, "transient", FALSE, {})
    <2>3. x.answer = "transient" /\ x.found = {}
      BY <1>1 DEF SrcTypeOK, AnsweredRow, SrcRequestState
    <2>4. AnswerIsProven(x)  BY <2>3 DEF AnswerIsProven
    <2>5. "transient" \in Classes /\ {} \in SUBSET (Nat \X Classes)  BY DEF Classes
    <2> QED  BY <1>2, <1>3, <2>1, <2>2, <2>4, <2>5, FailedFill
  <1> QED  BY <1>4, <1>5

\* The new entry has one reader, because nobody could read the file while it was filled.
LEMMA FilledSteps ==
  ASSUME SrcInv, NEW r \in SrcRequests, FillSucceeds(r)
  PROVE  SrcInv'
  <1>1. /\ SrcTypeOK /\ FillsAreKnown
        /\ \A g \in SrcFiles : FileIsSound(g)
        /\ \A q \in SrcRequests : RequestIsSound(q) /\ AnswerIsProven(srcRequest[q])
    BY SrcInvParts DEF SrcParts
  <1>2. PICK f \in SrcFiles : f = srcRequest[r].file
    BY <1>1 DEF FillSucceeds, RequestIsSound
  <1> DEFINE entry == [here |-> TRUE, readers |-> 1, proven |-> TRUE]
             x == [srcRequest[r] EXCEPT !.pc = "settle"]
  <1>3. /\ srcRequest[r].pc = "fill"
        /\ srcEntry' = [srcEntry EXCEPT ![f] = entry]
        /\ srcDisk' = [srcDisk EXCEPT ![f] = "good"]
        /\ UNCHANGED <<srcPending, srcWeight, srcFree, srcVanished, srcFaults>>
    BY <1>2 DEF FillSucceeds
  <1>4. srcRequest' = [srcRequest EXCEPT ![r] = x]  BY <1>1 DEF FillSucceeds, SrcTypeOK
  <1>5. /\ x \in SrcRequestState /\ x.pc = "settle" /\ x.file = f
        /\ x.answer = srcRequest[r].answer /\ x.cached = srcRequest[r].cached
        /\ x.found = srcRequest[r].found
    BY <1>1, <1>2 DEF SrcTypeOK, SrcRequestState
  <1>6. entry \in SrcEntryRow /\ entry.here /\ entry.readers = 1  BY DEF SrcEntryRow
  <1> HIDE DEF x, entry
  <1>7. AnswerIsProven(x)  BY <1>1, <1>2, <1>5 DEF AnswerIsProven
  <1>8. /\ srcEntry' \in [SrcFiles -> SrcEntryRow] /\ srcEntry'[f] = entry
        /\ srcDisk' \in [SrcFiles -> {"absent", "good", "bad"}] /\ srcDisk'[f] = "good"
        /\ \A g \in SrcFiles \ {f} : srcEntry'[g] = srcEntry[g] /\ srcDisk'[g] = srcDisk[g]
    BY <1>1, <1>3, <1>6 DEF SrcTypeOK
  <1>9. /\ srcRequest'[r] = x
        /\ \A q \in SrcRequests \ {r} : srcRequest'[q] = srcRequest[q]
        /\ \A g \in SrcFiles : /\ Reads(x, g) => Readers(g)' = Readers(g) \cup {r}
                               /\ ~Reads(x, g) => Readers(g)' = Readers(g) \ {r}
                               /\ r \in Readers(g) <=> Reads(srcRequest[r], g)
    BY <1>1, <1>4, <1>5, MovedRequest
  <1>10. FileIsSound(f)'
    <2>1. ~srcEntry[f].here  BY <1>1, <1>2, <1>3 DEF RequestIsSound
    <2>2. f \notin srcVanished => Readers(f) = {}  BY <1>1, <2>1 DEF FileIsSound
    <2>3. Readers(f)' = Readers(f) \cup {r}  BY <1>5, <1>9 DEF Reads
    <2>4. f \notin srcVanished => Cardinality(Readers(f)') = 1
      <3>1. f \notin srcVanished => Readers(f)' = {r}  BY <2>2, <2>3
      <3>2. Cardinality({r}) = 1  BY FS_Singleton
      <3>3. f \notin srcVanished => Cardinality(Readers(f)') = Cardinality({r})
        BY <3>1, Zenon
      <3> QED  BY <3>2, <3>3
    <2> QED  BY <1>3, <1>6, <1>8, <2>4 DEF FileIsSound
  <1>11. ASSUME NEW g \in SrcFiles \ {f}  PROVE FileIsSound(g)'
    <2>1. ~Reads(x, g) /\ ~Reads(srcRequest[r], g)  BY <1>3, <1>5 DEF Reads
    <2>2. Readers(g)' = Readers(g) \ {r} /\ r \notin Readers(g)  BY <1>9, <2>1
    <2>3. Readers(g)' = Readers(g)  BY <2>2
    <2> QED  BY <1>1, <1>3, <1>8, <2>3 DEF FileIsSound
  <1>12. FillsAreKnown'
    <2>1. \A q \in SrcRequests, g \in SrcFiles : Fills(q, g)' <=> Fills(q, g)
      BY <1>2, <1>3, <1>5, <1>9 DEF Fills
    <2> QED  BY <1>1, <1>3, <2>1 DEF FillsAreKnown
  <1>13. ASSUME NEW q \in SrcRequests \ {r}, srcRequest[q].pc = "fill"
         PROVE  ~srcEntry'[srcRequest[q].file].here
    <2>1. srcRequest[q].file \in SrcFiles /\ ~srcEntry[srcRequest[q].file].here
      BY <1>1, <1>13 DEF RequestIsSound
    <2>2. srcRequest[q].file # f
      BY <1>1, <1>2, <1>3, <1>13 DEF FillsAreKnown, Fills
    <2> QED  BY <1>8, <2>1, <2>2
  <1>14. /\ srcPending' \in SUBSET SrcFiles /\ srcWeight' \in Int /\ srcFree' \in Int
         /\ srcFree' = srcFree + BusyCount(srcRequest[r]) - BusyCount(x)
    BY <1>1, <1>3, <1>5 DEF SrcTypeOK, BusyCount
  <1>15. MoveIsSound(r, x)
    BY <1>3, <1>4, <1>5, <1>7, <1>8, <1>10, <1>11, <1>12, <1>13, <1>14 DEF MoveIsSound
  <1> QED  BY <1>15, SoundMoveKeeps

\* A fill that is settled is read and no longer pending.
LEMMA SettleSteps ==
  ASSUME SrcInv, NEW r \in SrcRequests, SettleFill(r)
  PROVE  SrcInv'
  <1>1. /\ SrcTypeOK /\ FillsAreKnown
        /\ \A g \in SrcFiles : FileIsSound(g)
        /\ \A q \in SrcRequests : RequestIsSound(q)
    BY SrcInvParts DEF SrcParts
  <1>2. PICK f \in SrcFiles : f = srcRequest[r].file
    BY <1>1 DEF SettleFill, RequestIsSound
  <1>3. /\ srcRequest[r].pc = "settle" /\ NoLongerPending(f)
        /\ UNCHANGED <<srcEntry, srcDisk, srcFree, srcVanished, srcFaults>>
    BY <1>2 DEF SettleFill
  <1> DEFINE x == [srcRequest[r] EXCEPT !.pc = "serve", !.answer = "served"]
  <1>4. srcRequest' = [srcRequest EXCEPT ![r] = x]  BY <1>1 DEF SettleFill, SrcTypeOK
  <1>5. x \in SrcRequestState /\ x.pc = "serve" /\ x.file = f /\ x.answer = "served"
    <2>1. srcRequest[r] \in SrcRequestState  BY <1>1 DEF SrcTypeOK
    <2> QED  BY <1>2, <2>1 DEF SrcRequestState
  <1> HIDE DEF x
  <1>6. AnswerIsProven(x)  BY <1>5 DEF AnswerIsProven
  <1>7. /\ srcRequest'[r] = x
        /\ \A q \in SrcRequests \ {r} : srcRequest'[q] = srcRequest[q]
        /\ \A g \in SrcFiles : /\ Reads(x, g) => Readers(g)' = Readers(g) \cup {r}
                               /\ ~Reads(x, g) => Readers(g)' = Readers(g) \ {r}
                               /\ r \in Readers(g) <=> Reads(srcRequest[r], g)
    BY <1>1, <1>4, <1>5, MovedRequest, ZenonT(60)
  <1>8. ASSUME NEW g \in SrcFiles  PROVE FileIsSound(g)'
    <2>1. Reads(x, g) <=> Reads(srcRequest[r], g)  BY <1>2, <1>3, <1>5 DEF Reads
    <2>2. Readers(g)' = Readers(g)  BY <1>7, <2>1
    <2> QED  BY <1>1, <1>3, <2>2 DEF FileIsSound
  <1>9. Fills(r, f)  BY <1>2, <1>3 DEF Fills
  <1>10. FillsAreKnown' /\ srcPending' \in SUBSET SrcFiles /\ srcWeight' \in Int
    BY <1>1, <1>3, <1>5, <1>7, <1>9, FillEnds
  <1>11. \A q \in SrcRequests : srcRequest[q].pc = "fill" => ~srcEntry'[srcRequest[q].file].here
    BY <1>1, <1>3 DEF RequestIsSound
  <1>12. /\ srcEntry' \in [SrcFiles -> SrcEntryRow] /\ srcFree' \in Int
         /\ srcDisk' \in [SrcFiles -> {"absent", "good", "bad"}]
         /\ srcFree' = srcFree + BusyCount(srcRequest[r]) - BusyCount(x)
    BY <1>1, <1>3, <1>5 DEF SrcTypeOK, BusyCount
  <1>13. MoveIsSound(r, x)
    BY <1>3, <1>4, <1>5, <1>6, <1>8, <1>10, <1>11, <1>12 DEF MoveIsSound
  <1> QED  BY <1>13, SoundMoveKeeps

\* The capacity is lost only when the file vanished under its readers.
LEMMA ReleaseSteps ==
  ASSUME SrcInv, NEW r \in SrcRequests, ReleaseFile(r)
  PROVE  SrcInv'
  <1>1. /\ SrcTypeOK /\ FillsAreKnown
        /\ \A g \in SrcFiles : FileIsSound(g)
        /\ \A q \in SrcRequests : RequestIsSound(q) /\ AnswerIsProven(srcRequest[q])
    BY SrcInvParts DEF SrcParts
  <1>2. PICK f \in SrcFiles : f = srcRequest[r].file
    BY <1>1 DEF ReleaseFile, RequestIsSound
  <1>3. /\ srcRequest[r].pc = "serve"
        /\ UNCHANGED <<srcDisk, srcPending, srcWeight, srcVanished, srcFaults>>
    BY DEF ReleaseFile
  <1> DEFINE x == [srcRequest[r] EXCEPT !.pc = "idle"]
             entry == [srcEntry[f] EXCEPT !.readers = srcEntry[f].readers - 1]
  <1>4. srcRequest' = [srcRequest EXCEPT ![r] = x]  BY <1>1 DEF ReleaseFile, SrcTypeOK
  <1>5. /\ x \in SrcRequestState /\ x.pc = "idle" /\ x.file = f
        /\ x.answer = srcRequest[r].answer /\ x.cached = srcRequest[r].cached
        /\ x.found = srcRequest[r].found
    BY <1>1, <1>2 DEF SrcTypeOK, SrcRequestState
  <1>6. \/ /\ srcEntry[f].here /\ srcEntry' = [srcEntry EXCEPT ![f] = entry]
           /\ srcFree' = srcFree + 1
        \/ ~srcEntry[f].here /\ UNCHANGED <<srcEntry, srcFree>>
    BY <1>1, <1>2 DEF ReleaseFile, SrcTypeOK
  <1> HIDE DEF x
  <1>7. AnswerIsProven(x)  BY <1>1, <1>2, <1>5 DEF AnswerIsProven
  <1>8. /\ srcRequest'[r] = x
        /\ \A q \in SrcRequests \ {r} : srcRequest'[q] = srcRequest[q]
        /\ \A g \in SrcFiles : /\ IsFiniteSet(Readers(g)) /\ Cardinality(Readers(g)) \in Nat
                               /\ ~Reads(x, g) => Readers(g)' = Readers(g) \ {r}
                               /\ r \in Readers(g) <=> Reads(srcRequest[r], g)
    BY <1>1, <1>4, <1>5, MovedRequest
  <1>9. Readers(f)' = Readers(f) \ {r} /\ r \in Readers(f) /\ IsFiniteSet(Readers(f))
        /\ Cardinality(Readers(f)) \in Nat
    BY <1>2, <1>3, <1>5, <1>8 DEF Reads
  <1>10. Cardinality(Readers(f)') = Cardinality(Readers(f)) - 1  BY <1>9, FS_RemoveElement
  <1>11. ASSUME NEW g \in SrcFiles \ {f}  PROVE Readers(g)' = Readers(g)
    <2>1. ~Reads(x, g) /\ ~Reads(srcRequest[r], g)  BY <1>2, <1>5 DEF Reads
    <2>2. Readers(g)' = Readers(g) \ {r} /\ r \notin Readers(g)  BY <1>8, <2>1
    <2> QED  BY <2>2
  <1>12. FillsAreKnown'
    <2>1. \A q \in SrcRequests, g \in SrcFiles : Fills(q, g)' <=> Fills(q, g)
      BY <1>3, <1>5, <1>8 DEF Fills
    <2> QED  BY <1>1, <1>3, <2>1 DEF FillsAreKnown
  <1>13. /\ srcPending' \in SUBSET SrcFiles /\ srcWeight' \in Int
         /\ srcDisk' \in [SrcFiles -> {"absent", "good", "bad"}]
    BY <1>1, <1>3 DEF SrcTypeOK
  <1>14. BusyCount(srcRequest[r]) = 1 /\ BusyCount(x) = 0  BY <1>3, <1>5 DEF BusyCount
  <1>15. CASE /\ srcEntry[f].here /\ srcEntry' = [srcEntry EXCEPT ![f] = entry]
              /\ srcFree' = srcFree + 1
    <2>0. srcEntry[f] \in SrcEntryRow  BY <1>1 DEF SrcTypeOK
    <2>1. /\ entry \in SrcEntryRow /\ entry.here /\ entry.readers = srcEntry[f].readers - 1
          /\ entry.proven = srcEntry[f].proven
      <3>1. srcEntry[f].readers - 1 \in Int  BY <2>0 DEF SrcEntryRow
      <3> QED  BY <1>15, <2>0, <3>1 DEF SrcEntryRow
    <2> HIDE DEF entry
    <2>2. /\ srcEntry' \in [SrcFiles -> SrcEntryRow] /\ srcEntry'[f] = entry
          /\ \A g \in SrcFiles \ {f} : srcEntry'[g] = srcEntry[g]
      BY <1>1, <1>15, <2>1 DEF SrcTypeOK
    <2>3. FileIsSound(f)'
      <3>1. FileIsSound(f)  BY <1>1
      <3>2. Readers(f)' # {} => Readers(f) # {}  BY <1>9
      <3> QED  BY <1>3, <1>10, <1>15, <2>1, <2>2, <3>1, <3>2 DEF FileIsSound
    <2>4. \A g \in SrcFiles \ {f} : FileIsSound(g)'
      BY <1>1, <1>3, <1>11, <2>2 DEF FileIsSound
    <2>5. \A q \in SrcRequests \ {r} : srcRequest[q].pc = "fill" => ~srcEntry'[srcRequest[q].file].here
      BY <1>1, <1>15, <2>2 DEF RequestIsSound
    <2>6. srcFree' \in Int /\ srcFree' = srcFree + BusyCount(srcRequest[r]) - BusyCount(x)
      BY <1>1, <1>14, <1>15 DEF SrcTypeOK
    <2>7. MoveIsSound(r, x)
      BY <1>3, <1>4, <1>5, <1>7, <1>12, <1>13, <2>2, <2>3, <2>4, <2>5, <2>6 DEF MoveIsSound
    <2> QED  BY <2>7, SoundMoveKeeps
  <1>16. CASE ~srcEntry[f].here /\ UNCHANGED <<srcEntry, srcFree>>
    <2>1. f \in srcVanished  BY <1>1, <1>9, <1>16 DEF FileIsSound
    <2>2. FileIsSound(f)'  BY <1>1, <1>3, <1>16, <2>1 DEF FileIsSound
    <2>3. \A g \in SrcFiles \ {f} : FileIsSound(g)'
      BY <1>1, <1>3, <1>11, <1>16 DEF FileIsSound
    <2>4. \A q \in SrcRequests : srcRequest[q].pc = "fill" => ~srcEntry'[srcRequest[q].file].here
      BY <1>1, <1>16 DEF RequestIsSound
    <2>5. srcFree' \in Int /\ srcEntry' \in [SrcFiles -> SrcEntryRow] /\ srcVanished # {}
      BY <1>1, <1>16, <2>1 DEF SrcTypeOK
    <2>6. MoveIsSound(r, x)
      BY <1>3, <1>4, <1>5, <1>7, <1>12, <1>13, <2>2, <2>3, <2>4, <2>5 DEF MoveIsSound
    <2> QED  BY <2>6, SoundMoveKeeps
  <1> QED  BY <1>6, <1>15, <1>16

-----------------------------------------------------------------------------
\* What happens to the disk and to the process.
LEMMA SrcFaultSteps ==
  ASSUME SrcInv, \/ \E f \in SrcFiles : FileVanishes(f) \/ FileIsDamaged(f)
                 \/ SourceRestarts
  PROVE  SrcInv'
  <1>1. SrcParts  BY SrcInvParts
  <1> USE DEF SrcParts
  <1>2. ASSUME NEW f \in SrcFiles, FileVanishes(f) \/ FileIsDamaged(f)
        PROVE  SrcParts'
    <2>1. /\ UNCHANGED <<srcPending, srcWeight, srcFree, srcRequest>> /\ srcFaults' \in Nat
          /\ srcVanished \subseteq srcVanished' /\ srcVanished' \subseteq SrcFiles
      BY <1>1, <1>2 DEF FileVanishes, FileIsDamaged, SrcTypeOK
    <2>2. \A g \in SrcFiles : Readers(g)' = Readers(g)  BY <2>1 DEF Readers, Reading
    <2>3. ASSUME NEW g \in SrcFiles
          PROVE  /\ srcEntry'[g].here = srcEntry[g].here
                 /\ srcEntry'[g].readers = srcEntry[g].readers
                 /\ FileIsSound(g)'
      <3>1. CASE FileVanishes(f)
        BY <1>1, <2>1, <2>2, <3>1 DEF FileVanishes, FileIsSound, SrcTypeOK
      <3>2. CASE FileIsDamaged(f)
        <4> DEFINE entry == [srcEntry[f] EXCEPT !.proven = FALSE]
        <4>1. srcEntry[f] \in SrcEntryRow  BY <1>1 DEF SrcTypeOK
        <4>2. /\ entry.here = srcEntry[f].here /\ entry.readers = srcEntry[f].readers
              /\ ~entry.proven
          BY <4>1 DEF SrcEntryRow
        <4>3. /\ srcEntry'[f] = entry /\ srcDisk'[f] = "bad" /\ srcDisk[f] # "absent"
              /\ \A h \in SrcFiles \ {f} : srcEntry'[h] = srcEntry[h] /\ srcDisk'[h] = srcDisk[h]
              /\ srcVanished' = srcVanished
          BY <1>1, <3>2 DEF FileIsDamaged, SrcTypeOK
        <4> HIDE DEF entry
        <4>4. FileIsSound(g)  BY <1>1
        <4> QED  BY <2>2, <4>2, <4>3, <4>4 DEF FileIsSound
      <3> QED  BY <1>2, <3>1, <3>2
    <2>4. /\ srcEntry' \in [SrcFiles -> SrcEntryRow]
          /\ srcDisk' \in [SrcFiles -> {"absent", "good", "bad"}]
      <3>1. [srcEntry[f] EXCEPT !.proven = FALSE] \in SrcEntryRow
        <4>1. srcEntry[f] \in SrcEntryRow  BY <1>1 DEF SrcTypeOK
        <4> QED  BY <4>1 DEF SrcEntryRow
      <3> QED  BY <1>1, <1>2, <3>1, ZenonT(60) DEF FileVanishes, FileIsDamaged, SrcTypeOK
    <2>5. SrcTypeOK'  BY <1>1, <2>1, <2>4 DEF SrcTypeOK
    <2>6. CapacityComesBack' /\ FillsAreKnown'
      BY <1>1, <2>1 DEF CapacityComesBack, FillsAreKnown, Fills, Busy
    <2>7. \A r \in SrcRequests : RequestIsSound(r)'
      BY <1>1, <2>1, <2>3 DEF RequestIsSound
    <2>8. \A r \in SrcRequests : AnswerIsProven(srcRequest[r])'
      BY <1>1, <2>1 DEF AnswerIsProven
    <2> QED  BY <2>3, <2>5, <2>6, <2>7, <2>8
  <1>3. ASSUME SourceRestarts  PROVE SrcParts'
    <2>1. /\ srcPending' = {} /\ srcWeight' = 0 /\ srcFree' = MaxDownloads
          /\ srcRequest' = [r \in SrcRequests |-> SrcIdle] /\ srcVanished' = {}
          /\ srcDisk' = srcDisk /\ srcFaults' \in Nat
      BY <1>1, <1>3 DEF SourceRestarts, SrcTypeOK
    <2>2. ASSUME NEW f \in SrcFiles
          PROVE  /\ srcEntry'[f] \in SrcEntryRow /\ srcEntry'[f].readers = 0
                 /\ ~srcEntry'[f].proven
      <3>1. PICK here \in BOOLEAN : here <=> srcDisk[f] # "absent"  OBVIOUS
      <3>2. srcEntry'[f] = [NoEntry EXCEPT !.here = srcDisk[f] # "absent"]
        BY <1>3 DEF SourceRestarts
      <3>3. srcEntry'[f] = [NoEntry EXCEPT !.here = here]  BY <3>1, <3>2, Zenon
      <3>4. NoEntry \in SrcEntryRow /\ NoEntry.readers = 0 /\ ~NoEntry.proven
        BY DEF NoEntry, SrcEntryRow
      <3>5. /\ [NoEntry EXCEPT !.here = here] \in SrcEntryRow
            /\ [NoEntry EXCEPT !.here = here].readers = 0
            /\ ~[NoEntry EXCEPT !.here = here].proven
        BY <3>1, <3>4 DEF SrcEntryRow
      <3> QED  BY <3>3, <3>5
    <2>3. srcEntry' \in [SrcFiles -> SrcEntryRow]  BY <1>3, <2>2 DEF SourceRestarts
    <2>4. SrcTypeOK'  BY <1>1, <2>1, <2>3, IdleRow DEF SrcTypeOK
    <2>5. /\ Busy' = {} /\ \A f \in SrcFiles : Readers(f)' = {}
          /\ \A r \in SrcRequests, f \in SrcFiles : ~Fills(r, f)'
      BY <2>1, IdleRow DEF Busy, Readers, Reading, Fills
    <2>6. CapacityComesBack'  BY <2>1, <2>5, FS_EmptySet DEF CapacityComesBack
    <2>7. FillsAreKnown'  BY <2>1, <2>5, FS_EmptySet DEF FillsAreKnown
    <2>8. \A f \in SrcFiles : FileIsSound(f)'  BY <2>2, <2>5, FS_EmptySet DEF FileIsSound
    <2>9. \A r \in SrcRequests : RequestIsSound(r)'  BY <2>1, IdleRow DEF RequestIsSound
    <2>10. AnswerIsProven(SrcIdle)  BY IdleRow DEF AnswerIsProven
    <2>11. \A r \in SrcRequests : AnswerIsProven(srcRequest[r])'
      BY <2>1, <2>10 DEF AnswerIsProven
    <2> QED  BY <2>4, <2>6, <2>7, <2>8, <2>9, <2>11
  <1>4. SrcParts'  BY <1>2, <1>3
  <1> QED  BY <1>4, SrcInvParts, PTL

\* An empty cache satisfies the invariant.
LEMMA SrcInitInv == SrcInit => SrcInv
  <1> SUFFICES ASSUME SrcInit  PROVE SrcParts
    BY SrcInvParts
  <1>1. SrcTypeOK
    <2>1. NoEntry \in SrcEntryRow  BY DEF NoEntry, SrcEntryRow
    <2> QED  BY <2>1, IdleRow DEF SrcInit, SrcTypeOK
  <1>2. /\ Busy = {} /\ \A f \in SrcFiles : Readers(f) = {}
        /\ \A r \in SrcRequests, f \in SrcFiles : ~Fills(r, f)
    BY IdleRow DEF SrcInit, Busy, Readers, Reading, Fills
  <1>3. CapacityComesBack  BY <1>2, FS_EmptySet DEF SrcInit, CapacityComesBack
  <1>4. FillsAreKnown  BY <1>2, FS_EmptySet DEF SrcInit, FillsAreKnown
  <1>5. \A f \in SrcFiles : FileIsSound(f)
    BY <1>2 DEF SrcInit, NoEntry, FileIsSound
  <1>6. \A r \in SrcRequests : RequestIsSound(r) /\ AnswerIsProven(srcRequest[r])
    <2>1. AnswerIsProven(SrcIdle)  BY IdleRow DEF AnswerIsProven
    <2> QED  BY <2>1, IdleRow DEF SrcInit, RequestIsSound
  <1> QED  BY <1>1, <1>3, <1>4, <1>5, <1>6 DEF SrcParts

\* Every step of the private source keeps the invariant.
LEMMA SrcStepInv == SrcInv /\ [SrcNext]_srcVars => SrcInv'
  <1>1. ASSUME SrcInv, NEW r \in SrcRequests, SourceStep(r)  PROVE SrcInv'
    BY <1>1, AskSteps, ReadSteps, ForgetSteps, StartSteps, WaitSteps, FillFailsSteps,
       FilledSteps, SettleSteps, ReleaseSteps DEF SourceStep
  <1>2. ASSUME SrcInv, UNCHANGED srcVars  PROVE SrcInv'
    <2>1. SrcParts  BY <1>2, SrcInvParts
    <2> USE <2>1 DEF SrcParts
    <2>2. UNCHANGED <<srcEntry, srcDisk, srcPending, srcWeight, srcFree, srcRequest,
                      srcVanished, srcFaults>>
      BY <1>2 DEF srcVars
    <2>3. SrcTypeOK'  BY <2>2 DEF SrcTypeOK
    <2>4. CapacityComesBack'  BY <2>2 DEF CapacityComesBack, Busy
    <2>5. FillsAreKnown'  BY <2>2 DEF FillsAreKnown, Fills
    <2>6. ASSUME NEW f \in SrcFiles  PROVE FileIsSound(f)'
      <3>1. FileIsSound(f)  OBVIOUS
      <3>2. Readers(f)' = Readers(f)  BY <2>2 DEF Readers, Reading
      <3> QED  BY <2>2, <3>1, <3>2 DEF FileIsSound
    <2>7. \A r \in SrcRequests : RequestIsSound(r)' /\ AnswerIsProven(srcRequest[r])'
      BY <2>2 DEF RequestIsSound, AnswerIsProven
    <2>8. SrcParts'  BY <2>3, <2>4, <2>5, <2>6, <2>7
    <2> QED  BY <2>8, SrcInvParts, PTL
  <1>3. ASSUME SrcInv, \/ \E f \in SrcFiles : FileVanishes(f) \/ FileIsDamaged(f)
                      \/ SourceRestarts
        PROVE  SrcInv'
    BY <1>3, SrcFaultSteps
  <1> QED  BY <1>1, <1>2, <1>3 DEF SrcNext

\* The invariant always holds.
LEMMA SrcInvHolds == SrcSpec => []SrcInv
  BY SrcInitInv, SrcStepInv, PTL DEF SrcSpec

\* In every state the counts of the private source's cache are those of its requests: a file
\* is pinned as often as it is read, fills and capacity add up, and what is given out without
\* a look is the file that its identity names.
THEOREM SourceBooksAlwaysBalance == SrcSpec => []SourceBooksBalance
  <1>1. SrcInv => SourceBooksBalance  BY DEF SrcInv
  <1> QED  BY <1>1, SrcInvHolds, PTL

\* The private source calls a file permanently bad only if the cached copy or every replica
\* was read and found to be.
THEOREM PermanentIsProven == SrcSpec => []PermanentMeansProven
  <1>1. SrcInv => PermanentMeansProven  BY DEF SrcInv
  <1> QED  BY <1>1, SrcInvHolds, PTL

HIDE SymbolSourceAssumption

-----------------------------------------------------------------------------
(* SymbolGateway: what is held to be missing at Microsoft. *)

USE GatewayAssumption

\* As long as learning was never switched on over a request that had been given no
\* Microsoft source, a gateway that learns only waits for answers to requests that were.
WaitsForPublic == ~gwBlind /\ Learns(gwDeploy) => \A j \in GwJobs : gwJob[j].held => gwJob[j].public

GwInv == MissesAreProven /\ WaitsForPublic

\* A module that a request leaves out is known to be missing.
LEMMA LeftOutIsKnown ==
  ASSUME NEW M \in SUBSET GwModules, NEW m \in (M \cap GwPe) \ AskedOf(M)
  PROVE  GwIdentity[m] \in gwKnown
  <1>1. SUFFICES ASSUME ~KnownMiss(m) PROVE FALSE  BY DEF KnownMiss
  <1>2. GwPath[m] \in PathPatterns(M)  BY <1>1 DEF PathPatterns
  <1> QED  BY <1>2 DEF AskedOf

\* An identity that only modules of the kind have is that of such a module.
LEMMA PeModules ==
  ASSUME NEW m \in GwModules, GwIdentity[m] \in PeIdentities
  PROVE  m \in GwPe
  BY DEF PeIdentities, IdentitiesOf

\* A gateway that has just loaded its seed satisfies the invariant.
LEMMA GwInitInv == GwInit => GwInv
  <1> SUFFICES ASSUME GwInit PROVE GwInv  OBVIOUS
  <1>1. NoGwJob \in GwJobRow /\ ~NoGwJob.held  BY DEF NoGwJob, GwJobRow
  <1>2. gwFile = {} /\ gwProven = {} /\ gwKnown \subseteq GwSeed  BY DEF GwInit, Loaded
  <1>3. \A j \in GwJobs : ~gwJob[j].held  BY <1>1 DEF GwInit
  <1>4. GwTypeOK  BY <1>1, <1>2 DEF GwInit, GwTypeOK
  <1> QED  BY <1>2, <1>3, <1>4 DEF GwInv, MissesAreProven, WaitsForPublic

\* A request is given the Microsoft source without what is known to be missing.
LEMMA SymbolicateSteps ==
  ASSUME GwInv, NEW j \in GwJobs, NEW M \in SUBSET GwModules, Symbolicate(j, M)
  PROVE  GwInv'
  <1> DEFINE row == [held |-> TRUE, modules |-> M, public |-> GivesMicrosoft,
                     asked |-> IF GivesMicrosoft THEN AskedOf(M) ELSE {}]
  <1>1. GwTypeOK  BY DEF GwInv, MissesAreProven
  <1>2. AskedOf(M) \subseteq GwModules  BY DEF AskedOf
  <1>3. row \in GwJobRow
    BY <1>1, <1>2 DEF GwJobRow, GwTypeOK, GwOptions, GivesMicrosoft
  <1>4. /\ gwJob' = [gwJob EXCEPT ![j] = row]
        /\ UNCHANGED <<gwDeploy, gwKnown, gwFile, gwTorn, gwProven, gwBlind, gwFaults>>
    BY DEF Symbolicate
  <1>5. row.held /\ row.modules = M /\ (row.public <=> GivesMicrosoft)
        /\ (GivesMicrosoft => row.asked = AskedOf(M))
    OBVIOUS
  <1> HIDE DEF row
  <1>6. gwJob'[j] = row /\ \A i \in GwJobs \ {j} : gwJob'[i] = gwJob[i]
    BY <1>1, <1>4 DEF GwTypeOK
  <1>7. GwTypeOK'  BY <1>1, <1>3, <1>4 DEF GwTypeOK
  <1>8. WaitsForPublic'
    BY <1>4, <1>5, <1>6 DEF WaitsForPublic, GwInv, Learns, GivesMicrosoft
  <1>9. ASSUME ~gwBlind, NEW i \in GwJobs, gwJob'[i].held, gwJob'[i].public,
               NEW m \in (gwJob'[i].modules \cap GwPe) \ gwJob'[i].asked,
               GwIdentity[m] \in PeIdentities
        PROVE  GwIdentity[m] \in GwSeed \cup gwProven
    <2>1. CASE i = j
      <3>1. m \in (M \cap GwPe) \ AskedOf(M)  BY <1>5, <1>6, <1>9, <2>1
      <3>2. GwIdentity[m] \in gwKnown  BY <3>1, LeftOutIsKnown
      <3> QED  BY <1>9, <3>2 DEF GwInv, MissesAreProven
    <2>2. CASE i # j  BY <1>6, <1>9, <2>2 DEF GwInv, MissesAreProven
    <2> QED  BY <2>1, <2>2
  <1> QED  BY <1>4, <1>7, <1>8, <1>9 DEF GwInv, MissesAreProven

\* What is appended to the file is what was to be written.
LEMMA AppendedIsNew ==
  ASSUME NEW written, Appended(written)
  PROVE  gwFile' \subseteq gwFile \cup written
  BY DEF Appended

\* Only a completed answer to a request that waited for Microsoft teaches a miss.
LEMMA AnswerSteps ==
  ASSUME GwInv, NEW j \in GwJobs, NEW missing \in SUBSET GwModules, NEW completed \in BOOLEAN,
         SymbolicatorAnswers(j, missing, completed)
  PROVE  GwInv'
  <1> DEFINE new == IdentitiesOf(missing) \ gwKnown
  <1>1. GwTypeOK  BY DEF GwInv, MissesAreProven
  <1>2. /\ gwJob[j].held /\ missing \subseteq gwJob[j].modules
        /\ UNCHANGED <<gwDeploy, gwJob, gwBlind>>
        /\ gwProven \subseteq gwProven' /\ gwProven' \subseteq GwIdentities
        /\ completed => IdentitiesOf(missing \cap gwJob[j].asked) \subseteq gwProven'
    BY <1>1 DEF SymbolicatorAnswers, GwTypeOK, IdentitiesOf, GwIdentities
  <1>3. new \subseteq GwIdentities  BY DEF IdentitiesOf, GwIdentities
  <1>4. CASE ~(Learns(gwDeploy) /\ completed)
    <2>1. UNCHANGED <<gwKnown, gwFile, gwTorn, gwFaults>>  BY <1>4 DEF SymbolicatorAnswers
    <2>2. GwTypeOK'  BY <1>1, <1>2, <2>1 DEF GwTypeOK
    <2> QED  BY <1>2, <2>1, <2>2 DEF GwInv, MissesAreProven, WaitsForPublic
  <1>5. CASE Learns(gwDeploy) /\ completed
    <2>1. Recorded(new)  BY <1>5 DEF SymbolicatorAnswers
    <2> HIDE DEF new
    <2>2. /\ gwKnown' = gwKnown \cup new
          /\ gwFile' \subseteq gwFile \cup new
      BY <2>1, AppendedIsNew DEF Recorded
    <2>3. gwTorn' \in BOOLEAN /\ gwFaults' \in Nat
      <3>1. gwFaults \in Nat /\ gwTorn \in BOOLEAN  BY <1>1 DEF GwTypeOK
      <3>2. gwFaults' \in Nat  BY <2>1, <3>1 DEF Recorded
      <3>3. gwTorn' \in BOOLEAN  BY <2>1, <3>1 DEF Recorded
      <3> QED  BY <3>2, <3>3
    <2>4. GwTypeOK'  BY <1>1, <1>2, <1>3, <2>2, <2>3 DEF GwTypeOK
    <2>5. ASSUME ~gwBlind, NEW x \in new \cap PeIdentities
          PROVE  x \in GwSeed \cup gwProven'
      <3>1. PICK m \in missing : x = GwIdentity[m]  BY DEF new, IdentitiesOf
      <3>2. m \in GwPe /\ m \in gwJob[j].modules  BY <1>2, <2>5, <3>1, PeModules
      <3>3. gwJob[j].public  BY <1>2, <1>5, <2>5 DEF GwInv, WaitsForPublic
      <3>4. CASE m \in gwJob[j].asked
        <4>1. x # NoIdentity  BY <2>5 DEF PeIdentities, IdentitiesOf
        <4>2. x \in IdentitiesOf(missing \cap gwJob[j].asked)  BY <3>1, <3>4, <4>1 DEF IdentitiesOf
        <4> QED  BY <1>2, <1>5, <4>2
      <3>5. CASE m \notin gwJob[j].asked
        <4>1. GwIdentity[m] \in GwSeed \cup gwProven
          BY <1>2, <2>5, <3>1, <3>2, <3>3, <3>5 DEF GwInv, MissesAreProven
        <4> QED  BY <1>2, <3>1, <4>1
      <3> QED  BY <3>4, <3>5
    <2>6. ~gwBlind => (gwKnown' \cup gwFile') \cap PeIdentities \subseteq GwSeed \cup gwProven'
      BY <1>2, <2>2, <2>5 DEF GwInv, MissesAreProven
    <2> QED  BY <1>2, <2>4, <2>6 DEF GwInv, MissesAreProven, WaitsForPublic
  <1> QED  BY <1>4, <1>5

\* A request that is forgotten and a restart teach nothing.
LEMMA ForgottenAndRestartSteps ==
  ASSUME GwInv, \/ \E j \in GwJobs : JobForgotten(j)
                \/ \E d \in GwOptions : GatewayRestarts(d)
  PROVE  GwInv'
  <1>1. GwTypeOK  BY DEF GwInv, MissesAreProven
  <1>2. ASSUME NEW j \in GwJobs, JobForgotten(j)  PROVE GwInv'
    <2>1. NoGwJob \in GwJobRow /\ ~NoGwJob.held  BY DEF NoGwJob, GwJobRow
    <2>2. /\ gwJob' \in [GwJobs -> GwJobRow] /\ gwJob'[j] = NoGwJob
          /\ \A i \in GwJobs \ {j} : gwJob'[i] = gwJob[i]
      BY <1>1, <1>2, <2>1 DEF JobForgotten, GwTypeOK
    <2>3. UNCHANGED <<gwDeploy, gwKnown, gwFile, gwTorn, gwProven, gwBlind, gwFaults>>
      BY <1>2 DEF JobForgotten
    <2>4. GwTypeOK'  BY <1>1, <2>2, <2>3 DEF GwTypeOK
    <2>5. \A i \in GwJobs : gwJob'[i].held => gwJob'[i] = gwJob[i]  BY <2>1, <2>2
    <2> QED  BY <2>3, <2>4, <2>5 DEF GwInv, MissesAreProven, WaitsForPublic
  <1>3. ASSUME NEW d \in GwOptions, GatewayRestarts(d)  PROVE GwInv'
    <2>1. /\ gwFaults' \in Nat /\ gwDeploy' = d /\ gwKnown' = Loaded(d)
          /\ UNCHANGED <<gwFile, gwTorn, gwJob, gwProven>>
      BY <1>1, <1>3 DEF GatewayRestarts, GwTypeOK
    <2>2. gwKnown' \subseteq GwSeed \cup gwFile  BY <2>1 DEF Loaded
    <2>3. /\ gwBlind' \in BOOLEAN
          /\ ~gwBlind' => ~gwBlind /\ (Learns(d) => \A j \in GwJobs : gwJob[j].held => gwJob[j].public)
      BY <1>1, <1>3 DEF GatewayRestarts, GwTypeOK, Learns, GwOptions
    <2>4. GwTypeOK'  BY <1>1, <2>1, <2>2, <2>3 DEF GwTypeOK
    <2> QED  BY <2>1, <2>2, <2>3, <2>4 DEF GwInv, MissesAreProven, WaitsForPublic
  <1> QED  BY <1>2, <1>3

\* Every step of the gateway keeps the invariant.
LEMMA GwStepInv == GwInv /\ [GwNext]_gwVars => GwInv'
  <1> SUFFICES ASSUME GwInv, [GwNext]_gwVars PROVE GwInv'  OBVIOUS
  <1>1. CASE UNCHANGED gwVars
    BY <1>1 DEF gwVars, GwInv, MissesAreProven, GwTypeOK, WaitsForPublic
  <1>2. CASE GwNext
    BY <1>2, SymbolicateSteps, AnswerSteps, ForgottenAndRestartSteps DEF GwNext
  <1> QED  BY <1>1, <1>2

\* Whatever the gateway holds to be missing at Microsoft, in memory or in its file, was in
\* its seed or was reported missing by a completed answer to a request that asked for it.
THEOREM LearnedMissesAreProven == GwSpec => []MissesAreProven
  <1>1. GwInv => MissesAreProven  BY DEF GwInv
  <1> QED  BY <1>1, GwInitInv, GwStepInv, PTL DEF GwSpec
=============================================================================
