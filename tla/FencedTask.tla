----------------------------- MODULE FencedTask -----------------------------
(***************************************************************************)
(* What the durable hand-off promises about one set of logical tasks, with *)
(* the outbox, the relay, the broker, the leases and the transactions left *)
(* out.  A task is granted to one holder at a time, every grant has a      *)
(* larger number than the one before, and the result of a task is applied  *)
(* at most once, by the holder of its newest grant.                        *)
(***************************************************************************)
EXTENDS Naturals

CONSTANTS Tasks,     \* logical tasks, one per (task_type, logical_key)
          Holders,   \* those a task can be granted to
          Nobody     \* the holder of a task that is granted to no one

VARIABLES grant,     \* grant[t]: how many times t was granted
          holder,    \* holder[t]: who may apply the result of t now
          winner     \* winner[t]: the grant whose result was applied, 0 for none

fencedVars == <<grant, holder, winner>>

Init == /\ grant = [t \in Tasks |-> 0]
        /\ holder = [t \in Tasks |-> Nobody]
        /\ winner = [t \in Tasks |-> 0]

\* Ownership moves to h, whoever had it before; a grant that comes too late to
\* be of use to its holder is numbered too, and held by nobody.
Grant(t) == /\ grant' = [grant EXCEPT ![t] = @ + 1]
            /\ \E h \in Holders \cup {Nobody} : holder' = [holder EXCEPT ![t] = h]
            /\ UNCHANGED winner

Revoke(t) == /\ holder' = [holder EXCEPT ![t] = Nobody]
             /\ UNCHANGED <<grant, winner>>

Apply(t) == /\ holder[t] # Nobody
            /\ winner[t] = 0
            /\ winner' = [winner EXCEPT ![t] = grant[t]]
            /\ holder' = [holder EXCEPT ![t] = Nobody]
            /\ UNCHANGED grant

Next == \E t \in Tasks : Grant(t) \/ Revoke(t) \/ Apply(t)

Spec == Init /\ [][Next]_fencedVars
=============================================================================
