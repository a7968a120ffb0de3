----------------------------- MODULE IpcPromise -----------------------------
(***************************************************************************)
(* What src/src/emulator/client/ipc-client.ts promises to its callers,     *)
(* without priorities, timers, frames or buffers: a request is refused at  *)
(* once or accepted while the connection is up; an accepted request is     *)
(* answered or rejected, one answer at a time; and losing the connection   *)
(* settles everything that was accepted on it in one step, so nothing      *)
(* accepted survives into the next connection.                             *)
(***************************************************************************)
EXTENDS Naturals

CONSTANT Requests

VARIABLES up,          \* a usable connection exists
          generation,  \* the connection epoch observers compare
          outcome      \* what each request's promise has come to

vars == <<up, generation, outcome>>

Outcomes == {"unsent", "pending", "resolved", "rejected"}
Pending == {r \in Requests : outcome[r] = "pending"}

Rejecting(S) == [r \in Requests |-> IF r \in S THEN "rejected" ELSE outcome[r]]

TypeOK == /\ up \in BOOLEAN
          /\ generation \in Nat
          /\ outcome \in [Requests -> Outcomes]

Init == /\ up = FALSE
        /\ generation = 0
        /\ outcome = [r \in Requests |-> "unsent"]

Refuse(r) == /\ outcome[r] = "unsent"
             /\ outcome' = Rejecting({r})
             /\ UNCHANGED <<up, generation>>

Accept(r) == /\ up
             /\ outcome[r] = "unsent"
             /\ outcome' = [outcome EXCEPT ![r] = "pending"]
             /\ UNCHANGED <<up, generation>>

\* The connection delivers one answer; requests whose owner went away in the
\* meantime may be rejected in the same step.
Answer(r, S) == /\ up
                /\ r \in Pending \ S
                /\ S \subseteq Pending
                /\ outcome' = [Rejecting(S) EXCEPT ![r] = "resolved"]
                /\ UNCHANGED <<up, generation>>

Reject(S) == /\ up
             /\ S # {} /\ S \subseteq Pending
             /\ outcome' = Rejecting(S)
             /\ UNCHANGED <<up, generation>>

Open == /\ ~up
        /\ up' = TRUE
        /\ generation' = generation + 1
        /\ UNCHANGED outcome

\* Losing a connection, or giving up one that was being made.
Lose == /\ up' = FALSE
        /\ generation' = generation + 1
        /\ outcome' = Rejecting(Pending)

Next == \/ \E r \in Requests : Refuse(r) \/ Accept(r)
        \/ \E S \in SUBSET Requests : Reject(S) \/ \E r \in Requests : Answer(r, S)
        \/ Open
        \/ Lose

Spec == Init /\ [][Next]_vars
=============================================================================
