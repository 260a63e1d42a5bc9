--------------------------- MODULE AgentRunLedger ---------------------------
(***************************************************************************)
(* What the application promises of its agent runs, whatever the order in   *)
(* which answers, cancellations, logins and document switches arrive.       *)
(*                                                                         *)
(* A run that is open can be cancelled until it is closing.  Closing is the  *)
(* one moment that decides between the cancellation and the answer: a run    *)
(* whose cancellation was accepted never publishes proposals and is never     *)
(* completed; a run that is closing cannot be cancelled any more.  A run is   *)
(* settled once, and publishes at most once, before that.  A process that     *)
(* dies settles what was open as failed.                                      *)
(*                                                                         *)
(* AgentRun implements it (src-tauri/src/commands/agent_run.rs:411).          *)
(***************************************************************************)
CONSTANT Run

VARIABLES
    outcome,    \* none, open, closing, completed, cancelled or failed
    cancelled,  \* the runs whose cancellation was accepted
    published   \* the runs whose proposals were stored

vars == <<outcome, cancelled, published>>

Outcome == {"none", "open", "closing", "completed", "cancelled", "failed"}

TypeOK ==
    /\ outcome \in [Run -> Outcome]
    /\ cancelled \subseteq Run
    /\ published \subseteq Run

Init ==
    /\ outcome = [r \in Run |-> "none"]
    /\ cancelled = {}
    /\ published = {}

Open(r) ==
    /\ outcome[r] = "none"
    /\ outcome' = [outcome EXCEPT ![r] = "open"]
    /\ UNCHANGED <<cancelled, published>>

\* One order may cancel several runs: all those of an account that leaves.
Cancel(S) ==
    /\ \A r \in S : outcome[r] = "open"
    /\ cancelled' = cancelled \cup S
    /\ UNCHANGED <<outcome, published>>

Close(r) ==
    /\ outcome[r] = "open"
    /\ outcome' = [outcome EXCEPT ![r] = "closing"]
    /\ UNCHANGED <<cancelled, published>>

Publish(r) ==
    /\ outcome[r] = "closing"
    /\ r \notin cancelled \cup published
    /\ published' = published \cup {r}
    /\ UNCHANGED <<outcome, cancelled>>

Settle(r, status) ==
    /\ outcome[r] = "closing"
    /\ status = "completed" => r \notin cancelled
    /\ r \in published => status = "completed"
    /\ outcome' = [outcome EXCEPT ![r] = status]
    /\ UNCHANGED <<cancelled, published>>

\* The process died.
Interrupt ==
    /\ outcome' = [r \in Run |-> IF outcome[r] \in {"open", "closing"} THEN "failed" ELSE outcome[r]]
    /\ UNCHANGED <<cancelled, published>>

Next ==
    \/ \E r \in Run : Open(r) \/ Close(r) \/ Publish(r)
    \/ \E S \in SUBSET Run : Cancel(S)
    \/ \E r \in Run, s \in {"completed", "cancelled", "failed"} : Settle(r, s)
    \/ Interrupt

Spec == Init /\ [][Next]_vars
=============================================================================
