----------------------------- MODULE MCProposals -----------------------------
(* A section of two entries, a proposal with two items and one with one.     *)
EXTENDS Proposals

CONSTANTS a, b, p1, p2, run, home, away

Body(e, v) == [kind |-> "body", entry |-> e, value |-> v]
Delete(e) == [kind |-> "delete", entry |-> e, value |-> None]
Text(v) == [kind |-> "text", entry |-> None, value |-> v]
Commit == [kind |-> "commit", entry |-> None, value |-> None]

MCRunOf == [p \in Proposal |-> run]
MCDraft == (p1 :> {<<Delete(b), Delete(a)>>} @@ p2 :> {<<Text(1), Commit>>})
MCTyping == {Delete(a)}
MCStart == {[order |-> <<a, b>>, body |-> (a :> 0 @@ b :> 0), text |-> 0]}
=============================================================================
