--------------------------- MODULE ProposalReview ---------------------------
(***************************************************************************)
(* What the review of proposals promises, whatever is lost, repeated or     *)
(* typed on the way: a proposal is decided once; confirming it applies what *)
(* was chosen, on the resume it was shown with and to nothing else; undoing *)
(* it takes that back, once, and leaves every later edit alone.             *)
(* docs/public-ipc-contract-v1.md:119-141 states the promise.               *)
(***************************************************************************)
EXTENDS ProposalItems

CONSTANTS Place, Proposal

VARIABLES
    docs,      \* the resume of each place
    status,    \* of each proposal
    shownOn,   \* the place and the resume it was made for, and its items
    accepted,  \* the items confirmed
    versions   \* versions committed by confirmations

vars == <<docs, status, shownOn, accepted, versions>>

Init ==
    /\ docs \in [Place -> Doc]
    /\ status = [p \in Proposal |-> "none"]
    /\ shownOn = [p \in Proposal |-> None]
    /\ accepted = [p \in Proposal |-> {}]
    /\ versions = 0

ChosenOf(p, chosen) == {shownOn[p].items[k] : k \in chosen}

Deleted(picks) == {i.entry : i \in {j \in picks : j.kind = "delete"}}

Touched(picks) == {i.entry : i \in picks}

TouchesText(picks) == \E i \in picks : i.kind = "text"

\* A section without some of its entries, the others as they were.
Without(order, gone, rest) ==
    /\ Range(rest) = Range(order) \ gone
    /\ \A j, k \in DOMAIN rest : j < k =>
         \E m, n \in DOMAIN order : m < n /\ order[m] = rest[j] /\ order[n] = rest[k]

\* new is old with the picks and nothing else.
Outcome(old, new, picks) ==
    /\ Without(old.order, Deleted(picks), new.order)
    /\ \A e \in Entry \ Touched(picks) : new.body[e] = old.body[e]
    /\ \A i \in picks : i.entry # None => new.body[i.entry] = i.value
    /\ \A i \in picks : i.kind = "text" => new.text = i.value
    /\ ~TouchesText(picks) => new.text = old.text

\* new is old with what the picks touched as it was in the resume shown.
Restored(old, new, shown, picks) ==
    /\ Without(new.order, Deleted(picks), old.order)
    /\ \A e \in Entry : new.body[e] = IF e \in Touched(picks) THEN shown.body[e] ELSE old.body[e]
    /\ new.text = IF TouchesText(picks) THEN shown.text ELSE old.text
    /\ Outcome(shown, old, picks) => new = shown

\* The user edits, or turns to another place.
Edit ==
    /\ \E l \in Place : \A m \in Place \ {l} : docs'[m] = docs[m]
    /\ docs' \in [Place -> Doc]
    /\ UNCHANGED <<status, shownOn, accepted, versions>>

\* A run proposes changes to the resume of a place.
Propose ==
    /\ \E l \in Place :
         \A p \in Proposal :
           \/ status'[p] = status[p] /\ shownOn'[p] = shownOn[p]
           \/ /\ status[p] = "none" /\ status'[p] = "pending"
              /\ shownOn'[p].place = l /\ shownOn'[p].doc = docs[l]
    /\ UNCHANGED <<docs, accepted, versions>>

Confirm(p) ==
    /\ status[p] = "pending"
    /\ status' = [status EXCEPT ![p] = "confirmed"]
    /\ accepted'[p] # {} /\ accepted' = [accepted EXCEPT ![p] = accepted'[p]]
    /\ LET l == shownOn[p].place
           picks == ChosenOf(p, accepted'[p])
       IN  /\ docs[l] = shownOn[p].doc
           /\ Outcome(docs[l], docs'[l], picks)
           /\ \A m \in Place \ {l} : docs'[m] = docs[m]
           /\ versions' = versions + Cardinality({i \in picks : i.kind = "commit"})
    /\ UNCHANGED shownOn

Undo(p) ==
    /\ status[p] = "confirmed"
    /\ status' = [status EXCEPT ![p] = "undone"]
    /\ LET l == shownOn[p].place
       IN  /\ Restored(docs[l], docs'[l], shownOn[p].doc, ChosenOf(p, accepted[p]))
           /\ \A m \in Place \ {l} : docs'[m] = docs[m]
    /\ UNCHANGED <<shownOn, accepted, versions>>

\* Proposals are rejected or run out.
Close ==
    /\ \A p \in Proposal :
         \/ status'[p] = status[p]
         \/ status[p] = "pending" /\ status'[p] \in {"rejected", "expired"}
    /\ UNCHANGED <<docs, shownOn, accepted, versions>>

Next == Close \/ Propose \/ Edit \/ \E p \in Proposal : Confirm(p) \/ Undo(p)

Spec == Init /\ [][Next]_vars
=============================================================================
