--------------------------- MODULE ProposalItems ---------------------------
(***************************************************************************)
(* What the items of a proposal do to a resume: the value an item is about, *)
(* the change it makes and the change that takes it back                    *)
(* (zinecv-storage/src/storage/proposals/materialization.rs over the        *)
(* commands of zinecv-domain).                                              *)
(*                                                                         *)
(* A resume is the order of the entries of one section, the body of each    *)
(* entry, and a text that stands for every other field.  The items are      *)
(* those a model may propose: replace a body, delete an entry, set a text   *)
(* and commit a version.                                                    *)
(***************************************************************************)
EXTENDS Naturals, FiniteSets, SequencesExt

CONSTANTS
    Entry,   \* entries of the section
    Value,   \* bodies and texts
    None     \* no value

ASSUME ItemsAssumption ==
    /\ IsFiniteSet(Entry) /\ None \notin Entry \cup Value
    /\ \A k \in 1 .. Cardinality(Entry), v \in Value : None # <<k, v>>

Doc == {d \in [order: SeqOf(Entry, Cardinality(Entry)),
                body: [Entry -> Value \cup {None}], text: Value] :
          /\ IsInjective(d.order)
          /\ \A e \in Entry : d.body[e] # None <=> e \in Range(d.order)}

Item == [kind: {"body"}, entry: Entry, value: Value]
          \cup [kind: {"delete"}, entry: Entry, value: {None}]
          \cup [kind: {"text"}, entry: {None}, value: Value]
          \cup [kind: {"commit"}, entry: {None}, value: {None}]

Present(doc, e) == e \in Range(doc.order)

IndexOf(doc, e) == CHOOSE k \in DOMAIN doc.order : doc.order[k] = e

\* change_target_value.  A missing entry is an error, of which None stands for
\* a body; it is the value of a deleted one.
Target(doc, item) ==
    CASE item.kind = "body" -> doc.body[item.entry]
      [] item.kind = "delete" ->
           IF Present(doc, item.entry)
           THEN <<IndexOf(doc, item.entry), doc.body[item.entry]>> ELSE None
      [] item.kind = "text" -> doc.text
      [] item.kind = "commit" -> "message"

\* apply_command of proposal_command.
Applied(doc, item) ==
    CASE item.kind = "body" ->
           IF Present(doc, item.entry)
           THEN [doc EXCEPT !.body[item.entry] = item.value] ELSE doc
      [] item.kind = "delete" ->
           IF Present(doc, item.entry)
           THEN [doc EXCEPT !.order = RemoveAt(@, IndexOf(doc, item.entry)),
                            !.body[item.entry] = None] ELSE doc
      [] item.kind = "text" -> [doc EXCEPT !.text = item.value]
      [] item.kind = "commit" -> doc

\* inverse_commands, applied: an entry goes to the end and is moved from there.
Inverted(doc, item, before) ==
    CASE item.kind = "body" -> [doc EXCEPT !.body[item.entry] = before]
      [] item.kind = "delete" ->
           [doc EXCEPT !.order = InsertAt(@, before[1], item.entry),
                       !.body[item.entry] = before[2]]
      [] item.kind = "text" -> [doc EXCEPT !.text = before]
      [] item.kind = "commit" -> doc

\* Whether they can be applied: the index must be one of the section's.
Invertible(doc, item, before) ==
    item.kind = "delete" => before[1] <= Len(doc.order) + 1

After(doc, items) == FoldLeft(Applied, doc, items)

\* The document before item k, when those before it have been applied.
Upto(doc, items, k) == After(doc, SubSeq(items, 1, k - 1))

\* scope_keys and the references: no two items of a proposal are about the
\* same entry or the same field.
Disjoint(items) ==
    \A j, k \in DOMAIN items :
      /\ j # k
      /\ items[j].entry = items[k].entry
      => items[j].entry = None /\ items[j].kind # items[k].kind

\* The items with the values they change, each seen after those before it.
Staged(doc, items) ==
    [k \in DOMAIN items |->
       [item |-> items[k],
        before |-> Target(Upto(doc, items, k), items[k]),
        after |-> Target(Upto(doc, items, k + 1), items[k])]]

\* Whether create_agent_proposals takes the draft.
Stageable(doc, items) ==
    /\ items # <<>> /\ Disjoint(items)
    /\ \A k \in DOMAIN items : items[k].entry # None => Present(doc, items[k].entry)

Ascending(f) == \A j, k \in DOMAIN f : j < k => f[j] < f[k]

\* The accepted items of a staged proposal, in its order.
Picked(staged, chosen) ==
    LET index == CHOOSE f \in [1 .. Cardinality(chosen) -> chosen] : Ascending(f)
    IN  [k \in DOMAIN index |-> staged[index[k]]]

Items(picked) == [k \in DOMAIN picked |-> picked[k].item]

\* Every value is what the proposal said, before and after.
Fits(doc, picked) ==
    \A k \in DOMAIN picked :
      /\ Target(Upto(doc, Items(picked), k), picked[k].item) = picked[k].before
      /\ Target(Upto(doc, Items(picked), k + 1), picked[k].item) = picked[k].after

Revert(doc, entry) == Inverted(doc, entry.item, entry.before)

\* The inverse commands, the last item's first.
Reverted(doc, picked) == FoldLeft(Revert, doc, Reverse(picked))

\* Every value is still what the proposal left, and there is something to revert.
StillThere(doc, picked) ==
    \A k \in DOMAIN picked : Target(doc, picked[k].item) = picked[k].after

\* Mutant: they are tried in the order of the items.
RevertibleForwards(doc, picked) ==
    /\ \E k \in DOMAIN picked : picked[k].item.kind # "commit"
    /\ \A k \in DOMAIN picked :
         Invertible(FoldLeft(Revert, doc, SubSeq(picked, 1, k - 1)),
                    picked[k].item, picked[k].before)

\* Whether the inverse commands can be applied one after the other.
Revertible(doc, picked) ==
    LET back == Reverse(picked)
    IN  /\ \E k \in DOMAIN picked : picked[k].item.kind # "commit"
        /\ \A k \in DOMAIN back :
             Invertible(FoldLeft(Revert, doc, SubSeq(back, 1, k - 1)),
                        back[k].item, back[k].before)
=============================================================================
