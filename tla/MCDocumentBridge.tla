-------------------------- MODULE MCDocumentBridge --------------------------
(* DocumentBridge over two sections with entries and the summary.           *)
EXTENDS DocumentBridge

CONSTANTS work, school, summary, empty, full, photo, e1, e2, e3, e4, e5

MCKeys == <<school, work, summary>>
MCText == {empty, full}

Filled(id) == [id |-> id, title |-> full, college |-> full, body |-> full]
Bare(id) == [id |-> id, title |-> empty, college |-> None, body |-> empty]

SectionWith(key, visible, entries) ==
    [id |-> key, title |-> full, visible |-> visible, body |-> empty, entries |-> entries]

\* A document with two entries and a hidden section.
MCBeginnings ==
    {[title |-> full, basic |-> [name |-> empty, site |-> None, avatar |-> None],
      sections |-> <<SectionWith(work, TRUE, <<Filled(e1), Bare(e2)>>), SectionWith(summary, TRUE, <<>>),
                     SectionWith(school, FALSE, <<>>)>>,
      look |-> 0, template |-> FALSE]}

\* A template that keeps an entry, turns the order round and brings others.  Its
\* optional fields are filled, so that applying it twice empties none.
MCTemplates ==
    {[title |-> full, basic |-> [name |-> full, site |-> full, avatar |-> None],
      entries |-> (work :> <<Filled(e3), Filled(e1)>> @@ school :> <<[Filled(e4) EXCEPT !.body = empty]>>),
      summary |-> full, names |-> [key \in {school, work, summary} |-> full], order |-> <<summary, school>>,
      look |-> 1, template |-> TRUE]}

MCProposed ==
    {[type |-> "moveSection", section |-> work, index |-> 3],
     [type |-> "setSectionVisibility", section |-> summary, visible |-> FALSE],
     [type |-> "moveEntry", entry |-> e1, section |-> work, index |-> 2],
     [type |-> "deleteEntry", entry |-> e2],
     [type |-> "updateEntryFields", entry |-> e2, patch |-> [title |-> None, college |-> empty]]}

=============================================================================
