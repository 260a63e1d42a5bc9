--------------------------- MODULE ExportSessions ---------------------------
(***************************************************************************)
(* The tickets of frozen exports: src-tauri/src/export_sessions.rs, with the  *)
(* receipts of storage/export_receipts.rs.                                    *)
(*                                                                         *)
(* A ticket says which bytes belong to an export; each file is one write of    *)
(* it, that may be in flight and leaves a proof when it has been verified on   *)
(* the disk.  A restored database has no use for the tickets of the old one.   *)
(*                                                                         *)
(* A ticket's id grows with the time of its registration.  A write id is the    *)
(* page it is for, and is never used for another path; the bytes handed in are   *)
(* those of the ticket, as their digest is compared.                             *)
(***************************************************************************)
EXTENDS Naturals, FiniteSets

CONSTANTS
    Page,         \* what an export writes: each page, or the pdf or long image alone
    MaxSessions   \* MAX_SESSIONS: tickets held at a time (8 in the code)

ASSUME SessionsAssumption ==
    /\ Page # {} /\ IsFiniteSet(Page)
    /\ MaxSessions \in Nat \ {0}

VARIABLES
    epoch,      \* the generation of the tickets
    sequence,   \* how many tickets there have been
    tickets,    \* the tickets held
    receipts    \* the receipts in the database: of which write of which ticket

sessions == <<epoch, sequence, tickets, receipts>>

Proof == {"none", "written", "recorded"}

Write == [flying: BOOLEAN, proof: Proof]

\* A ticket: whether its 15 minutes still run, and its writes.
Ticket == [fresh: BOOLEAN, writes: [Page -> Write]]

NewTicket == [fresh |-> TRUE, writes |-> [p \in Page |-> [flying |-> FALSE, proof |-> "none"]]]

Held == DOMAIN tickets

Only(held) == [t \in held |-> tickets[t]]

InFlight(t) == \E p \in Page : tickets[t].writes[p].flying

Proven(t) == {p \in Page : tickets[t].writes[p].proof # "none"}

\* complete: what the export writes is there and recorded.  The code does not know
\* what that will be, and takes the pdf, the long image or every page for all of it;
\* a window writes one of the three.
Complete(t) == \A p \in Page : tickets[t].writes[p].proof = "recorded"

\* A ticket nobody needs: nothing in flight, and either nothing written or all.
Evictable(t) == ~InFlight(t) /\ (Proven(t) = {} \/ Complete(t))

SessionsInit ==
    /\ epoch = 0
    /\ sequence = 0
    /\ tickets = [t \in {} |-> NewTicket]
    /\ receipts = {}

-----------------------------------------------------------------------------
\* Tickets that have expired go, unless they are in flight.
Kept == {t \in Held : tickets[t].fresh \/ InFlight(t)}

Oldest(ids) == CHOOSE t \in ids : \A u \in ids : t <= u

Spare == {t \in Kept : Evictable(t)}

\* Those that stay when another is to be registered.
Staying ==
    IF Cardinality(Kept) < MaxSessions \/ Spare = {} THEN Kept ELSE Kept \ {Oldest(Spare)}

HasRoom == Cardinality(Staying) < MaxSessions

\* register, for a render that began under generation e.
Registers(e) ==
    /\ e = epoch /\ HasRoom
    /\ sequence' = sequence + 1
    /\ tickets' = [t \in Staying \cup {sequence'} |-> IF t = sequence' THEN NewTicket ELSE tickets[t]]
    /\ UNCHANGED <<epoch, receipts>>

\* register refuses; what has expired is gone all the same.
RegisterRefuses(e) ==
    /\ e # epoch \/ ~HasRoom
    /\ tickets' = IF e = epoch THEN Only(Staying) ELSE tickets
    /\ UNCHANGED <<epoch, sequence, receipts>>

\* prepare_write.
Usable(t) == t \in Held /\ tickets[t].fresh

Flying(t, p) == tickets[t].writes[p].flying

Preparable(t, p) == Usable(t) /\ ~Flying(t, p)

Prepares(t, p) ==
    /\ Preparable(t, p)
    /\ tickets' = [tickets EXCEPT ![t].writes[p].flying = TRUE]
    /\ UNCHANGED <<epoch, sequence, receipts>>

\* already_written.
\* Mutant: a write is always made again.
NeverWritten(t, p) == FALSE

AlreadyWritten(t, p) == tickets[t].writes[p].proof # "none"

\* abandon_write.
Abandons(t, p) ==
    /\ tickets' = IF t \in Held THEN [tickets EXCEPT ![t].writes[p].flying = FALSE] ELSE tickets
    /\ UNCHANGED <<epoch, sequence, receipts>>

\* finish_write begins: the generation is that of the preparation, the ticket there.
Finishable(e, t) == e = epoch /\ t \in Held

\* The verified write is recorded, or the database refuses and the proof remains.
Finishes(e, t, p, recorded) ==
    /\ Finishable(e, t)
    /\ tickets' = IF t \in Held
                  THEN [tickets EXCEPT ![t].writes[p] =
                          [flying |-> FALSE,
                           proof |-> IF recorded \/ @.proof = "recorded" THEN "recorded" ELSE "written"]]
                  ELSE tickets
    /\ receipts' = IF recorded THEN receipts \cup {<<t, p>>} ELSE receipts
    /\ UNCHANGED <<epoch, sequence>>

\* invalidate, under the store lock of a restore.
Invalidates ==
    /\ epoch' = epoch + 1
    /\ tickets' = [t \in {} |-> NewTicket]
    /\ UNCHANGED sequence

\* Fifteen minutes have passed since the oldest ticket was registered.
Expires ==
    /\ \E t \in Held : tickets[t].fresh
    /\ LET t == Oldest({u \in Held : tickets[u].fresh})
       IN  tickets' = [tickets EXCEPT ![t].fresh = FALSE]
    /\ UNCHANGED <<epoch, sequence, receipts>>

-----------------------------------------------------------------------------
SessionsTypeOK ==
    /\ epoch \in Nat
    /\ sequence \in Nat
    /\ Held \subseteq 1 .. sequence
    /\ tickets \in [Held -> Ticket]
    /\ receipts \subseteq (1 .. sequence) \X Page
=============================================================================
