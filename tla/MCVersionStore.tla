--------------------------- MODULE MCVersionStore ---------------------------
(* A small instance of VersionStore: one imported template besides the       *)
(* workspace, up to two branches besides main.                               *)
EXTENDS VersionStore, TLC

CONSTANTS ws, tpl, main, b1, b2, nMain, nFeature, nOther, d1, d2

MCContext == {ws, tpl}
MCBranch == {main, b1, b2}
MCName == {nMain, nFeature, nOther}
MCContent == {d1, d2}
\* d2 was made from the imported template, d1 in the workspace.
MCSourceOf == [d \in MCContent |-> IF d = d2 THEN tpl ELSE ws]

\* Two graphs a backup may hold: one with an empty main branch (as the tests
\* of the store import), one with a side branch that is current.
NoCommits == [c \in Commit |-> None]
EmptyGraph ==
    [current |-> main,
     name |-> [b \in MCBranch |-> IF b = main THEN nMain ELSE None],
     head |-> [b \in MCBranch |-> None],
     parent |-> NoCommits, snapshotOf |-> NoCommits]
SideGraph ==
    [current |-> b1,
     name |-> (main :> nMain @@ b1 :> nFeature @@ b2 :> None),
     head |-> (main :> 1 @@ b1 :> 2 @@ b2 :> None),
     parent |-> [NoCommits EXCEPT ![2] = 1],
     snapshotOf |-> [NoCommits EXCEPT ![1] = d1, ![2] = d2]]
MCReplacements == {EmptyGraph, SideGraph}
=============================================================================
