----------------------------- MODULE MCTaskQueue -----------------------------
(***************************************************************************)
(* Small scopes for TLC.  Two message tasks share a record, two card       *)
(* submissions share a card id, and a theme pass may become due.           *)
(***************************************************************************)
EXTENDS TaskQueue

CONSTANTS m1, m2, c1, c2, th, r1, r2, r3, i1

MCKind == [t \in Tasks |-> IF t \in {m1, m2} THEN "messages"
                           ELSE IF t \in {c1, c2} THEN "cards" ELSE "themes"]
MCContent == [t \in Tasks |-> CASE t = m1 -> {r1, r2} [] t = m2 -> {r2, r3}
                                [] t = c1 -> {[id |-> i1, says |-> "x"]}
                                [] t = c2 -> {[id |-> i1, says |-> "y"]}
                                [] OTHER -> {}]
MCContainer == [r \in Records |-> IF r = r1 THEN "p" ELSE "q"]
=============================================================================
