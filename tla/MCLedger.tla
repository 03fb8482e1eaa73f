------------------------------ MODULE MCLedger ------------------------------
(***************************************************************************)
(* Small scopes for TLC: matters with a status (SINGLE), a blocker (SET)   *)
(* and a decision (APPEND, as the semantic model writes it, retractable).  *)
(* ClaimCards and the rest of the Claim pools drive two matters hard with  *)
(* no merge; the Merge pools drive three matters through merges.           *)
(***************************************************************************)
EXTENDS Ledger, TLC

CONSTANTS s1, s2, s3, a, b, w1, w2

MCKind == [p \in {"status", "blocked_by", "decision"} |->
             CASE p = "status" -> "SINGLE" [] p = "blocked_by" -> "SET"
               [] p = "decision" -> "APPEND"]

Card(id, s, p, keys, clears, vf) ==
  [id |-> id, subj |-> s, pred |-> p, keys |-> keys, clears |-> clears,
   thread |-> FALSE, vf |-> vf, src |-> "chat"]
Fix(s, p, op, k, vf) ==
  [subj |-> s, pred |-> p, op |-> op, key |-> k, vf |-> vf, src |-> "chat"]
Says(s, child, op, k) ==
  [subj |-> s, child |-> child, pred |-> "decision", op |-> op, key |-> k]
Alone(C) == {<<c, c>> : c \in C}
Swaps == Permutations({w1, w2})

Opened1 == Card("c1", s1, "status", {a}, FALSE, 1)
Opened2 == Card("c2", s2, "status", {b}, FALSE, 1)
Cleared1 == Card("c3", s1, "status", {}, TRUE, 2)

\* The thread card c5 repeats the opening value later, with an observation.
ClaimCards ==
  {Opened1, Cleared1, Card("c4", s1, "blocked_by", {a, b}, FALSE, 1),
   [Card("c5", s1, "status", {a}, FALSE, 3) EXCEPT !.thread = TRUE]}
ClaimBatches ==
  Alone(ClaimCards \ {Cleared1}) \cup {<<Cleared1, Opened1>>}
ClaimCorrections ==
  {Fix(s1, "status", "ASSERT", b, 1), Fix(s1, "status", "RETRACT", Star, 2),
   Fix(s1, "status", "ASSERT", a, 1), Fix(s1, "blocked_by", "RETRACT", b, 1),
   Fix(s1, "decision", "RETRACT", a, 2)}
\* A correction that takes a status back at the instant it was opened.
ClearCorrections == {Fix(s1, "status", "RETRACT", Star, 1)}
ClaimProposals ==
  {<<Says(s1, FALSE, "ASSERT", a)>>,
   <<Says(s2, TRUE, "ASSERT", a), Says(s2, FALSE, "RETRACT", a)>>}

MergeCards == {Opened1, Opened2, Cleared1, Card("c6", s3, "status", {a}, FALSE, 2)}
MergeBatches == Alone(MergeCards) \cup {<<Opened1, Opened2>>}
MergeCorrections ==
  {Fix(s1, "status", "ASSERT", b, 1), Fix(s2, "status", "RETRACT", Star, 2)}
MergeProposals == {<<Says(s1, FALSE, "ASSERT", a)>>}
TwoMergeOps == {[vf |-> 1, src |-> "chat"], [vf |-> 2, src |-> "chat"]}
=============================================================================
