----------------------------- MODULE Assertions -----------------------------
(***************************************************************************)
(* The identity of an assertion, and what add_assertion makes of one that  *)
(* comes again.  An assertion is a record with at least the fields subj,   *)
(* pred, op, key, vf, src, origin and rec.                                 *)
(***************************************************************************)

CONSTANT None   \* no value, no end, no observation

\* What the assertion id hashes, and what add_assertion compares.
Identity(a) == [a EXCEPT !.origin = None, !.rec = None]
Payload(a) == [a EXCEPT !.rec = None]

\* Slip: a repetition is recognised by the whole row, recorded_at included.
TakenAsRow(stored, a) == a \in stored

Taken(stored, a) == \E b \in stored : Identity(b) = Identity(a)
Clashes(stored, a) ==
  \E b \in stored : Identity(b) = Identity(a) /\ Payload(b) # Payload(a)
=============================================================================
