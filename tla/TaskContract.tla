---------------------------- MODULE TaskContract ----------------------------
(***************************************************************************)
(* What a task promises its caller: it is accepted once, it completes for  *)
(* good, and a failed one is run again as long as it has attempts left.    *)
(***************************************************************************)
EXTENDS Naturals

CONSTANTS Tasks, MaxAttempts

VARIABLES status, attempts

Init == status = [t \in Tasks |-> "absent"] /\ attempts = [t \in Tasks |-> 0]

Becomes(t, s) == status' = [status EXCEPT ![t] = s]

Submit(t) == status[t] = "absent" /\ Becomes(t, "pending") /\ UNCHANGED attempts

Run(t) ==
  /\ status[t] = "pending" \/ (status[t] = "failed" /\ attempts[t] < MaxAttempts)
  /\ Becomes(t, "running") /\ UNCHANGED attempts

Complete(t) == status[t] = "running" /\ Becomes(t, "completed") /\ UNCHANGED attempts

Fail(t) ==
  /\ status[t] = "running" /\ Becomes(t, "failed")
  /\ attempts' = [attempts EXCEPT ![t] = @ + 1]

Next == \E t \in Tasks : Submit(t) \/ Run(t) \/ Complete(t) \/ Fail(t)

Spec == Init /\ [][Next]_<<status, attempts>>
=============================================================================
