---------------------------- MODULE FundingSource ----------------------------
(***************************************************************************)
(* What the payment core relies on when it calls a funding source: the     *)
(* outcome of a payment is decided once, and a verdict that is not         *)
(* "pending" repeats what has been decided.                                *)
(***************************************************************************)

VARIABLES outcome, verdict

Init == outcome = "open" /\ verdict = "pending"

Decide == /\ outcome = "open" /\ outcome' \in {"paid", "failed"}
          /\ UNCHANGED verdict

Report == /\ verdict = "pending" /\ outcome # "open" /\ verdict' = outcome
          /\ UNCHANGED outcome

Next == Decide \/ Report

Spec == Init /\ [][Next]_<<outcome, verdict>>
=============================================================================
