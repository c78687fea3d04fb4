----------------------------- MODULE CellStore ------------------------------
(***************************************************************************)
(* What a campaign's ledgers promise, without files, jobs or crashes: every *)
(* cell is measured at most once, its outcome is a success or a recorded   *)
(* failure, and an outcome once recorded is neither lost nor changed.      *)
(* (layout_tuning/ledger.py:6-10, layout_tuning/runner.py:58-69)           *)
(***************************************************************************)
CONSTANT Cell

VARIABLE status

Init == status = [c \in Cell |-> "none"]

Measure(c, outcome) ==
  /\ status[c] = "none"
  /\ status' = [status EXCEPT ![c] = outcome]

Next == \E c \in Cell, outcome \in {"ok", "failed"} : Measure(c, outcome)

Spec == Init /\ [][Next]_status
=============================================================================
