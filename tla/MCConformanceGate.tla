-------------------------- MODULE MCConformanceGate ---------------------------
(* Bounds for TLC: how the timestamps are spelt, past their minutes. *)
EXTENDS ConformanceGate

Spelt(half, suffix) == [half |-> half, suffix |-> suffix]

WholeZulu        == {Spelt(FALSE, "Z")}
SeveralSpellings == {Spelt(FALSE, "Z"), Spelt(TRUE, "Z"), Spelt(FALSE, "+00:00"),
                     Spelt(FALSE, "+01:00"), NoTime}
===============================================================================
