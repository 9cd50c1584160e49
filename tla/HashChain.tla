------------------------------ MODULE HashChain -------------------------------
(***************************************************************************)
(* What the emitter's docstring promises of the ledger, with no file, no   *)
(* lock and no emitters: one receipt at a time is added at the end, in a   *)
(* single step, built on the entry before it.                              *)
(***************************************************************************)
EXTENDS Receipts

VARIABLE log

Init == log = << >>

AppendReceipt(b) == log' = Append(log, Build(LastOf(log), b))

Next == \E b \in Bodies : AppendReceipt(b)

Spec == Init /\ [][Next]_log
===============================================================================
