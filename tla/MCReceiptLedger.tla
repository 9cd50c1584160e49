---------------------------- MODULE MCReceiptLedger ----------------------------
\* Model values and symmetry for the runs of ReceiptLedger.
EXTENDS ReceiptLedger, TLC

CONSTANTS e1, e2, b1

OneEmitter  == {e1}
TwoEmitters == {e1, e2}
OneBody     == {b1}

\* Emitters are only compared for equality.
SymmetryEmitters == Permutations(Emitters)
===============================================================================
