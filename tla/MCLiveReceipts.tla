---------------------------- MODULE MCLiveReceipts ----------------------------
\* Model values, ledgers and symmetry for the run of LiveReceipts.
EXTENDS LiveReceipts, TLC

CONSTANTS s1, g1, g2

\* Bodies: what the shim records, what a gateway thread records, and a receipt
\* whose usage count the schema refuses.
ShimBodies     == {ShimBody(v, p) : v \in 0 .. MaxReplacements, p \in {"p", "q"}}
FromGateway    == ShimBody(0, "gateway")
OddUsage       == ShimBody(0, "odd usage")
LiveConforming == ShimBodies \union {FromGateway}
LiveBodies     == LiveConforming \union {OddUsage}
OfThreads      == {FromGateway, OddUsage}

OneShimTwoThreads == {s1, g1, g2}
TheShim           == {s1}
Prompts           == {<< >>, <<"p", "q">>}

\* A committed ledger of one receipt and one whose first entry was altered; the glob
\* finds nothing, the good one before the live one, or the altered one.
Committed   == << [seq |-> 0, prev |-> NoDigest, body |-> FromGateway] >>
Altered     == << [seq |-> 0, prev |-> NoDigest, body |-> FromGateway],
                  [seq |-> 1, prev |-> << <<0, ShimBody(0, "p")>> >>, body |-> FromGateway] >>
Listings    == {<< >>, <<Committed, Live>>, <<Altered, Live>>}

\* The threads of the gateway are only compared for equality.
SymmetryThreads == Permutations(Emitters \ Shims)
===============================================================================
