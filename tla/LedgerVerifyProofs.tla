--------------------------- MODULE LedgerVerifyProofs ---------------------------
(***************************************************************************)
(* Theorems about verify_ledger, for every ledger it may find.             *)
(***************************************************************************)
EXTENDS LedgerVerify, ReceiptTheorems

\* What has been established when i lines have passed.
Inv ==
  /\ TypeOK
  /\ WellChained(written)
  /\ i >= 1 => prev = found[i]
  /\ \A j \in 1 .. i : Passes(found, j)
  /\ verdict = "ok" => i = Len(found)
  /\ verdict \in Failures \ {"unreadable"} => i < Len(found) /\ ~Passes(found, i + 1)

\* Every entry passed so far that is still the one written vouches for the
\* entries before it.
Vouched ==
  \A k \in 1 .. i : k <= Len(written) /\ found[k] = written[k] =>
    \A j \in 1 .. k : found[j] = written[j]

\* The loop of verify_ledger keeps its invariant: the lines before i have passed
\* and prev is the last of them.
THEOREM LoopInvariant == Spec => []Inv
<1>1. Init => Inv
  <2> SUFFICES ASSUME Init PROVE Inv
    OBVIOUS
  <2>1. written \in Seq(Receipts) /\ WellChained(written) /\ found \in Seq(Lines)
    BY CasesAreLedgers DEF Init
  <2>2. i = 0 /\ prev = NoReceipt /\ verdict = "running" /\ Len(found) \in Nat
    BY <2>1 DEF Init
  <2>3. verdict # "ok" /\ verdict \notin Failures
    BY <2>2 DEF Failures
  <2>4. QED
    BY <2>1, <2>2, <2>3 DEF Inv, TypeOK
<1>2. Inv /\ [Next]_vars => Inv'
  <2> SUFFICES ASSUME Inv, [Next]_vars PROVE Inv'
    OBVIOUS
  <2> USE DEF Inv, TypeOK
  <2>1. CASE UNCHANGED vars
    BY <2>1 DEF vars, WellChained, ChainedAt, Passes
  <2>2. CASE Unreadable
    BY <2>2 DEF Unreadable, Fail, Failures
  <2>3. CASE Reject
    <3>1. /\ UNCHANGED <<written, found, i, prev>>
          /\ i < Len(found)
          /\ verdict' \in Failures /\ verdict' # "unreadable" /\ verdict' # "ok"
      BY <2>3 DEF Reject, Fail, Failures
    <3>2. ~Passes(found, i + 1)
      <4>1. CASE Line = Garbage
        BY <4>1 DEF Passes, Line
      <4>2. CASE ~SchemaValid(Line)
        BY <4>2 DEF Passes, Line
      <4>3. CASE Line.seq # i
        BY <4>3 DEF Passes, Line
      <4>4. CASE i >= 1 /\ ~LinkOK(Line, prev)
        BY <4>4 DEF Passes, Line
      <4>5. QED
        BY <2>3, <4>1, <4>2, <4>3, <4>4 DEF Reject
    <3>3. QED
      BY <3>1, <3>2 DEF WellChained, ChainedAt, Passes
  <2>4. CASE Advance
    <3>1. Passes(found, i + 1)
      BY <2>4 DEF Advance, Line, Passes
    <3>2. found[i + 1] \in Receipts
      BY <2>4 DEF Advance, Line, Lines
    <3>3. QED
      BY <2>4, <3>1, <3>2 DEF Advance, Line, Failures
  <2>5. CASE Accept
    BY <2>5 DEF Accept, Failures
  <2>6. QED
    BY <2>1, <2>2, <2>3, <2>4, <2>5 DEF Next
<1>3. QED
  BY <1>1, <1>2, PTL DEF Spec

\* The state keeps its types: the loop stays within the lines of the file.
THEOREM VerifierTypes == Spec => []TypeOK
<1>1. Inv => TypeOK
  BY DEF Inv
<1>2. QED
  BY <1>1, LoopInvariant, PTL

\* verify_ledger accepts only ledgers every line of which meets every demand,
\* and what it rejects fails the first line it stops at.
THEOREM VerdictCorrect == Spec => []VerdictIsRight
<1>1. Inv => VerdictIsRight
  BY DEF Inv, TypeOK, VerdictIsRight, Accepts
<1>2. QED
  BY <1>1, LoopInvariant, PTL

\* Tamper evidence of the chain, for every alteration of every ledger that
\* emit_receipt wrote: an entry left as it was vouches for all before it.
THEOREM TamperEvidence == Spec => []SurvivorsVouch
<1>1. Init => Vouched
  BY DEF Init, Vouched
<1>2. Inv /\ Inv' /\ Vouched /\ [Next]_vars => Vouched'
  <2> SUFFICES ASSUME Inv, Vouched, [Next]_vars PROVE Vouched'
    OBVIOUS
  <2>1. CASE UNCHANGED <<written, found, i>>
    BY <2>1 DEF Vouched
  <2>2. CASE Advance
    <3> SUFFICES ASSUME NEW k \in 1 .. i', k <= Len(written), found[k] = written[k],
                        NEW j \in 1 .. k
                 PROVE  found[j] = written[j]
      BY <2>2 DEF Advance, Vouched
    <3>1. CASE k <= i
      BY <3>1, <2>2 DEF Inv, TypeOK, Advance, Vouched
    <3>2. CASE k = i + 1 /\ k = 1
      BY <3>2
    <3>3. CASE k = i + 1 /\ k >= 2
      <4>1. i \in 1 .. Len(written) /\ i \in 1 .. Len(found) /\ i + 1 \in 1 .. Len(found)
        BY <3>3, <2>2 DEF Inv, TypeOK, Advance
      <4>2. found[k].prev = Digest(found[i])
        BY <3>3, <2>2 DEF Inv, TypeOK, Advance, LinkOK, Line
      <4>3. written[k].prev = Digest(written[i])
        BY <3>3, <4>1 DEF Inv, TypeOK, WellChained, ChainedAt
      <4>4. found[i] \in Receipts /\ written[i] \in Receipts
        BY <4>1, <3>3 DEF Inv, TypeOK, Lines, Passes
      <4>5. found[i] = written[i]
        BY <4>2, <4>3, <4>4, DigestInjective
      <4>6. \A m \in 1 .. i : found[m] = written[m]
        BY <4>1, <4>5 DEF Vouched
      <4>7. QED
        BY <4>6, <3>3, <4>1
    <3>4. QED
      BY <3>1, <3>2, <3>3, <2>2 DEF Inv, TypeOK, Advance
  <2>3. QED
    BY <2>1, <2>2 DEF Next, vars, Unreadable, Reject, Fail, Accept
<1>3. Inv /\ Vouched => SurvivorsVouch
  BY DEF Inv, TypeOK, Vouched, SurvivorsVouch
<1>4. QED
  BY <1>1, <1>2, <1>3, LoopInvariant, PTL DEF Spec
===============================================================================
