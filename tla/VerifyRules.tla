------------------------------ MODULE VerifyRules ------------------------------
(***************************************************************************)
(* What verify_ledger (tools/inference_receipt_emitter.py:107-130) demands *)
(* of the i-th non-blank line of a ledger, in the order it demands it.     *)
(***************************************************************************)
EXTENDS Receipts

CONSTANT Conforming   \* the bodies that satisfy InferenceReceipt.schema.json

ASSUME ConformingBodies == Conforming \subseteq Bodies

\* The schema, as far as the chain is concerned: every entry but the first
\* must carry a ledgerPrevHash.
SchemaValid(r) == r.body \in Conforming /\ (r.seq >= 1 => r.prev # NoDigest)

\* Mutant of LinkOK: the digest of an entry is compared with itself.
LinkOK_SelfCompare(r, prev) == r.prev = r.prev /\ prev = prev

\* ledgerPrevHash against the digest of the entry before (never the first's).
LinkOK(r, prev) == r.prev = Digest(prev)

\* Every demand on every line, with no loop: the reference for the loop.
Passes(ledger, i) ==
  /\ ledger[i] # Garbage
  /\ SchemaValid(ledger[i])
  /\ ledger[i].seq = i - 1
  /\ i >= 2 => LinkOK(ledger[i], ledger[i - 1])

Accepts(ledger) == \A i \in 1 .. Len(ledger) : Passes(ledger, i)
===============================================================================
