------------------------------- MODULE Receipts -------------------------------
(***************************************************************************)
(* InferenceReceipts as the ledger sees them (tools/                       *)
(* inference_receipt_emitter.py).  Of a receipt's fields only the three    *)
(* the chain depends on are kept:                                          *)
(*   seq   ledgerSeq                                                       *)
(*   prev  ledgerPrevHash; the empty sequence when the field is absent     *)
(*   body  everything else (task, digests, hashes, token counts, issuedAt) *)
(*                                                                         *)
(* sha256(canonical(r)) is idealised as an injective function: the digest  *)
(* of a receipt is its own prev extended with its seq and body.  It is     *)
(* never the empty sequence, so an absent ledgerPrevHash is no digest.     *)
(***************************************************************************)
EXTENDS Integers, Sequences

CONSTANTS Bodies,     \* what the callers of emit_receipt supply
          Garbage,    \* a line of the ledger file that json.loads rejects
          NoReceipt   \* Python's None where a receipt could be

Digests  == Seq(Nat \X Bodies)
Receipts == [seq : Nat, prev : Digests, body : Bodies]
Lines    == Receipts \union {Garbage}

ASSUME GarbageIsNoReceipt == Garbage \notin Receipts
ASSUME NoReceiptIsApart   == NoReceipt \notin Receipts /\ NoReceipt # Garbage

NoDigest  == << >>
Digest(r) == Append(r.prev, <<r.seq, r.body>>)

\* Mutants of Build: numbering starts below zero; the number is not advanced;
\* the digest is the one the last entry itself carries; the second receipt has none.
Build_StartsBelowZero(last, body) ==
  IF last = NoReceipt
    THEN [seq |-> -1, prev |-> NoDigest, body |-> body]
    ELSE [seq |-> last.seq + 1, prev |-> Digest(last), body |-> body]

Build_SameNumber(last, body) ==
  IF last = NoReceipt
    THEN [seq |-> 0, prev |-> NoDigest, body |-> body]
    ELSE [seq |-> last.seq, prev |-> Digest(last), body |-> body]

Build_CopiesDigest(last, body) ==
  IF last = NoReceipt
    THEN [seq |-> 0, prev |-> NoDigest, body |-> body]
    ELSE [seq |-> last.seq + 1, prev |-> last.prev, body |-> body]

Build_LinksFromTwo(last, body) ==
  IF last = NoReceipt
    THEN [seq |-> 0, prev |-> NoDigest, body |-> body]
    ELSE [seq |-> last.seq + 1, prev |-> IF last.seq = 0 THEN NoDigest ELSE Digest(last),
          body |-> body]

\* The receipt emit_receipt builds after the entry it read from the tail.
Build(last, body) ==
  IF last = NoReceipt
    THEN [seq |-> 0, prev |-> NoDigest, body |-> body]
    ELSE [seq |-> last.seq + 1, prev |-> Digest(last), body |-> body]

\* What a well-formed ledger is, entry by entry: the i-th line carries the
\* number i - 1 and the digest of the line before it.
ChainedAt(log, i) ==
  /\ log[i].seq = i - 1
  /\ IF i = 1 THEN log[i].prev = NoDigest ELSE log[i].prev = Digest(log[i - 1])

WellChained(log) == \A i \in 1 .. Len(log) : log[i] \in Receipts /\ ChainedAt(log, i)

\* The same of a ledger whose last line may be unreadable, and no other.
UpToDamage(log) ==
  \A i \in 1 .. Len(log) :
    IF log[i] = Garbage THEN i = Len(log) ELSE ChainedAt(log, i)

LastOf(log) == IF log = << >> THEN NoReceipt ELSE log[Len(log)]
===============================================================================
