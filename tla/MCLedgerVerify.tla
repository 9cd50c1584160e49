---------------------------- MODULE MCLedgerVerify ----------------------------
\* Ledgers of at most MaxLen receipts, as written and as one alteration left
\* them.
EXTENDS LedgerVerify, FiniteSets, SequencesExt

CONSTANTS b1, b2, b3

AllBodies == {b1, b2, b3}
GoodBodies == {b1, b2}

MaxLen == 3   \* long enough for a first, a middle and a last entry

\* The ledger emit_receipt writes for the bodies bs, in order.
Written(bs) ==
  LET upto[n \in 0 .. Len(bs)] ==
        IF n = 0 THEN << >> ELSE Append(upto[n - 1], Build(LastOf(upto[n - 1]), bs[n]))
  IN upto[Len(bs)]

\* b2 comes in by alteration only.
BodySequences == UNION {[1 .. n -> {b1, b3}] : n \in 0 .. MaxLen}

\* What a single line can be replaced by.
Forged(l) ==
  {Garbage} \union
  [seq : 0 .. MaxLen, prev : {NoDigest} \union {Digest(l[k]) : k \in 1 .. Len(l)}, body : AllBodies]

Replaced(l)  == {[l EXCEPT ![k] = x] : k \in 1 .. Len(l), x \in Forged(l)}
Shortened(l) == {RemoveAt(l, k) : k \in 1 .. Len(l)} \union {SubSeq(l, 1, n) : n \in 0 .. Len(l)}
Repeated(l)  == {InsertAt(l, m, l[k]) : k \in 1 .. Len(l), m \in 1 .. Len(l)}
Swapped(l)   == {[l EXCEPT ![k] = l[m], ![m] = l[k]] : k \in 1 .. Len(l), m \in 1 .. Len(l)}

MCCases ==
  UNION {{[written |-> Written(bs), found |-> f] :
            f \in Replaced(Written(bs)) \union Shortened(Written(bs))
                  \union Repeated(Written(bs)) \union Swapped(Written(bs))}
         : bs \in BodySequences}
===============================================================================
