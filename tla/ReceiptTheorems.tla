---------------------------- MODULE ReceiptTheorems ----------------------------
(***************************************************************************)
(* Lemmas about receipts and their digests.                                *)
(***************************************************************************)
EXTENDS Receipts, SequenceTheorems, TLAPS

\* A digest is a digest, and never the empty one.
LEMMA DigestType ==
  ASSUME NEW r \in Receipts
  PROVE  Digest(r) \in Digests /\ Digest(r) # NoDigest
<1>1. r.prev \in Seq(Nat \X Bodies) /\ <<r.seq, r.body>> \in Nat \X Bodies
  BY DEF Receipts, Digests
<1>2. Digest(r) \in Seq(Nat \X Bodies) /\ Len(Digest(r)) = Len(r.prev) + 1
  BY <1>1, AppendProperties DEF Digest
<1>3. QED
  BY <1>1, <1>2, LenProperties DEF Digests, NoDigest

\* Two receipts with the same digest are the same receipt, the hash being
\* idealised as injective.
LEMMA DigestInjective ==
  ASSUME NEW r \in Receipts, NEW s \in Receipts, Digest(r) = Digest(s)
  PROVE  r = s
<1>1. /\ r.prev \in Seq(Nat \X Bodies) /\ <<r.seq, r.body>> \in Nat \X Bodies
      /\ s.prev \in Seq(Nat \X Bodies) /\ <<s.seq, s.body>> \in Nat \X Bodies
  BY DEF Receipts, Digests
<1>2. r.prev = s.prev /\ <<r.seq, r.body>> = <<s.seq, s.body>>
  <2>1. Append(r.prev, <<r.seq, r.body>>) = Append(s.prev, <<s.seq, s.body>>)
    BY DEF Digest
  <2> DEFINE step == Nat \X Bodies
  <2>2. \A e, f \in step : \A p, q \in Seq(step) :
          Append(p, e) = Append(q, f) => p = q /\ e = f
    BY AppendInjective
  <2> HIDE DEF step
  <2>3. QED
    BY <1>1, <2>1, <2>2, Zenon DEF step
<1>3. QED
  BY <1>2 DEF Receipts

\* What emit_receipt builds after a receipt, or at the start, is a receipt.
LEMMA BuildType ==
  ASSUME NEW last \in Receipts \union {NoReceipt}, NEW b \in Bodies
  PROVE  Build(last, b) \in Receipts
<1>1. CASE last = NoReceipt
  BY <1>1 DEF Build, Receipts, Digests, NoDigest
<1>2. CASE last # NoReceipt
  <2>1. last \in Receipts /\ last.seq \in Nat /\ Digest(last) \in Digests
    BY <1>2, DigestType DEF Receipts
  <2>2. QED
    BY <2>1, <1>2 DEF Build, Receipts
<1>3. QED
  BY <1>1, <1>2
-------------------------------------------------------------------------------
(* Chains that grow and are cut *)

\* r is the entry that a ledger l goes on with.
Follows(r, l) ==
  r.seq = Len(l) /\ r.prev = (IF l = << >> THEN NoDigest ELSE Digest(LastOf(l)))

\* What emit_receipt builds on the last entry of a chain follows the chain.
LEMMA BuildFollows ==
  ASSUME NEW l \in Seq(Lines), UpToDamage(l), LastOf(l) # Garbage, NEW b \in Bodies
  PROVE  Follows(Build(LastOf(l), b), l)
<1>1. CASE l = << >>
  BY <1>1 DEF Follows, Build, LastOf
<1>2. CASE l # << >>
  <2>1. Len(l) \in 1 .. Len(l)
    BY <1>2, EmptySeq
  <2>2. LastOf(l) = l[Len(l)] /\ l[Len(l)] \in Receipts /\ LastOf(l) # NoReceipt
    BY <1>2, <2>1, ElementOfSeq, NoReceiptIsApart DEF LastOf, Lines
  <2>3. l[Len(l)].seq = Len(l) - 1
    BY <2>1, <2>2 DEF UpToDamage, ChainedAt
  <2>4. QED
    BY <1>2, <2>1, <2>2, <2>3 DEF Follows, Build
<1>3. QED
  BY <1>1, <1>2

\* A line that follows an undamaged ledger, or an unreadable one, leaves a
\* ledger that is a chain up to its damage.
LEMMA AppendKeepsChain ==
  ASSUME NEW l \in Seq(Lines), UpToDamage(l), LastOf(l) # Garbage,
         NEW x \in Lines, x # Garbage => Follows(x, l)
  PROVE  UpToDamage(Append(l, x))
<1> DEFINE m == Append(l, x)
<1>1. Len(m) = Len(l) + 1 /\ m[Len(l) + 1] = x /\ \A i \in 1 .. Len(l) : m[i] = l[i]
  BY AppendProperties
<1>2. Len(l) \in Nat
  BY LenProperties
<1> HIDE DEF m
<1>3. SUFFICES ASSUME NEW i \in 1 .. Len(m)
               PROVE  IF m[i] = Garbage THEN i = Len(m) ELSE ChainedAt(m, i)
  BY DEF UpToDamage, m
<1>4. CASE i <= Len(l)
  <2>1. l # << >> /\ i \in 1 .. Len(l)
    BY <1>4, <1>3, <1>2, <1>1
  <2>2. l[i] # Garbage
    BY <2>1, <1>2 DEF UpToDamage, LastOf
  <2>3. ChainedAt(l, i)
    BY <2>1, <2>2 DEF UpToDamage
  <2>4. m[i] = l[i] /\ (i # 1 => m[i - 1] = l[i - 1])
    BY <1>1, <1>2, <2>1
  <2>5. QED
    BY <2>2, <2>3, <2>4 DEF ChainedAt
<1>5. CASE i = Len(l) + 1
  <2>1. CASE x = Garbage
    BY <1>5, <1>1, <2>1
  <2>2. CASE x # Garbage /\ l = << >>
    BY <1>5, <1>1, <2>2 DEF ChainedAt, Follows
  <2>3. CASE x # Garbage /\ l # << >>
    <3>1. Len(l) >= 1 /\ m[i - 1] = l[Len(l)] /\ LastOf(l) = l[Len(l)]
      BY <1>5, <1>1, <1>2, <2>3, EmptySeq DEF LastOf
    <3>2. QED
      BY <1>5, <1>1, <1>2, <2>3, <3>1 DEF ChainedAt, Follows
  <2>4. QED
    BY <2>1, <2>2, <2>3
<1>6. QED
  BY <1>1, <1>2, <1>3, <1>4, <1>5

\* The lines before line n + 1 of such a ledger are an undamaged chain, and the
\* line cut off, if it is an entry, follows them.
LEMMA CutKeepsChain ==
  ASSUME NEW l \in Seq(Lines), UpToDamage(l), NEW n \in 0 .. Len(l) - 1
  PROVE  /\ UpToDamage(SubSeq(l, 1, n))
         /\ LastOf(SubSeq(l, 1, n)) # Garbage
         /\ l[n + 1] # Garbage => Follows(l[n + 1], SubSeq(l, 1, n))
<1> DEFINE m == SubSeq(l, 1, n)
<1>1. Len(l) \in Nat /\ \A i \in 1 .. n : l[i] \in Lines
  BY ElementOfSeq, LenProperties
<1>2. /\ m \in Seq(Lines) /\ Len(m) = n
      /\ \A i \in 1 .. n : m[i] = l[i]
  <2>1. /\ m \in Seq(Lines)
        /\ Len(m) = IF 1 <= n THEN n - 1 + 1 ELSE 0
        /\ \A i \in 1 .. n - 1 + 1 : m[i] = l[1 + i - 1]
    BY <1>1, SubSeqProperties
  <2>2. QED
    BY <2>1, <1>1
<1> HIDE DEF m
<1>3. \A i \in 1 .. n : l[i] # Garbage /\ ChainedAt(l, i)
  BY <1>1 DEF UpToDamage
<1>4. UpToDamage(m)
  <2>1. SUFFICES ASSUME NEW i \in 1 .. n PROVE m[i] # Garbage /\ ChainedAt(m, i)
    BY <1>2 DEF UpToDamage
  <2>2. m[i] = l[i] /\ (i # 1 => m[i - 1] = l[i - 1])
    BY <1>2
  <2>3. l[i] # Garbage /\ ChainedAt(l, i)
    BY <1>3
  <2>4. QED
    BY <2>2, <2>3 DEF ChainedAt
<1>5. m = << >> <=> n = 0
  BY <1>2, EmptySeq
<1>6. LastOf(m) # Garbage
  BY <1>2, <1>3, <1>5, NoReceiptIsApart DEF LastOf
<1>7. ASSUME l[n + 1] # Garbage PROVE Follows(l[n + 1], m)
  <2>1. ChainedAt(l, n + 1)
    BY <1>1, <1>7 DEF UpToDamage
  <2>2. CASE n = 0
    BY <2>1, <2>2, <1>2, <1>5 DEF ChainedAt, Follows
  <2>3. CASE n # 0
    <3>1. LastOf(m) = l[n]
      BY <2>3, <1>2, <1>5 DEF LastOf
    <3>2. QED
      BY <2>1, <2>3, <1>2, <1>5, <3>1 DEF ChainedAt, Follows
  <2>4. QED
    BY <2>2, <2>3
<1>8. QED
  BY <1>4, <1>6, <1>7 DEF m

\* A receipt that follows a chain is the one emit_receipt builds from its body.
LEMMA FollowsIsBuild ==
  ASSUME NEW l \in Seq(Receipts), WellChained(l), NEW r \in Receipts, Follows(r, l)
  PROVE  r = Build(LastOf(l), r.body)
<1>1. CASE l = << >>
  BY <1>1 DEF Follows, Build, LastOf, Receipts
<1>2. CASE l # << >>
  <2>1. Len(l) \in 1 .. Len(l)
    BY <1>2, EmptySeq
  <2>2. LastOf(l) = l[Len(l)] /\ l[Len(l)] \in Receipts /\ LastOf(l) # NoReceipt
    BY <1>2, <2>1, ElementOfSeq, NoReceiptIsApart DEF LastOf
  <2>3. l[Len(l)].seq = Len(l) - 1
    BY <2>1 DEF WellChained, ChainedAt
  <2>4. r.seq = LastOf(l).seq + 1 /\ r.prev = Digest(LastOf(l))
    BY <1>2, <2>1, <2>2, <2>3 DEF Follows
  <2>5. QED
    BY <2>2, <2>4 DEF Build, Receipts
<1>3. QED
  BY <1>1, <1>2
===============================================================================
