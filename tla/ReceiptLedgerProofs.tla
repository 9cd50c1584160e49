-------------------------- MODULE ReceiptLedgerProofs --------------------------
(***************************************************************************)
(* Theorems about emit_receipt, for any number of emitters and calls.      *)
(***************************************************************************)
EXTENDS ReceiptLedger, ReceiptTheorems

-------------------------------------------------------------------------------
(* The file *)

\* The unterminated bytes read as a receipt or as no JSON at all.
LEMMA ParseType ==
  ASSUME NEW f \in Seq(Pieces)
  PROVE  Parse(f) \in Lines
<1>1. CASE Len(f) = 2
  <2>1. f[1] \in Pieces
    BY <1>1, ElementOfSeq
  <2>2. QED
    BY <2>1 DEF Parse, Pieces, Lines
<1>2. CASE Len(f) # 2
  BY <1>2 DEF Parse, Lines
<1>3. QED
  BY <1>1, <1>2

\* What a reader gets is a sequence of lines.
LEMMA ReadableType ==
  ASSUME lines \in Seq(Lines), frag \in Seq(Pieces)
  PROVE  Readable \in Seq(Lines)
<1>1. CASE frag = << >>
  BY <1>1 DEF Readable
<1>2. CASE frag # << >>
  BY <1>2, ParseType, AppendProperties DEF Readable
<1>3. QED
  BY <1>1, <1>2

\* The last line of a file is a line, or there is none.
LEMMA LastOfType ==
  ASSUME NEW l \in Seq(Lines)
  PROVE  LastOf(l) \in Lines \union {NoReceipt}
<1>1. CASE l = << >>
  BY <1>1 DEF LastOf
<1>2. CASE l # << >>
  <2>1. Len(l) \in 1 .. Len(l)
    BY <1>2, EmptySeq
  <2>2. QED
    BY <1>2, <2>1, ElementOfSeq DEF LastOf
<1>3. QED
  BY <1>1, <1>2

\* A piece that reaches the file leaves a file.
LEMMA PutType ==
  ASSUME lines \in Seq(Lines), frag \in Seq(Pieces),
         NEW r \in Receipts, NEW k \in 1 .. PieceCount, Put(r, k)
  PROVE  lines' \in Seq(Lines) /\ frag' \in Seq(Pieces)
<1>1. CASE k < PieceCount
  <2>1. Piece(r, k) \in Pieces
    BY <1>1 DEF Piece, Pieces, PieceCount
  <2>2. QED
    BY <1>1, <2>1, AppendProperties DEF Put
<1>2. CASE ~(k < PieceCount)
  BY <1>2, ReadableType, EmptySeq DEF Put
<1>3. QED
  BY <1>1, <1>2

\* A prefix of a sequence is a sequence.
LEMMA PrefixType ==
  ASSUME NEW S, NEW f \in Seq(S), NEW g \in Prefixes(f)
  PROVE  g \in Seq(S)
<1>1. PICK n \in 0 .. Len(f) : g = SubSeq(f, 1, n)
  BY DEF Prefixes
<1>2. \A j \in 1 .. n : f[j] \in S
  BY ElementOfSeq, LenProperties
<1>3. QED
  BY <1>1, <1>2, SubSeqProperties

\* The text of a line is a sequence of pieces.
LEMMA TextType ==
  ASSUME NEW l \in Lines
  PROVE  Text(l) \in Seq(Pieces)
<1>1. CASE l = Garbage
  BY <1>1, EmptySeq DEF Text
<1>2. CASE l # Garbage
  <2>1. Piece(l, 1) \in Pieces /\ Piece(l, 2) \in Pieces
    BY <1>2 DEF Lines, Piece, Pieces
  <2>2. QED
    BY <1>2, <2>1 DEF Text
<1>3. QED
  BY <1>1, <1>2

\* Power loss leaves a file.
LEMMA PowerLossType ==
  ASSUME lines \in Seq(Lines), frag \in Seq(Pieces), PowerLoss
  PROVE  lines' \in Seq(Lines) /\ frag' \in Seq(Pieces)
<1>1. CASE frag' \in Prefixes(frag) /\ UNCHANGED lines
  BY <1>1, PrefixType
<1>2. ASSUME NEW n \in 0 .. Len(lines) - 1,
             lines' = SubSeq(lines, 1, n), frag' \in Prefixes(Text(lines[n + 1]))
      PROVE  lines' \in Seq(Lines) /\ frag' \in Seq(Pieces)
  <2>1. lines[n + 1] \in Lines
    BY ElementOfSeq, LenProperties
  <2>2. frag' \in Seq(Pieces)
    BY <1>2, <2>1, TextType, PrefixType
  <2>3. lines' \in Prefixes(lines)
    BY <1>2, LenProperties DEF Prefixes
  <2>4. QED
    BY <2>2, <2>3, PrefixType
<1>3. QED
  BY <1>1, <1>2 DEF PowerLoss

-------------------------------------------------------------------------------
(* Types and the lock *)

\* What each emitter's own variables say at each point of emit_receipt.
LocalOK ==
  \A e \in Emitters :
    /\ pc[e] \in {"idle", "opened", "locked"} =>
         draft[e] = NoReceipt /\ sent[e] = 0 /\ ~raised[e]
    /\ pc[e] = "writing" => draft[e] \in Receipts /\ sent[e] < PieceCount /\ ~raised[e]
    /\ pc[e] \in {"unlocking", "closing"} /\ ~raised[e] =>
         draft[e] \in Receipts /\ sent[e] = PieceCount
    /\ pc[e] # "idle" => calls[e] \in 1 .. MaxCalls

BaseInv == TypeOK /\ LocalOK /\ LockExclusive

LEMMA InitBase == Init => BaseInv
<1> SUFFICES ASSUME Init PROVE BaseInv
  OBVIOUS
<1>1. TypeOK
  BY LedgerConstants, EmptySeq DEF Init, TypeOK, Locations, PieceCount
<1>2. LocalOK
  BY DEF Init, LocalOK
<1>3. LockExclusive
  BY NoEmitterIsApart DEF Init, LockExclusive
<1>4. QED
  BY <1>1, <1>2, <1>3 DEF BaseInv

LEMMA StepBase == BaseInv /\ [Next]_vars => BaseInv'
<1> SUFFICES ASSUME BaseInv, [Next]_vars PROVE BaseInv'
  OBVIOUS
<1> USE DEF BaseInv, TypeOK, LocalOK, LockExclusive, Locations, PieceCount,
            Goto, file, local, budget
<1> USE NoEmitterIsApart, LedgerConstants, NoReceiptIsApart
<1>1. CASE UNCHANGED vars
  BY <1>1 DEF vars
<1>2. ASSUME NEW e \in Emitters, Call(e) PROVE BaseInv'
  BY <1>2 DEF Call
<1>3. ASSUME NEW e \in Emitters, Lock(e) PROVE BaseInv'
  BY <1>3 DEF Lock
<1>4. ASSUME NEW e \in Emitters, BuildRaises(e) PROVE BaseInv'
  BY <1>4 DEF BuildRaises
<1>5. ASSUME NEW e \in Emitters, BuildReceipt(e) PROVE BaseInv'
  <2>1. PICK b \in Bodies : draft' = [draft EXCEPT ![e] = Build(LastOf(Readable), b)]
    BY <1>5 DEF BuildReceipt
  <2>2. Build(LastOf(Readable), b) \in Receipts
    BY <1>5, ReadableType, LastOfType, BuildType DEF BuildReceipt, Lines
  <2>3. QED
    BY <1>5, <2>1, <2>2 DEF BuildReceipt
<1>6. ASSUME NEW e \in Emitters, Flush(e) PROVE BaseInv'
  <2>1. Put(draft[e], sent[e] + 1)
    BY <1>6, Zenon DEF Flush
  <2>2. draft[e] \in Receipts /\ sent[e] \in 0 .. PieceCount /\ sent[e] + 1 \in 1 .. PieceCount
    BY <1>6 DEF Flush
  <2>3. lines' \in Seq(Lines) /\ frag' \in Seq(Pieces)
    BY <2>1, <2>2, PutType
  <2>4. /\ UNCHANGED <<holder, draft, raised, calls, returned, writeErrors, crashes, powerLosses>>
        /\ pc[e] = "writing" /\ sent' = [sent EXCEPT ![e] = sent[e] + 1]
        /\ IF sent[e] + 1 = PieceCount THEN pc' = [pc EXCEPT ![e] = "unlocking"] ELSE pc' = pc
    BY <1>6, Zenon DEF Flush
  <2>5. pc' \in [Emitters -> Locations] /\ sent' \in [Emitters -> 0 .. PieceCount]
    <3>1. pc' = pc \/ pc' = [pc EXCEPT ![e] = "unlocking"]
      BY <2>4
    <3>2. pc \in [Emitters -> Locations] /\ "unlocking" \in Locations
      OBVIOUS
    <3>3. pc' \in [Emitters -> Locations]
      BY <3>1, <3>2, Zenon
    <3>4. sent' \in [Emitters -> 0 .. PieceCount]
      BY <2>2, <2>4
    <3>5. QED
      BY <3>3, <3>4
  <2>6. TypeOK'
    BY <2>3, <2>4, <2>5
  <2>7. LocalOK' /\ LockExclusive'
    BY <2>2, <2>4
  <2>8. QED
    BY <2>6, <2>7
<1>7. ASSUME NEW e \in Emitters, FlushFails(e) PROVE BaseInv'
  BY <1>7 DEF FlushFails
<1>8. ASSUME NEW e \in Emitters, Unlock(e) PROVE BaseInv'
  BY <1>8 DEF Unlock
<1>9. ASSUME NEW e \in Emitters, CloseFlush(e) PROVE BaseInv'
  <2>1. Put(draft[e], sent[e] + 1)
    BY <1>9, Zenon DEF CloseFlush, Pending
  <2>2. draft[e] \in Receipts /\ sent[e] \in 0 .. PieceCount /\ sent[e] + 1 \in 1 .. PieceCount
    BY <1>9 DEF CloseFlush, Pending
  <2>3. lines' \in Seq(Lines) /\ frag' \in Seq(Pieces)
    BY <2>1, <2>2, PutType
  <2>4. /\ UNCHANGED <<holder, pc, draft, raised, calls, returned,
                        writeErrors, crashes, powerLosses>>
        /\ pc[e] = "closing" /\ sent' = [sent EXCEPT ![e] = sent[e] + 1]
        /\ sent[e] < PieceCount
    BY <1>9, Zenon DEF CloseFlush, Pending
  <2>5. TypeOK'
    BY <2>2, <2>3, <2>4
  <2>6. LocalOK' /\ LockExclusive'
    BY <2>2, <2>4
  <2>7. QED
    BY <2>5, <2>6
<1>10. ASSUME NEW e \in Emitters, CloseDrops(e) PROVE BaseInv'
  BY <1>10 DEF CloseDrops, Reset
<1>11. ASSUME NEW e \in Emitters, Finish(e) PROVE BaseInv'
  BY <1>11 DEF Finish, Reset
<1>12. ASSUME NEW e \in Emitters, Crash(e) PROVE BaseInv'
  <2>1. TypeOK'
    BY <1>12 DEF Crash, Reset
  <2>2. LocalOK'
    BY <1>12 DEF Crash, Reset
  <2>3. LockExclusive'
    BY <1>12 DEF Crash, Reset
  <2>4. QED
    BY <2>1, <2>2, <2>3
<1>13. CASE PowerLoss
  <2>1. lines' \in Seq(Lines) /\ frag' \in Seq(Pieces)
    BY <1>13, PowerLossType
  <2>2. TypeOK'
    BY <1>13, <2>1 DEF PowerLoss
  <2>3. LocalOK' /\ LockExclusive'
    BY <1>13 DEF PowerLoss
  <2>4. QED
    BY <2>2, <2>3
<1>14. QED
  BY <1>1, <1>2, <1>3, <1>4, <1>5, <1>6, <1>7, <1>8, <1>9, <1>10, <1>11, <1>12, <1>13
  DEF Next, Step

\* Type correctness and mutual exclusion of the locked section of emit_receipt,
\* whatever fails: the lock is taken before the tail is read and released on
\* every path out.
THEOREM LockSafety == Spec => [](TypeOK /\ LockExclusive)
<1>1. BaseInv => TypeOK /\ LockExclusive
  BY DEF BaseInv
<1>2. QED
  BY <1>1, InitBase, StepBase, PTL DEF Spec

-------------------------------------------------------------------------------
(* The chain, when the lock works, until a write fails *)

\* An exception comes from before the write: nothing is left to flush on close.
NothingPending == \A e \in Emitters : raised[e] => draft[e] = NoReceipt

\* If the first two pieces of f are the text of a receipt, it follows l.
HeadFollows(f, l) ==
  Len(f) >= 2 /\ f[1].part = 1 /\ f[2] = Piece(f[1].of, 2) => Follows(f[1].of, l)

\* Only an undamaged ledger has unterminated bytes after its last line.
FragOK == frag # << >> => LastOf(lines) # Garbage /\ HeadFollows(frag, lines)

\* An emitter writes after an undamaged ledger: either right after its last
\* line, and then a receipt that follows it, or after the whole text of an entry
\* that lost its newline.
WritersOK ==
  \A e \in Emitters : pc[e] = "writing" =>
    /\ LastOf(lines) # Garbage
    /\ sent[e] = 0 => \/ frag = << >> /\ Follows(draft[e], lines)
                     \/ Len(frag) = 2
    /\ sent[e] = 1 => \/ /\ Len(frag) = 1 /\ frag[1] = Piece(draft[e], 1)
                        /\ Follows(draft[e], lines)
                     \/ Len(frag) = 3

\* (Used below with the definition of ChainUpToDamage, which says it while no
\* write has failed.)
Unbroken == UpToDamage(lines)

ChainInv == Unbroken /\ NothingPending /\ FragOK /\ WritersOK

\* With the lock, at most one emitter is in the locked section.
LEMMA OneWriter ==
  ASSUME HasFcntl, LockExclusive,
         NEW e \in Emitters, NEW d \in Emitters,
         pc[e] \in {"locked", "writing", "unlocking"},
         pc[d] \in {"locked", "writing", "unlocking"}
  PROVE  d = e
BY DEF LockExclusive

\* A call closes its file with an empty buffer.
LEMMA NoneLeft ==
  ASSUME BaseInv, NothingPending, NEW e \in Emitters, pc[e] = "closing"
  PROVE  ~Pending(e)
BY DEF BaseInv, LocalOK, TypeOK, NothingPending, Pending, PieceCount

\* What a reader finds at the end of the file is the last line or the entry that
\* the unterminated bytes are.
LEMMA LastReadable ==
  ASSUME lines \in Seq(Lines), frag \in Seq(Pieces)
  PROVE  LastOf(Readable) = IF frag = << >> THEN LastOf(lines) ELSE Parse(frag)
<1>1. CASE frag = << >>
  BY <1>1 DEF Readable
<1>2. CASE frag # << >>
  BY <1>2, ParseType, AppendProperties, LenProperties DEF Readable, LastOf
<1>3. QED
  BY <1>1, <1>2

\* Reading the tail and building the receipt.
LEMMA BuildKeepsChain ==
  ASSUME HasFcntl, BaseInv, ChainInv, NEW e \in Emitters, BuildReceipt(e)
  PROVE  ChainInv'
<1> USE DEF BaseInv, TypeOK, ChainInv
<1>1. /\ pc[e] = "locked" /\ pc' = [pc EXCEPT ![e] = "writing"]
      /\ UNCHANGED <<lines, frag, sent, raised>>
      /\ LastOf(Readable) # Garbage
  BY DEF BuildReceipt, Goto, file
<1>2. PICK b \in Bodies : draft' = [draft EXCEPT ![e] = Build(LastOf(Readable), b)]
  BY DEF BuildReceipt
<1>3. sent[e] = 0 /\ ~raised[e]
  BY <1>1 DEF LocalOK
<1>4. LastOf(Readable) = IF frag = << >> THEN LastOf(lines) ELSE Parse(frag)
  BY LastReadable
<1>5. LastOf(lines) # Garbage
  BY <1>1, <1>4 DEF FragOK
<1>6. \/ frag = << >> /\ Follows(Build(LastOf(Readable), b), lines)
      \/ Len(frag) = 2
  <2>1. CASE frag = << >>
    BY <2>1, <1>4, <1>5, BuildFollows DEF Unbroken
  <2>2. CASE frag # << >>
    BY <2>2, <1>1, <1>4 DEF Parse
  <2>3. QED
    BY <2>1, <2>2
<1>7. \A d \in Emitters \ {e} : pc'[d] = pc[d] /\ draft'[d] = draft[d]
  BY <1>1, <1>2
<1>8. pc'[e] = "writing" /\ draft'[e] = Build(LastOf(Readable), b)
  BY <1>1, <1>2
<1>9. Unbroken' /\ FragOK'
  BY <1>1 DEF Unbroken, FragOK
<1>10. NothingPending'
  BY <1>1, <1>3, <1>7 DEF NothingPending
<1>11. WritersOK'
  BY <1>1, <1>3, <1>5, <1>6, <1>7, <1>8 DEF WritersOK
<1>12. QED
  BY <1>9, <1>10, <1>11

\* One more piece of the receipt reaches the file, under the lock.
LEMMA FlushKeepsChain ==
  ASSUME HasFcntl, BaseInv, ChainInv, NEW e \in Emitters, Flush(e)
  PROVE  ChainInv'
<1> USE DEF BaseInv, ChainInv
<1>1. Put(draft[e], sent[e] + 1)
  BY Zenon DEF Flush
<1>2. /\ pc[e] = "writing" /\ sent' = [sent EXCEPT ![e] = @ + 1]
      /\ UNCHANGED <<draft, raised>>
      /\ \A d \in Emitters \ {e} : pc'[d] = pc[d]
  BY DEF Flush, Goto, TypeOK
<1>3. /\ draft[e] \in Receipts /\ ~raised[e] /\ sent[e] \in 0 .. 2
      /\ lines \in Seq(Lines) /\ frag \in Seq(Pieces)
  BY <1>2 DEF TypeOK, LocalOK, PieceCount
<1>4. \A d \in Emitters : pc[d] = "writing" => d = e
  BY <1>2, OneWriter
<1>5. \A d \in Emitters \ {e} : pc'[d] # "writing"
  BY <1>2, <1>4
<1>6. /\ LastOf(lines) # Garbage
      /\ sent[e] = 0 => (frag = << >> /\ Follows(draft[e], lines)) \/ Len(frag) = 2
      /\ sent[e] = 1 => \/ /\ Len(frag) = 1 /\ frag[1] = Piece(draft[e], 1)
                          /\ Follows(draft[e], lines)
                       \/ Len(frag) = 3
  BY <1>2 DEF WritersOK
<1>7. sent'[e] = sent[e] + 1
  BY <1>2, <1>3 DEF TypeOK
<1>8. NothingPending'
  BY <1>2 DEF NothingPending
<1>9. CASE sent[e] < 2
  <2>1. lines' = lines /\ frag' = Append(frag, Piece(draft[e], sent[e] + 1))
    BY <1>1, <1>3, <1>9 DEF Put, PieceCount
  <2>2. Piece(draft[e], sent[e] + 1) \in Pieces
    BY <1>3, <1>9 DEF Piece, Pieces
  <2>3. /\ Len(frag') = Len(frag) + 1 /\ frag' # << >>
        /\ frag'[Len(frag) + 1] = Piece(draft[e], sent[e] + 1)
        /\ \A k \in 1 .. Len(frag) : frag'[k] = frag[k]
    BY <2>1, <2>2, <1>3, AppendProperties
  <2>4. Len(frag) \in Nat
    BY <1>3, LenProperties
  <2>5. HeadFollows(frag', lines)
    <3>1. CASE Len(frag) >= 2
      <4>1. frag # << >>
        BY <3>1
      <4>2. QED
        BY <4>1, <3>1, <2>3, <2>4 DEF HeadFollows, FragOK
    <3>2. CASE Len(frag) = 1 /\ sent[e] = 1
      <4>1. frag'[1] = Piece(draft[e], 1) /\ Follows(draft[e], lines)
        BY <3>2, <2>3, <1>6
      <4>2. QED
        BY <4>1 DEF HeadFollows, Piece
    <3>3. CASE Len(frag) = 1 /\ sent[e] = 0
      BY <3>3, <1>6
    <3>4. CASE Len(frag) = 0
      BY <3>4, <2>3 DEF HeadFollows
    <3>5. Len(frag) >= 2 \/ Len(frag) = 1 \/ Len(frag) = 0
      BY <2>4
    <3>6. sent[e] = 0 \/ sent[e] = 1
      BY <1>3, <1>9
    <3>7. QED
      BY <3>1, <3>2, <3>3, <3>4, <3>5, <3>6, Zenon
  <2>6. FragOK'
    BY <2>1, <2>5, <1>6 DEF FragOK
  <2>7. Unbroken'
    BY <2>1 DEF Unbroken
  <2>8. WritersOK'
    <3>1. CASE sent[e] = 0
      <4>1. sent'[e] = 1 /\ draft'[e] = draft[e]
        BY <3>1, <1>2, <1>7
      <4>2. CASE frag = << >>
        <5>1. Len(frag) = 0
          BY <4>2
        <5>2. Len(frag') = 1 /\ frag'[1] = Piece(draft[e], 1) /\ Follows(draft[e], lines)
          BY <5>1, <4>2, <3>1, <2>3, <1>6
        <5>3. QED
          BY <5>2, <4>1, <1>5, <1>6, <2>1 DEF WritersOK
      <4>3. CASE Len(frag) = 2
        BY <4>1, <4>3, <2>3, <1>5, <1>6, <2>1 DEF WritersOK
      <4>4. QED
        BY <3>1, <4>2, <4>3, <1>6
    <3>2. CASE sent[e] = 1
      <4>1. sent'[e] = 2
        BY <3>2, <1>7
      <4>2. QED
        BY <4>1, <1>5, <1>6, <2>1 DEF WritersOK
    <3>3. QED
      BY <3>1, <3>2, <1>3, <1>9
  <2>9. QED
    BY <1>8, <2>6, <2>7, <2>8
<1>10. CASE sent[e] = 2
  <2>1. lines' = Readable /\ frag' = << >>
    BY <1>1, <1>10 DEF Put, PieceCount
  <2>2. Unbroken'
    <3>1. CASE frag = << >>
      BY <3>1, <2>1 DEF Readable, Unbroken
    <3>2. CASE frag # << >>
      <4>1. Parse(frag) \in Lines
        BY <1>3, ParseType
      <4>2. Parse(frag) # Garbage => Follows(Parse(frag), lines)
        BY <3>2 DEF Parse, FragOK, HeadFollows
      <4>3. QED
        BY <4>1, <4>2, <3>2, <2>1, <1>3, <1>6, AppendKeepsChain DEF Readable, Unbroken
    <3>3. QED
      BY <3>1, <3>2
  <2>3. FragOK'
    BY <2>1 DEF FragOK
  <2>4. pc'[e] # "writing"
    BY <1>2, <1>10 DEF Flush, Goto, PieceCount, TypeOK
  <2>5. WritersOK'
    BY <2>4, <1>5 DEF WritersOK
  <2>6. QED
    BY <1>8, <2>2, <2>3, <2>5
<1>11. QED
  BY <1>3, <1>9, <1>10

\* Whatever prefix of the file survives the loss of power.
LEMMA PowerLossKeepsChain ==
  ASSUME BaseInv, ChainInv, PowerLoss
  PROVE  ChainInv'
<1> USE DEF BaseInv, ChainInv
<1>1. lines \in Seq(Lines) /\ frag \in Seq(Pieces)
  BY DEF TypeOK
<1>2. \A e \in Emitters : pc'[e] = "idle" /\ ~raised'[e]
  BY DEF PowerLoss
<1>3. NothingPending' /\ WritersOK'
  BY <1>2 DEF NothingPending, WritersOK
<1>4. CASE frag' \in Prefixes(frag) /\ lines' = lines
  <2>1. PICK n \in 0 .. Len(frag) : frag' = SubSeq(frag, 1, n)
    BY <1>4 DEF Prefixes
  <2>2. Len(frag) \in Nat /\ \A k \in 1 .. n : frag[k] \in Pieces
    BY <1>1, ElementOfSeq, LenProperties
  <2>3. /\ Len(frag') = IF 1 <= n THEN n - 1 + 1 ELSE 0
        /\ \A k \in 1 .. n - 1 + 1 : frag'[k] = frag[1 + k - 1]
    BY <2>1, <2>2, SubSeqProperties
  <2>4. Len(frag') = n /\ \A k \in 1 .. n : frag'[k] = frag[k]
    BY <2>2, <2>3
  <2>5. frag' # << >> => frag # << >>
    BY <2>1, <2>2, SubSeqEmpty
  <2>6. HeadFollows(frag, lines) => HeadFollows(frag', lines)
    BY <2>2, <2>4 DEF HeadFollows
  <2>7. QED
    BY <1>3, <1>4, <2>5, <2>6 DEF FragOK, Unbroken
<1>5. ASSUME NEW n \in 0 .. Len(lines) - 1,
             lines' = SubSeq(lines, 1, n), frag' \in Prefixes(Text(lines[n + 1]))
      PROVE  ChainInv'
  <2>1. /\ UpToDamage(lines')
        /\ LastOf(lines') # Garbage
        /\ lines[n + 1] # Garbage => Follows(lines[n + 1], lines')
    BY <1>1, <1>5, CutKeepsChain DEF Unbroken
  <2>2. HeadFollows(frag', lines')
    <3>1. PICK t \in 0 .. Len(Text(lines[n + 1])) : frag' = SubSeq(Text(lines[n + 1]), 1, t)
      BY <1>5 DEF Prefixes
    <3>2. CASE lines[n + 1] = Garbage
      <4>1. Text(lines[n + 1]) = << >>
        BY <3>2 DEF Text
      <4>2. frag' = << >>
        BY <3>1, <4>1
      <4>3. QED
        BY <4>2 DEF HeadFollows
    <3>3. CASE lines[n + 1] # Garbage
      <4> DEFINE r == lines[n + 1]
      <4>1. Text(r) = <<Piece(r, 1), Piece(r, 2)>>
        BY <3>3 DEF Text
      <4>2. frag' = SubSeq(<<Piece(r, 1), Piece(r, 2)>>, 1, t) /\ t \in 0 .. 2
        BY <3>1, <4>1
      <4>3. Len(frag') = t /\ (t >= 1 => frag'[1] = Piece(r, 1))
        BY <4>2
      <4>4. QED
        BY <4>3, <3>3, <2>1 DEF HeadFollows, Piece
    <3>4. QED
      BY <3>2, <3>3
  <2>3. QED
    BY <1>3, <2>1, <2>2 DEF FragOK, Unbroken
<1>6. QED
  BY <1>4, <1>5 DEF PowerLoss

LEMMA InitChain == Init => ChainInv
<1> SUFFICES ASSUME Init PROVE ChainInv
  OBVIOUS
<1>1. Unbroken
  BY DEF Init, Unbroken, UpToDamage
<1>2. QED
  BY <1>1 DEF Init, ChainInv, NothingPending, FragOK, WritersOK

LEMMA StepChain ==
  ASSUME HasFcntl
  PROVE  BaseInv /\ ChainInv /\ [Next]_vars /\ writeErrors' = 0 => ChainInv'
<1> SUFFICES ASSUME BaseInv, ChainInv, [Next]_vars, writeErrors' = 0 PROVE ChainInv'
  OBVIOUS
<1>1. ASSUME UNCHANGED <<lines, frag>>,
             \A e \in Emitters :
               /\ pc'[e] = "writing" =>
                    pc[e] = "writing" /\ draft'[e] = draft[e] /\ sent'[e] = sent[e]
               /\ raised'[e] => draft'[e] = NoReceipt
      PROVE  ChainInv'
  BY <1>1 DEF ChainInv, Unbroken, NothingPending, FragOK, WritersOK
<1> USE DEF TypeOK, Goto, file, BaseInv
<1>2. CASE UNCHANGED vars
  BY <1>1, <1>2 DEF vars, ChainInv, NothingPending
<1>3. ASSUME NEW e \in Emitters, Call(e) PROVE ChainInv'
  BY <1>1, <1>3 DEF Call, ChainInv, NothingPending
<1>4. ASSUME NEW e \in Emitters, Lock(e) PROVE ChainInv'
  BY <1>1, <1>4 DEF Lock, ChainInv, NothingPending
<1>5. ASSUME NEW e \in Emitters, BuildRaises(e) PROVE ChainInv'
  BY <1>1, <1>5 DEF BuildRaises, LocalOK, ChainInv, NothingPending
<1>6. ASSUME NEW e \in Emitters, BuildReceipt(e) PROVE ChainInv'
  BY <1>6, BuildKeepsChain
<1>7. ASSUME NEW e \in Emitters, Flush(e) PROVE ChainInv'
  BY <1>7, FlushKeepsChain
<1>8. ASSUME NEW e \in Emitters, FlushFails(e) PROVE ChainInv'
  BY <1>8 DEF FlushFails
<1>9. ASSUME NEW e \in Emitters, Unlock(e) PROVE ChainInv'
  BY <1>1, <1>9 DEF Unlock, ChainInv, NothingPending
<1>10. ASSUME NEW e \in Emitters, CloseFlush(e) PROVE ChainInv'
  BY <1>10, NoneLeft DEF CloseFlush, ChainInv
<1>11. ASSUME NEW e \in Emitters, CloseDrops(e) PROVE ChainInv'
  BY <1>11, NoneLeft DEF CloseDrops, ChainInv
<1>12. ASSUME NEW e \in Emitters, Finish(e) PROVE ChainInv'
  BY <1>1, <1>12 DEF Finish, Reset, ChainInv, NothingPending
<1>13. ASSUME NEW e \in Emitters, Crash(e) PROVE ChainInv'
  BY <1>1, <1>13 DEF Crash, Reset, ChainInv, NothingPending
<1>14. CASE PowerLoss
  BY <1>14, PowerLossKeepsChain
<1>15. QED
  BY <1>2, <1>3, <1>4, <1>5, <1>6, <1>7, <1>8, <1>9, <1>10, <1>11, <1>12, <1>13, <1>14
  DEF Next, Step

\* Failing writes are counted and never taken back.
LEMMA NoErrorUndone ==
  ASSUME BaseInv, [Next]_vars, writeErrors' = 0
  PROVE  writeErrors = 0
BY DEF BaseInv, TypeOK, Next, Step, Call, Lock, BuildRaises, BuildReceipt, Flush, FlushFails,
       Unlock, CloseFlush, CloseDrops, Finish, Crash, PowerLoss, budget, vars

\* However many emitters run, crash or lose power: as long as the lock exists and
\* no write has failed, the lines of the ledger are one unbroken chain, except
\* perhaps an unreadable last line after which nothing is ever appended.
THEOREM ChainSurvivesFaults ==
  ASSUME HasFcntl
  PROVE  Spec => []ChainUpToDamage
<1> DEFINE FaultInv == BaseInv /\ (writeErrors = 0 => ChainInv)
<1>1. Init => FaultInv
  BY InitBase, InitChain
<1>2. FaultInv /\ [Next]_vars => FaultInv'
  BY StepBase, StepChain, NoErrorUndone
<1>3. FaultInv => ChainUpToDamage
  BY DEF ChainInv, Unbroken, ChainUpToDamage
<1> HIDE DEF FaultInv
<1>4. QED
  BY <1>1, <1>2, <1>3, PTL DEF Spec

\* With the lock, a number can only be on the ledger twice if a write failed: kills
\* and power losses alone never repeat one.
THEOREM DuplicatesNeedAFailedWrite ==
  ASSUME HasFcntl
  PROVE  Spec => [](writeErrors = 0 => NoDuplicateSeq)
<1>1. ASSUME TypeOK, ChainUpToDamage, writeErrors = 0 PROVE NoDuplicateSeq
  <2> SUFFICES ASSUME NEW i \in 1 .. Len(lines), NEW j \in 1 .. Len(lines),
                      lines[i] \in Receipts, lines[j] \in Receipts, lines[i].seq = lines[j].seq
               PROVE  i = j
    BY DEF NoDuplicateSeq
  <2>1. lines[i] # Garbage /\ lines[j] # Garbage
    BY GarbageIsNoReceipt
  <2>2. lines[i].seq = i - 1 /\ lines[j].seq = j - 1
    BY <1>1, <2>1 DEF ChainUpToDamage, UpToDamage, ChainedAt
  <2>n. Len(lines) \in Nat
    BY <1>1, LenProperties DEF TypeOK
  <2>3. i \in Int /\ j \in Int /\ i - 1 = j - 1
    <3>1. i \in Int /\ j \in Int
      BY <2>n
    <3>2. i - 1 = lines[i].seq /\ j - 1 = lines[j].seq
      BY <2>2
    <3>3. QED
      BY <3>1, <3>2
  <2>4. QED
    BY <2>3
<1>2. Spec => []ChainUpToDamage
  BY ChainSurvivesFaults
<1>3. QED
  BY <1>1, <1>2, LockSafety, PTL

-------------------------------------------------------------------------------
(* Damage is terminal *)

\* Whoever is writing has a line in its buffer.
LEMMA WritersArePending ==
  ASSUME BaseInv, NEW e \in Emitters, pc[e] = "writing"
  PROVE  Pending(e)
BY NoReceiptIsApart DEF BaseInv, LocalOK, Pending

\* On a dead ledger no step but a power loss reaches the file or fills a buffer:
\* what an emitter could write it must first build, and building reads the tail.
LEMMA DamageStays ==
  ASSUME BaseInv, Dead, [Next]_vars, powerLosses' = powerLosses
  PROVE  Dead' /\ UNCHANGED file
<1>1. ASSUME UNCHANGED file,
             \A d \in Emitters :
               draft'[d] = NoReceipt \/ (draft'[d] = draft[d] /\ sent'[d] = sent[d])
      PROVE  Dead' /\ UNCHANGED file
  <2>1. UNCHANGED Readable
    BY <1>1 DEF file, Readable
  <2>2. \A d \in Emitters : ~Pending(d)'
    BY <1>1 DEF Dead, Pending
  <2>3. QED
    BY <1>1, <2>1, <2>2 DEF Dead, LastOf
<1>2. \A e \in Emitters : ~Pending(e) /\ pc[e] # "writing"
  BY WritersArePending DEF Dead
<1>3. /\ draft \in [Emitters -> Receipts \union {NoReceipt}]
      /\ sent \in [Emitters -> 0 .. PieceCount]
      /\ powerLosses \in Nat
  BY LedgerConstants DEF BaseInv, TypeOK
<1>4. ASSUME NEW e \in Emitters,
             Call(e) \/ Lock(e) \/ BuildRaises(e) \/ Unlock(e)
      PROVE  UNCHANGED <<file, draft, sent>>
  BY <1>4 DEF Call, Lock, BuildRaises, Unlock
<1>5. ASSUME NEW e \in Emitters,
             BuildReceipt(e) \/ Flush(e) \/ FlushFails(e) \/ CloseFlush(e) \/ CloseDrops(e)
      PROVE  FALSE
  BY <1>2, <1>5, Zenon DEF BuildReceipt, Flush, FlushFails, CloseFlush, CloseDrops, Dead
<1>6. ASSUME NEW e \in Emitters, Finish(e) \/ Crash(e)
      PROVE  /\ UNCHANGED file
             /\ \A d \in Emitters :
                  draft'[d] = NoReceipt \/ (draft'[d] = draft[d] /\ sent'[d] = sent[d])
  <2>1. UNCHANGED file /\ Reset(e)
    BY <1>6, Zenon DEF Finish, Crash
  <2>2. QED
    BY <1>3, <2>1 DEF Reset
<1>7. ~PowerLoss
  BY <1>3 DEF PowerLoss
<1>8. CASE UNCHANGED vars
  BY <1>1, <1>8 DEF vars, file
<1>9. QED
  BY <1>1, <1>4, <1>5, <1>6, <1>7, <1>8 DEF Next, Step

\* A damaged tail stops the ledger for good, for any number of emitters, with or
\* without the lock.
THEOREM DamageEndsTheLedger == Spec => DamageIsTerminal
<1>1. BaseInv /\ [Next]_vars =>
        [Dead /\ powerLosses' = powerLosses => Dead' /\ UNCHANGED file]_vars
  BY DamageStays
<1>2. QED
  BY <1>1, InitBase, StepBase, PTL DEF Spec, DamageIsTerminal

-------------------------------------------------------------------------------
(* The whole promise, when nothing fails *)

NoDamage == \A i \in 1 .. Len(lines) : lines[i] # Garbage

\* The bytes after the last line are what the one writer has sent so far.
FragIsDraft ==
  /\ \A e \in Emitters : pc[e] = "writing" =>
       /\ Follows(draft[e], lines)
       /\ sent[e] = 0 => frag = << >>
       /\ sent[e] = 1 => Len(frag) = 1 /\ frag[1] = Piece(draft[e], 1)
       /\ sent[e] = 2 =>
            Len(frag) = 2 /\ frag[1] = Piece(draft[e], 1) /\ frag[2] = Piece(draft[e], 2)
  /\ (\A e \in Emitters : pc[e] # "writing") => frag = << >>

\* Written, not yet returned.
Written(e) == pc[e] \in {"unlocking", "closing"} /\ ~raised[e]

OnLedger(r) == r.seq < Len(lines) /\ lines[r.seq + 1] = r

WrittenOnLedger == \A e \in Emitters : Written(e) => OnLedger(draft[e])

\* No two calls have written, or returned, receipts of the same number.
NoSequenceShared ==
  /\ \A d, e \in Emitters :
       Written(d) /\ Written(e) /\ draft[d].seq = draft[e].seq => d = e
  /\ \A e \in Emitters : \A c \in returned : Written(e) => c.receipt.seq # draft[e].seq

QuietInv ==
  /\ BaseInv /\ ChainInv
  /\ NoDamage /\ FragIsDraft
  /\ WrittenOnLedger /\ ReturnedOnLedger
  /\ NoSequenceShared /\ NoSequenceReuse

LEMMA InitQuiet == Init => QuietInv
<1> SUFFICES ASSUME Init PROVE QuietInv
  OBVIOUS
<1>1. BaseInv /\ ChainInv
  BY InitBase, InitChain
<1>2. NoDamage /\ FragIsDraft
  BY DEF Init, NoDamage, FragIsDraft
<1>3. WrittenOnLedger /\ ReturnedOnLedger /\ NoSequenceShared /\ NoSequenceReuse
  BY DEF Init, WrittenOnLedger, ReturnedOnLedger, NoSequenceShared, NoSequenceReuse, Written
<1>4. QED
  BY <1>1, <1>2, <1>3 DEF QuietInv

\* Undamaged lines are receipts, one unbroken chain.
LEMMA QuietChain ==
  ASSUME QuietInv
  PROVE  lines \in Seq(Receipts) /\ WellChained(lines)
<1>1. lines \in Seq(Lines)
  BY DEF QuietInv, BaseInv, TypeOK
<1>2. \A i \in 1 .. Len(lines) : lines[i] \in Receipts /\ ChainedAt(lines, i)
  BY <1>1, ElementOfSeq DEF QuietInv, ChainInv, Unbroken, UpToDamage, NoDamage, Lines
<1>3. QED
  BY <1>1, <1>2 DEF WellChained

\* The newline of a receipt adds exactly that receipt to the lines.
LEMMA FlushAdds ==
  ASSUME QuietInv, NEW e \in Emitters, Flush(e)
  PROVE  /\ sent[e] < 2 => lines' = lines
         /\ sent[e] = 2 => lines' = Append(lines, draft[e])
         /\ draft[e] \in Receipts /\ Follows(draft[e], lines)
<1>1. pc[e] = "writing" /\ Put(draft[e], sent[e] + 1)
  BY Zenon DEF Flush
<1>2. draft[e] \in Receipts /\ sent[e] \in 0 .. 2
  BY <1>1 DEF QuietInv, BaseInv, TypeOK, LocalOK, PieceCount
<1>3. /\ Follows(draft[e], lines)
      /\ sent[e] = 2 =>
           Len(frag) = 2 /\ frag[1] = Piece(draft[e], 1) /\ frag[2] = Piece(draft[e], 2)
  BY <1>1 DEF QuietInv, FragIsDraft
<1>4. CASE sent[e] < 2
  BY <1>1, <1>2, <1>3, <1>4 DEF Put, PieceCount
<1>5. CASE sent[e] = 2
  <2>1. Len(frag) = 2 /\ frag[1] = Piece(draft[e], 1) /\ frag[2] = Piece(draft[e], 2)
    BY <1>3, <1>5
  <2>2. frag # << >> /\ Parse(frag) = draft[e]
    BY <2>1 DEF Parse, Piece
  <2>3. lines' = Append(lines, draft[e])
    BY <1>1, <1>5, <2>2 DEF Put, PieceCount, Readable
  <2>4. QED
    BY <1>2, <1>3, <1>5, <2>3
<1>6. QED
  BY <1>2, <1>4, <1>5

\* Adding a receipt at the end moves nothing that is on the ledger.
LEMMA AppendKeepsOnLedger ==
  ASSUME lines \in Seq(Lines), NEW x \in Receipts, lines' = Append(lines, x),
         Follows(x, lines), NEW r \in Receipts, OnLedger(r) \/ r = x
  PROVE  r.seq < Len(lines') /\ lines'[r.seq + 1] = r /\ (OnLedger(r) => r.seq # x.seq)
<1>1. /\ Len(lines') = Len(lines) + 1 /\ lines'[Len(lines) + 1] = x
      /\ \A i \in 1 .. Len(lines) : lines'[i] = lines[i]
      /\ Len(lines) \in Nat
  BY AppendProperties, LenProperties DEF Lines
<1>2. r.seq \in Nat /\ x.seq = Len(lines)
  BY DEF Receipts, Follows
<1>3. QED
  BY <1>1, <1>2 DEF OnLedger

\* Reading the tail and building the receipt: it follows the chain.
LEMMA BuildKeepsQuiet ==
  ASSUME HasFcntl, QuietInv, BaseInv', ChainInv', NEW e \in Emitters, BuildReceipt(e)
  PROVE  QuietInv'
<1>1. TypeOK /\ LocalOK /\ LockExclusive /\ UpToDamage(lines)
  BY DEF QuietInv, BaseInv, ChainInv, Unbroken
<1>2. PICK b \in Bodies : draft' = [draft EXCEPT ![e] = Build(LastOf(Readable), b)]
  BY DEF BuildReceipt
<1>3. /\ pc[e] = "locked" /\ pc' = [pc EXCEPT ![e] = "writing"]
      /\ UNCHANGED <<lines, frag, sent, raised, returned>>
      /\ LastOf(Readable) # Garbage
  BY DEF BuildReceipt, Goto, file
<1>4. /\ \A d \in Emitters \ {e} : pc'[d] = pc[d] /\ draft'[d] = draft[d]
      /\ pc'[e] = "writing" /\ draft'[e] = Build(LastOf(Readable), b)
      /\ sent[e] = 0
  BY <1>1, <1>2, <1>3 DEF TypeOK, LocalOK
<1>5. \A d \in Emitters : pc[d] # "writing"
  BY <1>1, <1>3, OneWriter
<1>6. frag = << >>
  BY <1>5 DEF QuietInv, FragIsDraft
<1>7. Follows(Build(LastOf(Readable), b), lines)
  BY <1>1, <1>3, <1>6, BuildFollows DEF Readable, TypeOK
<1>8. FragIsDraft'
  BY <1>3, <1>4, <1>5, <1>6, <1>7 DEF FragIsDraft
<1>9. \A d \in Emitters : /\ Written(d)' <=> Written(d)
                          /\ Written(d) => draft'[d] = draft[d]
  BY <1>3, <1>4 DEF Written
<1>10. NoDamage' /\ WrittenOnLedger' /\ ReturnedOnLedger'
  BY <1>3, <1>9 DEF QuietInv, NoDamage, WrittenOnLedger, ReturnedOnLedger, OnLedger
<1>11. NoSequenceShared' /\ NoSequenceReuse'
  BY <1>3, <1>9 DEF QuietInv, NoSequenceShared, NoSequenceReuse
<1>12. QED
  BY <1>8, <1>10, <1>11 DEF QuietInv

\* The step that completes a line keeps everything that was promised.
LEMMA FlushKeepsQuiet ==
  ASSUME HasFcntl, QuietInv, BaseInv', ChainInv', NEW e \in Emitters, Flush(e)
  PROVE  QuietInv'
<1> USE DEF BaseInv, TypeOK
<1>1. /\ pc[e] = "writing" /\ sent' = [sent EXCEPT ![e] = @ + 1]
      /\ UNCHANGED <<draft, raised, returned>>
      /\ \A d \in Emitters \ {e} : pc'[d] = pc[d]
      /\ pc'[e] = IF sent[e] = 2 THEN "unlocking" ELSE "writing"
      /\ sent[e] \in 0 .. 2 /\ sent'[e] = sent[e] + 1 /\ ~raised[e]
  BY DEF Flush, Goto, QuietInv, PieceCount, LocalOK
<1>2. Put(draft[e], sent[e] + 1)
  BY Zenon DEF Flush
<1>3. /\ sent[e] < 2 => lines' = lines
      /\ sent[e] = 2 => lines' = Append(lines, draft[e])
      /\ draft[e] \in Receipts /\ Follows(draft[e], lines)
  BY FlushAdds
<1>4. \A d \in Emitters \ {e} : pc[d] \notin {"locked", "writing", "unlocking"}
  BY <1>1, OneWriter DEF QuietInv
<1>5. lines \in Seq(Lines) /\ frag \in Seq(Pieces)
  BY DEF QuietInv
<1>6. CASE sent[e] < 2
  <2>1. lines' = lines /\ frag' = Append(frag, Piece(draft[e], sent[e] + 1))
    BY <1>1, <1>2, <1>6 DEF Put, PieceCount
  <2>2. pc' = pc
    BY <1>6, <1>1 DEF Flush, QuietInv, PieceCount
  <2>3. FragIsDraft'
    <3>1. /\ sent[e] = 0 => frag = << >>
          /\ sent[e] = 1 => Len(frag) = 1 /\ frag[1] = Piece(draft[e], 1)
      BY <1>1 DEF QuietInv, FragIsDraft
    <3>2. Piece(draft[e], sent[e] + 1) \in Pieces
      BY <1>1, <1>3, <1>6 DEF Piece, Pieces
    <3>3. /\ Len(frag') = Len(frag) + 1
          /\ frag'[Len(frag) + 1] = Piece(draft[e], sent[e] + 1)
          /\ \A k \in 1 .. Len(frag) : frag'[k] = frag[k]
      BY <2>1, <3>2, <1>5, AppendProperties
    <3>4. Len(<< >>) = 0
      OBVIOUS
    <3>5. /\ sent'[e] # 0
          /\ sent'[e] = 1 => Len(frag') = 1 /\ frag'[1] = Piece(draft[e], 1)
          /\ sent'[e] = 2 => /\ Len(frag') = 2 /\ frag'[1] = Piece(draft[e], 1)
                            /\ frag'[2] = Piece(draft[e], 2)
      <4>1. CASE sent[e] = 0
        BY <4>1, <3>1, <3>3, <3>4, <1>1
      <4>2. CASE sent[e] = 1
        <5>1. Len(frag) = 1 /\ frag[1] = Piece(draft[e], 1) /\ sent'[e] = 2 /\ sent[e] + 1 = 2
          BY <4>2, <3>1, <1>1
        <5>2. Len(frag') = 2 /\ frag'[1] = frag[1] /\ frag'[2] = Piece(draft[e], 2)
          BY <5>1, <3>3
        <5>3. QED
          BY <5>1, <5>2
      <4>3. QED
        BY <4>1, <4>2, <1>1, <1>6
    <3>6. QED
      BY <3>5, <2>1, <2>2, <1>1, <1>3, <1>4 DEF FragIsDraft
  <2>4. NoDamage' /\ WrittenOnLedger' /\ ReturnedOnLedger' /\ NoSequenceShared' /\ NoSequenceReuse'
    BY <2>1, <2>2, <1>1
    DEF QuietInv, NoDamage, WrittenOnLedger, ReturnedOnLedger, NoSequenceShared,
        NoSequenceReuse, Written, OnLedger
  <2>5. QED
    BY <2>3, <2>4 DEF QuietInv
<1>7. CASE sent[e] = 2
  <2>1. lines' = Append(lines, draft[e]) /\ frag' = << >>
    BY <1>2, <1>3, <1>7 DEF Put, PieceCount
  <2>2. pc'[e] = "unlocking"
    BY <1>1, <1>7
  <2>3. FragIsDraft'
    <3>1. \A d \in Emitters : pc'[d] # "writing"
      BY <2>2, <1>1, <1>4
    <3>2. QED
      BY <2>1, <3>1 DEF FragIsDraft
  <2>4. NoDamage'
    <3>1. /\ Len(lines') = Len(lines) + 1 /\ lines'[Len(lines) + 1] = draft[e]
          /\ \A i \in 1 .. Len(lines) : lines'[i] = lines[i]
          /\ Len(lines) \in Nat
      BY <2>1, <1>3, <1>5, AppendProperties, LenProperties DEF Lines
    <3>2. draft[e] # Garbage
      BY <1>3, GarbageIsNoReceipt
    <3>3. \A i \in 1 .. Len(lines) : lines[i] # Garbage
      BY DEF QuietInv, NoDamage
    <3>4. \A i \in 1 .. Len(lines) + 1 : lines'[i] # Garbage
      <4> TAKE i \in 1 .. Len(lines) + 1
      <4>1. i \in 1 .. Len(lines) \/ i = Len(lines) + 1
        BY <3>1
      <4>2. QED
        BY <4>1, <3>1, <3>2, <3>3
    <3>5. QED
      BY <3>1, <3>4 DEF NoDamage
  <2>5. \A d \in Emitters : Written(d)' <=> Written(d) \/ d = e
    BY <1>1, <2>2 DEF Written
  <2>6. ~Written(e)
    BY <1>1 DEF Written
  <2>7. \A d \in Emitters : Written(d) => draft[d] \in Receipts /\ OnLedger(draft[d])
    BY DEF QuietInv, WrittenOnLedger, Written, LocalOK
  <2>8. \A c \in returned : c.receipt \in Receipts /\ OnLedger(c.receipt)
    BY DEF QuietInv, ReturnedOnLedger, OnLedger
  <2>9. \A r \in Receipts : OnLedger(r) \/ r = draft[e] =>
          /\ r.seq < Len(lines') /\ lines'[r.seq + 1] = r
          /\ OnLedger(r) => r.seq # draft[e].seq
    BY <2>1, <1>3, <1>5, AppendKeepsOnLedger
  <2>10. WrittenOnLedger'
    BY <2>5, <2>7, <2>9, <1>1, <1>3 DEF WrittenOnLedger, OnLedger
  <2>11. ReturnedOnLedger'
    BY <2>8, <2>9, <1>1 DEF ReturnedOnLedger
  <2>12. NoSequenceShared'
    <3>1. \A d \in Emitters : Written(d) => draft[d].seq # draft[e].seq
      BY <2>7, <2>9
    <3>2. \A c \in returned : c.receipt.seq # draft[e].seq
      BY <2>8, <2>9
    <3>3. QED
      BY <3>1, <3>2, <2>5, <1>1 DEF NoSequenceShared, QuietInv
  <2>13. NoSequenceReuse'
    BY <1>1 DEF QuietInv, NoSequenceReuse
  <2>14. QED
    BY <2>3, <2>4, <2>10, <2>11, <2>12, <2>13 DEF QuietInv
<1>8. QED
  BY <1>1, <1>6, <1>7

\* Returning a receipt moves it from the written to the returned ones.
LEMMA FinishKeepsQuiet ==
  ASSUME QuietInv, BaseInv', ChainInv', NEW e \in Emitters, Finish(e)
  PROVE  QuietInv'
<1> USE DEF BaseInv, TypeOK
<1> DEFINE c == [by |-> e, call |-> calls[e], receipt |-> draft[e]]
<1>1. /\ pc[e] = "closing" /\ UNCHANGED <<lines, frag>>
      /\ returned' = IF raised[e] THEN returned ELSE returned \union {c}
      /\ pc'[e] = "idle"
      /\ \A d \in Emitters \ {e} :
           pc'[d] = pc[d] /\ draft'[d] = draft[d] /\ raised'[d] = raised[d] /\ sent'[d] = sent[d]
  BY DEF Finish, Reset, Goto, file, QuietInv
<1>2. NoDamage' /\ FragIsDraft'
  <2>1. NoDamage'
    BY <1>1 DEF QuietInv, NoDamage
  <2>2. \A d \in Emitters :
          /\ pc'[d] = "writing" <=> pc[d] = "writing"
          /\ pc'[d] = "writing" => draft'[d] = draft[d] /\ sent'[d] = sent[d]
    BY <1>1
  <2>3. FragIsDraft
    BY DEF QuietInv
  <2>4. lines' = lines /\ frag' = frag
    BY <1>1
  <2> HIDE DEF BaseInv, TypeOK
  <2>5. FragIsDraft'
    BY <2>2, <2>3, <2>4 DEF FragIsDraft
  <2>6. QED
    BY <2>1, <2>5
<1>3. \A d \in Emitters : Written(d)' <=> Written(d) /\ d # e
  BY <1>1 DEF Written
<1>4. WrittenOnLedger'
  BY <1>1, <1>3 DEF QuietInv, WrittenOnLedger, OnLedger
<1>5. CASE raised[e]
  <2>1. returned' = returned
    BY <1>1, <1>5
  <2>2. QED
    <3>1. ReturnedOnLedger' /\ NoSequenceReuse'
      BY <2>1, <1>1 DEF QuietInv, ReturnedOnLedger, NoSequenceReuse
    <3>2. NoSequenceShared'
      BY <2>1, <1>1, <1>3 DEF QuietInv, NoSequenceShared
    <3>3. QED
      BY <3>1, <3>2, <1>2, <1>4 DEF QuietInv
<1>6. CASE ~raised[e]
  <2>1. Written(e) /\ returned' = returned \union {c} /\ c.receipt = draft[e]
    BY <1>1, <1>6 DEF Written
  <2>2. ReturnedOnLedger'
    BY <2>1, <1>1 DEF QuietInv, ReturnedOnLedger, WrittenOnLedger, OnLedger
  <2>3. NoSequenceShared'
    <3>1. \A d \in Emitters \ {e} : Written(d) => draft[d].seq # draft[e].seq
      BY <2>1 DEF QuietInv, NoSequenceShared
    <3>2. ASSUME NEW d \in Emitters, NEW k \in returned', Written(d)'
          PROVE  k.receipt.seq # draft'[d].seq
      <4>1. Written(d) /\ d # e /\ draft'[d] = draft[d]
        BY <3>2, <1>1, <1>3
      <4> HIDE DEF BaseInv, TypeOK, c
      <4>2. CASE k \in returned
        BY <4>1, <4>2 DEF QuietInv, NoSequenceShared
      <4>3. CASE k = c
        BY <3>1, <2>1, <4>1, <4>3
      <4>4. QED
        BY <2>1, <4>2, <4>3
    <3>3. \A a, d \in Emitters :
            Written(a)' /\ Written(d)' /\ draft'[a].seq = draft'[d].seq => a = d
      BY <1>1, <1>3 DEF QuietInv, NoSequenceShared
    <3>4. QED
      BY <3>2, <3>3 DEF NoSequenceShared
  <2>4. NoSequenceReuse'
    <3> HIDE DEF c, BaseInv, TypeOK
    <3>1. \A k \in returned : k.receipt.seq # c.receipt.seq
      BY <2>1 DEF QuietInv, NoSequenceShared
    <3>2. \A j, k \in returned : j.receipt.seq = k.receipt.seq => j = k
      BY DEF QuietInv, NoSequenceReuse
    <3>3. \A j, k \in returned \union {c} : j.receipt.seq = k.receipt.seq => j = k
      BY <3>1, <3>2
    <3>4. QED
      BY <2>1, <3>3, Zenon DEF NoSequenceReuse
  <2>5. QED
    BY <2>2, <2>3, <2>4, <1>2, <1>4 DEF QuietInv
<1>7. QED
  BY <1>5, <1>6

LEMMA StepQuiet ==
  ASSUME HasFcntl, MaxWriteErrors = 0, MaxCrashes = 0, MaxPowerLosses = 0
  PROVE  QuietInv /\ [Next]_vars => QuietInv'
<1> SUFFICES ASSUME QuietInv, [Next]_vars PROVE QuietInv'
  OBVIOUS
<1>1. BaseInv' /\ ChainInv'
  <2>1. BaseInv'
    BY StepBase DEF QuietInv
  <2>2. writeErrors' = 0
    BY <2>1 DEF BaseInv, TypeOK
  <2>3. QED
    BY <2>1, <2>2, StepChain DEF QuietInv
\* Most steps neither touch the file nor change who is writing or has written.
<1>2. ASSUME UNCHANGED <<lines, frag, returned>>,
             \A d \in Emitters :
               /\ pc'[d] = "writing" <=> pc[d] = "writing"
               /\ pc'[d] = "writing" => draft'[d] = draft[d] /\ sent'[d] = sent[d]
               /\ Written(d)' => Written(d) /\ draft'[d] = draft[d]
      PROVE  QuietInv'
  <2>1. NoDamage' /\ FragIsDraft'
    BY <1>2 DEF QuietInv, NoDamage, FragIsDraft
  <2>2. WrittenOnLedger' /\ ReturnedOnLedger'
    BY <1>2 DEF QuietInv, WrittenOnLedger, ReturnedOnLedger, OnLedger
  <2>3. NoSequenceShared' /\ NoSequenceReuse'
    BY <1>2 DEF QuietInv, NoSequenceShared, NoSequenceReuse
  <2>4. QED
    BY <1>1, <2>1, <2>2, <2>3 DEF QuietInv
<1>3. TypeOK /\ LocalOK /\ NothingPending
  BY DEF QuietInv, BaseInv, ChainInv
<1> USE DEF TypeOK, Goto, file, Written
<1>4. CASE UNCHANGED vars
  BY <1>2, <1>4 DEF vars
<1>5. ASSUME NEW e \in Emitters, Call(e) PROVE QuietInv'
  BY <1>2, <1>3, <1>5 DEF Call
<1>6. ASSUME NEW e \in Emitters, Lock(e) PROVE QuietInv'
  BY <1>2, <1>3, <1>6 DEF Lock
<1>7. ASSUME NEW e \in Emitters, BuildRaises(e) PROVE QuietInv'
  BY <1>2, <1>3, <1>7 DEF BuildRaises
<1>8. ASSUME NEW e \in Emitters, BuildReceipt(e) PROVE QuietInv'
  BY <1>1, <1>8, BuildKeepsQuiet
<1>9. ASSUME NEW e \in Emitters, Flush(e) PROVE QuietInv'
  BY <1>1, <1>9, FlushKeepsQuiet
<1>10. ASSUME NEW e \in Emitters, FlushFails(e) PROVE QuietInv'
  BY <1>3, <1>10 DEF FlushFails
<1>11. ASSUME NEW e \in Emitters, Unlock(e) PROVE QuietInv'
  BY <1>2, <1>3, <1>11 DEF Unlock
<1>12. ASSUME NEW e \in Emitters, CloseFlush(e) PROVE QuietInv'
  BY <1>12, NoneLeft DEF CloseFlush, QuietInv, ChainInv
<1>13. ASSUME NEW e \in Emitters, CloseDrops(e) PROVE QuietInv'
  BY <1>13, NoneLeft DEF CloseDrops, QuietInv, ChainInv
<1>14. ASSUME NEW e \in Emitters, Finish(e) PROVE QuietInv'
  BY <1>1, <1>14, FinishKeepsQuiet
<1>15. ASSUME NEW e \in Emitters, Crash(e) PROVE QuietInv'
  BY <1>3, <1>15 DEF Crash
<1>16. CASE PowerLoss
  BY <1>3, <1>16 DEF PowerLoss
<1>17. QED
  BY <1>4, <1>5, <1>6, <1>7, <1>8, <1>9, <1>10, <1>11, <1>12, <1>13, <1>14, <1>15, <1>16
  DEF Next, Step

\* A step of the emitters adds one receipt at the end, built on the one before,
\* or leaves the lines as they are.
LEMMA StepImplements ==
  ASSUME QuietInv, QuietInv', MaxCrashes = 0, MaxPowerLosses = 0, [Next]_vars
  PROVE  [Chain!Next]_lines
<1> USE DEF file
<1>1. TypeOK
  BY DEF QuietInv, BaseInv
<1>2. ASSUME NEW e \in Emitters, Flush(e) PROVE [Chain!Next]_lines
  <2>1. /\ sent[e] < 2 => lines' = lines
        /\ sent[e] = 2 => lines' = Append(lines, draft[e])
        /\ draft[e] \in Receipts /\ Follows(draft[e], lines)
    BY <1>2, FlushAdds
  <2>2. sent[e] < 2 \/ sent[e] = 2
    <3>1. pc[e] = "writing"
      BY <1>2, Zenon DEF Flush
    <3>2. sent[e] \in 0 .. 2
      BY <3>1 DEF QuietInv, BaseInv, TypeOK, LocalOK, PieceCount
    <3>3. QED
      BY <3>2
  <2>3. draft[e] = Build(LastOf(lines), draft[e].body) /\ draft[e].body \in Bodies
    BY <2>1, QuietChain, FollowsIsBuild DEF Receipts
  <2>4. CASE sent[e] = 2
    <3>1. lines' = Append(lines, Build(LastOf(lines), draft[e].body))
      BY <2>1, <2>3, <2>4
    <3>2. Chain!AppendReceipt(draft[e].body)
      BY <3>1 DEF Chain!AppendReceipt, Chain!Build, Chain!LastOf, Chain!Digest, Chain!NoDigest,
                  Build, LastOf, Digest, NoDigest
    <3>3. QED
      BY <2>3, <3>2 DEF Chain!Next
  <2>5. QED
    BY <2>1, <2>2, <2>4
<1>3. ASSUME NEW e \in Emitters, CloseFlush(e) PROVE [Chain!Next]_lines
  BY <1>3, NoneLeft DEF CloseFlush, QuietInv, ChainInv
<1>4. CASE PowerLoss
  BY <1>1, <1>4 DEF PowerLoss, TypeOK
<1>5. CASE UNCHANGED vars
  BY <1>5 DEF vars
<1>6. ASSUME NEW e \in Emitters,
             \/ Call(e) \/ Lock(e) \/ BuildRaises(e) \/ BuildReceipt(e) \/ FlushFails(e)
             \/ Unlock(e) \/ CloseDrops(e) \/ Finish(e) \/ Crash(e)
      PROVE  lines' = lines
  BY <1>6 DEF Call, Lock, BuildRaises, BuildReceipt, FlushFails, Unlock, CloseDrops, Finish, Crash
<1>7. QED
  BY <1>2, <1>3, <1>4, <1>5, <1>6 DEF Next, Step

\* Without failures the ledger keeps the docstring's promise for any number of
\* concurrent emitters: its lines are one unbroken chain, ...
THEOREM ConcurrentChain ==
  ASSUME HasFcntl, MaxWriteErrors = 0, MaxCrashes = 0, MaxPowerLosses = 0
  PROVE  Spec => []ChainUnbroken
<1>1. QuietInv => ChainUnbroken
  BY QuietChain DEF ChainUnbroken
<1>2. QED
  BY <1>1, InitQuiet, StepQuiet, PTL DEF Spec

\* ... every receipt that was returned is on the line of its own number, ...
THEOREM ConcurrentReturns ==
  ASSUME HasFcntl, MaxWriteErrors = 0, MaxCrashes = 0, MaxPowerLosses = 0
  PROVE  Spec => [](ReturnedOnLedger /\ NoSequenceReuse)
<1>1. QuietInv => ReturnedOnLedger /\ NoSequenceReuse
  BY DEF QuietInv
<1>2. QED
  BY <1>1, InitQuiet, StepQuiet, PTL DEF Spec

\* ... and it evolves exactly as the abstract hash chain does.
THEOREM LedgerImplementsHashChain ==
  ASSUME HasFcntl, MaxWriteErrors = 0, MaxCrashes = 0, MaxPowerLosses = 0
  PROVE  Spec => ImplementsHashChain
<1>1. Init => Chain!Init
  BY DEF Init, Chain!Init
<1>2. QuietInv /\ QuietInv' /\ [Next]_vars => [Chain!Next]_lines
  BY StepImplements
<1>3. QED
  BY <1>1, <1>2, InitQuiet, StepQuiet, PTL DEF Spec, ImplementsHashChain, Chain!Spec
===============================================================================
