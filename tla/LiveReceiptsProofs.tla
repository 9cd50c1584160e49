-------------------------- MODULE LiveReceiptsProofs --------------------------
(***************************************************************************)
(* Proofs about LiveReceipts.  Its steps are steps of ReceiptLedger, so    *)
(* that what is proved of the ledger holds here; the auditor and the shims *)
(* get an invariant each.                                                  *)
(***************************************************************************)
EXTENDS LiveReceipts, ReceiptLedgerProofs, WellFoundedInduction

(* LiveReceipts uses the ledger as ReceiptLedger says *)

LEMMA InitLive == LiveInit => Init
BY DEF LiveInit

LEMMA StepLive == [LiveNext]_liveVars => [Next]_vars
<1> SUFFICES ASSUME [LiveNext]_liveVars PROVE [Next]_vars
  OBVIOUS
<1>1. CASE UNCHANGED liveVars
  BY <1>1 DEF liveVars
<1>2. ASSUME NEW e \in Emitters, Call(e) \/ Step(e) PROVE Next
  BY <1>2 DEF Next
<1>3. CASE \E e \in Emitters \ Shims : ThreadEmits(e)
  BY <1>2, <1>3 DEF ThreadEmits
<1>4. ASSUME NEW s \in Shims, ShimCalls(s) \/ ShimEmits(s) PROVE Next
  BY <1>2, <1>4, ShimsEmit DEF ShimCalls, ShimEmits
<1>5. ASSUME NEW s \in Shims,
             ShimBegins(s) \/ ShimRefuses(s) \/ ShimStarts(s) \/ Completes(s)
               \/ CompletionFails(s)
      PROVE  UNCHANGED vars
  BY <1>5 DEF ShimBegins, ShimRefuses, ShimStarts, Completes, CompletionFails
<1>6. CASE ReplaceWeights \/ AuditStarts \/ AuditCannotRead \/ AuditReads \/ AuditVerifies
  BY <1>6 DEF ReplaceWeights, AuditStarts, AuditCannotRead, AuditReads, AuditVerifies
<1>7. QED
  BY <1>1, <1>3, <1>4, <1>5, <1>6 DEF LiveNext

\* Shims, threads and an auditor are emitters of the ledger and a reader of it:
\* every behaviour is one of ReceiptLedger.
THEOREM LiveUsesTheLedger == LiveSpec => Spec
BY InitLive, StepLive, PTL DEF LiveSpec, Spec

-------------------------------------------------------------------------------
(* Emitters and verify_ledger agree *)

\* An undamaged chain whose bodies conform is accepted.
LEMMA ChainIsAccepted ==
  ASSUME NEW l \in Seq(Lines), UpToDamage(l), LastOf(l) # Garbage, Conform(l)
  PROVE  Accepts(l)
<1>1. SUFFICES ASSUME NEW i \in 1 .. Len(l) PROVE Passes(l, i)
  BY DEF Accepts
<1>2. Len(l) \in Nat /\ l # << >>
  BY <1>1, LenProperties, EmptySeq
<1>3. \A j \in 1 .. Len(l) : l[j] \in Receipts /\ ChainedAt(l, j)
  BY <1>2, ElementOfSeq DEF UpToDamage, LastOf, Lines
<1>4. l[i] # Garbage /\ l[i].body \in Conforming /\ l[i].seq = i - 1
  BY <1>3, GarbageIsNoReceipt DEF Conform, ChainedAt
<1>5. CASE i = 1
  BY <1>4, <1>5 DEF Passes, SchemaValid
<1>6. CASE i # 1
  <2>1. l[i - 1] \in Receipts /\ l[i].prev = Digest(l[i - 1])
    BY <1>2, <1>3, <1>6 DEF ChainedAt
  <2>2. l[i].prev # NoDigest
    BY <2>1, DigestType
  <2>3. QED
    BY <1>4, <1>6, <2>1, <2>2 DEF Passes, SchemaValid, LinkOK
<1>7. QED
  BY <1>5, <1>6

\* What a reader without the lock finds is a chain; only a line that is being written
\* at that moment can be unreadable.
LEMMA ReadingIsChain ==
  ASSUME QuietInv
  PROVE  /\ Readable \in Seq(Lines) /\ UpToDamage(Readable)
         /\ LastOf(Readable) = Garbage => Busy
<1>1. TypeOK /\ LocalOK /\ UpToDamage(lines)
  BY DEF QuietInv, BaseInv, ChainInv, Unbroken
<1>2. LastOf(lines) # Garbage
  BY <1>1, EmptySeq, NoReceiptIsApart DEF QuietInv, NoDamage, LastOf, TypeOK
<1>3. CASE frag = << >>
  BY <1>1, <1>2, <1>3 DEF Readable, TypeOK
<1>4. CASE frag # << >>
  <2>1. PICK e \in Emitters : pc[e] = "writing"
    BY <1>4 DEF QuietInv, FragIsDraft
  <2>2. sent[e] \in 0 .. 2 /\ draft[e] \in Receipts /\ Follows(draft[e], lines)
    BY <1>1, <2>1 DEF LocalOK, TypeOK, PieceCount, QuietInv, FragIsDraft
  <2>3. Parse(frag) # Garbage => Parse(frag) = draft[e]
    <3>1. CASE sent[e] = 2
      <4>1. Len(frag) = 2 /\ frag[1] = Piece(draft[e], 1) /\ frag[2] = Piece(draft[e], 2)
        BY <2>1, <3>1 DEF QuietInv, FragIsDraft
      <4>2. QED
        BY <4>1 DEF Parse, Piece
    <3>2. CASE sent[e] # 2
      <4>1. Len(frag) # 2
        <5>1. sent[e] = 0 \/ sent[e] = 1
          BY <2>2, <3>2
        <5>2. (sent[e] = 0 => frag = << >>) /\ (sent[e] = 1 => Len(frag) = 1)
          BY <2>1 DEF QuietInv, FragIsDraft
        <5>3. QED
          BY <1>4, <5>1, <5>2
      <4>2. QED
        BY <4>1 DEF Parse
    <3>3. QED
      BY <3>1, <3>2
  <2>4. Parse(frag) \in Lines
    BY <2>2, <2>3 DEF Lines
  <2>5. Readable = Append(lines, Parse(frag))
    BY <1>4 DEF Readable
  <2>6. UpToDamage(Readable)
    BY <1>1, <1>2, <2>2, <2>3, <2>4, <2>5, AppendKeepsChain DEF TypeOK
  <2>7. Readable \in Seq(Lines)
    BY <1>1, <2>4, <2>5, AppendProperties DEF TypeOK
  <2>8. Busy
    BY <2>1 DEF Busy
  <2>9. QED
    BY <2>6, <2>7, <2>8
<1>5. QED
  BY <1>3, <1>4

\* What any number of emitters append while nothing fails passes verify_ledger, unless
\* a body does not conform: the writer's rules are the reader's.
THEOREM EmittersMeetTheVerifier ==
  ASSUME HasFcntl, MaxWriteErrors = 0, MaxCrashes = 0, MaxPowerLosses = 0
  PROVE  LiveSpec => []EmittedIsAccepted
<1>1. QuietInv => EmittedIsAccepted
  <2>1. SUFFICES ASSUME QuietInv, Conform(lines) PROVE Accepts(lines)
    BY DEF EmittedIsAccepted
  <2>2. lines \in Seq(Lines) /\ UpToDamage(lines)
    BY <2>1 DEF QuietInv, BaseInv, TypeOK, ChainInv, Unbroken
  <2>3. LastOf(lines) # Garbage
    BY <2>1, <2>2, EmptySeq, NoReceiptIsApart DEF QuietInv, NoDamage, LastOf
  <2>4. QED
    BY <2>1, <2>2, <2>3, ChainIsAccepted
<1>2. QED
  BY <1>1, InitQuiet, StepQuiet, LiveUsesTheLedger, PTL DEF Spec

-------------------------------------------------------------------------------
(* The auditor *)

\* (Opaque to the provers where they only need the shape of a record.)
Places     == {"idle", "reading", "verifying", "ended"}
AnyListing == Directories \union {<< >>}
Ledgers    == Seq(Lines)

AuditRecords == [at : Places, dir : AnyListing, k : Nat, began : Ledgers, first : Ledgers,
                 total : Nat, code : 0 .. 2, seen : Ledgers, busy : BOOLEAN,
                 unread : BOOLEAN]

AuditType ==
  /\ audit \in AuditRecords
  /\ audit.at \in {"reading", "verifying"} => audit.k \in DOMAIN audit.dir
  /\ audit.at = "idle" => audit.k = 1 /\ audit.seen = << >>
  /\ audit.at # "ended" => audit.code = 0

\* What the auditor makes of the ledger being written: it passes, or is a chain with
\* one of the two causes.
LEMMA ReadingExplained ==
  ASSUME QuietInv
  PROVE  ~Accepts(Readable) \/ (\E i \in 1 .. Len(Readable) : Readable[i] = Garbage) =>
           UpToDamage(Readable) /\ (~Conform(Readable) \/ (LastOf(Readable) = Garbage /\ Busy))
<1> DEFINE r == Readable
<1>1. r \in Seq(Lines) /\ UpToDamage(r) /\ (LastOf(r) = Garbage => Busy)
  BY ReadingIsChain
<1> HIDE DEF r
<1>2. CASE LastOf(r) = Garbage
  BY <1>1, <1>2 DEF r
<1>3. CASE LastOf(r) # Garbage
  <2>1. ~\E i \in 1 .. Len(r) : r[i] = Garbage
    BY <1>1, <1>3, LenProperties, EmptySeq DEF UpToDamage, LastOf
  <2>2. Conform(r) => Accepts(r)
    BY <1>1, <1>3, ChainIsAccepted
  <2>3. QED
    BY <1>1, <2>1, <2>2 DEF r
<1>4. QED
  BY <1>2, <1>3

\* A committed ledger with a line that is not JSON does not pass.
LEMMA GarbageFails ==
  ASSUME NEW r, \E i \in 1 .. Len(r) : r[i] = Garbage
  PROVE  ~Accepts(r)
BY DEF Accepts, Passes

\* What a reading r of the ledger it is at makes the auditor do.
AuditStep(r) ==
  \/ Exit(2, r) /\ audit.at = "reading" /\ (r = << >> \/ \E i \in 1 .. Len(r) : r[i] = Garbage)
  \/ audit.at = "reading" /\ audit' = [audit EXCEPT !.at = "verifying", !.first = r]
  \/ Exit(1, r) /\ audit.at = "verifying" /\ ~Accepts(r)
  \/ NextLedger /\ audit.at = "verifying" /\ Accepts(r)

\* Whatever the writers are doing, a reader gets lines.
LEMMA ReadingType ==
  ASSUME TypeOK, AuditType, audit.at \in {"reading", "verifying"}
  PROVE  Reading(audit.dir[audit.k]) \in Seq(Lines)
<1>1. audit.dir \in Seq({Live} \union Seq(Lines)) /\ audit.k \in DOMAIN audit.dir
  BY ListedLedgers, EmptySeq DEF AuditType, AuditRecords, AnyListing
<1>2. audit.dir[audit.k] \in {Live} \union Seq(Lines)
  BY <1>1, ElementOfSeq, LenProperties
<1>3. CASE audit.dir[audit.k] = Live
  BY <1>3, ReadableType DEF Reading, TypeOK
<1>4. CASE audit.dir[audit.k] # Live
  BY <1>2, <1>4 DEF Reading
<1>5. QED
  BY <1>3, <1>4

\* An exit records what was read and whether somebody was writing it.
LEMMA ExitType ==
  ASSUME AuditType, NEW code \in 0 .. 2, NEW r \in Seq(Lines), Exit(code, r)
  PROVE  /\ AuditType' /\ audit'.at = "ended"
         /\ audit'.code = code /\ audit'.seen = r /\ audit'.busy = Busy
         /\ audit'.dir = audit.dir /\ audit'.k = audit.k
<1>1. Busy \in BOOLEAN
  BY DEF Busy
<1> DEFINE busy == Busy
<1> HIDE DEF busy
<1>2. /\ audit' = [audit EXCEPT !.at = "ended", !.code = code, !.seen = r, !.busy = busy]
      /\ busy \in BOOLEAN /\ busy = Busy
  BY <1>1 DEF Exit, busy
<1>3. r \in Ledgers /\ "ended" \in Places
  BY DEF Ledgers, Places
<1>4. /\ audit' \in AuditRecords /\ audit'.at = "ended"
      /\ audit'.code = code /\ audit'.seen = r /\ audit'.busy = busy
      /\ audit'.dir = audit.dir /\ audit'.k = audit.k
  BY <1>2, <1>3 DEF AuditType, AuditRecords
<1>5. QED
  BY <1>2, <1>4 DEF AuditType

\* The loop over the ledgers: what is left as it was, and where it goes on.
LEMMA NextLedgerType ==
  ASSUME AuditType, audit.at = "verifying", NextLedger
  PROVE  /\ AuditType' /\ audit'.code = 0
         /\ audit.k \in 1 .. Len(audit.dir) /\ Len(audit.dir) \in Nat
         /\ audit'.dir = audit.dir /\ audit'.began = audit.began
         /\ audit'.total = audit.total + Len(audit.first)
         /\ IF audit.k = Len(audit.dir)
              THEN audit'.at = "ended"
              ELSE audit'.at = "reading" /\ audit'.k = audit.k + 1
<1>1. audit.dir \in Directories /\ audit.k \in DOMAIN audit.dir /\ Len(audit.first) \in Nat
  BY LenProperties DEF AuditType, AuditRecords, AnyListing, Ledgers
<1>2. Len(audit.dir) \in Nat /\ DOMAIN audit.dir = 1 .. Len(audit.dir)
  BY <1>1, ListedLedgers, LenProperties
<1>3. audit' = [audit EXCEPT !.at = IF audit.k = Len(audit.dir) THEN "ended" ELSE "reading",
                             !.k = IF audit.k = Len(audit.dir) THEN @ ELSE @ + 1,
                             !.total = @ + Len(audit.first)]
  BY DEF NextLedger
<1>4. audit.k \in 1 .. Len(audit.dir) /\ audit.k \in Nat /\ audit.total + Len(audit.first) \in Nat
  BY <1>1, <1>2 DEF AuditType, AuditRecords
<1> DEFINE last == audit.k = Len(audit.dir)
           at   == IF last THEN "ended" ELSE "reading"
           k    == IF last THEN audit.k ELSE audit.k + 1
<1>5. /\ at \in Places /\ k \in Nat /\ (at = "reading" => k \in DOMAIN audit.dir)
      /\ at \in {"reading", "ended"}
  BY <1>2, <1>4 DEF Places
<1>6. audit' = [audit EXCEPT !.at = at, !.k = k, !.total = @ + Len(audit.first)]
  BY <1>3 DEF AuditType, AuditRecords
<1>7. IF last THEN at = "ended" ELSE at = "reading" /\ k = audit.k + 1
  OBVIOUS
<1> HIDE DEF at, k
<1>8. /\ audit' \in AuditRecords
      /\ audit'.at = at /\ audit'.k = k /\ audit'.dir = audit.dir
      /\ audit'.code = audit.code /\ audit'.began = audit.began
      /\ audit'.total = audit.total + Len(audit.first)
  BY <1>4, <1>5, <1>6 DEF AuditType, AuditRecords
<1>9. AuditType' /\ audit'.code = 0
  BY <1>5, <1>8 DEF AuditType
<1>10. QED
  BY <1>2, <1>4, <1>7, <1>8, <1>9

\* The glob, when it finds something and when it does not.
LEMMA AuditStartsType ==
  ASSUME TypeOK, AuditType, AuditStarts
  PROVE  /\ AuditType' /\ audit'.seen = << >> /\ audit'.began = lines
         /\ audit'.k = 1 /\ audit'.total = audit.total
         /\ audit'.at = "ended" \/ (audit'.at = "reading" /\ audit'.code = 0)
         /\ audit'.at = "ended" => audit'.code = 2 /\ audit'.dir = << >>
<1>1. PICK d \in Directories :
        audit' = [audit EXCEPT !.at = IF d = << >> THEN "ended" ELSE "reading", !.dir = d,
                               !.code = IF d = << >> THEN 2 ELSE 0, !.began = lines]
  BY DEF AuditStarts
<1>2. d # << >> => 1 \in DOMAIN d
  <2>1. d \in Seq({Live} \union Seq(Lines))
    BY ListedLedgers
  <2>2. QED
    BY <2>1, EmptySeq, LenProperties
<1>3. audit.at = "idle" /\ audit.k = 1 /\ audit.seen = << >>
  BY DEF AuditStarts, AuditType
<1>4. lines \in Ledgers /\ d \in AnyListing /\ {"ended", "reading"} \subseteq Places
  BY DEF Ledgers, AnyListing, Places, TypeOK
<1> DEFINE at   == IF d = << >> THEN "ended" ELSE "reading"
           code == IF d = << >> THEN 2 ELSE 0
<1>5. at \in Places /\ code \in 0 .. 2
  BY <1>4
<1>6. audit' = [audit EXCEPT !.at = at, !.dir = d, !.code = code, !.began = lines]
  BY <1>1
<1> HIDE DEF at, code
<1>7. /\ audit' \in AuditRecords /\ audit'.began = lines
      /\ audit'.at = at /\ audit'.dir = d /\ audit'.code = code /\ audit'.k = audit.k
      /\ audit'.seen = audit.seen /\ audit'.total = audit.total
  BY <1>4, <1>5, <1>6 DEF AuditType, AuditRecords
<1>8. QED
  BY <1>2, <1>3, <1>7 DEF AuditType, at, code

\* The first reading, when it does not end the audit.
LEMMA AuditReadsType ==
  ASSUME AuditType, audit.at = "reading", NEW r \in Seq(Lines),
         audit' = [audit EXCEPT !.at = "verifying", !.first = r]
  PROVE  /\ AuditType' /\ audit'.at = "verifying" /\ audit'.first = r
         /\ audit'.dir = audit.dir /\ audit'.k = audit.k /\ audit'.began = audit.began
         /\ audit'.total = audit.total
<1>1. r \in Ledgers /\ "verifying" \in Places
  BY DEF Ledgers, Places
<1>2. /\ audit' \in AuditRecords /\ audit'.first = r
      /\ audit'.at = "verifying" /\ audit'.dir = audit.dir /\ audit'.k = audit.k
      /\ audit'.code = audit.code /\ audit'.began = audit.began /\ audit'.total = audit.total
  BY <1>1 DEF AuditType, AuditRecords
<1>3. QED
  BY <1>2 DEF AuditType

\* A file that cannot be read ends the audit.
LEMMA CannotReadType ==
  ASSUME AuditType, AuditCannotRead
  PROVE  AuditType' /\ audit'.at = "ended" /\ audit'.code \in 1 .. 2 /\ audit'.unread
<1>1. PICK code \in {1, 2} :
        audit' = [audit EXCEPT !.at = "ended", !.code = code, !.unread = TRUE]
  BY DEF AuditCannotRead
<1>2. code \in 0 .. 2 /\ code \in 1 .. 2 /\ "ended" \in Places
  BY DEF Places
<1>3. /\ audit' \in AuditRecords /\ audit'.at = "ended" /\ audit'.code = code
      /\ audit'.unread = TRUE
  BY <1>1, <1>2 DEF AuditType, AuditRecords
<1>4. QED
  BY <1>2, <1>3 DEF AuditType

\* The steps of an audit, each with what it may find and do.
LEMMA AuditCases ==
  ASSUME TypeOK, AuditType, [LiveNext]_liveVars
  PROVE  \/ UNCHANGED audit
         \/ AuditStarts
         \/ AuditCannotRead
         \/ \E r \in Seq(Lines) :
              /\ audit.at \in {"reading", "verifying"}
              /\ r = Reading(audit.dir[audit.k]) /\ AuditStep(r)
<1>1. CASE AuditStarts
  BY <1>1
<1>2. CASE AuditCannotRead
  BY <1>2
<1>3. CASE AuditReads
  <2> DEFINE r == Reading(audit.dir[audit.k])
  <2>1. r \in Seq(Lines) /\ AuditStep(r)
    BY <1>3, ReadingType DEF AuditReads, AuditStep
  <2>2. QED
    BY <1>3, <2>1 DEF AuditReads
<1>4. CASE AuditVerifies
  <2> DEFINE r == Reading(audit.dir[audit.k])
  <2>1. r \in Seq(Lines) /\ AuditStep(r)
    BY <1>4, ReadingType DEF AuditVerifies, AuditStep
  <2>2. QED
    BY <1>4, <2>1 DEF AuditVerifies
<1>5. QED
  BY <1>1, <1>2, <1>3, <1>4
  DEF LiveNext, liveVars, live, ThreadEmits, ShimBegins, ShimRefuses, ShimStarts, Completes,
      CompletionFails, ShimCalls, ShimEmits, ReplaceWeights

LEMMA InitAuditType == LiveInit => AuditType
<1> SUFFICES ASSUME LiveInit PROVE AuditType
  OBVIOUS
<1>1. << >> \in Seq(Lines)
  BY EmptySeq
<1>2. audit = [at |-> "idle", dir |-> << >>, k |-> 1, began |-> << >>, first |-> << >>,
               total |-> 0, code |-> 0, seen |-> << >>, busy |-> FALSE, unread |-> FALSE]
  BY DEF LiveInit
<1>3. QED
  BY <1>1, <1>2 DEF AuditType, AuditRecords, Places, AnyListing, Ledgers

LEMMA StepAuditType == TypeOK /\ AuditType /\ [LiveNext]_liveVars => AuditType'
<1> SUFFICES ASSUME TypeOK, AuditType, [LiveNext]_liveVars PROVE AuditType'
  OBVIOUS
<1>1. CASE UNCHANGED audit
  BY <1>1 DEF AuditType
<1>2. CASE AuditStarts
  BY <1>2, AuditStartsType
<1>3. ASSUME NEW r \in Seq(Lines), NEW code \in 0 .. 2, Exit(code, r) PROVE AuditType'
  BY <1>3, ExitType
<1>4. ASSUME NEW r \in Seq(Lines), AuditStep(r) PROVE AuditType'
  <2>1. 1 \in 0 .. 2 /\ 2 \in 0 .. 2
    OBVIOUS
  <2>2. QED
    BY <1>3, <1>4, <2>1, AuditReadsType, NextLedgerType DEF AuditStep
<1>5. QED
  BY <1>1, <1>2, <1>3, <1>4, AuditCases, CannotReadType

AuditInv == AuditType /\ AlarmsHaveACause

LEMMA InitAudit == LiveInit => AuditInv
BY InitAuditType DEF AuditInv, AlarmsHaveACause, LiveInit

LEMMA StepAudit == QuietInv /\ AuditInv /\ [LiveNext]_liveVars => AuditInv'
<1> SUFFICES ASSUME QuietInv, AuditInv, [LiveNext]_liveVars PROVE AlarmsHaveACause'
  BY StepAuditType DEF AuditInv, QuietInv, BaseInv
<1>1. AuditType /\ AlarmsHaveACause /\ TypeOK /\ AuditType'
  BY StepAuditType DEF AuditInv, QuietInv, BaseInv
<1>2. CASE UNCHANGED audit
  BY <1>1, <1>2 DEF AlarmsHaveACause
\* An audit that has not ended has given no alarm; nor need one that found nothing, or
\* could not read a file, be explained further.
<1>3. ASSUME \/ audit'.at # "ended" \/ audit'.code = 0
             \/ audit'.dir = << >> \/ audit'.unread
      PROVE  AlarmsHaveACause'
  BY <1>3 DEF AlarmsHaveACause
<1>4. CASE AuditStarts
  BY <1>1, <1>3, <1>4, AuditStartsType
<1>5. CASE AuditCannotRead
  BY <1>1, <1>3, <1>5, CannotReadType
<1>6. ASSUME NEW r \in Seq(Lines), NEW code \in 0 .. 2, Exit(code, r),
             r = Reading(audit.dir[audit.k]), r = << >> \/ ~Accepts(r),
             audit.at \in {"reading", "verifying"}
      PROVE  AlarmsHaveACause'
  <2>1. /\ audit'.seen = r /\ audit'.busy = Busy
        /\ audit'.dir = audit.dir /\ audit'.k = audit.k
    BY <1>1, <1>6, ExitType
  <2>2. CASE audit.dir[audit.k] # Live
    <3>1. audit.dir[audit.k] = r
      BY <1>6, <2>2 DEF Reading
    <3>2. QED
      BY <1>6, <2>1, <2>2, <3>1 DEF AlarmsHaveACause
  <2>3. CASE audit.dir[audit.k] = Live
    <3>1. r = Readable
      BY <1>6, <2>3 DEF Reading
    <3>2. UpToDamage(r) /\ (r = << >> \/ ~Conform(r) \/ (LastOf(r) = Garbage /\ Busy))
      BY <1>6, <3>1, ReadingExplained, ReadingIsChain
    <3>3. /\ UpToDamage(audit.seen)'
          /\ \/ audit'.seen = << >> \/ ~Conform(audit.seen)'
             \/ LastOf(audit.seen)' = Garbage /\ audit'.busy
      BY <2>1, <3>2 DEF Conform, UpToDamage, LastOf, ChainedAt
    <3>4. audit'.dir[audit'.k] = Live
      BY <2>1, <2>3
    <3>5. QED
      BY <3>3, <3>4 DEF AlarmsHaveACause
  <2>4. QED
    BY <2>2, <2>3
<1>7. ASSUME NEW r \in Seq(Lines), AuditStep(r), r = Reading(audit.dir[audit.k]),
             audit.at \in {"reading", "verifying"}
      PROVE  AlarmsHaveACause'
  <2>1. 1 \in 0 .. 2 /\ 2 \in 0 .. 2
    OBVIOUS
  <2>2. CASE Exit(2, r) /\ (r = << >> \/ \E i \in 1 .. Len(r) : r[i] = Garbage)
    BY <1>6, <1>7, <2>1, <2>2, GarbageFails
  <2>3. CASE Exit(1, r) /\ ~Accepts(r)
    BY <1>6, <1>7, <2>1, <2>3
  <2>4. CASE audit.at = "reading" /\ audit' = [audit EXCEPT !.at = "verifying", !.first = r]
    BY <1>1, <1>3, <2>4, AuditReadsType
  <2>5. CASE audit.at = "verifying" /\ NextLedger
    BY <1>1, <1>3, <2>5, NextLedgerType
  <2>6. QED
    BY <1>7, <2>2, <2>3, <2>4, <2>5 DEF AuditStep
<1>8. QED
  BY <1>1, <1>2, <1>4, <1>5, <1>7, AuditCases

\* An audit without the lock that fails for the ledger being written found nothing on it
\* yet, a receipt that does not conform or a last line that is being written, whatever
\* emitters and shims are doing; or it could not read a file, or a committed ledger is
\* at fault.
THEOREM NoFalseAlarm ==
  ASSUME HasFcntl, MaxWriteErrors = 0, MaxCrashes = 0, MaxPowerLosses = 0
  PROVE  LiveSpec => []AlarmsHaveACause
<1>1. QuietInv /\ QuietInv' /\ AuditInv /\ [LiveNext]_liveVars => AuditInv'
  BY StepAudit
<1>2. AuditInv => AlarmsHaveACause
  BY DEF AuditInv
<1>3. LiveSpec => []QuietInv
  BY InitQuiet, StepQuiet, LiveUsesTheLedger, PTL DEF Spec
<1>4. QED
  BY <1>1, <1>2, <1>3, InitAudit, PTL DEF LiveSpec

-------------------------------------------------------------------------------
(* The shims *)

Scripts     == PromptLists \union {<< >>}
ShimPlaces  == {"start", "digesting", "usage", "generating", "emitting", "failed", "done"}
ShimRecords == [at : ShimPlaces, since : 0 .. MaxReplacements,
                prompts : Scripts, digest : 0 .. MaxReplacements, ran : Seq(0 .. MaxReplacements)]

Ran(s) == Len(shim[s].ran)

\* Where main is tells how many completions it has run and receipts it asked for.
PhaseOK(s) ==
  /\ shim[s].at \in {"start", "digesting", "usage"} => Ran(s) = 0
  /\ shim[s].at = "generating" => Ran(s) < Len(shim[s].prompts)
  /\ shim[s].at = "emitting" => Ran(s) \in 1 .. Len(shim[s].prompts)
  /\ shim[s].at = "done" => Ran(s) = Len(shim[s].prompts)
  /\ pc[s] # "idle" => shim[s].at = "emitting"
  /\ calls[s] = IF shim[s].at = "emitting" /\ pc[s] = "idle" THEN Ran(s) - 1 ELSE Ran(s)

\* The receipt under way is that of the last completion, and newer than all before.
DraftOK(s) ==
  draft[s] # NoReceipt =>
    draft[s].body = Recorded(s) /\ \A c \in ReturnedTo(s) : c.receipt.seq < draft[s].seq

ReturnsOK(s) ==
  /\ \A c \in ReturnedTo(s) :
       /\ c.call \in 1 .. Ran(s) /\ (shim[s].at = "emitting" => c.call < Ran(s))
       /\ c.receipt.body = ShimBody(shim[s].digest, shim[s].prompts[c.call])
       /\ \A d \in ReturnedTo(s) : c.call < d.call => c.receipt.seq < d.receipt.seq
  /\ \A n \in 1 .. Ran(s) :
       n < Ran(s) \/ shim[s].at \in {"generating", "done"} => \E c \in ReturnedTo(s) : c.call = n

WeightsOK(s) ==
  /\ shim[s].digest <= weights /\ shim[s].since <= weights
  /\ shim[s].at \notin {"start", "digesting", "usage"} => shim[s].since <= shim[s].digest
  /\ \A n \in 1 .. Ran(s) : shim[s].digest <= shim[s].ran[n] /\ shim[s].ran[n] <= weights

ShimOK(s) == PhaseOK(s) /\ DraftOK(s) /\ ReturnsOK(s) /\ WeightsOK(s)

ShimType == shim \in [Shims -> ShimRecords] /\ weights \in 0 .. MaxReplacements

ShimInv == ShimType /\ \A s \in Shims : ShimOK(s)

LEMMA InitShim == LiveInit => ShimInv
<1> SUFFICES ASSUME LiveInit PROVE ShimInv
  OBVIOUS
<1>1. << >> \in Seq(0 .. MaxReplacements) /\ Len(<< >>) = 0
  BY EmptySeq
<1>2. ShimType
  BY <1>1, LiveBounds DEF LiveInit, ShimType, ShimRecords, ShimPlaces, Scripts
<1>3. ASSUME NEW s \in Shims PROVE ShimOK(s)
  <2>1. /\ shim[s].at = "start" /\ Ran(s) = 0 /\ weights = 0
        /\ shim[s].digest = 0 /\ shim[s].since = 0
        /\ pc[s] = "idle" /\ calls[s] = 0 /\ draft[s] = NoReceipt /\ ReturnedTo(s) = {}
    BY <1>1, ShimsEmit DEF LiveInit, Init, Ran, ReturnedTo
  <2>2. QED
    BY <2>1 DEF ShimOK, PhaseOK, DraftOK, ReturnsOK, WeightsOK
<1>4. QED
  BY <1>2, <1>3 DEF ShimInv

\* A shim stays as it is while others, and the middle of emit_receipt, take their steps.
LEMMA ShimUndisturbed ==
  ASSUME ShimType, ShimType', NEW s \in Shims, ShimOK(s),
         shim'[s] = shim[s], calls'[s] = calls[s], pc'[s] = "idle" <=> pc[s] = "idle",
         draft'[s] \in {draft[s], NoReceipt}, ReturnedTo(s)' = ReturnedTo(s),
         weights <= weights'
  PROVE  ShimOK(s)'
<1>1. /\ Ran(s)' = Ran(s) /\ Ran(s) \in Nat /\ Recorded(s)' = Recorded(s)
      /\ shim[s].digest \in Nat /\ shim[s].since \in Nat
  BY LenProperties DEF Ran, ShimType, ShimRecords, Recorded, ShimBody
<1>2. PhaseOK(s)'
  BY <1>1 DEF ShimOK, PhaseOK
<1>3. DraftOK(s)'
  BY <1>1 DEF ShimOK, DraftOK
<1>4. ReturnsOK(s)'
  BY <1>1 DEF ShimOK, ReturnsOK
<1>5. WeightsOK(s)'
  <2>1. \A n \in 1 .. Ran(s) : shim[s].ran[n] \in 0 .. MaxReplacements
    BY ElementOfSeq DEF Ran, ShimType, ShimRecords
  <2>2. QED
    BY <1>1, <2>1 DEF ShimOK, WeightsOK, ShimType
<1>6. QED
  BY <1>2, <1>3, <1>4, <1>5 DEF ShimOK

\* What emit_receipt does for one emitter leaves the variables of another.
LEMMA OthersApart ==
  ASSUME TypeOK, NEW e \in Emitters, NEW s \in Emitters, e # s, Call(e) \/ Step(e)
  PROVE  /\ pc'[s] = pc[s] /\ draft'[s] = draft[s] /\ calls'[s] = calls[s]
         /\ ReturnedTo(s)' = ReturnedTo(s)
<1> USE DEF Goto, ReturnedTo
<1>1. CASE Finish(e)
  BY <1>1 DEF Finish, Reset, TypeOK
<1>2. CASE Flush(e)
  BY <1>2 DEF Flush, TypeOK
<1>3. CASE Call(e) \/ Lock(e) \/ BuildRaises(e) \/ BuildReceipt(e) \/ FlushFails(e) \/ Unlock(e)
  BY <1>3 DEF Call, Lock, BuildRaises, BuildReceipt, FlushFails, Unlock, TypeOK
<1>4. CASE CloseFlush(e) \/ CloseDrops(e)
  BY <1>4 DEF CloseFlush, CloseDrops, Reset, TypeOK
<1>5. QED
  BY <1>1, <1>2, <1>3, <1>4 DEF Step

\* The shim's own steps change its record as it should be changed.
LEMMA StepShimType == ShimType /\ [LiveNext]_liveVars => ShimType'
<1> SUFFICES ASSUME ShimType, [LiveNext]_liveVars PROVE ShimType'
  OBVIOUS
<1> USE DEF ShimType
<1>1. ASSUME UNCHANGED <<weights, shim>> PROVE ShimType'
  BY <1>1
<1>2. ASSUME NEW s \in Shims, NEW r \in ShimRecords, shim' = [shim EXCEPT ![s] = r],
             UNCHANGED weights
      PROVE  ShimType'
  BY <1>2
<1>3. ASSUME NEW s \in Shims, ShimRefuses(s) \/ CompletionFails(s) PROVE ShimType'
  <2>1. PICK x \in {"usage", "failed"} :
          shim' = [shim EXCEPT ![s] = [@ EXCEPT !.at = x]]
    BY <1>3 DEF ShimRefuses, CompletionFails
  <2>2. [shim[s] EXCEPT !.at = x] \in ShimRecords
    BY DEF ShimRecords, ShimPlaces
  <2>3. UNCHANGED weights
    BY <1>3 DEF ShimRefuses, CompletionFails
  <2>4. QED
    BY <1>2, <2>1, <2>2, <2>3
<1>9. ASSUME NEW s \in Shims, ShimBegins(s) PROVE ShimType'
  <2> DEFINE r == [shim[s] EXCEPT !.at = "digesting", !.since = weights]
  <2>1. r \in ShimRecords
    BY DEF ShimRecords, ShimPlaces
  <2>2. shim' = [shim EXCEPT ![s] = r] /\ UNCHANGED weights
    BY <1>9 DEF ShimBegins
  <2> HIDE DEF r
  <2>3. QED
    BY <1>2, <2>1, <2>2
<1>4. ASSUME NEW s \in Shims, ShimStarts(s) PROVE ShimType'
  <2>1. PICK ps \in PromptLists :
          shim' = [shim EXCEPT ![s] = [@ EXCEPT !.at = IF ps = << >> THEN "usage" ELSE "generating",
                                                !.prompts = ps, !.digest = weights]]
    BY <1>4 DEF ShimStarts
  <2> DEFINE r == [shim[s] EXCEPT !.at = IF ps = << >> THEN "usage" ELSE "generating",
                                  !.prompts = ps, !.digest = weights]
  <2>2. ps \in Scripts
    BY DEF Scripts
  <2>3. r \in ShimRecords
    BY <2>2 DEF ShimRecords, ShimPlaces
  <2>4. UNCHANGED weights
    BY <1>4 DEF ShimStarts
  <2> HIDE DEF r
  <2>5. shim' = [shim EXCEPT ![s] = r]
    BY <2>1 DEF r
  <2>6. QED
    BY <1>2, <2>3, <2>4, <2>5
<1>5. ASSUME NEW s \in Shims, Completes(s) PROVE ShimType'
  <2>1. Append(shim[s].ran, weights) \in Seq(0 .. MaxReplacements)
    BY AppendProperties DEF ShimRecords
  <2>2. QED
    BY <1>5, <2>1 DEF Completes, ShimRecords, ShimPlaces
<1>6. ASSUME NEW s \in Shims, ShimEmits(s) PROVE ShimType'
  <2>1. AfterEmit(s) \in {"failed", "done", "generating"}
    BY DEF AfterEmit
  <2>2. shim' = shim \/ shim' = [shim EXCEPT ![s].at = AfterEmit(s)]
    BY <1>6 DEF ShimEmits
  <2>3. UNCHANGED weights
    BY <1>6 DEF ShimEmits
  <2>4. QED
    BY <2>1, <2>2, <2>3 DEF ShimRecords, ShimPlaces
<1>7. CASE ReplaceWeights
  BY <1>7, LiveBounds DEF ReplaceWeights
<1>8. QED
  BY <1>1, <1>3, <1>4, <1>5, <1>6, <1>7, <1>9
  DEF LiveNext, ThreadEmits, ShimCalls, AuditStarts, AuditCannotRead, AuditReads, AuditVerifies,
      live, liveVars

\* main, outside emit_receipt.
LEMMA ShimMainKeeps ==
  ASSUME QuietInv, ShimType, ShimType', NEW s \in Shims, ShimOK(s),
         ShimBegins(s) \/ ShimRefuses(s) \/ ShimStarts(s) \/ Completes(s)
               \/ CompletionFails(s)
  PROVE  ShimOK(s)'
<1>1. /\ TypeOK /\ LocalOK /\ s \in Emitters /\ UNCHANGED <<vars, weights>>
      /\ shim[s] \in ShimRecords /\ Ran(s) \in Nat
  BY ShimsEmit, LenProperties
  DEF QuietInv, BaseInv, ShimType, ShimRecords, Ran, ShimBegins, ShimRefuses, ShimStarts, Completes,
      CompletionFails
<1>2. pc[s] = "idle" /\ draft[s] = NoReceipt
  BY <1>1 DEF ShimOK, PhaseOK, LocalOK, ShimBegins,
               ShimRefuses, ShimStarts, Completes, CompletionFails
<1>3. /\ pc'[s] = pc[s] /\ draft'[s] = draft[s] /\ calls'[s] = calls[s]
      /\ ReturnedTo(s)' = ReturnedTo(s) /\ weights' = weights
  BY <1>1 DEF vars, ReturnedTo
<1>4. DraftOK(s)'
  BY <1>2, <1>3 DEF DraftOK
<1>5. CASE ShimRefuses(s) \/ CompletionFails(s)
  <2>1. /\ \/ shim'[s].at = "usage" /\ shim[s].at \in {"start", "digesting"}
           \/ shim'[s].at = "failed" /\ shim[s].at = "generating"
        /\ shim'[s].prompts = shim[s].prompts /\ shim'[s].digest = shim[s].digest
        /\ shim'[s].ran = shim[s].ran /\ shim'[s].since = shim[s].since
    BY <1>5, <1>1 DEF ShimRefuses, CompletionFails, ShimType, ShimRecords
  <2>2. Ran(s)' = Ran(s)
    BY <2>1 DEF Ran
  <2>3. PhaseOK(s)'
    BY <1>2, <1>3, <2>1, <2>2 DEF ShimOK, PhaseOK
  <2>4. ReturnsOK(s)'
    BY <1>3, <2>1, <2>2 DEF ShimOK, ReturnsOK
  <2>5. WeightsOK(s)'
    BY <1>3, <2>1, <2>2 DEF ShimOK, WeightsOK
  <2>6. QED
    BY <1>4, <2>3, <2>4, <2>5 DEF ShimOK
<1>6. CASE ShimStarts(s)
  <2>1. PICK ps \in PromptLists :
          shim' = [shim EXCEPT ![s] = [@ EXCEPT !.at = IF ps = << >> THEN "usage" ELSE "generating",
                                                !.prompts = ps, !.digest = weights]]
    BY <1>6 DEF ShimStarts
  <2>2. /\ shim[s].at = "digesting" /\ shim'[s].since = shim[s].since
        /\ shim'[s].at = (IF ps = << >> THEN "usage" ELSE "generating")
        /\ shim'[s].prompts = ps /\ shim'[s].digest = weights /\ shim'[s].ran = shim[s].ran
    BY <1>6, <1>1, <2>1 DEF ShimStarts, ShimType, ShimRecords
  <2>3. Ran(s)' = 0 /\ Ran(s) = 0
    BY <2>2 DEF Ran, ShimOK, PhaseOK
  <2>4. ps # << >> => 0 < Len(ps)
    BY PromptsOfAShim, LenProperties, EmptySeq
  <2>5. PhaseOK(s)'
    BY <1>2, <1>3, <2>2, <2>3, <2>4 DEF ShimOK, PhaseOK
  <2>6. ReturnsOK(s)'
    BY <1>3, <2>2, <2>3 DEF ShimOK, ReturnsOK
  <2>7. WeightsOK(s)'
    BY <1>3, <2>2, <2>3 DEF ShimOK, WeightsOK, ShimType
  <2>8. QED
    BY <1>4, <2>5, <2>6, <2>7 DEF ShimOK
<1>7. CASE Completes(s)
  <2>1. /\ shim[s].at = "generating" /\ shim'[s].at = "emitting"
        /\ shim'[s].prompts = shim[s].prompts /\ shim'[s].digest = shim[s].digest
        /\ shim'[s].ran = Append(shim[s].ran, weights) /\ shim'[s].since = shim[s].since
    BY <1>7, <1>1 DEF Completes, ShimType, ShimRecords
  <2>2. /\ Ran(s)' = Ran(s) + 1 /\ shim'[s].ran[Ran(s) + 1] = weights
        /\ \A n \in 1 .. Ran(s) : shim'[s].ran[n] = shim[s].ran[n]
    BY <1>1, <2>1, AppendProperties DEF Ran, ShimRecords, ShimType
  <2>3. PhaseOK(s)'
    <3>1. Len(shim[s].prompts) \in Nat
      BY <1>1, EmptySeq, LenProperties, PromptsOfAShim DEF ShimRecords, Scripts
    <3>2. QED
      BY <1>1, <1>2, <1>3, <2>1, <2>2, <3>1 DEF ShimOK, PhaseOK
  <2>4. ReturnsOK(s)'
    <3>1. Ran(s) \in Nat
      BY <1>1
    <3>2. QED
      BY <1>3, <2>1, <2>2, <3>1 DEF ShimOK, ReturnsOK
  <2>5. WeightsOK(s)'
    <3>1. shim[s].digest <= weights /\ shim'[s].digest = shim[s].digest /\ weights' = weights
      BY <1>3, <2>1 DEF ShimOK, WeightsOK
    <3>2. \A n \in 1 .. Ran(s) : shim[s].digest <= shim[s].ran[n] /\ shim[s].ran[n] <= weights
      BY DEF ShimOK, WeightsOK
    <3>3. ASSUME NEW n \in 1 .. Ran(s)'
          PROVE  shim'[s].digest <= shim'[s].ran[n] /\ shim'[s].ran[n] <= weights'
      <4>1. n \in 1 .. Ran(s) \/ n = Ran(s) + 1
        BY <1>1, <2>2
      <4>2. weights <= weights
        BY DEF ShimType
      <4>3. QED
        BY <2>2, <3>1, <3>2, <4>1, <4>2
    <3>4. shim'[s].since <= weights' /\ shim'[s].since <= shim'[s].digest
      BY <1>3, <2>1 DEF ShimOK, WeightsOK
    <3>5. QED
      BY <3>1, <3>3, <3>4 DEF WeightsOK
  <2>6. QED
    BY <1>4, <2>3, <2>4, <2>5 DEF ShimOK
<1>9. CASE ShimBegins(s)
  <2>1. /\ shim[s].at = "start" /\ shim'[s].at = "digesting" /\ shim'[s].since = weights
        /\ shim'[s].prompts = shim[s].prompts /\ shim'[s].digest = shim[s].digest
        /\ shim'[s].ran = shim[s].ran
    BY <1>9, <1>1 DEF ShimBegins, ShimType, ShimRecords
  <2>2. Ran(s)' = Ran(s) /\ Ran(s) = 0
    BY <2>1 DEF Ran, ShimOK, PhaseOK
  <2>3. PhaseOK(s)' /\ ReturnsOK(s)'
    BY <1>2, <1>3, <2>1, <2>2 DEF ShimOK, PhaseOK, ReturnsOK
  <2>4. WeightsOK(s)'
    BY <1>3, <2>1, <2>2 DEF ShimOK, WeightsOK, ShimType
  <2>5. QED
    BY <1>4, <2>3, <2>4 DEF ShimOK
<1>8. QED
  BY <1>5, <1>6, <1>7, <1>9

\* emit_receipt, called by the shim: it builds the receipt,
LEMMA ShimBuildKeeps ==
  ASSUME QuietInv, QuietInv', ShimType, ShimType', NEW s \in Shims, ShimOK(s),
         ShimEmits(s), BuildReceipt(s)
  PROVE  ShimOK(s)'
<1>1. /\ pc[s] = "locked" /\ pc'[s] = "writing" /\ UNCHANGED <<lines, calls, returned>>
      /\ s \in Emitters
  BY ShimsEmit DEF QuietInv, BaseInv, TypeOK, BuildReceipt, Goto, file
<1>2. shim' = shim /\ weights' = weights /\ draft'[s].body = Recorded(s)
  BY <1>1 DEF ShimEmits
<1>3. Ran(s)' = Ran(s) /\ Recorded(s)' = Recorded(s) /\ ReturnedTo(s)' = ReturnedTo(s)
  BY <1>1, <1>2 DEF Ran, Recorded, ReturnedTo
<1>4. PhaseOK(s)' /\ ReturnsOK(s)' /\ WeightsOK(s)'
  BY <1>1, <1>2, <1>3 DEF ShimOK, PhaseOK, ReturnsOK, WeightsOK
<1>5. draft'[s].seq = Len(lines)
  BY <1>1 DEF QuietInv, FragIsDraft, Follows
<1>6. \A c \in ReturnedTo(s) : c.receipt.seq < Len(lines)
  BY DEF QuietInv, ReturnedOnLedger, ReturnedTo
<1>7. DraftOK(s)'
  BY <1>2, <1>3, <1>5, <1>6 DEF DraftOK
<1>8. QED
  BY <1>4, <1>7 DEF ShimOK

\* and returns it or raises.
LEMMA ShimFinishKeeps ==
  ASSUME QuietInv, QuietInv', ShimType, ShimType', NEW s \in Shims, ShimOK(s),
         ShimEmits(s), Finish(s)
  PROVE  ShimOK(s)'
<1>1. /\ pc[s] = "closing" /\ pc'[s] = "idle" /\ draft'[s] = NoReceipt
      /\ UNCHANGED calls /\ s \in Emitters
  BY ShimsEmit DEF QuietInv, BaseInv, TypeOK, Finish, Reset, Goto
<1>2. shim' = [shim EXCEPT ![s].at = AfterEmit(s)] /\ weights' = weights
  BY <1>1 DEF ShimEmits
<1>3. /\ shim'[s].at = AfterEmit(s) /\ shim'[s].prompts = shim[s].prompts
      /\ shim'[s].digest = shim[s].digest /\ shim'[s].ran = shim[s].ran
      /\ shim'[s].since = shim[s].since
  BY <1>2 DEF ShimType, ShimRecords
<1>4. /\ shim[s].at = "emitting" /\ Ran(s) \in 1 .. Len(shim[s].prompts)
      /\ calls[s] = Ran(s) /\ Ran(s)' = Ran(s)
  BY <1>1, <1>3 DEF ShimOK, PhaseOK, Ran
<1>5. Len(shim[s].prompts) \in Nat
  BY EmptySeq, LenProperties, PromptsOfAShim DEF ShimType, ShimRecords, Scripts
<1>6. DraftOK(s)' /\ WeightsOK(s)'
  BY <1>1, <1>2, <1>3, <1>4 DEF ShimOK, DraftOK, WeightsOK
<1>7. PhaseOK(s)'
  BY <1>1, <1>3, <1>4, <1>5 DEF PhaseOK, AfterEmit, Ran
<1>8. ReturnsOK(s)'
  <2>1. CASE raised[s]
    <3>1. ReturnedTo(s)' = ReturnedTo(s) /\ shim'[s].at = "failed"
      BY <1>3, <2>1 DEF Finish, ReturnedTo, AfterEmit
    <3>2. QED
      BY <1>3, <1>4, <3>1 DEF ShimOK, ReturnsOK
  <2>2. CASE ~raised[s]
    <3> DEFINE new == [by |-> s, call |-> calls[s], receipt |-> draft[s]]
    <3>1. draft[s] \in Receipts /\ draft[s] # NoReceipt
      BY <1>1, <2>2, NoReceiptIsApart DEF QuietInv, BaseInv, LocalOK
    <3>2. ReturnedTo(s)' = ReturnedTo(s) \union {new}
      BY <2>2 DEF Finish, ReturnedTo
    <3>3. /\ new.call = Ran(s) /\ new.receipt = draft[s]
          /\ new.receipt.body = ShimBody(shim[s].digest, shim[s].prompts[new.call])
      BY <1>4, <3>1 DEF ShimOK, DraftOK, Recorded, Ran
    <3>4. \A c \in ReturnedTo(s) :
            c.call \in 1 .. Ran(s) /\ c.call < Ran(s) /\ c.receipt.seq < draft[s].seq
      BY <1>4, <3>1 DEF ShimOK, DraftOK, ReturnsOK
    <3> HIDE DEF new
    <3>5. ASSUME NEW c \in ReturnedTo(s)'
          PROVE  /\ c.call \in 1 .. Ran(s)
                 /\ c.receipt.body = ShimBody(shim[s].digest, shim[s].prompts[c.call])
                 /\ \A d \in ReturnedTo(s)' : c.call < d.call => c.receipt.seq < d.receipt.seq
      <4>1. CASE c \in ReturnedTo(s)
        BY <3>2, <3>3, <3>4, <4>1 DEF ShimOK, ReturnsOK
      <4>2. CASE c = new
        BY <1>4, <3>2, <3>3, <3>4, <4>2
      <4>3. QED
        BY <3>2, <4>1, <4>2
    <3>6. ASSUME NEW n \in 1 .. Ran(s) PROVE \E c \in ReturnedTo(s)' : c.call = n
      <4>1. CASE n = Ran(s)
        BY <3>2, <3>3, <4>1
      <4>2. CASE n # Ran(s)
        BY <1>4, <3>2, <4>2 DEF ShimOK, ReturnsOK
      <4>3. QED
        BY <4>1, <4>2
    <3>7. shim'[s].at # "emitting"
      BY <1>3 DEF AfterEmit
    <3>8. QED
      BY <1>3, <1>4, <3>5, <3>6, <3>7 DEF ReturnsOK
  <2>3. QED
    BY <2>1, <2>2
<1>9. QED
  BY <1>6, <1>7, <1>8 DEF ShimOK

LEMMA ShimCallKeeps ==
  ASSUME QuietInv, ShimType, NEW s \in Shims, ShimOK(s), ShimCalls(s)
  PROVE  ShimOK(s)'
<1>1. /\ shim[s].at = "emitting" /\ pc[s] = "idle" /\ pc'[s] = "opened"
      /\ calls'[s] = calls[s] + 1 /\ draft'[s] = draft[s]
      /\ UNCHANGED <<shim, weights, returned>>
  BY ShimsEmit DEF QuietInv, BaseInv, TypeOK, ShimCalls, Call, Goto, live
<1>2. Ran(s)' = Ran(s) /\ Recorded(s)' = Recorded(s) /\ ReturnedTo(s)' = ReturnedTo(s)
  BY <1>1 DEF Ran, Recorded, ReturnedTo
<1>3. Ran(s) \in Nat
  BY LenProperties DEF Ran, ShimType, ShimRecords
<1>4. PhaseOK(s)'
  BY <1>1, <1>2, <1>3 DEF ShimOK, PhaseOK
<1>5. DraftOK(s)'
  BY <1>1, <1>2 DEF ShimOK, DraftOK
<1>6. ReturnsOK(s)' /\ WeightsOK(s)'
  BY <1>1, <1>2 DEF ShimOK, ReturnsOK, WeightsOK
<1>7. QED
  BY <1>4, <1>5, <1>6 DEF ShimOK

\* The steps between leave the shim where it is.
LEMMA ShimEmitKeeps ==
  ASSUME QuietInv, QuietInv', ShimType, ShimType', NEW s \in Shims, ShimOK(s), ShimEmits(s)
  PROVE  ShimOK(s)'
<1>1. s \in Emitters /\ TypeOK /\ Step(s) /\ weights' = weights
  BY ShimsEmit DEF QuietInv, BaseInv, ShimEmits
<1>2. weights <= weights'
  BY <1>1 DEF ShimType
<1>3. ASSUME pc[s] # "idle", pc'[s] # "idle",
             UNCHANGED <<calls, returned>>, draft'[s] = draft[s]
      PROVE  ShimOK(s)'
  <2>1. shim' = shim
    BY <1>3 DEF ShimEmits
  <2>2. ReturnedTo(s)' = ReturnedTo(s)
    BY <1>3 DEF ReturnedTo
  <2>3. QED
    BY <1>2, <1>3, <2>1, <2>2, ShimUndisturbed
<1> USE DEF TypeOK, Goto
<1>4. CASE Lock(s) \/ BuildRaises(s) \/ FlushFails(s) \/ Unlock(s)
  BY <1>1, <1>3, <1>4 DEF Lock, BuildRaises, FlushFails, Unlock
<1>5. CASE BuildReceipt(s)
  BY <1>5, ShimBuildKeeps
<1>6. CASE Flush(s)
  <2>1. pc[s] = "writing" /\ (pc' = pc \/ pc' = [pc EXCEPT ![s] = "unlocking"])
        /\ UNCHANGED <<draft, calls, returned>>
    BY <1>6, Zenon DEF Flush
  <2>2. pc'[s] # "idle"
    BY <1>1, <2>1
  <2>3. QED
    BY <1>3, <2>1, <2>2
<1>7. CASE CloseFlush(s) \/ CloseDrops(s)
  BY <1>1, <1>7, NoneLeft DEF CloseFlush, CloseDrops, QuietInv, ChainInv
<1>8. CASE Finish(s)
  BY <1>8, ShimFinishKeeps
<1>9. QED
  BY <1>1, <1>4, <1>5, <1>6, <1>7, <1>8 DEF Step

LEMMA StepShim == QuietInv /\ QuietInv' /\ ShimInv /\ [LiveNext]_liveVars => ShimInv'
<1> SUFFICES ASSUME QuietInv, QuietInv', ShimInv, [LiveNext]_liveVars, NEW s \in Shims
             PROVE  ShimOK(s)'
  BY StepShimType DEF ShimInv
<1>1. ShimType /\ ShimType' /\ ShimOK(s) /\ TypeOK /\ s \in Emitters
  BY StepShimType, ShimsEmit DEF ShimInv, QuietInv, BaseInv
<1>2. ASSUME UNCHANGED vars, shim'[s] = shim[s], weights' \in {weights, weights + 1}
      PROVE  ShimOK(s)'
  <2>1. /\ calls'[s] = calls[s] /\ pc'[s] = pc[s] /\ draft'[s] = draft[s]
        /\ ReturnedTo(s)' = ReturnedTo(s)
    BY <1>2 DEF vars, ReturnedTo
  <2>2. weights <= weights'
    BY <1>1, <1>2 DEF ShimType
  <2>3. QED
    BY <1>1, <1>2, <2>1, <2>2, ShimUndisturbed
<1>3. ASSUME NEW e \in Emitters, e # s, Call(e) \/ Step(e), shim'[s] = shim[s], UNCHANGED weights
      PROVE  ShimOK(s)'
  <2>1. weights <= weights'
    BY <1>1, <1>3 DEF ShimType
  <2>2. /\ pc'[s] = pc[s] /\ draft'[s] = draft[s] /\ calls'[s] = calls[s]
        /\ ReturnedTo(s)' = ReturnedTo(s)
    BY <1>1, <1>3, OthersApart
  <2>3. QED
    BY <1>1, <1>3, <2>1, <2>2, ShimUndisturbed
<1>4. ASSUME NEW e \in Emitters \ Shims, ThreadEmits(e) PROVE ShimOK(s)'
  BY <1>3, <1>4 DEF ThreadEmits, live
<1>5. ASSUME NEW t \in Shims,
             ShimBegins(t) \/ ShimRefuses(t) \/ ShimStarts(t) \/ Completes(t)
               \/ CompletionFails(t)
      PROVE  ShimOK(s)'
  <2>1. CASE t = s
    BY <1>1, <1>5, <2>1, ShimMainKeeps
  <2>2. CASE t # s
    BY <1>1, <1>2, <1>5, <2>2
    DEF ShimBegins, ShimRefuses, ShimStarts, Completes, CompletionFails, ShimType
  <2>3. QED
    BY <2>1, <2>2
<1>6. ASSUME NEW t \in Shims, ShimCalls(t) \/ ShimEmits(t) PROVE ShimOK(s)'
  <2>1. CASE t = s
    BY <1>1, <1>6, <2>1, ShimCallKeeps, ShimEmitKeeps
  <2>2. CASE t # s
    BY <1>1, <1>3, <1>6, <2>2, ShimsEmit DEF ShimCalls, ShimEmits, ShimType, live
  <2>3. QED
    BY <2>1, <2>2
<1>7. CASE ReplaceWeights \/ AuditStarts \/ AuditCannotRead \/ AuditReads \/ AuditVerifies
  BY <1>2, <1>7 DEF ReplaceWeights, AuditStarts, AuditCannotRead, AuditReads, AuditVerifies
<1>8. CASE UNCHANGED liveVars
  BY <1>2, <1>8 DEF liveVars, live
<1>9. QED
  BY <1>4, <1>5, <1>6, <1>7, <1>8 DEF LiveNext

\* Whoever else writes to the ledger, a shim's receipts are those of its first prompts,
\* in their order, and at most its last completion has none.
THEOREM ShimsLeaveNoGap ==
  ASSUME HasFcntl, MaxWriteErrors = 0, MaxCrashes = 0, MaxPowerLosses = 0
  PROVE  LiveSpec => []ShimLeavesNoGap
<1>1. ShimInv => ShimLeavesNoGap
  BY DEF ShimInv, ShimOK, PhaseOK, ReturnsOK, ShimLeavesNoGap, Ran
<1>2. LiveSpec => []QuietInv
  BY InitQuiet, StepQuiet, LiveUsesTheLedger, PTL DEF Spec
<1>3. QED
  BY <1>1, <1>2, InitShim, StepShim, PTL DEF LiveSpec

\* They name weights the file had between the shim's start and the completion.
THEOREM ShimsNameTheirWeights ==
  ASSUME HasFcntl, MaxWriteErrors = 0, MaxCrashes = 0, MaxPowerLosses = 0
  PROVE  LiveSpec => []ShimReceiptsNameTheWeights
<1>1. ShimInv => ShimReceiptsNameTheWeights
  <2>1. SUFFICES ASSUME ShimInv, NEW s \in Shims, NEW c \in ReturnedTo(s)
                 PROVE  c.receipt.body.digest \in shim[s].since .. shim[s].ran[c.call]
    BY DEF ShimReceiptsNameTheWeights
  <2>2. /\ c.call \in 1 .. Ran(s) /\ Ran(s) \in Nat
        /\ c.receipt.body = ShimBody(shim[s].digest, shim[s].prompts[c.call])
    BY <2>1, LenProperties DEF ShimInv, ShimType, ShimRecords, ShimOK, ReturnsOK, Ran
  <2>3. c.receipt.body.digest = shim[s].digest
    BY <2>2 DEF ShimBody
  <2>4. shim[s].at \notin {"start", "digesting", "usage"}
    BY <2>1, <2>2 DEF ShimInv, ShimOK, PhaseOK
  <2>5. shim[s].since <= shim[s].digest /\ shim[s].digest <= shim[s].ran[c.call]
    BY <2>1, <2>2, <2>4 DEF ShimInv, ShimOK, WeightsOK
  <2>6. shim[s].digest \in Nat /\ shim[s].since \in Nat /\ shim[s].ran[c.call] \in Nat
    <3>1. /\ shim[s].digest \in 0 .. MaxReplacements /\ shim[s].since \in 0 .. MaxReplacements
          /\ shim[s].ran \in Seq(0 .. MaxReplacements)
      BY <2>1 DEF ShimInv, ShimType, ShimRecords
    <3>2. shim[s].ran[c.call] \in 0 .. MaxReplacements
      BY <2>2, <3>1, ElementOfSeq DEF Ran
    <3>3. QED
      BY <3>1, <3>2
  <2>7. QED
    BY <2>3, <2>5, <2>6
<1>2. LiveSpec => []QuietInv
  BY InitQuiet, StepQuiet, LiveUsesTheLedger, PTL DEF Spec
<1>3. QED
  BY <1>1, <1>2, InitShim, StepShim, PTL DEF LiveSpec

-------------------------------------------------------------------------------
(* Types *)

\* A shim has begun no more completions than it has prompts.
ProgressOK(s) ==
  /\ shim[s].at \in {"start", "digesting"} => Ran(s) = 0
  /\ Ran(s) <= Len(shim[s].prompts)
  /\ shim[s].at = "generating" => Ran(s) < Len(shim[s].prompts)

LiveTypeInv == BaseInv /\ AuditType /\ ShimType /\ \A s \in Shims : ProgressOK(s)

LEMMA InitLiveType == LiveInit => LiveTypeInv
<1> SUFFICES ASSUME LiveInit, NEW s \in Shims PROVE ProgressOK(s)
  BY InitLive, InitBase, InitAuditType, InitShim DEF LiveTypeInv, ShimInv
<1>1. shim[s].at = "start" /\ shim[s].prompts = << >> /\ shim[s].ran = << >>
  BY DEF LiveInit
<1>2. QED
  BY <1>1, EmptySeq DEF ProgressOK, Ran

LEMMA StepProgress ==
  ASSUME ShimType, NEW s \in Shims, ProgressOK(s), [LiveNext]_liveVars
  PROVE  ProgressOK(s)'
<1>1. /\ shim[s] \in ShimRecords /\ Ran(s) \in Nat /\ Len(shim[s].prompts) \in Nat
      /\ shim[s].ran \in Seq(0 .. MaxReplacements) /\ weights \in 0 .. MaxReplacements
  BY EmptySeq, LenProperties, PromptsOfAShim DEF ShimType, ShimRecords, Ran, Scripts
<1>2. ASSUME shim'[s] = shim[s] PROVE ProgressOK(s)'
  BY <1>2 DEF ProgressOK, Ran
<1>3. ASSUME shim'[s].prompts = shim[s].prompts, shim'[s].ran = shim[s].ran,
             shim'[s].at \in {"usage", "failed", "done"}
      PROVE  ProgressOK(s)'
  BY <1>3 DEF ProgressOK, Ran
<1>4. ASSUME NEW t \in Shims, ShimRefuses(t) \/ CompletionFails(t) PROVE ProgressOK(s)'
  <2>1. CASE t = s
    BY <1>3, <1>4, <2>1 DEF ShimRefuses, CompletionFails, ShimType, ShimRecords
  <2>2. CASE t # s
    BY <1>2, <1>4, <2>2 DEF ShimRefuses, CompletionFails, ShimType
  <2>3. QED
    BY <2>1, <2>2
<1>5. ASSUME NEW t \in Shims, ShimStarts(t) PROVE ProgressOK(s)'
  <2>1. PICK ps \in PromptLists :
          shim' = [shim EXCEPT ![t] = [@ EXCEPT !.at = IF ps = << >> THEN "usage" ELSE "generating",
                                                !.prompts = ps, !.digest = weights]]
    BY <1>5 DEF ShimStarts
  <2>2. CASE t = s
    <3>1. shim[s].at = "digesting"
      BY <1>5, <2>2 DEF ShimStarts
    <3>2. /\ shim'[s].at = (IF ps = << >> THEN "usage" ELSE "generating")
          /\ shim'[s].prompts = ps /\ shim'[s].ran = shim[s].ran
      BY <2>1, <2>2 DEF ShimType, ShimRecords
    <3>3. Len(ps) \in Nat /\ (ps # << >> => 0 < Len(ps))
      BY PromptsOfAShim, LenProperties, EmptySeq
    <3>4. QED
      BY <3>1, <3>2, <3>3 DEF ProgressOK, Ran
  <2>3. CASE t # s
    BY <1>2, <2>1, <2>3 DEF ShimType
  <2>4. QED
    BY <2>2, <2>3
<1>9. ASSUME NEW t \in Shims, ShimBegins(t) PROVE ProgressOK(s)'
  <2>1. CASE t = s
    <3>1. /\ shim[s].at = "start" /\ shim'[s].at = "digesting"
          /\ shim'[s].prompts = shim[s].prompts /\ shim'[s].ran = shim[s].ran
      BY <1>9, <2>1 DEF ShimBegins, ShimType, ShimRecords
    <3>2. QED
      BY <3>1 DEF ProgressOK, Ran
  <2>2. CASE t # s
    BY <1>2, <1>9, <2>2 DEF ShimBegins, ShimType
  <2>3. QED
    BY <2>1, <2>2
<1>6. ASSUME NEW t \in Shims, Completes(t) PROVE ProgressOK(s)'
  <2>1. CASE t = s
    <3>1. /\ shim[s].at = "generating" /\ shim'[s].at = "emitting"
          /\ shim'[s].prompts = shim[s].prompts
          /\ shim'[s].ran = Append(shim[s].ran, weights)
      BY <1>1, <1>6, <2>1 DEF Completes, ShimType, ShimRecords
    <3>2. Ran(s)' = Ran(s) + 1
      BY <1>1, <3>1, AppendProperties DEF Ran
    <3>3. QED
      BY <1>1, <3>1, <3>2 DEF ProgressOK
  <2>2. CASE t # s
    BY <1>2, <1>6, <2>2 DEF Completes, ShimType
  <2>3. QED
    BY <2>1, <2>2
<1>7. ASSUME NEW t \in Shims, ShimEmits(t) PROVE ProgressOK(s)'
  <2>1. CASE shim' = shim
    BY <1>2, <2>1
  <2>2. CASE shim' = [shim EXCEPT ![t].at = AfterEmit(t)] /\ t = s
    <3>1. /\ shim'[s].at = AfterEmit(s)
          /\ shim'[s].prompts = shim[s].prompts /\ shim'[s].ran = shim[s].ran
      BY <2>2 DEF ShimType, ShimRecords
    <3>2. QED
      BY <1>1, <3>1 DEF ProgressOK, AfterEmit, Ran
  <2>3. CASE shim' = [shim EXCEPT ![t].at = AfterEmit(t)] /\ t # s
    BY <1>2, <2>3 DEF ShimType
  <2>4. QED
    BY <1>7, <2>1, <2>2, <2>3 DEF ShimEmits
<1>8. QED
  BY <1>2, <1>4, <1>5, <1>6, <1>7, <1>9
  DEF LiveNext, ThreadEmits, ShimCalls, ReplaceWeights, AuditStarts, AuditCannotRead, AuditReads,
      AuditVerifies, live, liveVars

LEMMA StepLiveType == LiveTypeInv /\ [LiveNext]_liveVars => LiveTypeInv'
BY StepLive, StepBase, StepAuditType, StepShimType, StepProgress DEF LiveTypeInv, BaseInv

\* The shims and the auditor keep to their types whatever the disk does to the writers,
\* and no shim runs more completions than it was given prompts.
THEOREM LiveTypes == LiveSpec => []LiveTypeOK
<1>1. LiveTypeInv => LiveTypeOK
  <2> SUFFICES ASSUME LiveTypeInv PROVE LiveTypeOK
    OBVIOUS
  <2>1. /\ audit \in AuditRecords
        /\ audit.at \in {"reading", "verifying"} => audit.k \in DOMAIN audit.dir
    BY DEF LiveTypeInv, AuditType
  <2>2. /\ audit.at \in Places /\ audit.code \in 0 .. 2 /\ audit.total \in Nat
        /\ audit.dir \in AnyListing
    BY <2>1 DEF AuditRecords
  <2>3. ASSUME NEW s \in Shims
        PROVE  /\ shim[s].at \in ShimPlaces /\ shim[s].prompts \in Scripts
               /\ {shim[s].since, shim[s].digest} \subseteq 0 .. MaxReplacements
               /\ shim[s].ran \in Seq(0 .. MaxReplacements)
               /\ Len(shim[s].ran) <= Len(shim[s].prompts)
    BY DEF LiveTypeInv, ShimType, ShimRecords, ProgressOK, Ran
  <2>4. weights \in 0 .. MaxReplacements
    BY DEF LiveTypeInv, ShimType
  <2>5. QED
    BY <2>1, <2>2, <2>3, <2>4 DEF LiveTypeOK, Places, AnyListing, Scripts, ShimPlaces
<1>2. QED
  BY <1>1, InitLiveType, StepLiveType, PTL DEF LiveSpec

-------------------------------------------------------------------------------
(* Counting receipts, ledger by ledger.  The count is a recursive function; *)
(* that it has the value its equation says is proved by induction, which    *)
(* here is a statement about sets of numbers.                               *)

\* A set of natural numbers has a least element,
LEMMA LeastElement ==
  ASSUME NEW T, T \subseteq Nat, T # {}
  PROVE  \E x \in T : \A y \in T : x <= y
<1> DEFINE R == {p \in Nat \X Nat : p[1] < p[2]}
<1>1. IsWellFoundedOn(R, Nat)
  BY NatLessThanWellFounded DEF OpToRel
<1> HIDE DEF R
<1>2. PICK x \in T : \A y \in T : ~(<<y, x>> \in R)
  BY <1>1, WFMin
<1>3. ASSUME NEW y \in T PROVE x <= y
  <2>1. x \in Nat /\ y \in Nat
    OBVIOUS
  <2>2. ~(y < x)
    BY <1>2, <2>1 DEF R
  <2>3. QED
    BY <2>1, <2>2
<1>4. QED
  BY <1>2, <1>3

\* so that what holds of 0, and of n + 1 when it holds of n, holds of all.
LEMMA Induction ==
  ASSUME NEW T, 0 \in T, \A n \in Nat : n \in T => n + 1 \in T
  PROVE  Nat \subseteq T
<1> SUFFICES ASSUME Nat \ T # {} PROVE FALSE
  OBVIOUS
<1>1. PICK x \in Nat \ T : \A y \in Nat \ T : x <= y
  BY LeastElement
<1>2. x # 0 /\ x - 1 \in Nat /\ ~(x <= x - 1) /\ (x - 1) + 1 = x
  BY <1>1
<1>3. x - 1 \in T
  BY <1>1, <1>2
<1>4. QED
  BY <1>1, <1>2, <1>3

\* f[k] is the sum of the first k weights.
IsSum(f, m, w) ==
  f = [k \in 0 .. m |-> IF k = 0 THEN 0 ELSE f[k - 1] + w[k]]

\* There are such sums: the recursive function that counts receipts is one.
LEMMA SumExists ==
  ASSUME NEW N \in Nat, NEW w \in [1 .. N -> Nat]
  PROVE  \E f \in [0 .. N -> Nat] : IsSum(f, N, w)
<1> DEFINE T == {m \in Nat : m <= N => \E f \in [0 .. m -> Nat] : IsSum(f, m, w)}
<1>1. 0 \in T
  <2> DEFINE z == [k \in 0 .. 0 |-> 0]
  <2>1. z \in [0 .. 0 -> Nat] /\ IsSum(z, 0, w)
    BY DEF IsSum
  <2> HIDE DEF z
  <2>3. QED
    BY <2>1
<1>2. ASSUME NEW m \in Nat, m \in T PROVE m + 1 \in T
  <2> SUFFICES ASSUME m + 1 <= N PROVE \E f \in [0 .. m + 1 -> Nat] : IsSum(f, m + 1, w)
    OBVIOUS
  <2>1. PICK f \in [0 .. m -> Nat] : IsSum(f, m, w)
    BY <1>2
  <2> DEFINE g == [k \in 0 .. m + 1 |-> IF k = m + 1 THEN f[m] + w[m + 1] ELSE f[k]]
  <2>2. f[m] \in Nat /\ w[m + 1] \in Nat
    OBVIOUS
  <2>3. g \in [0 .. m + 1 -> Nat]
    BY <2>2
  <2>4. ASSUME NEW k \in 0 .. m + 1 PROVE g[k] = IF k = 0 THEN 0 ELSE g[k - 1] + w[k]
    <3>1. CASE k = m + 1
      <4>1. k # 0 /\ k - 1 = m /\ m \in 0 .. m + 1 /\ m # m + 1
        BY <3>1
      <4>2. g[m] = f[m] /\ g[k] = f[m] + w[k]
        BY <3>1, <4>1
      <4>3. QED
        BY <4>1, <4>2
    <3>2. CASE k # m + 1
      <4>1. k \in 0 .. m /\ g[k] = f[k]
        BY <3>2
      <4>2. k # 0 => k - 1 \in 0 .. m
        BY <4>1
      <4>4. k # 0 => g[k - 1] = f[k - 1]
        BY <4>2
      <4>3. f[k] = IF k = 0 THEN 0 ELSE f[k - 1] + w[k]
        BY <2>1, <4>1 DEF IsSum
      <4>5. QED
        BY <4>1, <4>3, <4>4
    <3>3. QED
      BY <3>1, <3>2
  <2> HIDE DEF g
  <2>5. IsSum(g, m + 1, w)
    BY <2>3, <2>4 DEF IsSum
  <2>6. QED
    BY <2>3, <2>5
<1>3. N \in T
  <2> HIDE DEF T
  <2>1. QED
    BY <1>1, <1>2, Induction
<1>4. QED
  BY <1>3

Entries(dir, k, log) == IF dir[k] = Live THEN log ELSE dir[k]

\* In the present listing these are the ledgers the property speaks of.
LEMMA ListedEntries == \A k, log : Listed(k, log) = Entries(audit.dir, k, log)
BY DEF Listed, Entries

\* Counted, with the counts after each ledger.
Counts(dir, log) ==
  LET n[k \in 0 .. Len(dir)] ==
        IF k = 0 THEN 0
        ELSE n[k - 1] + Len(IF dir[k] = Live THEN log ELSE dir[k])
  IN n

LEMMA CountsIs ==
  ASSUME NEW dir \in Directories, NEW log \in Seq(Lines)
  PROVE  /\ Len(dir) \in Nat
         /\ \A k \in 1 .. Len(dir) : Len(Entries(dir, k, log)) \in Nat
         /\ Counts(dir, log) \in [0 .. Len(dir) -> Nat]
         /\ Counts(dir, log)[0] = 0
         /\ \A k \in 1 .. Len(dir) :
              Counts(dir, log)[k] = Counts(dir, log)[k - 1] + Len(Entries(dir, k, log))
<1> DEFINE N == Len(dir)
           w == [k \in 1 .. N |-> Len(Entries(dir, k, log))]
           n[k \in 0 .. Len(dir)] ==
             IF k = 0 THEN 0
             ELSE n[k - 1] + Len(IF dir[k] = Live THEN log ELSE dir[k])
<1>1. dir \in Seq({Live} \union Seq(Lines))
  BY ListedLedgers
<1>2. N \in Nat
  BY <1>1, LenProperties
<1>3. ASSUME NEW k \in 1 .. N PROVE Len(Entries(dir, k, log)) \in Nat
  <2>1. dir[k] \in {Live} \union Seq(Lines)
    BY <1>1, ElementOfSeq
  <2>2. QED
    BY <2>1, LenProperties DEF Entries
<1>4. w \in [1 .. N -> Nat]
  BY <1>3
<1>5. PICK f \in [0 .. N -> Nat] : IsSum(f, N, w)
  <2> HIDE DEF w, N
  <2> QED
    BY <1>2, <1>4, SumExists
<1>6. f = [k \in 0 .. Len(dir) |->
             IF k = 0 THEN 0
             ELSE f[k - 1] + Len(IF dir[k] = Live THEN log ELSE dir[k])]
  <2>1. \A k \in 0 .. N : k # 0 => k \in 1 .. N
    BY <1>2
  <2>2. QED
    BY <1>5, <2>1 DEF IsSum, Entries
<1>7. n = [k \in 0 .. Len(dir) |->
             IF k = 0 THEN 0
             ELSE n[k - 1] + Len(IF dir[k] = Live THEN log ELSE dir[k])]
  BY <1>6 DEF n
<1>8. Counts(dir, log) = n
  BY DEF Counts
<1> HIDE DEF n
<1>9. /\ n[0] = 0
      /\ \A k \in 1 .. N : n[k] = n[k - 1] + Len(Entries(dir, k, log))
  <2>1. 0 \in 0 .. N /\ \A k \in 1 .. N : k \in 0 .. N /\ k # 0
    BY <1>2
  <2>2. QED
    BY <1>7, <2>1 DEF Entries
<1>10. \A k \in 0 .. N : n[k] \in Nat
  <2> DEFINE T == {k \in Nat : k <= N => n[k] \in Nat}
  <2>1. 0 \in T
    BY <1>9
  <2>2. ASSUME NEW k \in Nat, k \in T PROVE k + 1 \in T
    <3>1. ASSUME k + 1 <= N PROVE n[k + 1] \in Nat
      <4>1. k + 1 \in 1 .. N /\ (k + 1) - 1 = k /\ n[k] \in Nat
        BY <1>2, <2>2, <3>1
      <4>2. QED
        BY <1>3, <1>9, <4>1
    <3>2. QED
      BY <3>1
  <2> HIDE DEF T
  <2>3. Nat \subseteq T
    BY <2>1, <2>2, Induction
  <2>4. QED
    BY <1>2, <2>3 DEF T
<1>11. n \in [0 .. N -> Nat]
  <2>1. n = [k \in 0 .. N |-> n[k]]
    BY <1>7
  <2>2. QED
    BY <1>10, <2>1
<1>12. QED
  BY <1>2, <1>3, <1>8, <1>9, <1>11

\* A longer ledger counts for no less.
LEMMA CountsGrow ==
  ASSUME NEW dir \in Directories, NEW log \in Seq(Lines), NEW more \in Seq(Lines),
         Len(log) <= Len(more)
  PROVE  \A k \in 0 .. Len(dir) : Counts(dir, log)[k] <= Counts(dir, more)[k]
<1> DEFINE N == Len(dir)
           f == Counts(dir, log)
           g == Counts(dir, more)
           T == {k \in Nat : k <= N => f[k] <= g[k]}
<1>1. /\ N \in Nat /\ f \in [0 .. N -> Nat] /\ g \in [0 .. N -> Nat] /\ f[0] = 0 /\ g[0] = 0
      /\ \A k \in 1 .. N : /\ f[k] = f[k - 1] + Len(Entries(dir, k, log))
                           /\ g[k] = g[k - 1] + Len(Entries(dir, k, more))
                           /\ Len(Entries(dir, k, log)) \in Nat
                           /\ Len(Entries(dir, k, more)) \in Nat
  BY CountsIs
<1>2. \A k \in 1 .. N : Len(Entries(dir, k, log)) <= Len(Entries(dir, k, more))
  BY <1>1 DEF Entries
<1> HIDE DEF N, f, g
<1>3. 0 \in T
  BY <1>1
<1>4. ASSUME NEW k \in Nat, k \in T PROVE k + 1 \in T
  <2>1. ASSUME k + 1 <= N PROVE f[k + 1] <= g[k + 1]
    <3>1. k + 1 \in 1 .. N /\ k \in 0 .. N /\ (k + 1) - 1 = k /\ f[k] <= g[k]
      BY <1>1, <1>4, <2>1
    <3>2. f[k] \in Nat /\ g[k] \in Nat
      BY <1>1, <3>1
    <3>3. QED
      BY <1>1, <1>2, <3>1, <3>2
  <2>2. QED
    BY <2>1
<1>5. Nat \subseteq T
  <2> HIDE DEF T
  <2> QED
    BY <1>3, <1>4, Induction
<1>6. QED
  BY <1>1, <1>5 DEF N, f, g

-------------------------------------------------------------------------------
(* What a passing audit vouches for *)

Grown(l, m) == Len(l) <= Len(m) /\ \A i \in 1 .. Len(l) : m[i] = l[i]

LEMMA GrownTransitive ==
  ASSUME NEW l \in Seq(Lines), NEW m \in Seq(Lines), NEW n \in Seq(Lines),
         Grown(l, m), Grown(m, n)
  PROVE  Grown(l, n)
<1>1. Len(l) \in Nat /\ Len(m) \in Nat /\ Len(n) \in Nat
  BY LenProperties
<1>2. Len(l) <= Len(m) /\ Len(m) <= Len(n)
  BY DEF Grown
<1>3. ASSUME NEW i \in 1 .. Len(l) PROVE n[i] = l[i]
  <2>1. i \in 1 .. Len(m)
    BY <1>1, <1>2
  <2>2. QED
    BY <2>1 DEF Grown
<1>4. QED
  BY <1>1, <1>2, <1>3 DEF Grown

\* The beginning of a ledger that passes passes.
LEMMA BeginningPasses ==
  ASSUME NEW l \in Seq(Lines), NEW m \in Seq(Lines), Grown(l, m), Accepts(m)
  PROVE  Accepts(l)
<1> SUFFICES ASSUME NEW i \in 1 .. Len(l) PROVE Passes(l, i)
  BY DEF Accepts
<1>1. /\ Len(l) \in Nat /\ Len(m) \in Nat /\ i \in 1 .. Len(m) /\ m[i] = l[i]
      /\ i >= 2 => m[i - 1] = l[i - 1]
  BY LenProperties DEF Grown
<1>2. QED
  BY <1>1 DEF Accepts, Passes

\* (Whatever is appended.)
LEMMA AnyAppend ==
  ASSUME NEW S, NEW l \in Seq(S), NEW x
  PROVE  Len(Append(l, x)) = Len(l) + 1 /\ Append(l, x) # << >>
<1>1. l \in Seq(S \union {x})
  BY SeqMonotonic
<1>2. QED
  BY <1>1, AppendProperties

\* Whoever is writing, the file only gets longer: so does what a reader finds in it.
LEMMA LedgerGrows ==
  ASSUME TypeOK, [LiveNext]_liveVars
  PROVE  /\ Grown(lines, lines')
         /\ Len(Readable) <= Len(Readable')
<1>1. /\ lines \in Seq(Lines) /\ frag \in Seq(Pieces) /\ Len(lines) \in Nat
      /\ Parse(frag) \in Lines
  BY ParseType, LenProperties DEF TypeOK
<1>2. /\ Grown(lines, lines) /\ Grown(lines, Readable)
      /\ Len(Readable) \in {Len(lines), Len(lines) + 1}
  BY <1>1, AppendProperties DEF Grown, Readable
<1>3. ASSUME UNCHANGED file PROVE Grown(lines, lines') /\ Len(Readable) <= Len(Readable')
  BY <1>1, <1>2, <1>3 DEF file, Readable
<1>4. ASSUME NEW e \in Emitters, Put(draft[e], sent[e] + 1)
      PROVE  Grown(lines, lines') /\ Len(Readable) <= Len(Readable')
  <2>1. CASE sent[e] + 1 < PieceCount
    <3>1. lines' = lines /\ frag' = Append(frag, Piece(draft[e], sent[e] + 1))
      BY <1>4, <2>1 DEF Put
    <3>2. frag' # << >>
      BY <1>1, <3>1, AnyAppend
    <3>3. Readable' = Append(lines, Parse(frag)')
      BY <3>1, <3>2 DEF Readable
    <3>4. Len(Readable') = Len(lines) + 1
      BY <1>1, <3>3, AnyAppend
    <3>5. QED
      BY <1>1, <1>2, <3>1, <3>4
  <2>2. CASE ~(sent[e] + 1 < PieceCount)
    <3>1. lines' = Readable /\ frag' = << >>
      BY <1>4, <2>2 DEF Put
    <3>2. Readable' = Readable
      BY <3>1 DEF Readable
    <3>3. QED
      BY <1>1, <1>2, <3>1, <3>2
  <2>3. QED
    BY <2>1, <2>2
<1>5. ASSUME NEW e \in Emitters, Call(e) \/ Step(e)
      PROVE  UNCHANGED file \/ Put(draft[e], sent[e] + 1)
  BY <1>5 DEF Call, Step, Lock, BuildRaises, BuildReceipt, Flush, FlushFails, Unlock,
              CloseFlush, CloseDrops, Finish
<1>6. (\E e \in Emitters : Call(e) \/ Step(e)) \/ UNCHANGED vars
  BY ShimsEmit
  DEF LiveNext, liveVars, live, ThreadEmits, ShimBegins, ShimRefuses, ShimStarts, Completes,
      CompletionFails, ShimCalls, ShimEmits, ReplaceWeights, AuditStarts, AuditCannotRead,
      AuditReads, AuditVerifies
<1>7. UNCHANGED vars => UNCHANGED file
  BY DEF vars, file
<1>8. QED
  BY <1>3, <1>4, <1>5, <1>6, <1>7

\* The first j ledgers of the listing have been read and verified.
Verified(j) ==
  /\ \A i \in 1 .. j : Accepts(Entries(audit.dir, i, audit.began))
  /\ Counts(audit.dir, audit.began)[j] <= audit.total
  /\ audit.total <= Counts(audit.dir, Readable)[j]

\* What the first reading of the present ledger found is no longer than the ledger is.
FirstInBetween ==
  Len(audit.first) \in Len(Entries(audit.dir, audit.k, audit.began))
                       .. Len(Entries(audit.dir, audit.k, Readable))

Passing == audit.at \in {"reading", "verifying"} \/ (audit.at = "ended" /\ audit.code = 0)

VouchInv ==
  /\ audit.at = "idle" => audit.total = 0
  /\ Passing => audit.dir \in Directories /\ Grown(audit.began, lines)
  /\ audit.at \in {"reading", "verifying"} => Verified(audit.k - 1)
  /\ audit.at = "verifying" => FirstInBetween
  /\ audit.at = "ended" /\ audit.code = 0 => Verified(Len(audit.dir))

\* The auditor writes nothing.
LEMMA AuditorOnlyReads == [LiveNext]_liveVars => UNCHANGED audit \/ UNCHANGED <<vars, Readable>>
<1>1. UNCHANGED vars => UNCHANGED Readable
  BY DEF vars, Readable
<1>2. QED
  BY <1>1
  DEF LiveNext, liveVars, live, ThreadEmits, ShimBegins, ShimRefuses, ShimStarts, Completes,
      CompletionFails, ShimCalls, ShimEmits, ReplaceWeights, AuditStarts, AuditCannotRead,
      AuditReads, AuditVerifies

LEMMA InitVouch == LiveInit => VouchInv
BY DEF LiveInit, VouchInv, Passing

\* A ledger that grows in the middle of an audit takes nothing back.
LEMMA GrowthKeepsVouch ==
  ASSUME TypeOK, TypeOK', AuditType, VouchInv, UNCHANGED audit, [LiveNext]_liveVars
  PROVE  VouchInv'
<1>1. ASSUME NEW l \in Seq(Lines), NEW f \in Seq(Pieces)
      PROVE  (IF f = << >> THEN l ELSE Append(l, Parse(f))) \in Seq(Lines)
  BY ParseType, AppendProperties
<1>2. /\ lines \in Seq(Lines) /\ lines' \in Seq(Lines)
      /\ Readable \in Seq(Lines) /\ Readable' \in Seq(Lines) /\ audit.began \in Seq(Lines)
      /\ audit.k \in Nat /\ audit.total \in Nat /\ audit.first \in Seq(Lines)
  BY <1>1 DEF Readable, TypeOK, AuditType, AuditRecords, Ledgers
<1>3. Grown(lines, lines') /\ Len(Readable) <= Len(Readable')
  BY LedgerGrows
<1>4. Grown(audit.began, lines) => Grown(audit.began, lines')
  BY <1>2, <1>3, GrownTransitive
<1>5. ASSUME Passing, NEW j \in 0 .. Len(audit.dir), Verified(j) PROVE Verified(j)'
  <2>1. audit.dir \in Directories
    BY <1>5 DEF VouchInv
  <2>2. Counts(audit.dir, Readable)[j] <= Counts(audit.dir, Readable')[j]
    BY <1>2, <1>3, <2>1, CountsGrow
  <2>3. Counts(audit.dir, Readable)[j] \in Nat /\ Counts(audit.dir, Readable')[j] \in Nat
    BY <1>2, <2>1, CountsIs
  <2>4. QED
    BY <1>2, <1>5, <2>2, <2>3 DEF Verified
<1>6. ASSUME audit.at \in {"reading", "verifying"}
      PROVE  audit.k \in 1 .. Len(audit.dir) /\ Len(audit.dir) \in Nat /\ audit.dir \in Directories
  <2>1. audit.dir \in Directories /\ audit.k \in DOMAIN audit.dir
    BY <1>6 DEF VouchInv, Passing, AuditType
  <2>2. QED
    BY <2>1, ListedLedgers, LenProperties
<1>7. ASSUME audit.at = "verifying" PROVE FirstInBetween'
  <2>1. /\ Len(audit.first) \in Nat
        /\ Len(Entries(audit.dir, audit.k, audit.began)) \in Nat
        /\ Len(Entries(audit.dir, audit.k, Readable)) \in Nat
        /\ Len(Entries(audit.dir, audit.k, Readable')) \in Nat
    BY <1>2, <1>6, <1>7, CountsIs, LenProperties
  <2>2. Len(Entries(audit.dir, audit.k, Readable)) <= Len(Entries(audit.dir, audit.k, Readable'))
    BY <1>3, <2>1 DEF Entries
  <2>3. FirstInBetween
    BY <1>7 DEF VouchInv
  <2>4. QED
    BY <2>1, <2>2, <2>3 DEF FirstInBetween
<1>8. ASSUME audit.at \in {"reading", "verifying"} PROVE Verified(audit.k - 1)'
  <2>1. audit.k - 1 \in 0 .. Len(audit.dir) /\ Verified(audit.k - 1) /\ Passing
    BY <1>6, <1>8 DEF VouchInv, Passing
  <2>2. QED
    BY <1>5, <2>1
<1>9. ASSUME audit.at = "ended", audit.code = 0 PROVE Verified(Len(audit.dir))'
  <2>1. Verified(Len(audit.dir)) /\ Passing /\ Len(audit.dir) \in Nat
    BY <1>2, <1>9, CountsIs DEF VouchInv, Passing
  <2>2. QED
    BY <1>5, <2>1
<1>10. QED
  BY <1>4, <1>7, <1>8, <1>9 DEF VouchInv, Passing

LEMMA StepVouch == TypeOK /\ TypeOK' /\ AuditType /\ VouchInv /\ [LiveNext]_liveVars => VouchInv'
<1> SUFFICES ASSUME TypeOK, TypeOK', AuditType, VouchInv, [LiveNext]_liveVars PROVE VouchInv'
  OBVIOUS
<1>1. CASE UNCHANGED audit
  BY <1>1, GrowthKeepsVouch
<1> SUFFICES ASSUME UNCHANGED <<vars, Readable>> PROVE VouchInv'
  BY <1>1, AuditorOnlyReads
<1>2. /\ lines \in Seq(Lines) /\ lines' = lines
      /\ Readable \in Seq(Lines) /\ Readable' = Readable /\ audit.began \in Seq(Lines)
      /\ audit.k \in Nat /\ audit.total \in Nat /\ audit.first \in Seq(Lines)
      /\ Len(lines) \in Nat /\ Len(Readable) \in Nat
  BY ReadableType, LenProperties DEF vars, TypeOK, AuditType, AuditRecords, Ledgers
<1>3. Grown(lines, lines) /\ Grown(lines, Readable)
  BY <1>2, ParseType, AppendProperties DEF Grown, Readable, TypeOK
<1>4. CASE AuditStarts
  <2>1. /\ AuditType' /\ audit'.began = lines
        /\ audit'.k = 1 /\ audit'.total = audit.total
        /\ audit'.at = "ended" \/ (audit'.at = "reading" /\ audit'.code = 0)
        /\ audit'.at = "ended" => audit'.code = 2
    BY <1>4, AuditStartsType
  <2>2. audit.total = 0
    BY <1>4 DEF AuditStarts, VouchInv
  <2>3. CASE audit'.at = "reading"
    <3>1. audit'.dir \in Directories
      BY <2>1, <2>3, EmptySeq, LenProperties DEF AuditType, AuditRecords, AnyListing
    <3>2. Verified(0)'
      BY <1>2, <2>1, <2>2, <3>1, CountsIs DEF Verified
    <3>3. Grown(audit.began, lines)'
      BY <1>2, <1>3, <2>1
    <3>4. (audit.k - 1)' = 0
      BY <2>1
    <3>5. QED
      BY <2>3, <3>1, <3>2, <3>3, <3>4 DEF VouchInv
  <2>4. CASE audit'.at = "ended"
    BY <2>1, <2>4 DEF VouchInv, Passing
  <2>5. QED
    BY <2>1, <2>3, <2>4
<1>5. ASSUME NEW r \in Seq(Lines), NEW code \in 1 .. 2, Exit(code, r) PROVE VouchInv'
  <2>1. audit'.at = "ended" /\ audit'.code = code
    BY <1>5, ExitType
  <2>2. QED
    BY <2>1 DEF VouchInv, Passing
<1>6. ASSUME NEW r \in Seq(Lines), r = Reading(audit.dir[audit.k]), AuditStep(r),
             audit.at \in {"reading", "verifying"}
      PROVE  VouchInv'
  <2>1. /\ audit.dir \in Directories /\ Len(audit.dir) \in Nat
        /\ audit.k \in 1 .. Len(audit.dir) /\ Grown(audit.began, lines) /\ Verified(audit.k - 1)
    <3>1. audit.dir \in Directories /\ audit.k \in DOMAIN audit.dir
      BY <1>6 DEF VouchInv, Passing, AuditType
    <3>2. QED
      BY <1>6, <3>1, ListedLedgers, LenProperties DEF VouchInv, Passing
  <2>2. /\ r = Entries(audit.dir, audit.k, Readable)
        /\ Len(Entries(audit.dir, audit.k, audit.began)) <= Len(r)
        /\ Len(Entries(audit.dir, audit.k, audit.began)) \in Nat /\ Len(r) \in Nat
    <3>1. r = Entries(audit.dir, audit.k, Readable)
      BY <1>6 DEF Reading, Entries
    <3>2. Len(Entries(audit.dir, audit.k, audit.began)) \in Nat /\ Len(r) \in Nat
      BY <1>2, <1>6, <2>1, CountsIs, LenProperties
    <3>3. Len(audit.began) <= Len(Readable)
      BY <1>2, <1>3, <2>1, GrownTransitive DEF Grown
    <3>4. QED
      BY <3>1, <3>2, <3>3 DEF Entries
  <2>3. CASE audit.at = "reading" /\ audit' = [audit EXCEPT !.at = "verifying", !.first = r]
    <3>1. /\ audit'.at = "verifying" /\ audit'.first = r
          /\ audit'.dir = audit.dir /\ audit'.k = audit.k /\ audit'.began = audit.began
          /\ audit'.total = audit.total
      BY <2>3, AuditReadsType
    <3>2. FirstInBetween'
      BY <1>2, <2>2, <3>1 DEF FirstInBetween
    <3>3. Verified(audit.k - 1)'
      BY <1>2, <2>1, <3>1 DEF Verified
    <3>4. QED
      BY <1>2, <2>1, <3>1, <3>2, <3>3 DEF VouchInv
  <2>4. CASE audit.at = "verifying" /\ NextLedger /\ Accepts(r)
    <3>1. /\ audit'.code = 0 /\ audit'.dir = audit.dir /\ audit'.began = audit.began
          /\ audit'.total = audit.total + Len(audit.first)
          /\ IF audit.k = Len(audit.dir)
               THEN audit'.at = "ended"
               ELSE audit'.at = "reading" /\ audit'.k = audit.k + 1
      BY <2>4, NextLedgerType
    <3>2. Accepts(Entries(audit.dir, audit.k, audit.began))
      <4>1. Grown(audit.began, Readable)
        BY <1>2, <1>3, <2>1, GrownTransitive
      <4>2. QED
        BY <1>2, <2>2, <2>4, <4>1, BeginningPasses DEF Entries
    <3>3. /\ Counts(audit.dir, audit.began)[audit.k] <= audit'.total
          /\ audit'.total <= Counts(audit.dir, Readable)[audit.k]
      <4>1. FirstInBetween /\ Len(audit.first) \in Nat
        BY <1>2, <2>4, LenProperties DEF VouchInv
      <4> DEFINE n == audit.k
                 low == Counts(audit.dir, audit.began)
                 high == Counts(audit.dir, Readable)
      <4>2. /\ low[n] = low[n - 1] + Len(Entries(audit.dir, n, audit.began))
            /\ low \in [0 .. Len(audit.dir) -> Nat]
        BY <1>2, <2>1, CountsIs
      <4>3. /\ high[n] = high[n - 1] + Len(Entries(audit.dir, n, Readable))
            /\ high \in [0 .. Len(audit.dir) -> Nat]
        BY <1>2, <2>1, CountsIs
      <4>4. n - 1 \in 0 .. Len(audit.dir)
        BY <2>1
      <4>5. low[n - 1] \in Nat /\ high[n - 1] \in Nat
        BY <4>2, <4>3, <4>4
      <4>6. low[n - 1] <= audit.total /\ audit.total <= high[n - 1]
        BY <2>1 DEF Verified
      <4>7. /\ Len(Entries(audit.dir, n, audit.began)) <= Len(audit.first)
            /\ Len(audit.first) <= Len(Entries(audit.dir, n, Readable))
            /\ Len(Entries(audit.dir, n, Readable)) \in Nat
        BY <2>2, <4>1 DEF FirstInBetween
      <4> HIDE DEF n, low, high
      <4>8. low[n] <= audit'.total /\ audit'.total <= high[n]
        <5>1. audit'.total = audit.total + Len(audit.first) /\ audit.total \in Nat
          BY <1>2, <3>1
        <5>2. low[n] <= audit'.total
          BY <2>2, <4>1, <4>2, <4>5, <4>6, <4>7, <5>1
        <5>3. audit'.total <= high[n]
          BY <4>1, <4>3, <4>5, <4>6, <4>7, <5>1
        <5>4. QED
          BY <5>2, <5>3
      <4>9. QED
        BY <4>8 DEF n, low, high
    <3>4. ASSUME NEW i \in 1 .. audit.k PROVE Accepts(Entries(audit.dir, i, audit.began))
      BY <2>1, <3>2, <3>4 DEF Verified
    <3>5. ASSUME NEW j, j = audit.k PROVE Verified(j)'
      BY <1>2, <3>1, <3>3, <3>4, <3>5 DEF Verified
    <3>6. CASE audit.k = Len(audit.dir)
      <4>1. Verified(Len(audit.dir))'
        BY <3>1, <3>5, <3>6
      <4>2. QED
        BY <1>2, <2>1, <3>1, <3>6, <4>1 DEF VouchInv
    <3>7. CASE audit.k # Len(audit.dir)
      <4>1. audit'.k = audit.k + 1 /\ audit'.k - 1 = audit.k
        <5>1. audit'.k = audit.k + 1
          BY <3>1, <3>7
        <5>2. QED
          BY <1>2, <5>1
      <4>2. Verified(audit.k - 1)'
        BY <3>5, <4>1
      <4>3. QED
        BY <1>2, <2>1, <3>1, <3>7, <4>2 DEF VouchInv
    <3>8. QED
      BY <3>6, <3>7
  <2>5. QED
    BY <1>5, <1>6, <2>3, <2>4 DEF AuditStep
<1>7. CASE AuditCannotRead
  BY <1>7, CannotReadType DEF VouchInv, Passing
<1>8. QED
  BY <1>1, <1>4, <1>6, <1>7, AuditCases

\* A passing audit vouches for each committed ledger it found, whatever is on it, and for
\* what was on the one being written when it began; its total counts that and nothing
\* that is not on a ledger now; whatever the writers did between the two readings, and
\* whatever failed them.
THEOREM AuditsVouch == LiveSpec => []AuditVouches
<1>1. BaseInv /\ AuditType /\ VouchInv => AuditVouches
  <2> SUFFICES ASSUME BaseInv, AuditType, VouchInv, audit.at = "ended", audit.code = 0
               PROVE  /\ \A k \in 1 .. Len(audit.dir) : Accepts(Listed(k, audit.began))
                      /\ Grown(audit.began, lines)
                      /\ audit.total \in Counted(audit.began) .. Counted(Readable)
    BY DEF AuditVouches, Grown
  <2>1. audit.dir \in Directories /\ Grown(audit.began, lines) /\ Verified(Len(audit.dir))
    BY DEF VouchInv, Passing
  <2>2. /\ audit.began \in Seq(Lines) /\ Readable \in Seq(Lines) /\ audit.total \in Nat
    BY ReadableType DEF BaseInv, TypeOK, AuditType, AuditRecords, Ledgers
  <2>3. \A log : Counted(log) = Counts(audit.dir, log)[Len(audit.dir)]
    BY DEF Counted, Counts, Listed
  <2>4. /\ Counted(audit.began) <= audit.total
        /\ audit.total <= Counted(Readable)
    BY <2>1, <2>3 DEF Verified
  <2>5. ASSUME NEW log \in Seq(Lines) PROVE Counted(log) \in Nat
    <3>1. Len(audit.dir) \in 0 .. Len(audit.dir)
      BY <2>1, CountsIs
    <3>2. QED
      BY <2>1, <2>3, <3>1, CountsIs
  <2>6. audit.total \in Counted(audit.began) .. Counted(Readable)
    BY <2>2, <2>4, <2>5
  <2>7. \A k \in 1 .. Len(audit.dir) : Accepts(Listed(k, audit.began))
    BY <2>1, ListedEntries DEF Verified
  <2>8. QED
    BY <2>1, <2>6, <2>7
<1>2. BaseInv => TypeOK
  BY DEF BaseInv
<1>3. LiveTypeInv => BaseInv /\ AuditType
  BY DEF LiveTypeInv
<1>4. QED
  BY <1>1, <1>2, <1>3, InitLiveType, StepLiveType, InitVouch, StepVouch, PTL DEF LiveSpec
===============================================================================
