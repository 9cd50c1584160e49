------------------------- MODULE ReceiptGatewayProofs --------------------------
(***************************************************************************)
(* Theorems about the gateway, for any number of requests, models and      *)
(* configurations, and however often the weights are replaced.             *)
(***************************************************************************)
EXTENDS ReceiptGateway, FiniteSetTheorems, SequenceTheorems, TLAPS

\* Every receipt carries the digest its request was resolved to.
LedgerOK ==
  /\ ledger \in Seq(Chain!Receipts)
  /\ \A i \in 1 .. Len(ledger) : ledger[i].body.digest = digest[ledger[i].body.request]

\* A request has no receipt before the answer to it has been dealt with, one at most
\* afterwards, and that for a completion; a completion of a JSON body is handed on only
\* with it.
ReceiptOK(q) ==
  /\ phase[q] \in {"idle", "received", "forwarded"} => answer[q] = NoAnswer
  /\ phase[q] \notin {"replying", "done"} => ReceiptsFor(q) = {}
  /\ \A i, j \in ReceiptsFor(q) : i = j
  /\ ReceiptsFor(q) # {} => answer[q] \in Completions
  /\ phase[q] \in {"replying", "done"} /\ reply[q] \in Completions /\ Examined(q) =>
       ReceiptsFor(q) # {}

\* What the model that ran has to do with the one that was asked for.
ModelOK(q) ==
  /\ digest[q] \in {NoModel, ResolveDigest(req[q].model)}
  /\ answer[q] \in Completions =>
       /\ AskedFor(req[q]) \in deployment.catalogue => ran[q] = AskedFor(req[q])
       /\ deployment.mapped = {} /\ swaps = 0 => ran[q] = deployment.firstLoaded

GatewayInv ==
  /\ TypeOK /\ LedgerOK
  /\ deployment \in Deployments
  /\ swaps = 0 => loaded = deployment.firstLoaded
  /\ \A q \in Requests : ReceiptOK(q) /\ ModelOK(q)

-------------------------------------------------------------------------------

\* What is emitted for a completion of known digest has the form of a receipt's body.
LEMMA ReceiptOfType ==
  ASSUME TypeOK, NEW q \in Requests, Examined(q)
  PROVE  ReceiptOf(q) \in ReceiptBodies
<1>1. digest[q] \in Models /\ (answer[q] = "text") \in BOOLEAN
  BY DEF TypeOK, Examined, KnownModel
<1>2. Task(q) \in {"chat.completion", "embedding"}
  BY DEF Task
<1>3. QED
  BY <1>1, <1>2 DEF ReceiptOf, ReceiptBodies

\* A receipt that is added comes after all others and changes none of them.
LEMMA Appends ==
  ASSUME ledger \in Seq(Chain!Receipts), NEW b \in ReceiptBodies, Chain!AppendReceipt(b)
  PROVE  /\ ledger' \in Seq(Chain!Receipts)
         /\ Len(ledger) \in Nat /\ Len(ledger') = Len(ledger) + 1
         /\ ledger'[Len(ledger) + 1].body = b
         /\ \A i \in 1 .. Len(ledger) : ledger'[i] = ledger[i]
<1> DEFINE last == Chain!LastOf(ledger)
           r    == Chain!Build(last, b)
<1>1. r \in Chain!Receipts
  <2>1. CASE last = NoReceipt
    BY <2>1, EmptySeq DEF Chain!Build, Chain!Receipts, Chain!Digests, Chain!NoDigest
  <2>2. CASE last # NoReceipt
    <3>1. last \in Chain!Receipts
      BY <2>2, EmptySeq, LenProperties, ElementOfSeq DEF Chain!LastOf
    <3>2. /\ last.seq \in Nat /\ last.prev \in Seq(Nat \X ReceiptBodies)
          /\ <<last.seq, last.body>> \in Nat \X ReceiptBodies
      BY <3>1 DEF Chain!Receipts, Chain!Digests
    <3>3. Chain!Digest(last) \in Chain!Digests
      BY <3>2, AppendProperties DEF Chain!Digest, Chain!Digests
    <3>4. QED
      BY <2>2, <3>2, <3>3 DEF Chain!Build, Chain!Receipts
  <2>3. QED
    BY <2>1, <2>2
<1>2. r.body = b
  BY DEF Chain!Build
<1>3. ledger' = Append(ledger, r)
  BY DEF Chain!AppendReceipt
<1> HIDE DEF r
<1>4. QED
  BY <1>1, <1>2, <1>3, AppendProperties, LenProperties

\* What a step of a thread may do to the ledger: nothing, or add the receipt of
\* a completion whose model has a known digest.
LEMMA LedgerSteps ==
  ASSUME TypeOK, NEW q \in Requests, Step(q)
  PROVE  \/ UNCHANGED ledger
         \/ /\ phase[q] = "answered" /\ answer[q] \in Completions /\ Examined(q)
            /\ ReceiptOf(q) \in ReceiptBodies /\ Chain!AppendReceipt(ReceiptOf(q))
            /\ UNCHANGED <<digest, answer>> /\ phase'[q] \in {"replying", "done"}
<1>1. CASE Emit(q) \/ EmitRaises(q)
  BY <1>1, ReceiptOfType DEF Emit, EmitRaises, Receipted, Answering, Raises, TypeOK
<1>2. CASE ~(Emit(q) \/ EmitRaises(q))
  BY <1>2 DEF Step, Receive, ReceiveRaises, RefuseBody, Forward, BackendAnswers, Unreachable,
              AnswerRaises, PassOn, Respond
<1>3. QED
  BY <1>1, <1>2

\* A thread leaves the request, the model and the answer of the others alone.
LEMMA Apart ==
  ASSUME TypeOK, NEW q \in Requests, Step(q)
  PROVE  /\ UNCHANGED <<deployment, loaded, swaps, req>>
         /\ \A p \in Requests \ {q} :
              /\ phase'[p] = phase[p] /\ digest'[p] = digest[p] /\ ran'[p] = ran[p]
              /\ answer'[p] = answer[p] /\ reply'[p] = reply[p]
  BY DEF Step, Receive, ReceiveRaises, RefuseBody, Forward, BackendAnswers, Unreachable,
         AnswerRaises, PassOn, Emit, EmitRaises, Respond, Move, Answering, Raises, TypeOK

-------------------------------------------------------------------------------
(* Every step keeps the invariant *)

LEMMA StepType ==
  ASSUME TypeOK, LedgerOK, NEW q \in Requests, Step(q)
  PROVE  TypeOK' /\ ledger' \in Seq(Chain!Receipts)
<1>1. ledger' \in Seq(Chain!Receipts)
  BY LedgerSteps, Appends DEF LedgerOK
<1>2. ASSUME NEW i \in 1 .. Len(ledger') PROVE ledger'[i].body \in ReceiptBodies
  <2>1. ledger'[i] \in Chain!Receipts
    BY <1>1
  <2>2. QED
    BY <2>1 DEF Chain!Receipts
<1>3. UNCHANGED <<deployment, loaded, swaps, req>>
  BY Apart
<1> USE DEF TypeOK
<1>4. phase' \in [Requests -> Phases]
  BY DEF Step, Receive, ReceiveRaises, RefuseBody, Forward, BackendAnswers, Unreachable,
         AnswerRaises, PassOn, Emit, EmitRaises, Respond, Move, Answering, Raises, Phases
<1>5. reply' \in [Requests -> Replies]
  <2>1. answer[q] \in Replies /\ {Closed, "400", "502"} \subseteq Replies
    BY DEF Replies
  <2>2. \/ reply' = reply
        \/ \E r \in {answer[q], Closed, "400", "502"} : reply' = [reply EXCEPT ![q] = r]
    BY DEF Step, Receive, ReceiveRaises, RefuseBody, Forward, BackendAnswers, Unreachable,
           AnswerRaises, PassOn, Emit, EmitRaises, Respond, Answering, Raises
  <2>3. QED
    BY <2>1, <2>2
<1>6. digest' \in [Requests -> Models \union {NoModel}]
  <2>1. CASE Receive(q)
    <3>1. ResolveDigest(req[q].model) \in Models \union {NoModel}
      BY DEF ResolveDigest, DeploymentRecords
    <3>2. QED
      BY <2>1, <3>1 DEF Receive
  <2>2. CASE ~Receive(q)
    BY <2>2 DEF Step, ReceiveRaises, RefuseBody, Forward, BackendAnswers, Unreachable,
                AnswerRaises, PassOn, Emit, EmitRaises, Respond
  <2>3. QED
    BY <2>1, <2>2
<1>7. /\ ran' \in [Requests -> Models \union {NoModel}]
      /\ answer' \in [Requests -> Answers \union {NoAnswer}]
  <2>1. CASE BackendAnswers(q)
    <3>1. AskedFor(req[q]) \in deployment.catalogue => AskedFor(req[q]) \in Models
      BY DEF DeploymentRecords
    <3>2. QED
      BY <2>1, <3>1 DEF BackendAnswers
  <2>2. CASE ~BackendAnswers(q)
    BY <2>2 DEF Step, Receive, ReceiveRaises, RefuseBody, Forward, Unreachable,
                AnswerRaises, PassOn, Emit, EmitRaises, Respond
  <2>3. QED
    BY <2>1, <2>2
<1>8. QED
  BY <1>1, <1>2, <1>3, <1>4, <1>5, <1>6, <1>7

\* The digest of a request is settled before it has a receipt.
LEMMA StepLedger ==
  ASSUME GatewayInv, NEW q \in Requests, Step(q)
  PROVE  LedgerOK'
<1> USE DEF GatewayInv
<1>1. ledger' \in Seq(Chain!Receipts)
  BY StepType
<1>2. SUFFICES ASSUME NEW i \in 1 .. Len(ledger')
               PROVE  ledger'[i].body.digest = digest'[ledger'[i].body.request]
  BY <1>1 DEF LedgerOK
<1>3. ASSUME i \in 1 .. Len(ledger), ledger'[i] = ledger[i]
      PROVE  ledger'[i].body.digest = digest'[ledger'[i].body.request]
  <2> DEFINE p == ledger[i].body.request
  <2>1. p \in Requests /\ ledger[i].body.digest = digest[p] /\ i \in ReceiptsFor(p)
    BY <1>3 DEF TypeOK, ReceiptBodies, LedgerOK, ReceiptsFor
  <2>2. phase[p] \in {"replying", "done"}
    BY <2>1 DEF ReceiptOK
  <2> HIDE DEF p
  <2>3. digest'[p] = digest[p]
    <3>1. CASE p # q
      BY <3>1, <2>1, Apart
    <3>2. CASE p = q
      BY <3>2, <2>2 DEF Step, Receive, ReceiveRaises, RefuseBody, Forward, BackendAnswers,
                        Unreachable, AnswerRaises, PassOn, Emit, EmitRaises, Respond, Move
    <3>3. QED
      BY <3>1, <3>2
  <2>4. QED
    BY <1>3, <2>1, <2>3 DEF p
<1>4. CASE UNCHANGED ledger
  BY <1>2, <1>3, <1>4
<1>5. CASE ~UNCHANGED ledger
  <2>1. /\ ReceiptOf(q) \in ReceiptBodies /\ Chain!AppendReceipt(ReceiptOf(q))
        /\ digest' = digest
    BY <1>5, LedgerSteps
  <2>2. /\ Len(ledger) \in Nat /\ Len(ledger') = Len(ledger) + 1
        /\ ledger'[Len(ledger) + 1].body = ReceiptOf(q)
        /\ \A j \in 1 .. Len(ledger) : ledger'[j] = ledger[j]
    BY <2>1, Appends DEF LedgerOK
  <2>3. CASE i \in 1 .. Len(ledger)
    BY <1>3, <2>2, <2>3
  <2>4. CASE i \notin 1 .. Len(ledger)
    <3>1. ledger'[i].body = ReceiptOf(q)
      BY <1>2, <2>2, <2>4
    <3>2. QED
      BY <3>1, <2>1 DEF ReceiptOf
  <2>5. QED
    BY <2>3, <2>4
<1>6. QED
  BY <1>4, <1>5

\* How a step of its thread changes what a request has.
LEMMA StepReceipt ==
  ASSUME GatewayInv, NEW q \in Requests, Step(q)
  PROVE  ReceiptOK(q)'
<1> USE DEF GatewayInv
<1>1. ReceiptOK(q) /\ UNCHANGED req
  BY Apart
<1>2. CASE UNCHANGED ledger
  <2>1. ReceiptsFor(q)' = ReceiptsFor(q)
    BY <1>2 DEF ReceiptsFor
  <2>2. phase[q] # "idle" => digest'[q] = digest[q]
    BY DEF Step, Receive, ReceiveRaises, RefuseBody, Forward, BackendAnswers, Unreachable,
           AnswerRaises, PassOn, Emit, EmitRaises, Respond, Move
  <2>3. phase[q] # "idle" => Examined(q)' = Examined(q)
    BY <1>1, <2>2 DEF Examined, KnownModel
  <2>4. CASE Receive(q) \/ RefuseBody(q) \/ Forward(q) \/ ReceiveRaises(q)
    BY <1>1, <2>1, <2>4 DEF Receive, RefuseBody, Forward, ReceiveRaises, Move, Answering,
                            Raises, ReceiptOK, TypeOK, Completions, Closed
  <2>5. CASE BackendAnswers(q)
    BY <1>1, <2>1, <2>5 DEF BackendAnswers, Move, ReceiptOK, TypeOK
  <2>6. CASE Unreachable(q) \/ AnswerRaises(q)
    BY <1>1, <2>1, <2>6 DEF Unreachable, AnswerRaises, Answering, Raises, ReceiptOK, TypeOK,
                            Completions, Closed
  <2>7. CASE PassOn(q)
    <3>1. /\ phase[q] = "answered" /\ phase'[q] = "replying" /\ reply'[q] = answer[q]
          /\ answer' = answer
          /\ answer[q] \in Completions => ~Examined(q)
      BY <2>7 DEF PassOn, Answering, Completions, TypeOK
    <3>2. QED
      BY <1>1, <2>1, <2>3, <3>1 DEF ReceiptOK
  <2>8. CASE EmitRaises(q)
    BY <1>1, <2>1, <2>8 DEF EmitRaises, Raises, ReceiptOK, TypeOK, Completions, Closed
  <2>9. CASE Emit(q)
    <3>1. Chain!AppendReceipt(ReceiptOf(q)) /\ ReceiptOf(q) \in ReceiptBodies
      BY <2>9, ReceiptOfType DEF Emit, Receipted
    <3>2. QED
      BY <1>2, <3>1, Appends DEF LedgerOK
  <2>10. CASE Respond(q)
    <3>1. /\ phase[q] = "replying" /\ phase'[q] = "done" /\ answer' = answer
          /\ reply'[q] \in {reply[q], "closed"}
      BY <2>10 DEF Respond, Move, TypeOK, Closed
    <3>2. QED
      BY <1>1, <2>1, <2>3, <3>1 DEF ReceiptOK, Completions
  <2>11. QED
    BY <2>4, <2>5, <2>6, <2>7, <2>8, <2>9, <2>10 DEF Step
<1>3. CASE ~UNCHANGED ledger
  <2>1. /\ phase[q] = "answered" /\ answer[q] \in Completions
        /\ ReceiptOf(q) \in ReceiptBodies /\ Chain!AppendReceipt(ReceiptOf(q))
        /\ UNCHANGED <<digest, answer>> /\ phase'[q] \in {"replying", "done"}
    BY <1>3, LedgerSteps
  <2>2. /\ Len(ledger) \in Nat /\ Len(ledger') = Len(ledger) + 1
        /\ ledger'[Len(ledger) + 1].body.request = q
        /\ \A j \in 1 .. Len(ledger) : ledger'[j] = ledger[j]
    BY <2>1, Appends DEF LedgerOK, ReceiptOf
  <2>3. ReceiptsFor(q) = {}
    BY <1>1, <2>1 DEF ReceiptOK
  <2>4. ReceiptsFor(q)' = {Len(ledger) + 1}
    BY <2>2, <2>3 DEF ReceiptsFor
  <2>5. QED
    BY <2>1, <2>4 DEF ReceiptOK
<1>4. QED
  BY <1>2, <1>3

\* The model that answers is the one that is asked for or the one that is loaded.
LEMMA StepModel ==
  ASSUME GatewayInv, NEW q \in Requests, Step(q)
  PROVE  ModelOK(q)'
<1> USE DEF GatewayInv
<1>1. ModelOK(q) /\ UNCHANGED <<deployment, loaded, swaps, req>>
  BY Apart
<1>2. /\ AskedFor(req[q])' = AskedFor(req[q])
      /\ ResolveDigest(req[q].model)' = ResolveDigest(req[q].model)
  BY <1>1 DEF AskedFor, ResolveDigest
<1>3. CASE Receive(q)
  BY <1>1, <1>2, <1>3 DEF Receive, ModelOK, TypeOK
<1>4. CASE BackendAnswers(q)
  <2>1. /\ digest' = digest
        /\ answer'[q] \in Completions =>
             ran'[q] = IF AskedFor(req[q]) \in deployment.catalogue
                         THEN AskedFor(req[q]) ELSE loaded
    BY <1>4 DEF BackendAnswers, TypeOK, Completions
  <2>2. deployment.mapped = {} => deployment.catalogue = {}
    BY ConfiguredForBackend
  <2>3. QED
    BY <1>1, <1>2, <2>1, <2>2 DEF ModelOK
<1>5. CASE ~(Receive(q) \/ BackendAnswers(q))
  <2>1. UNCHANGED <<digest, ran, answer>>
    BY <1>5 DEF Step, ReceiveRaises, RefuseBody, Forward, Unreachable, AnswerRaises, PassOn,
                Emit, EmitRaises, Respond
  <2>2. QED
    BY <1>1, <1>2, <2>1 DEF ModelOK
<1>6. QED
  BY <1>3, <1>4, <1>5

\* A step of one thread takes nothing from another, and gives it nothing.
LEMMA StepOfAnother ==
  ASSUME GatewayInv, NEW q \in Requests, Step(q), NEW p \in Requests \ {q}
  PROVE  ReceiptOK(p)' /\ ModelOK(p)'
<1> USE DEF GatewayInv
<1>1. /\ UNCHANGED <<deployment, loaded, swaps, req>>
      /\ phase'[p] = phase[p] /\ digest'[p] = digest[p] /\ ran'[p] = ran[p]
      /\ answer'[p] = answer[p] /\ reply'[p] = reply[p]
  BY Apart
<1>2. ReceiptsFor(p)' = ReceiptsFor(p)
  <2>1. CASE UNCHANGED ledger
    BY <2>1 DEF ReceiptsFor
  <2>2. CASE ~UNCHANGED ledger
    <3>1. ReceiptOf(q) \in ReceiptBodies /\ Chain!AppendReceipt(ReceiptOf(q))
      BY <2>2, LedgerSteps
    <3>2. /\ Len(ledger) \in Nat /\ Len(ledger') = Len(ledger) + 1
          /\ ledger'[Len(ledger) + 1].body.request = q
          /\ \A j \in 1 .. Len(ledger) : ledger'[j] = ledger[j]
      BY <3>1, Appends DEF LedgerOK, ReceiptOf
    <3>3. QED
      BY <3>2 DEF ReceiptsFor
  <2>3. QED
    BY <2>1, <2>2
<1>3. Examined(p)' = Examined(p)
  BY <1>1 DEF Examined, KnownModel
<1>4. ReceiptOK(p)'
  BY <1>1, <1>2, <1>3 DEF ReceiptOK
<1>5. /\ AskedFor(req[p])' = AskedFor(req[p])
      /\ ResolveDigest(req[p].model)' = ResolveDigest(req[p].model)
  BY <1>1 DEF AskedFor, ResolveDigest
<1>6. ModelOK(p)'
  BY <1>1, <1>5 DEF ModelOK
<1>7. QED
  BY <1>4, <1>6

LEMMA SwapKeeps == GatewayInv /\ SwapWeights => GatewayInv'
<1> SUFFICES ASSUME GatewayInv, SwapWeights PROVE GatewayInv'
  OBVIOUS
<1> USE DEF GatewayInv
<1>1. /\ UNCHANGED <<deployment, ledger, phase, req, digest, ran, answer, reply>>
      /\ swaps' \in 1 .. MaxSwaps /\ loaded' \in Models
  BY GatewayBounds DEF SwapWeights, thread, TypeOK
<1>2. TypeOK' /\ LedgerOK'
  BY <1>1 DEF TypeOK, LedgerOK
<1>3. ASSUME NEW q \in Requests PROVE ReceiptOK(q)' /\ ModelOK(q)'
  BY <1>1 DEF ReceiptOK, ModelOK, ReceiptsFor, Examined, KnownModel, AskedFor,
                ResolveDigest
<1>4. QED
  BY <1>1, <1>2, <1>3

\* The invariant of the gateway: each receipt is for one completion of a model of known
\* digest and carries the digest its request was resolved to when it came in.
LEMMA GatewayInvariant == Spec => []GatewayInv
<1>1. Init => GatewayInv
  <2> SUFFICES ASSUME Init PROVE GatewayInv
    OBVIOUS
  <2> USE DEF Init
  <2>1. TypeOK
    BY ConfiguredForBackend, GatewayBounds
       DEF TypeOK, DeploymentRecords, Phases, Replies, Answers, NoAnswer
  <2>2. LedgerOK
    BY DEF LedgerOK
  <2>3. ASSUME NEW q \in Requests PROVE ReceiptOK(q) /\ ModelOK(q)
    BY DEF ReceiptOK, ModelOK, ReceiptsFor, Completions, NoAnswer
  <2>4. QED
    BY <2>1, <2>2, <2>3 DEF GatewayInv
<1>2. GatewayInv /\ [Next]_vars => GatewayInv'
  <2> SUFFICES ASSUME GatewayInv, [Next]_vars PROVE GatewayInv'
    OBVIOUS
  <2>1. CASE SwapWeights
    BY <2>1, SwapKeeps
  <2>2. ASSUME NEW q \in Requests, Step(q) PROVE GatewayInv'
    <3>1. TypeOK' /\ LedgerOK'
      BY <2>2, StepType, StepLedger DEF GatewayInv
    <3>2. deployment' = deployment /\ loaded' = loaded /\ swaps' = swaps
      BY <2>2, Apart DEF GatewayInv
    <3>3. ASSUME NEW p \in Requests PROVE ReceiptOK(p)' /\ ModelOK(p)'
      BY <2>2, StepReceipt, StepModel, StepOfAnother
    <3>4. QED
      BY <3>1, <3>2, <3>3 DEF GatewayInv
  <2>3. CASE UNCHANGED vars
    BY <2>3 DEF GatewayInv, vars, TypeOK, LedgerOK, ReceiptOK, ModelOK, ReceiptsFor, Examined,
                KnownModel, AskedFor, ResolveDigest
  <2>4. QED
    BY <2>1, <2>2, <2>3 DEF Next
<1>3. QED
  BY <1>1, <1>2, PTL DEF Spec

-------------------------------------------------------------------------------

\* do_POST keeps its types, whatever the backend answers.
THEOREM GatewayTypes == Spec => []TypeOK
<1>1. GatewayInv => TypeOK
  BY DEF GatewayInv
<1>2. QED
  BY <1>1, GatewayInvariant, PTL

\* _maybe_emit comes before the answer: no client is handed a completion by a model of
\* known digest without a receipt, whatever fails, unless it is that of a body which is
\* not JSON, in a gateway without a digest map.
THEOREM CompletionsAreReceipted == Spec => []NoCompletionUnreceipted
<1>1. ASSUME GatewayInv, NEW q \in Requests, Got(q, Completions), KnownModel(q),
             req[q].body = "nonJson"
      PROVE  deployment.mapped = {}
  <2>1. digest[q] = ResolveDigest(req[q].model)
    BY <1>1 DEF GatewayInv, ModelOK, KnownModel
  <2>2. req[q].model = NoModel
    BY <1>1 DEF GatewayInv, TypeOK, RequestRecords
  <2>3. deployment.mapped \subseteq Models /\ NoModel \notin Models
    BY <1>1, ConfiguredForBackend DEF GatewayInv, TypeOK, DeploymentRecords
  <2>4. QED
    BY <1>1, <2>1, <2>2, <2>3 DEF ResolveDigest, KnownModel
<1>2. ASSUME GatewayInv PROVE NoCompletionUnreceipted
  BY <1>1, <1>2 DEF GatewayInv, NoCompletionUnreceipted, Got, ReceiptOK, Examined
<1>3. QED
  BY <1>2, GatewayInvariant, PTL

\* No path through do_POST emits twice, or for anything but a completion: at most one
\* receipt per request.
THEOREM CompletionsAreReceiptedOnce == Spec => []OneReceiptPerCompletion
<1>1. ASSUME GatewayInv, NEW q \in Requests
      PROVE  Cardinality(ReceiptsFor(q)) <= 1 /\ (ReceiptsFor(q) # {} => answer[q] \in Completions)
  <2>1. ReceiptOK(q)
    BY <1>1 DEF GatewayInv
  <2>2. CASE ReceiptsFor(q) = {}
    <3>1. Cardinality(ReceiptsFor(q)) = 0
      BY <2>2, FS_EmptySet, Zenon
    <3>2. QED
      BY <2>2, <3>1
  <2>3. CASE ReceiptsFor(q) # {}
    <3>1. PICK i \in ReceiptsFor(q) : TRUE
      BY <2>3
    <3>2. ReceiptsFor(q) = {i}
      BY <2>1, <3>1 DEF ReceiptOK
    <3>3. Cardinality(ReceiptsFor(q)) = 1
      BY <3>2, FS_Singleton, Zenon
    <3>4. QED
      BY <2>1, <3>3 DEF ReceiptOK
  <2>4. QED
    BY <2>2, <2>3
<1>2. GatewayInv => OneReceiptPerCompletion
  BY <1>1 DEF OneReceiptPerCompletion
<1>3. QED
  BY <1>2, GatewayInvariant, PTL

\* _resolve_digest never stamps the wrong model: on the OpenAI routes of a gateway with
\* a digest map, and with a single digest until the weights are replaced, a receipt's
\* digest is that of the model that ran.
THEOREM ReceiptsNameWhatRan == Spec => []OwnReceiptsNameTheModel
<1>1. ASSUME GatewayInv PROVE OwnReceiptsNameTheModel
  <2> USE <1>1 DEF GatewayInv
  <2> SUFFICES ASSUME NEW i \in 1 .. Len(ledger),
                      IF deployment.mapped = {} THEN swaps = 0
                        ELSE req[ledger[i].body.request].route \in OpenAI
               PROVE  ledger[i].body.digest = ran[ledger[i].body.request]
    BY DEF OwnReceiptsNameTheModel
  <2> DEFINE q == ledger[i].body.request
  <2>1. /\ q \in Requests /\ i \in ReceiptsFor(q)
        /\ ledger[i].body.digest = digest[q] /\ digest[q] \in Models
    BY DEF TypeOK, ReceiptBodies, LedgerOK, ReceiptsFor
  <2> HIDE DEF q
  <2>2. digest[q] # NoModel
    BY <2>1, ConfiguredForBackend
  <2>3. digest[q] = ResolveDigest(req[q].model) /\ answer[q] \in Completions
    BY <2>1, <2>2 DEF ReceiptOK, ModelOK
  <2>4. CASE deployment.mapped = {}
    <3>1. digest[q] = deployment.firstLoaded
      BY <2>3, <2>4, ConfiguredForBackend DEF ResolveDigest
    <3>2. ran[q] = deployment.firstLoaded
      BY <2>1, <2>3, <2>4 DEF ModelOK
    <3>3. QED
      BY <2>1, <3>1, <3>2 DEF q
  <2>5. CASE deployment.mapped # {}
    <3>1. req[q].model \in deployment.mapped /\ digest[q] = req[q].model
      BY <2>2, <2>3, <2>5 DEF ResolveDigest
    <3>2. AskedFor(req[q]) = req[q].model /\ AskedFor(req[q]) \in deployment.catalogue
      BY <2>5, <3>1, ConfiguredForBackend DEF AskedFor, OpenAI, Ollama, q
    <3>3. ran[q] = AskedFor(req[q])
      BY <2>1, <2>3, <3>2 DEF ModelOK
    <3>4. QED
      BY <2>1, <3>1, <3>2, <3>3 DEF q
  <2>6. QED
    BY <2>4, <2>5
<1>2. GatewayInv => OwnReceiptsNameTheModel
  BY <1>1
<1>3. QED
  BY <1>2, GatewayInvariant, PTL
===============================================================================
