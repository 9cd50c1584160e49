------------------------- MODULE ConformanceGateProofs -------------------------
(***************************************************************************)
(* Theorems about the validators and about what a green target means, for  *)
(* any number of documents, lanes, seams and paths.                        *)
(***************************************************************************)
EXTENDS ConformanceGate, TLAPS

(* The validators decide what their rules are for *)

\* validate_contract.py, one lane of a known backend.
LEMMA LaneRule ==
  ASSUME NEW d \in Contracts, NEW inExamples \in BOOLEAN, NEW lane \in Lanes,
         lane.backend # "unspecified"
  PROVE  LaneOK(d, inExamples, lane) <=> LaneObeys(d, inExamples, lane)
<1>1. /\ lane.backend \in {"pixi", "pinned", "sentinel", "tag"}
      /\ d.label \in Labels \union {"none"} /\ "none" \notin Labels
      /\ DOMAIN RequiredEvidence = Labels
  BY DEF Contracts, Lanes, Labels, RequiredEvidence
<1>2. EvidenceOK(d, lane) <=> (d.label # "none" => lane.emits = RequiredEvidence[d.label])
  BY <1>1 DEF EvidenceOK
<1>3. QED
  BY <1>1, <1>2 DEF LaneOK, LaneObeys, SentinelAllowed

\* validate_contract.py, the steps.
LEMMA StepRule ==
  ASSUME NEW d \in Contracts
  PROVE  StepsOK(d) <=>
           d.runs \notin ForbiddenRuns \union (IF d.workspaceOps THEN ForbiddenOpsRuns ELSE {})
  BY DEF StepsOK

\* It accepts what obeys the rules, rejects what does not, and crashes on the rest.
LEMMA ContractRule ==
  ASSUME NEW d \in Documents, NEW inExamples \in BOOLEAN
  PROVE  /\ ContractStatus(d, inExamples) \in {0, 1}
         /\ ContractStatus(d, inExamples) = 0 => ~Crashes(d) /\ Obeys(d, inExamples)
         /\ ContractStatus(d, inExamples) # 0 /\ ~Crashes(d) => ~Obeys(d, inExamples)
<1>1. CASE d \in Contracts
  <2>1. d.kind = "WorkstationContract" /\ d # Unreadable
       /\ \A i \in DOMAIN d.lanes : d.lanes[i] \in Lanes
    BY <1>1 DEF Contracts, Unreadable
  <2>2. CASE Crashes(d)
    BY <2>2 DEF ContractStatus
  <2>3. CASE ~Crashes(d)
    <3>1. d.schemaValid => \A i \in DOMAIN d.lanes :
            LaneOK(d, inExamples, d.lanes[i]) <=> LaneObeys(d, inExamples, d.lanes[i])
      BY <1>1, <2>1, <2>3, LaneRule DEF Crashes
    <3>2. DocumentOK(d, inExamples) <=> Obeys(d, inExamples)
      BY <1>1, <2>1, <3>1, StepRule DEF DocumentOK, Obeys
    <3>3. QED
      BY <2>3, <3>2 DEF ContractStatus
  <2>4. QED
    BY <2>2, <2>3
<1>2. CASE d \in Passports
  BY <1>2 DEF Passports, Unreadable, ContractStatus, Crashes, DocumentOK, PassportOK, Obeys
<1>3. CASE d = Unreadable
  BY <1>3 DEF ContractStatus, Crashes
<1>4. QED
  BY <1>1, <1>2, <1>3 DEF Documents

\* validate_workspace_ops.py on a document that its rules apply to.
LEMMA WorkspaceOpsRule ==
  ASSUME NEW d \in WorkspaceOpsDocuments
  PROVE  /\ WorkspaceOpsStatus(d) \in {0, 1}
         /\ WorkspaceOpsStatus(d) = 0 /\ Examined(d) => WorkspaceOpsObeys(d)
         /\ WorkspaceOpsStatus(d) # 0 /\ Examined(d) => ~WorkspaceOpsObeys(d)
<1>1. WorkspaceOpsStatus(d) \in {0, 1}
  BY DEF WorkspaceOpsStatus
<1>2. CASE d \in Fixtures
  BY <1>1, <1>2 DEF Fixtures, Unreadable, WorkspaceOpsStatus, Examined,
         WorkspaceOpsObeys, FixtureOK, OptedInOK, OptsIn
<1>3. CASE d \in Contracts
  <2>1. d.kind = "WorkstationContract" /\ d # Unreadable /\ d.runs \in Commands
        /\ \A i \in DOMAIN d.lanes : d.lanes[i] \in Lanes
    BY <1>3 DEF Contracts, Unreadable
  <2>2. OptsIn(d) => (OptedInOK(d) <=> WorkspaceOpsObeys(d))
    <3>1. d.runs \notin ForbiddenSteps
            <=> {d.runs} \intersect {"noAudit", "noCaptureScope", "noPolicyGate"} = {}
      BY DEF ForbiddenSteps
    <3>2. (d.label \in DOMAIN RequiredOpsEvidence =>
             \A i \in DOMAIN d.lanes : d.lanes[i].emits = RequiredOpsEvidence[d.label])
          <=> \A what \in {"command", "capture", "execution", "conflict"} :
                /\ d.label \in DOMAIN RequiredOpsEvidence /\ RequiredOpsEvidence[d.label] = what
                => {d.lanes[i].emits : i \in DOMAIN d.lanes} = {what}
      <4>1. DOMAIN d.lanes # {}
        <5>1. PICK n \in 1 .. MaxLanes : d.lanes \in [1 .. n -> Lanes]
          BY <1>3 DEF Contracts
        <5>2. DOMAIN d.lanes = 1 .. n /\ 1 \in 1 .. n
          BY <5>1, MaxLanesIsNat
        <5>3. QED
          BY <5>2
      <4>2. d.label \in DOMAIN RequiredOpsEvidence =>
              RequiredOpsEvidence[d.label] \in {"command", "capture", "execution", "conflict"}
        BY DEF RequiredOpsEvidence
      <4>3. \A what : {d.lanes[i].emits : i \in DOMAIN d.lanes} = {what}
                       <=> \A i \in DOMAIN d.lanes : d.lanes[i].emits = what
        BY <4>1
      <4>4. QED
        BY <4>2, <4>3
    <3>3. QED
      BY <2>1, <3>1, <3>2 DEF OptedInOK, WorkspaceOpsObeys
  <2>3. QED
    BY <1>1, <2>1, <2>2 DEF WorkspaceOpsStatus, FixtureOK, Examined
<1>4. CASE d \in Passports \union {Unreadable}
  BY <1>1, <1>4 DEF Passports, Unreadable, Examined, OptsIn
<1>5. QED
  BY <1>2, <1>3, <1>4 DEF WorkspaceOpsDocuments, Documents

\* The two lists of evidence agree on the labels that both have, as do the two lists of
\* commands that are forbidden for workspace operations.
LEMMA ListsAgree ==
  /\ ForbiddenSteps = ForbiddenOpsRuns
  /\ DOMAIN RequiredOpsEvidence = DOMAIN RequiredEvidence \ {"agentMachine", "officePlane"}
  /\ \A l \in DOMAIN RequiredOpsEvidence : RequiredOpsEvidence[l] = RequiredEvidence[l]
  BY DEF ForbiddenSteps, ForbiddenOpsRuns, RequiredOpsEvidence, RequiredEvidence

\* Status 0 is for a document that is in order.
LEMMA Accepted ==
  ASSUME NEW d \in Documents, NEW inExamples \in BOOLEAN, ContractStatus(d, inExamples) = 0
  PROVE  ~Crashes(d) /\ DocumentOK(d, inExamples)
  BY DEF ContractStatus

\* What validate_contract.py accepts outside examples/, validate_workspace_ops.py accepts,
\* and the same the other way round if nothing but their common rules can decide.
LEMMA TheCopies == ASSUME NEW d \in Documents PROVE CopiesAgree(d)
<1>1. ASSUME ContractStatus(d, FALSE) = 0 PROVE WorkspaceOpsStatus(d) = 0
  <2>1. ~Crashes(d) /\ DocumentOK(d, FALSE)
    BY <1>1, Accepted
  <2>2. d # Unreadable
    BY <2>1 DEF Crashes
  <2>3. CASE d \in Contracts
    <3>1. /\ d.kind = "WorkstationContract" /\ d.workspaceOps \in BOOLEAN
          /\ StepsOK(d) /\ \A i \in DOMAIN d.lanes : LaneOK(d, FALSE, d.lanes[i])
      BY <2>1, <2>3 DEF Contracts, DocumentOK
    <3>2. \A i \in DOMAIN d.lanes : EvidenceOK(d, d.lanes[i])
      BY <3>1 DEF LaneOK, SentinelAllowed
    <3>3. OptedInOK(d)
      BY <3>1, <3>2, ListsAgree DEF OptedInOK, OptsIn, StepsOK, EvidenceOK
    <3>4. QED
      BY <2>2, <3>1, <3>3 DEF WorkspaceOpsStatus, FixtureOK
  <2>4. CASE d \in Passports
    BY <2>2, <2>4 DEF Passports, WorkspaceOpsStatus, FixtureOK, OptedInOK, OptsIn
  <2>5. QED
    BY <2>2, <2>3, <2>4 DEF Documents
<1>2. ASSUME OpsRulesDecide(d), WorkspaceOpsStatus(d) = 0 PROVE ContractStatus(d, FALSE) = 0
  <2>1. /\ d # Unreadable /\ d.kind = "WorkstationContract" /\ d.workspaceOps /\ d.schemaValid
        /\ \A i \in DOMAIN d.lanes : d.lanes[i].backend \in {"pixi", "pinned"}
        /\ OptedInOK(d)
    BY <1>2 DEF OpsRulesDecide, OptsIn, WorkspaceOpsStatus
  <2>2. ~Crashes(d)
    BY <2>1 DEF Crashes
  <2>3. StepsOK(d)
    BY <1>2, <2>1, ListsAgree DEF OpsRulesDecide, OptsIn, OptedInOK, StepsOK, ForbiddenRuns
  <2>4. \A i \in DOMAIN d.lanes : EvidenceOK(d, d.lanes[i])
    BY <1>2, <2>1, ListsAgree DEF OpsRulesDecide, OptsIn, OptedInOK, EvidenceOK
  <2>5. QED
    BY <2>1, <2>2, <2>3, <2>4 DEF ContractStatus, DocumentOK, LaneOK
<1>3. QED
  BY <1>1, <1>2 DEF CopiesAgree

\* validate_model_plane.py: 0 for what obeys, 1 for what does not, unless it raises.
LEMMA ModelPlaneRule ==
  ASSUME NEW d \in ModelPlaneDocs
  PROVE  /\ FileStatus(d) \in {0, 1, 2}
         /\ FileStatus(d) = 0 => ModelPlaneObeys(d)
         /\ FileStatus(d) = 1 /\ ~Raises(d) => ~ModelPlaneObeys(d)
<1>1. CASE d \in OddDocs
  <2>1. FileStatus(d) = IF Raises(d) THEN 1 ELSE 2
    BY <1>1 DEF FileStatus, Raises
  <2>2. CASE Raises(d)
    <3>1. FileStatus(d) = 1
      BY <2>1, <2>2
    <3>2. FileStatus(d) # 0 /\ FileStatus(d) \in {0, 1, 2}
      BY <3>1
    <3>3. QED
      BY <2>2, <3>2, Zenon
  <2>3. CASE ~Raises(d)
    <3>1. FileStatus(d) = 2
      BY <2>1, <2>3
    <3>2. FileStatus(d) \notin {0, 1} /\ FileStatus(d) \in {0, 1, 2}
      BY <3>1
    <3>3. QED
      BY <3>2, Zenon
  <2>4. QED
    BY <2>2, <2>3
<1>2. CASE d \in ReceiptDocs
  <2>1. d.type = "InferenceReceipt" /\ d \notin OddDocs /\ d \notin ManifestDocs
    BY <1>2 DEF ReceiptDocs, OddDocs, ManifestDocs
  <2>2. d.shape => (ReceiptOK(d) <=> ModelPlaneObeys(d))
    BY <1>2, <2>1 DEF ReceiptDocs, Field, ReceiptOK, ChainLink, ModelPlaneObeys, Crosses,
                      Authorised, Explained
  <2>3. ModelPlaneObeys(d) => d.shape
    BY DEF ModelPlaneObeys
  <2>4. QED
    BY <2>1, <2>2, <2>3 DEF FileStatus
<1>3. CASE d \in DecisionDocs
  <2>1. d.type = "EscalationDecision" /\ d \notin OddDocs /\ d \notin ManifestDocs
    BY <1>3 DEF DecisionDocs, OddDocs, ManifestDocs
  <2>2. d.shape => (DecisionOK(d) <=> ModelPlaneObeys(d))
    BY <1>3, <2>1 DEF DecisionDocs, Field, DecisionOK, ChainLink, ModelPlaneObeys, Crosses,
                      Authorised, Explained
  <2>3. ModelPlaneObeys(d) => d.shape
    BY DEF ModelPlaneObeys
  <2>4. QED
    BY <2>1, <2>2, <2>3 DEF FileStatus
<1>4. CASE d \in ManifestDocs
  <2>1. d.type \in {"ModelManifest", "ModelAdapterManifest"} /\ d \notin OddDocs
    BY <1>4 DEF ManifestDocs, OddDocs
  <2>2. d.shape => (ManifestOK(d) <=> ModelPlaneObeys(d))
    BY <1>4, <2>1 DEF ManifestOK, ModelPlaneObeys, Crosses, Explained
  <2>3. ModelPlaneObeys(d) => d.shape
    BY DEF ModelPlaneObeys
  <2>4. QED
    BY <2>1, <2>2, <2>3 DEF FileStatus
<1>5. QED
  BY <1>1, <1>2, <1>3, <1>4 DEF ModelPlaneDocs

\* validate_host_interface.py, when all timestamps are spelt in one way.
LEMMA HostRule ==
  ASSUME OneSpelling, NEW env \in Envelopes, Check(env)
  PROVE  DeniesByDefault(env)
<1> SUFFICES ASSUME "allow" \in {env.result, env.receiptResult} PROVE GrantAdmits(env)
  BY DEF DeniesByDefault
<1>1. GrantValid(env)
  BY DEF Check
<1>2. env.grant \in Grants /\ env.decidedAt \in Texts /\ env.requested \subseteq Capabilities
  BY <1>1 DEF Envelopes, GrantValid
<1>3. PICK s \in TimeSpellings : Spellings = {s}
  BY DEF OneSpelling
<1>4. ASSUME NEW t \in Texts PROVE t.spelling = s /\ t.local \in Int /\ s # NoTime
  <2>1. t.spelling = s /\ t.local \in Int
    BY <1>3, HostBounds DEF Texts
  <2>2. s.suffix # "never" /\ NoTime.suffix = "never"
    BY <1>3 DEF TimeSpellings, NoTime
  <2>3. QED
    BY <2>1, <2>2
<1>5. ASSUME NEW t \in Texts, NEW u \in Texts, ~TextLE(t, u) PROVE Instant(u) < Instant(t)
  <2>1. t.spelling = s /\ u.spelling = s /\ t.local \in Int /\ u.local \in Int /\ s # NoTime
    BY <1>4
  <2>2. RestRank(s) <= RestRank(s)
    <3>1. ASSUME NEW x \in {"Z", "z", "+00:00", "+01:00", "-01:00", ".5"}
          PROVE  SuffixRank[x] \in Int
      BY DEF SuffixRank
    <3>2. s.suffix \in {"Z", "z", "+00:00", "+01:00", "-01:00"}
      BY <1>3 DEF TimeSpellings
    <3>3. RestRank(s) \in Int
      BY <3>1, <3>2 DEF RestRank
    <3>4. QED
      BY <3>3
  <2>3. u.local < t.local
    BY <1>5, <2>1, <2>2 DEF TextLE
  <2>4. Offset(s.suffix) \in Int
    BY DEF Offset
  <2>5. QED
    BY <2>1, <2>3, <2>4 DEF Instant
<1>6. Instant(env.decidedAt) < Instant(env.grant.expiresAt)
  BY <1>1, <1>2, <1>5 DEF GrantValid, Grants
<1>7. NoTime \notin {env.decidedAt.spelling, env.grant.expiresAt.spelling}
  BY <1>2, <1>4 DEF Grants
<1>8. \A c \in env.requested : {c, "*"} \intersect env.grant.scope # {}
  BY <1>1 DEF GrantValid
<1>9. QED
  BY <1>1, <1>6, <1>7, <1>8 DEF GrantValid, GrantAdmits

\* check_fog_node.py, the contract.
LEMMA FogRule ==
  ASSUME NEW c \in FogContracts, ContractFailures(c) = {}
  PROVE  FogObeys(c)
<1>1. c # NoContract
  BY DEF ContractFailures
<1>2. \A f \in {"kind", "keys", "paths", "sections"} : f \notin ContractFailures(c)
  OBVIOUS
<1>3. c.kindOK /\ c.keys /\ c.sections /\ c.isList
  BY <1>1, <1>2 DEF ContractFailures, FogContracts
<1>4. c.paths \ RequiredPaths = {} /\ RequiredPaths \ c.paths = {}
  BY <1>1, <1>2 DEF ContractFailures
<1>5. QED
  BY <1>1, <1>3, <1>4 DEF FogObeys

-------------------------------------------------------------------------------
(* What may become of a document *)

\* Outcomes, unfolded for each thing a line may do.
LEMMA OutcomesOf ==
  /\ Outcomes("example") = ExampleOutcomes /\ Outcomes("contract") = ContractOutcomes
  /\ Outcomes("workspaceOps") = WorkspaceOpsOutcomes /\ Outcomes("host") = HostOutcomes
  /\ Outcomes("modelPlane") = ModelPlaneOutcomes /\ Outcomes("fogNode") = FogOutcomes
  /\ Outcomes("seams") = SeamOutcomes /\ Outcomes("ledgers") = LedgerOutcomes
  BY DEF Outcomes

\* An example is accepted if it is lawful.
LEMMA ExampleOutcome ==
  ASSUME NEW o \in ExampleOutcomes
  PROVE  o.code \in {0, 1} /\ (o.code = 0 => o.lawful)
<1>1. PICK d \in Documents :
        o = Outcome(ContractStatus(d, TRUE), Obeys(d, TRUE), ~Crashes(d))
  BY DEF ExampleOutcomes
<1>2. o.code = ContractStatus(d, TRUE) /\ o.lawful = Obeys(d, TRUE)
  BY <1>1 DEF Outcome
<1>3. QED
  BY <1>2, ContractRule

\* So is a contract of the conformance suite; a rejection by the rules is just, and the
\* other validator agrees.
LEMMA ContractOutcome ==
  ASSUME NEW o \in ContractOutcomes
  PROVE  /\ o.code \in {0, 1} /\ (o.code = 0 => o.lawful) /\ o.agreed
         /\ o.code # 0 /\ o.judged => ~o.lawful
<1>1. PICK d \in Documents :
        o = [Outcome(ContractStatus(d, FALSE), Obeys(d, FALSE), ~Crashes(d)) EXCEPT
               !.agreed = CopiesAgree(d)]
  BY DEF ContractOutcomes
<1>2. /\ o.code = ContractStatus(d, FALSE) /\ o.lawful = Obeys(d, FALSE)
      /\ o.judged = ~Crashes(d) /\ o.agreed = CopiesAgree(d)
  BY <1>1 DEF Outcome
<1>3. QED
  BY <1>2, ContractRule, TheCopies

\* A document is judged rightly if any rule of workspace operations applies to it.
LEMMA WorkspaceOpsOutcome ==
  ASSUME NEW o \in WorkspaceOpsOutcomes
  PROVE  /\ o.code \in {0, 1} /\ (o.code = 0 /\ o.judged => o.lawful)
         /\ o.code # 0 /\ o.judged => ~o.lawful
<1>1. PICK d \in WorkspaceOpsDocuments :
        o = Outcome(WorkspaceOpsStatus(d), WorkspaceOpsObeys(d), Examined(d))
  BY DEF WorkspaceOpsOutcomes
<1>2. /\ o.code = WorkspaceOpsStatus(d) /\ o.lawful = WorkspaceOpsObeys(d)
      /\ o.judged = Examined(d)
  BY <1>1 DEF Outcome
<1>3. QED
  BY <1>2, WorkspaceOpsRule

\* A fixture of the model plane that ends with 1 is unlawful or raised an exception.
LEMMA ModelPlaneOutcome ==
  ASSUME NEW o \in ModelPlaneOutcomes
  PROVE  /\ o.code \in {0, 1, 2} /\ (o.code = 0 => o.lawful)
         /\ o.code = 1 /\ o.judged => ~o.lawful
<1>1. PICK d \in ModelPlaneDocs :
        o = Outcome(FileStatus(d), ModelPlaneObeys(d), ~Raises(d))
  BY DEF ModelPlaneOutcomes
<1>2. o.code = FileStatus(d) /\ o.lawful = ModelPlaneObeys(d) /\ o.judged = ~Raises(d)
  BY <1>1 DEF Outcome
<1>3. QED
  BY <1>2, ModelPlaneRule

\* An envelope is accepted only if it denies by default, if all timestamps are spelt in
\* one way.
LEMMA HostOutcome ==
  ASSUME NEW o \in HostOutcomes
  PROVE  o.code \in {0, 1} /\ (OneSpelling /\ o.code = 0 => o.lawful)
<1>1. PICK env \in Envelopes :
        o = Outcome(IF Check(env) THEN 0 ELSE 1, DeniesByDefault(env), env.schemaValid)
  BY DEF HostOutcomes
<1>2. /\ o.code \in {0, 1} /\ (o.code = 0 => Check(env))
      /\ o.lawful = DeniesByDefault(env)
  BY <1>1 DEF Outcome
<1>3. QED
  BY <1>2, HostRule

\* The fog node's contract is accepted only if it asks for what the host lane checks.
LEMMA FogOutcome ==
  ASSUME NEW o \in FogOutcomes
  PROVE  o.code \in {0, 1} /\ (o.code = 0 => o.lawful /\ o.judged)
<1>1. PICK c \in FogContracts :
        o = Outcome(IF ContractFailures(c) = {} /\ ~ContractCheckRaises(c) THEN 0 ELSE 1,
                    FogObeys(c), ~ContractCheckRaises(c))
  BY DEF FogOutcomes
<1>2. /\ o.code \in {0, 1} /\ (o.code = 0 => ContractFailures(c) = {} /\ ~ContractCheckRaises(c))
      /\ o.lawful = FogObeys(c) /\ o.judged = ~ContractCheckRaises(c)
  BY <1>1 DEF Outcome
<1>3. QED
  BY <1>2, FogRule

Kinds == {"example", "contract", "workspaceOps", "host", "modelPlane", "fogNode", "seams",
          "ledgers"}

\* There are three exit statuses.
LEMMA Codes ==
  ASSUME NEW does \in Kinds, NEW o \in Outcomes(does)
  PROVE  o.code \in 0 .. 2
<1>1. CASE o \in ExampleOutcomes
  BY <1>1, ExampleOutcome
<1>2. CASE o \in ContractOutcomes
  BY <1>2, ContractOutcome
<1>3. CASE o \in WorkspaceOpsOutcomes
  BY <1>3, WorkspaceOpsOutcome
<1>4. CASE o \in HostOutcomes
  BY <1>4, HostOutcome
<1>5. CASE o \in ModelPlaneOutcomes
  BY <1>5, ModelPlaneOutcome
<1>6. CASE o \in FogOutcomes
  BY <1>6, FogOutcome
<1>7. CASE o \in SeamOutcomes
  BY <1>7 DEF SeamOutcomes, SeamStatus, Outcome
<1>8. CASE o \in LedgerOutcomes
  BY <1>8 DEF LedgerOutcomes, Outcome
<1>9. QED
  BY <1>1, <1>2, <1>3, <1>4, <1>5, <1>6, <1>7, <1>8 DEF Kinds, Outcomes

\* The fog node's contract may end its checker with an exception.
LEMMA AnException == Outcome(1, FALSE, FALSE) \in FogOutcomes
<1> DEFINE c == [kindOK |-> FALSE, keys |-> FALSE, sections |-> FALSE, wellShaped |-> FALSE,
                 isList |-> FALSE, paths |-> {}]
<1>1. c \in FogContracts
  BY DEF FogContracts
<1>2. c # NoContract /\ ContractCheckRaises(c)
  <2>1. c # NoContract
    BY DEF NoContract
  <2>2. QED
    BY <2>1 DEF ContractCheckRaises
<1>3. FogObeys(c) = FALSE
  BY DEF FogObeys
<1>4. ~(ContractFailures(c) = {} /\ ~ContractCheckRaises(c))
  BY <1>2
<1>5. (~ContractCheckRaises(c)) = FALSE
  BY <1>2
<1> HIDE DEF c
<1>6. QED
  BY <1>1, <1>3, <1>4, <1>5 DEF FogOutcomes

-------------------------------------------------------------------------------
(* The recipes *)

Manners == {"once", "shell", "bad", "loop"}

\* A recipe has a line, of known kinds; the fog node's is where FogLine says.
LEMMA Recipes ==
  ASSUME target \in DOMAIN Targets
  PROVE  /\ Len(Recipe) \in Nat \ {0}
         /\ \A l \in 1 .. Len(Recipe) :
              /\ Recipe[l].does \in Kinds /\ Recipe[l].how \in Manners
              /\ Recipe[l].does = "fogNode" =>
                   Recipe[l].how = "once" /\ target = "validate" /\ l = FogLine
         /\ DOMAIN Recipe = 1 .. Len(Recipe)
<1>1. target \in {"validate", "workspaceOps"}
  BY DEF Targets
<1>2. CASE target = "validate"
  BY <1>2 DEF Recipe, Targets, Line, Kinds, Manners, FogLine
<1>3. CASE target = "workspaceOps"
  BY <1>3 DEF Recipe, Targets, Line, Kinds, Manners, FogLine
<1>4. QED
  BY <1>1, <1>2, <1>3

\* The recipe of "make validate".
LEMMA ValidateRecipe ==
  ASSUME target = "validate"
  PROVE  /\ Len(Recipe) = 12 /\ Recipe[3] = Line("contract", "shell")
         /\ Recipe[FogLine] = Line("fogNode", "once")
  BY DEF Recipe, Targets, Line, FogLine

\* The recipe of "make validate-workspace-ops".
LEMMA WorkspaceOpsRecipe ==
  ASSUME target = "workspaceOps"
  PROVE  Len(Recipe) = 3 /\ Recipe[1] = Line("workspaceOps", "shell")
  BY DEF Recipe, Targets, Line

-------------------------------------------------------------------------------
(* The invariant *)

\* What is known of the documents of a line that make has gone past,
Passed(l) ==
  /\ Recipe[l].how \in {"once", "loop"} => \A o \in seen[l] : o.code = 0
  /\ Recipe[l].how = "bad" =>
       \A o \in seen[l] : o.code # 0 /\ (Recipe[l].does = "modelPlane" => o.code = 1)
  /\ Recipe[l].how = "shell" => \E o \in seen[l] : o.code = 0

\* and of those of the line that runs.
Underway(l) ==
  /\ count = 0 => seen[l] = {} /\ last = 0
  /\ Recipe[l].how = "once" =>
       (Recipe[l].does # "fogNode" => count = 0) /\ \A o \in seen[l] : o.code = last
  /\ Recipe[l].how = "loop" /\ last = 0 => \A o \in seen[l] : o.code = 0
  /\ Recipe[l].how = "bad" =>
       /\ last = 0
       /\ \A o \in seen[l] : o.code # 0 /\ (Recipe[l].does = "modelPlane" => o.code = 1)
  /\ Recipe[l].how = "shell" /\ count > 0 => \E o \in seen[l] : o.code = last

AllOutcomes == UNION {Outcomes(does) : does \in Kinds}

Position ==
  /\ target \in DOMAIN Targets
  /\ line \in 1 .. Len(Recipe) + 1 /\ last \in 0 .. 2
  /\ count \in Nat /\ (count <= MaxFixtures \/ count <= 2)
  /\ status \in {"running", "red", "green", "killed"}
  /\ status = "green" <=> line = Len(Recipe) + 1

Documented ==
  /\ seen \in [1 .. Len(Recipe) -> SUBSET AllOutcomes]
  /\ \A l \in 1 .. Len(Recipe) :
       /\ seen[l] \subseteq Outcomes(Recipe[l].does)
       /\ l < line => Passed(l)
       /\ l > line => seen[l] = {}
       /\ l = line /\ status = "running" => Underway(l)

Core == Position /\ Documented

\* What a step that judges a document, or none, adds to what has been seen.
SeenNow(l) ==
  /\ seen' \in [1 .. Len(Recipe) -> SUBSET AllOutcomes]
  /\ \A k \in 1 .. Len(Recipe) : k # l => seen'[k] = seen[k]
  /\ seen'[l] \subseteq Outcomes(Recipe[l].does)

JudgedNow(l, how, o) ==
  /\ l \in 1 .. Len(Recipe) /\ Recipe[l].how = how /\ Underway(l)
  /\ SeenNow(l) /\ seen'[l] = seen[l] \union {o}
  /\ o \in Outcomes(Recipe[l].does) /\ o.code \in 0 .. 2
  /\ count < MaxFixtures /\ status = "running" /\ target' = target /\ Recipe' = Recipe

\* A step that judges a document adds its outcome to those of the line that runs.
LEMMA Judging ==
  ASSUME Core, NEW how, NEW o, Judges(how, o), NEW l, l = line
  PROVE  JudgedNow(l, how, o)
<1>1. /\ status = "running" /\ Current.how = how /\ count < MaxFixtures
      /\ o \in Outcomes(Current.does) /\ target' = target
      /\ seen' = [seen EXCEPT ![l] = @ \union {o}]
  BY DEF Judges
<1>2. l \in 1 .. Len(Recipe) /\ Len(Recipe) \in Nat
  BY <1>1, Recipes DEF Core, Position
<1>3. Current = Recipe[l]
  BY DEF Current
<1>4. o \in AllOutcomes /\ o.code \in 0 .. 2
  BY <1>1, <1>2, <1>3, Recipes, Codes DEF Core, Position, AllOutcomes
<1>5. seen'[l] = seen[l] \union {o} /\ SeenNow(l)
  BY <1>1, <1>2, <1>3, <1>4 DEF Core, Documented, SeenNow
<1>6. Recipe' = Recipe
  BY <1>1 DEF Recipe
<1>7. QED
  BY <1>1, <1>2, <1>3, <1>4, <1>5, <1>6 DEF Core, Documented, JudgedNow

\* A line that ends with status 0 leaves its documents as they should be; one that
\* does not ends make.
LEMMA LineEnds ==
  ASSUME Core, NEW l, l = line, status = "running", SeenNow(l), target' = target,
         NEW s \in 0 .. 2, EndLine(s), s = 0 => Passed(l)'
  PROVE  Core'
<1>1. Recipe' = Recipe /\ Len(Recipe) \in Nat \ {0} /\ l \in 1 .. Len(Recipe)
  BY Recipes DEF Recipe, Core, Position
<1>2. CASE s # 0
  <2>1. count' = 0 /\ last' = 0 /\ status' = "red" /\ line' = line
    BY <1>2 DEF EndLine
  <2>2. Position'
    BY <1>1, <2>1 DEF Core, Position
  <2>3. \A k \in 1 .. Len(Recipe) : k < line => Passed(k)'
    BY <1>1 DEF Core, Documented, Passed, SeenNow
  <2>4. Documented'
    BY <1>1, <2>1, <2>3 DEF Core, Documented, SeenNow
  <2>5. QED
    BY <2>2, <2>4 DEF Core
<1>3. CASE s = 0
  <2>1. /\ count' = 0 /\ last' = 0 /\ line' = line + 1
        /\ status' = IF line = Len(Recipe) THEN "green" ELSE "running"
    BY <1>3 DEF EndLine
  <2>2. Position'
    BY <1>1, <2>1 DEF Core, Position
  <2>3. \A k \in 1 .. Len(Recipe) : k < line => Passed(k)'
    BY <1>1 DEF Core, Documented, Passed, SeenNow
  <2>4. ASSUME NEW k \in 1 .. Len(Recipe), k = line + 1 PROVE Underway(k)'
    <3>1. seen'[k] = {}
      BY <1>1, <2>4 DEF Core, Position, Documented, SeenNow
    <3>2. QED
      BY <1>1, <2>1, <3>1 DEF Underway
  <2>5. Documented'
    <3>1. ASSUME NEW k \in 1 .. Len(Recipe)
          PROVE  /\ seen'[k] \subseteq Outcomes(Recipe[k].does)
                 /\ k < line + 1 => Passed(k)'
                 /\ k > line + 1 => seen'[k] = {}
      BY <1>1, <1>3, <2>3 DEF Core, Position, Documented, SeenNow
    <3>2. QED
      BY <1>1, <2>1, <2>4, <3>1 DEF Documented, SeenNow
  <2>6. QED
    BY <2>2, <2>5 DEF Core
<1>4. QED
  BY <1>2, <1>3

\* A line that goes on stays where it is.
LEMMA LineGoesOn ==
  ASSUME Core, NEW l, l = line, status = "running", SeenNow(l), target' = target,
         count' \in Nat, count' <= MaxFixtures \/ count' <= 2,
         last' \in 0 .. 2, UNCHANGED <<line, status>>, Underway(l)'
  PROVE  Core'
<1>1. Recipe' = Recipe /\ Len(Recipe) \in Nat \ {0} /\ l \in 1 .. Len(Recipe)
  BY Recipes DEF Recipe, Core, Position
<1>2. Position'
  BY <1>1 DEF Core, Position
<1>3. \A k \in 1 .. Len(Recipe) : k < line => Passed(k)'
  BY <1>1 DEF Core, Documented, Passed, SeenNow
<1>4. Documented'
  BY <1>1, <1>3 DEF Core, Documented, SeenNow
<1>5. QED
  BY <1>2, <1>4 DEF Core

\* A validator that loops itself keeps the larger status: 0 only if both are 0.
LEMMA CombinedIs ==
  ASSUME NEW code \in 0 .. 2, last \in 0 .. 2
  PROVE  Combined(code) \in 0 .. 2 /\ (Combined(code) = 0 => last = 0 /\ code = 0)
<1>1. \E x \in {last, code} : \A y \in {last, code} : x >= y
  <2>1. CASE last >= code
    BY <2>1
  <2>2. CASE code >= last
    BY <2>2
  <2>3. QED
    BY <2>1, <2>2
<1>2. Max({last, code}) \in {last, code} /\ \A y \in {last, code} : Max({last, code}) >= y
  BY <1>1 DEF Max
<1>3. QED
  BY <1>2 DEF Combined

\* The four kinds of lines.
LEMMA JudgingKeeps ==
  ASSUME Core, NEW o, Once(o) \/ ShellLoop(o) \/ BadLoop(o) \/ OwnLoop(o) \/ FogChecks(o)
  PROVE  Core'
<1>1. PICK l : l = line
  OBVIOUS
<1>2. last \in 0 .. 2 /\ count \in Nat /\ MaxFixtures \in Nat
  BY MaxFixturesIsNat DEF Core, Position
<1>3. ASSUME NEW how, NEW s \in 0 .. 2, JudgedNow(l, how, o), EndLine(s), s = 0 => Passed(l)'
      PROVE  Core'
  <2>1. SeenNow(l) /\ status = "running" /\ target' = target
    BY <1>3 DEF JudgedNow
  <2>2. QED
    BY <1>1, <1>3, <2>1, LineEnds
<1>4. ASSUME NEW how, NEW s \in 0 .. 2, JudgedNow(l, how, o), LoopOn(s), Underway(l)'
      PROVE  Core'
  <2>1. SeenNow(l) /\ status = "running" /\ target' = target /\ count < MaxFixtures
    BY <1>4 DEF JudgedNow
  <2>2. last' = s /\ count' = count + 1 /\ UNCHANGED <<line, status>>
    BY <1>4 DEF LoopOn
  <2>3. count' \in Nat /\ count' <= MaxFixtures
    BY <1>2, <2>1, <2>2
  <2>4. QED
    BY <1>1, <1>4, <2>1, <2>2, <2>3, LineGoesOn
<1>5. CASE Once(o)
  <2>1. Judges("once", o) /\ Recipe[l].does # "fogNode" /\ EndLine(o.code)
    BY <1>1, <1>5 DEF Once, Current
  <2>2. JudgedNow(l, "once", o)
    BY <1>1, <2>1, Judging
  <2>3. o.code = 0 => Passed(l)'
    BY <2>1, <2>2 DEF Passed, JudgedNow, Underway
  <2>4. o.code \in 0 .. 2
    BY <2>2 DEF JudgedNow
  <2>5. QED
    BY <1>3, <2>1, <2>2, <2>3, <2>4
<1>6. CASE ShellLoop(o)
  <2>1. Judges("shell", o) /\ LoopOn(o.code)
    BY <1>6 DEF ShellLoop
  <2>2. JudgedNow(l, "shell", o)
    BY <1>1, <2>1, Judging
  <2>3. Underway(l)' /\ o.code \in 0 .. 2
    BY <1>2, <2>1, <2>2 DEF Underway, LoopOn, JudgedNow
  <2>4. QED
    BY <1>4, <2>1, <2>2, <2>3
<1>7. CASE BadLoop(o)
  <2>1. Judges("bad", o)
    BY <1>7 DEF BadLoop
  <2>2. JudgedNow(l, "bad", o)
    BY <1>1, <2>1, Judging
  <2>3. CASE o.code \in Rejections
    <3>1. LoopOn(0)
      BY <1>7, <2>3 DEF BadLoop
    <3>2. o.code # 0 /\ (Recipe[l].does = "modelPlane" => o.code = 1)
      BY <1>1, <2>3 DEF Rejections, Current
    <3>3. Underway(l)'
      BY <1>2, <2>2, <3>1, <3>2 DEF Underway, LoopOn, JudgedNow
    <3>4. QED
      BY <1>4, <2>2, <3>1, <3>3
  <2>4. CASE o.code \notin Rejections
    <3>1. EndLine(1)
      BY <1>7, <2>4 DEF BadLoop
    <3>2. QED
      BY <1>3, <2>2, <3>1
  <2>5. QED
    BY <2>3, <2>4
<1>8. CASE OwnLoop(o)
  <2>1. Judges("loop", o)
    BY <1>8 DEF OwnLoop
  <2>2. JudgedNow(l, "loop", o)
    BY <1>1, <2>1, Judging
  <2>3. CASE EndLine(1)
    BY <1>3, <2>2, <2>3
  <2>4. CASE LoopOn(Combined(o.code))
    <3>1. o.code \in 0 .. 2
      BY <2>2 DEF JudgedNow
    <3>2. Combined(o.code) \in 0 .. 2 /\ (Combined(o.code) = 0 => last = 0 /\ o.code = 0)
      BY <1>2, <3>1, CombinedIs
    <3>3. last' = Combined(o.code) /\ count' = count + 1
      BY <2>4 DEF LoopOn
    <3>4. Underway(l)'
      BY <1>2, <2>2, <3>2, <3>3 DEF Underway, JudgedNow
    <3>5. QED
      BY <1>4, <2>2, <2>4, <3>2, <3>4
  <2>5. QED
    BY <1>8, <2>3, <2>4 DEF OwnLoop
<1>9. CASE FogChecks(o)
  <2>1. Judges("once", o) /\ count = 0 /\ Recipe[l].does = "fogNode"
    BY <1>1, <1>9 DEF FogChecks, AtFogNode, Current
  <2>2. JudgedNow(l, "once", o)
    BY <1>1, <2>1, Judging
  <2>3. seen'[l] = {o} /\ o.code \in 0 .. 2 /\ Recipe' = Recipe
    BY <2>1, <2>2 DEF JudgedNow, Underway
  <2>4. CASE LoopOn(o.code)
    <3>1. last' = o.code /\ count' = 1
      BY <2>1, <2>4 DEF LoopOn
    <3>2. Underway(l)'
      BY <2>1, <2>2, <2>3, <3>1 DEF Underway, JudgedNow
    <3>3. QED
      BY <1>4, <2>2, <2>3, <2>4, <3>2
  <2>5. CASE EndLine(o.code)
    <3>1. o.code = 0 => Passed(l)'
      BY <2>2, <2>3 DEF Passed, JudgedNow
    <3>2. QED
      BY <1>3, <2>2, <2>3, <2>5, <3>1
  <2>6. QED
    BY <1>9, <2>4, <2>5 DEF FogChecks
<1>10. QED
  BY <1>5, <1>6, <1>7, <1>8, <1>9

\* The steps that judge nothing.
LEMMA OtherKeeps ==
  ASSUME Core, \/ LoopEnds \/ FogFails \/ FogOpens \/ FogWrites
               \/ HostOpens \/ HostWrites \/ Killed \/ UNCHANGED vars
  PROVE  Core'
<1>1. PICK l : l = line
  OBVIOUS
<1>2. last \in 0 .. 2 /\ count \in Nat
  BY DEF Core, Position
<1>3. CASE HostOpens \/ HostWrites \/ Killed \/ UNCHANGED vars
  <2>1. /\ UNCHANGED <<target, line, count, last, seen>> /\ Recipe' = Recipe
        /\ status' = status \/ (status = "running" /\ status' = "killed")
    BY <1>3 DEF HostOpens, HostWrites, Killed, AtFogNode, vars, Recipe
  <2>2. Position'
    BY <2>1, Recipes DEF Core, Position
  <2>3. Documented'
    BY <2>1 DEF Core, Documented, Passed, Underway
  <2>4. QED
    BY <2>2, <2>3 DEF Core
<1>4. CASE LoopEnds \/ FogOpens \/ FogWrites
  <2>1. UNCHANGED <<target, seen>> /\ Recipe' = Recipe /\ status = "running"
    BY <1>4 DEF LoopEnds, FogOpens, FogWrites, AtFogNode, Recipe
  <2>2. l \in 1 .. Len(Recipe) /\ Underway(l)
    BY <1>1, <2>1, Recipes DEF Core, Position, Documented
  <2>3. SeenNow(l)
    BY <2>1, <2>2 DEF Core, Documented, SeenNow
  <2>4. CASE LoopEnds
    <3>1. Recipe[l].how # "once" /\ count > 0 /\ EndLine(last)
      BY <1>1, <2>4 DEF LoopEnds, Current
    <3>2. last = 0 => Passed(l)'
      BY <1>1, <1>2, <2>1, <2>2, <3>1 DEF Passed, Underway
    <3>3. QED
      BY <1>1, <1>2, <2>1, <2>3, <3>1, <3>2, LineEnds
  <2>5. CASE FogOpens
    <3>1. count = 1 /\ count' = 2 /\ UNCHANGED <<line, last, status>>
      BY <2>5 DEF FogOpens
    <3>2. Recipe[l].does = "fogNode"
      BY <1>1, <2>5 DEF FogOpens, AtFogNode, Current
    <3>3. Underway(l)'
      BY <2>1, <2>2, <3>1, <3>2 DEF Underway
    <3>4. QED
      BY <1>1, <1>2, <2>1, <2>3, <3>1, <3>3, LineGoesOn
  <2>6. CASE FogWrites
    <3>1. Recipe[l].does = "fogNode" /\ EndLine(last)
      BY <1>1, <2>6 DEF FogWrites, AtFogNode, Current
    <3>2. Recipe[l].how = "once"
      BY <2>2, <3>1, Recipes DEF Core, Position
    <3>3. last = 0 => Passed(l)'
      BY <2>1, <2>2, <3>2 DEF Passed, Underway
    <3>4. QED
      BY <1>1, <1>2, <2>1, <2>3, <3>1, <3>3, LineEnds
  <2>7. QED
    BY <1>4, <2>4, <2>5, <2>6
<1>5. CASE FogFails
  <2>1. /\ target' = target /\ status = "running" /\ EndLine(1) /\ Recipe[l].does = "fogNode"
        /\ seen' = [seen EXCEPT ![l] = @ \union {Outcome(1, FALSE, FALSE)}]
    BY <1>1, <1>5 DEF FogFails, AtFogNode, Current
  <2>2. l \in 1 .. Len(Recipe)
    BY <1>1, <2>1, Recipes DEF Core, Position
  <2>3. Outcome(1, FALSE, FALSE) \in Outcomes("fogNode") /\ "fogNode" \in Kinds
    BY AnException, OutcomesOf DEF Kinds
  <2>4. SeenNow(l)
    BY <2>1, <2>2, <2>3 DEF Core, Documented, SeenNow, AllOutcomes
  <2>5. QED
    BY <1>1, <2>1, <2>4, LineEnds
<1>6. QED
  BY <1>3, <1>4, <1>5

\* make's exit status: what each line has seen when make has gone past it.
LEMMA CoreInvariant == Spec => []Core
<1>1. Init => Core
  <2> SUFFICES ASSUME Init PROVE Core
    OBVIOUS
  <2>1. Len(Recipe) \in Nat \ {0}
    BY Recipes DEF Init
  <2>2. Position
    BY <2>1 DEF Init, Position
  <2>3. seen = [k \in 1 .. Len(Recipe) |-> {}] /\ line = 1 /\ count = 0 /\ last = 0
    BY DEF Init
  <2>4. \A k \in 1 .. Len(Recipe) : Underway(k)
    BY <2>3 DEF Underway
  <2>5. Documented
    BY <2>1, <2>3, <2>4 DEF Documented
  <2>6. QED
    BY <2>2, <2>5 DEF Core
<1>2. Core /\ [Next]_vars => Core'
  BY JudgingKeeps, OtherKeeps DEF Next
<1>3. QED
  BY <1>1, <1>2, PTL DEF Spec

-------------------------------------------------------------------------------
(* What green means *)

\* When make is green, all outcomes of a line that is no shell loop are of those that
\* let it pass.
LEMMA GreenLines ==
  ASSUME Core, Green, NEW does, NEW how, NEW o \in Seen(does, how)
  PROVE  /\ o \in Outcomes(does)
         /\ how \in {"once", "loop"} => o.code = 0
         /\ how = "bad" => o.code # 0 /\ (does = "modelPlane" => o.code = 1)
<1>1. PICK l \in DOMAIN Recipe : Recipe[l] = Line(does, how) /\ o \in seen[l]
  BY DEF Seen
<1>2. l \in 1 .. Len(Recipe) /\ l < line /\ Recipe[l].does = does /\ Recipe[l].how = how
  BY <1>1, Recipes DEF Core, Position, Green, Line
<1>3. Passed(l) /\ o \in Outcomes(does)
  BY <1>1, <1>2 DEF Core, Documented
<1>4. QED
  BY <1>1, <1>2, <1>3 DEF Passed

\* When make is green, each shell loop has accepted a document (its last).
LEMMA GreenShells ==
  ASSUME Core, Green, NEW does, NEW l \in 1 .. Len(Recipe), Recipe[l] = Line(does, "shell")
  PROVE  \E o \in Seen(does, "shell") : o.code = 0 /\ o \in Outcomes(does)
<1>1. l < line /\ Recipe[l].how = "shell" /\ Recipe[l].does = does /\ l \in DOMAIN Recipe
  BY Recipes DEF Core, Position, Green, Line
<1>2. PICK o \in seen[l] : o.code = 0
  BY <1>1 DEF Core, Documented, Passed
<1>3. o \in Seen(does, "shell") /\ o \in Outcomes(does)
  BY <1>1, <1>2 DEF Seen, Core, Documented
<1>4. QED
  BY <1>2, <1>3

\* "make validate": the good fixtures of the model plane keep its rules, the bad ones break
\* them or raise, and none is unreadable or of an unknown type.
THEOREM ModelPlaneTeeth == Spec => []GreenMeansModelPlane
<1>1. ASSUME Core, Green PROVE GreenMeansModelPlane
  <2>1. ASSUME NEW o \in Seen("modelPlane", "loop") PROVE o.code = 0 /\ o.lawful
    <3>1. o \in ModelPlaneOutcomes /\ o.code = 0
      BY <1>1, GreenLines, OutcomesOf
    <3>2. QED
      BY <3>1, ModelPlaneOutcome
  <2>2. ASSUME NEW o \in Seen("modelPlane", "bad") PROVE o.code = 1 /\ (o.judged => ~o.lawful)
    <3>1. o \in ModelPlaneOutcomes /\ o.code = 1
      BY <1>1, GreenLines, OutcomesOf
    <3>2. QED
      BY <3>1, ModelPlaneOutcome
  <2>3. QED
    BY <2>1, <2>2 DEF GreenMeansModelPlane, AllGood, AllBad
<1>2. Core => GreenMeansModelPlane
  BY <1>1 DEF GreenMeansModelPlane
<1>3. QED
  BY <1>2, CoreInvariant, PTL

\* "make validate", with all timestamps spelt in one way: what a good envelope allows was
\* granted.
THEOREM DenyByDefault ==
  ASSUME OneSpelling
  PROVE  Spec => []GreenMeansDenyByDefault
<1>1. ASSUME Core, Green PROVE GreenMeansDenyByDefault
  <2>1. ASSUME NEW o \in Seen("host", "loop") PROVE o.code = 0 /\ o.lawful
    <3>1. o \in HostOutcomes /\ o.code = 0
      BY <1>1, GreenLines, OutcomesOf
    <3>2. QED
      BY <3>1, HostOutcome
  <2>2. \A o \in Seen("host", "bad") : o.code # 0
    BY <1>1, GreenLines
  <2>3. QED
    BY <2>1, <2>2 DEF GreenMeansDenyByDefault, AllGood
<1>2. Core => GreenMeansDenyByDefault
  BY <1>1 DEF GreenMeansDenyByDefault
<1>3. QED
  BY <1>2, CoreInvariant, PTL

\* "make validate": the examples are lawful, each bad contract is unlawful or ended the
\* validator with an exception, and one of the good contracts at least is lawful.
THEOREM LawfulExamples == Spec => []GreenMeansLawfulExamples
<1>1. ASSUME Core, Green PROVE GreenMeansLawfulExamples
  <2>1. ASSUME NEW o \in Seen("example", "once") PROVE o.code = 0 /\ o.lawful
    <3>1. o \in ExampleOutcomes /\ o.code = 0
      BY <1>1, GreenLines, OutcomesOf
    <3>2. QED
      BY <3>1, ExampleOutcome
  <2>2. ASSUME NEW o \in Seen("contract", "bad") PROVE o.code # 0 /\ (o.judged => ~o.lawful)
    <3>1. o \in ContractOutcomes /\ o.code # 0
      BY <1>1, GreenLines, OutcomesOf
    <3>2. QED
      BY <3>1, ContractOutcome
  <2>3. ASSUME target = "validate"
        PROVE  \E o \in Seen("contract", "shell") : o.code = 0 /\ o.lawful
    <3>1. 3 \in 1 .. Len(Recipe) /\ Recipe[3] = Line("contract", "shell")
      BY <2>3, ValidateRecipe
    <3>2. PICK o \in Seen("contract", "shell") : o.code = 0 /\ o \in ContractOutcomes
      BY <1>1, <3>1, GreenShells, OutcomesOf
    <3>3. QED
      BY <3>2, ContractOutcome
  <2>4. QED
    BY <2>1, <2>2, <2>3 DEF GreenMeansLawfulExamples, AllGood, AllBad
<1>2. Core => GreenMeansLawfulExamples
  BY <1>1 DEF GreenMeansLawfulExamples
<1>3. QED
  BY <1>2, CoreInvariant, PTL

\* "make validate-workspace-ops": what its green still says, although two of its loops
\* overwrite the statuses of their documents.
THEOREM WorkspaceOpsTarget == Spec => []GreenMeansWorkspaceOps
<1>1. ASSUME Core, Green PROVE GreenMeansWorkspaceOps
  <2>1. ASSUME NEW o \in Seen("workspaceOps", "bad") PROVE o.code # 0 /\ (o.judged => ~o.lawful)
    <3>1. o \in WorkspaceOpsOutcomes /\ o.code # 0
      BY <1>1, GreenLines, OutcomesOf
    <3>2. QED
      BY <3>1, WorkspaceOpsOutcome
  <2>2. ASSUME NEW o \in Seen("workspaceOps", "shell"), o.code = 0, o.judged PROVE o.lawful
    <3>1. o \in WorkspaceOpsOutcomes
      BY <1>1, GreenLines, OutcomesOf
    <3>2. QED
      BY <2>2, <3>1, WorkspaceOpsOutcome
  <2>3. ASSUME target = "workspaceOps"
        PROVE  \E o \in Seen("workspaceOps", "shell") : o.code = 0
    <3>1. 1 \in 1 .. Len(Recipe) /\ Recipe[1] = Line("workspaceOps", "shell")
      BY <2>3, WorkspaceOpsRecipe
    <3>2. QED
      BY <1>1, <3>1, GreenShells
  <2>4. QED
    BY <2>1, <2>2, <2>3 DEF GreenMeansWorkspaceOps, AllBad
<1>2. Core => GreenMeansWorkspaceOps
  BY <1>1 DEF GreenMeansWorkspaceOps
<1>3. QED
  BY <1>2, CoreInvariant, PTL

\* The copies of the rules for workspace operations in validate_contract.py and
\* validate_workspace_ops.py never disagree, in either direction, where they share them.
THEOREM TheCopiesAgree == Spec => []ValidatorsAgree
<1>1. ASSUME Core, NEW how \in {"shell", "bad"}, NEW o \in Seen("contract", how)
      PROVE  o.agreed
  <2>1. PICK l \in DOMAIN Recipe : Recipe[l] = Line("contract", how) /\ o \in seen[l]
    BY DEF Seen
  <2>2. l \in 1 .. Len(Recipe) /\ Recipe[l].does = "contract"
    BY <1>1, <2>1, Recipes DEF Core, Position, Line
  <2>3. o \in ContractOutcomes
    BY <1>1, <2>1, <2>2, OutcomesOf DEF Core, Documented
  <2>4. QED
    BY <2>3, ContractOutcome
<1>2. Core => ValidatorsAgree
  BY <1>1 DEF ValidatorsAgree
<1>3. QED
  BY <1>2, CoreInvariant, PTL

-------------------------------------------------------------------------------
(* The evidence of the fog node *)

Accounts     == [mode : {"none", "emptied", "mixed", "contract", "host"}, passed : BOOLEAN]
EvidenceType == evidence \in Accounts /\ hostLane \in {"idle", "writing", "done"}

EvidenceTells ==
  target = "validate" =>
    /\ line > FogLine /\ hostLane = "idle" => evidence = Receipt("contract", {})
    /\ /\ line = FogLine /\ status = "red" /\ hostLane = "idle"
       /\ \A o \in seen[FogLine] : o.judged
       => evidence = Receipt("contract", {"failures"})
    /\ line = FogLine /\ status = "running" /\ count = 2 /\ hostLane = "idle" =>
         evidence = Emptied

\* What either lane writes is evidence of the right type.
LEMMA ReceiptType ==
  ASSUME NEW mode \in {"contract", "host"}, NEW failures
  PROVE  Receipt(mode, failures) \in Accounts
<1>1. (failures = {}) \in BOOLEAN
  OBVIOUS
<1>2. QED
  BY <1>1 DEF Receipt, Accounts

\* The evidence keeps its type.
LEMMA EvidenceTypeKept == EvidenceType /\ [Next]_vars => EvidenceType'
<1> SUFFICES ASSUME EvidenceType, [Next]_vars PROVE EvidenceType'
  OBVIOUS
<1>1. ASSUME NEW mode \in {"contract", "host"}, NEW failures,
             evidence' \in Written(Receipt(mode, failures))
      PROVE  evidence' \in Accounts
  <2>1. Mixed \in Accounts /\ Receipt(mode, failures) \in Accounts
    BY ReceiptType DEF Mixed, Accounts
  <2>2. QED
    BY <1>1, <2>1 DEF Written
<1>2. Emptied \in Accounts
  BY DEF Emptied, Accounts
<1>3. CASE HostOpens
  BY <1>2, <1>3 DEF HostOpens, EvidenceType
<1>4. CASE HostWrites
  BY <1>1, <1>4 DEF HostWrites, EvidenceType
<1>5. CASE FogOpens
  BY <1>2, <1>5 DEF FogOpens, EvidenceType
<1>6. CASE FogWrites
  BY <1>1, <1>6 DEF FogWrites, EvidenceType
<1>7. CASE UNCHANGED <<evidence, hostLane>>
  BY <1>7 DEF EvidenceType
<1>8. QED
  BY <1>3, <1>4, <1>5, <1>6, <1>7 DEF Next, vars, Once, ShellLoop, BadLoop, OwnLoop, FogChecks,
                                      LoopEnds, FogFails, Killed, Judges

\* The lines before and after the fog node's leave its evidence alone.
LEMMA ElsewhereKept ==
  ASSUME Core, EvidenceTells, status = "running", Current.does # "fogNode",
         UNCHANGED <<target, evidence, hostLane>>,
         (\E s : EndLine(s)) \/ UNCHANGED <<line, status>>
  PROVE  EvidenceTells'
<1> SUFFICES ASSUME target = "validate" PROVE EvidenceTells'
  BY DEF EvidenceTells
<1>1. line # FogLine /\ line \in Nat /\ Len(Recipe) = 12
  BY ValidateRecipe, Recipes DEF Current, Line, Core, Position
<1>2. line' = line \/ (line' = line + 1 /\ status' # "red")
  BY <1>1 DEF EndLine
<1>3. (line' > 5 => line > 5) /\ ~(line' = 5 /\ status' = "red")
  <2>1. CASE line' = line
    BY <1>1, <2>1 DEF FogLine
  <2>2. CASE line' = line + 1 /\ status' # "red"
    BY <1>1, <2>2 DEF FogLine
  <2>3. QED
    BY <1>2, <2>1, <2>2
<1>4. line' > 5 => line > 5 /\ (hostLane = "idle" => evidence = Receipt("contract", {}))
  BY <1>3 DEF EvidenceTells, FogLine
<1>5. ~(line' = 5 /\ count' = 2)
  <2>1. CASE \E s : EndLine(s)
    BY <2>1 DEF EndLine
  <2>2. CASE UNCHANGED <<line, status>>
    BY <1>1, <2>2 DEF FogLine
  <2>3. QED
    BY <2>1, <2>2
<1>6. QED
  BY <1>3, <1>4, <1>5 DEF EvidenceTells, FogLine

\* What the evidence tells stays true of every step.
LEMMA EvidenceTellsKept == Core /\ EvidenceTells /\ [Next]_vars => EvidenceTells'
<1> SUFFICES ASSUME Core, EvidenceTells, [Next]_vars PROVE EvidenceTells'
  OBVIOUS
<1>1. ASSUME NEW o, Once(o) \/ ShellLoop(o) \/ BadLoop(o) \/ OwnLoop(o) PROVE EvidenceTells'
  <2>1. /\ status = "running" /\ UNCHANGED <<target, evidence, hostLane>>
        /\ (\E s : EndLine(s)) \/ UNCHANGED <<line, status>>
    BY <1>1 DEF Once, ShellLoop, BadLoop, OwnLoop, Judges, LoopOn
  <2>2. Current.does # "fogNode"
    <3>1. CASE Once(o)
      BY <3>1 DEF Once
    <3>2. CASE ~Once(o)
      <4>1. Current.how # "once" /\ line \in 1 .. Len(Recipe)
        BY <1>1, <2>1, <3>2, Recipes DEF ShellLoop, BadLoop, OwnLoop, Judges, Core, Position
      <4>2. QED
        BY <4>1, Recipes DEF Current, Core, Position
    <3>3. QED
      BY <3>1, <3>2
  <2>3. QED
    BY <2>1, <2>2, ElsewhereKept
<1>2. CASE LoopEnds
  <2>1. /\ status = "running" /\ UNCHANGED <<target, evidence, hostLane>> /\ EndLine(last)
        /\ Current.how # "once"
    BY <1>2 DEF LoopEnds
  <2>2. Current.does # "fogNode"
    BY <2>1, Recipes DEF Current, Core, Position
  <2>3. QED
    BY <2>1, <2>2, ElsewhereKept
<1>3. ASSUME NEW o, FogChecks(o) PROVE EvidenceTells'
  <2>1. /\ Judges("once", o) /\ Current.does = "fogNode" /\ count = 0
        /\ UNCHANGED <<target, evidence, hostLane>>
    BY <1>3 DEF FogChecks, AtFogNode, Judges
  <2>2. PICK l : l = line
    OBVIOUS
  <2>3. /\ l \in 1 .. Len(Recipe) /\ o \in seen'[l] /\ o \in Outcomes(Recipe[l].does)
        /\ status = "running"
    BY <2>1, <2>2, Judging DEF JudgedNow
  <2>4. l = FogLine /\ o \in FogOutcomes
    BY <2>1, <2>2, <2>3, Recipes, OutcomesOf DEF Core, Position, Current
  <2>5. CASE LoopOn(o.code)
    <3>1. line' = line /\ status' = status /\ count' = count + 1
      BY <2>5 DEF LoopOn
    <3>2. line' = 5
      BY <2>2, <2>4, <3>1 DEF FogLine
    <3>3. status' = "running" /\ count' = 1
      BY <2>1, <2>3, <3>1
    <3>4. QED
      BY <3>2, <3>3 DEF EvidenceTells, FogLine
  <2>6. CASE ~o.judged /\ EndLine(o.code)
    <3>1. o.code # 0
      BY <2>4, <2>6, FogOutcome
    <3>2. line' = FogLine /\ status' = "red" /\ o \in seen'[FogLine]
      BY <2>2, <2>3, <2>4, <2>6, <3>1 DEF EndLine
    <3>3. QED
      BY <2>6, <3>2 DEF EvidenceTells, FogLine
  <2>7. QED
    BY <1>3, <2>5, <2>6 DEF FogChecks
<1>4. CASE FogOpens \/ FogWrites
  <2>1. AtFogNode /\ UNCHANGED <<target, seen, hostLane>>
    BY <1>4 DEF FogOpens, FogWrites
  <2>2. line = FogLine /\ status = "running"
    BY <2>1, Recipes DEF AtFogNode, Current, Core, Position
  <2>3. CASE FogOpens
    BY <2>2, <2>3 DEF FogOpens, EvidenceTells, FogLine
  <2>4. CASE FogWrites
    <3>1. line = 5 /\ target' = target /\ count = 2 /\ hostLane' = hostLane
      BY <2>2, <2>4 DEF FogWrites, FogLine
    <3>2. ASSUME target = "validate", hostLane = "idle"
          PROVE  evidence' = Receipt("contract", IF last = 0 THEN {} ELSE {"failures"})
      <4>1. evidence = Emptied
        BY <2>2, <3>1, <3>2 DEF EvidenceTells
      <4>2. QED
        BY <2>4, <4>1 DEF FogWrites, Written
    <3>3. CASE last = 0
      <4>1. line' = line + 1 /\ count' = 0
        BY <2>4, <3>3 DEF FogWrites, EndLine
      <4>2. QED
        BY <3>1, <3>2, <3>3, <4>1 DEF EvidenceTells, FogLine
    <3>4. CASE last # 0
      <4>1. line' = line /\ status' = "red"
        BY <2>4, <3>4 DEF FogWrites, EndLine
      <4>2. QED
        BY <3>1, <3>2, <3>4, <4>1 DEF EvidenceTells, FogLine
    <3>5. QED
      BY <3>3, <3>4
  <2>5. QED
    BY <1>4, <2>3, <2>4
<1>5. CASE HostOpens \/ HostWrites
  BY <1>5 DEF HostOpens, HostWrites, EvidenceTells
<1>6. CASE FogFails
  <2>1. AtFogNode /\ EndLine(1) /\ target' = target
        /\ seen' = [seen EXCEPT ![line] = @ \union {Outcome(1, FALSE, FALSE)}]
    BY <1>6 DEF FogFails
  <2>2. line = FogLine /\ FogLine \in 1 .. Len(Recipe)
    BY <2>1, Recipes DEF AtFogNode, Current, Core, Position
  <2>3. Outcome(1, FALSE, FALSE) \in seen'[FogLine]
    BY <2>1, <2>2 DEF Core, Documented
  <2>4. ~(\A o \in seen'[FogLine] : o.judged)
    BY <2>3 DEF Outcome
  <2>5. line' = 5 /\ status' = "red"
    BY <2>1, <2>2 DEF EndLine, FogLine
  <2>6. QED
    BY <2>4, <2>5 DEF EvidenceTells, FogLine
<1>7. CASE Killed
  BY <1>7 DEF Killed, EvidenceTells
<1>8. CASE UNCHANGED vars
  BY <1>8 DEF vars, EvidenceTells
<1>9. QED
  BY <1>1, <1>2, <1>3, <1>4, <1>5, <1>6, <1>7, <1>8 DEF Next

\* The evidence is of its type and tells what the fog node's line has decided.
LEMMA EvidenceInvariant == Spec => [](EvidenceType /\ EvidenceTells)
<1>1. ASSUME Init PROVE EvidenceType /\ EvidenceTells
  <2>1. NoEvidence \in Accounts
    BY DEF NoEvidence, Accounts
  <2>2. Receipt("contract", {}) \in Accounts
    BY ReceiptType
  <2>3. Receipt("host", {"paths"}) \in Accounts
    BY ReceiptType
  <2>4. Emptied \in Accounts
    BY DEF Emptied, Accounts
  <2>5. EvidenceType
    BY <1>1, <2>1, <2>2, <2>3, <2>4 DEF Init, EvidenceType
  <2>6. EvidenceTells
    BY <1>1 DEF Init, EvidenceTells, FogLine
  <2>7. QED
    BY <2>5, <2>6
<1>2. Core /\ EvidenceType /\ EvidenceTells /\ [Next]_vars => (EvidenceType /\ EvidenceTells)'
  BY EvidenceTypeKept, EvidenceTellsKept
<1>3. QED
  BY <1>1, <1>2, CoreInvariant, PTL DEF Spec

\* check_fog_node.py in "make validate": its receipt is of this run and says what make
\* goes by, but for the host lane and for exceptions.
THEOREM EvidenceIsOfThisRun == Spec => []FogEvidence
<1>1. ASSUME Core, EvidenceTells PROVE FogEvidence
  <2>1. ASSUME target = "validate", line > FogLine PROVE AllGood(seen[FogLine])
    <3>1. /\ 5 \in 1 .. Len(Recipe) /\ 5 < line
          /\ Recipe[5] = Line("fogNode", "once")
      BY <1>1, <2>1, ValidateRecipe, Recipes DEF Core, Position, FogLine
    <3>2. Recipe[5].how = "once" /\ Recipe[5].does = "fogNode"
      BY <3>1 DEF Line
    <3>3. Passed(5) /\ seen[5] \subseteq Outcomes(Recipe[5].does)
      BY <1>1, <3>1 DEF Core, Documented
    <3>4. \A o \in seen[5] : o.code = 0
      BY <3>2, <3>3 DEF Passed
    <3>5. seen[5] \subseteq FogOutcomes
      BY <3>2, <3>3, OutcomesOf
    <3>6. QED
      BY <3>4, <3>5, FogOutcome DEF AllGood, FogLine
  <2>2. QED
    BY <1>1, <2>1 DEF FogEvidence, EvidenceTells
<1>2. Core /\ EvidenceTells => FogEvidence
  BY <1>1
<1>3. QED
  BY <1>2, CoreInvariant, EvidenceInvariant, PTL

\* make and its lines keep their types; the fog node's line counts to two.
THEOREM GateTypes ==
  ASSUME MaxFixtures >= 2
  PROVE  Spec => []TypeOK
<1>1. ASSUME Core, EvidenceType PROVE TypeOK
  <2>1. DOMAIN Recipe = 1 .. Len(Recipe)
    BY <1>1, Recipes DEF Core, Position
  <2>2. count \in 0 .. MaxFixtures
    BY <1>1, MaxFixturesIsNat DEF Core, Position
  <2>3. QED
    BY <1>1, <2>1, <2>2 DEF TypeOK, Core, Position, Documented, EvidenceType, Accounts
<1>2. Core /\ EvidenceType => TypeOK
  BY <1>1
<1>3. QED
  BY <1>2, CoreInvariant, EvidenceInvariant, PTL
===============================================================================
