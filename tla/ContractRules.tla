---------------------------- MODULE ContractRules -----------------------------
(***************************************************************************)
(* validate_contract.py: the rules for the two kinds of documents it is    *)
(* given, and what those rules are there for.                              *)
(*                                                                         *)
(* A lane is what the rules see of it: its backend, of type container with *)
(* the way its image is named ("unspecified": with no container), and what *)
(* evidence it emits.  A label, a kind of evidence and a command that a    *)
(* pattern finds are one value each.                                       *)
(***************************************************************************)
EXTENDS Integers, Sequences

CONSTANT MaxLanes          \* bound: lanes of a contract
ASSUME MaxLanesIsNat == MaxLanes \in Nat

Labels   == {"agentMachine", "officePlane", "terminalCommand", "browserSession",
             "localAgentExecution", "fileConflict"}
Evidence == {"mount", "artifact", "command", "capture", "execution", "conflict"}
Commands == {"devRootHome", "docsRootHome", "allDownloads", "appleData",
             "noAudit", "noCaptureScope", "noPolicyGate", "other"}

Lanes == [backend : {"pixi", "pinned", "sentinel", "tag", "unspecified"},
          emits : Evidence \union {"nothing"}]

\* Each label and each step is judged for itself: a contract has at most one label
\* that asks for evidence, and its steps run one command.
Contracts == [kind : {"WorkstationContract"}, schemaValid : BOOLEAN,
              label : Labels \union {"none"}, workspaceOps : BOOLEAN, runs : Commands,
              lanes : UNION {[1 .. n -> Lanes] : n \in 1 .. MaxLanes}]

\* "helper" is any class of AGENT_CLASSES but the two that matter here.
Passports == [kind : {"AgentPassport"}, claimsSystemCore : BOOLEAN,
              class : {"system_core", "third_party", "helper", "anySource"}]

Unreadable == [kind |-> "unreadable"]

Documents == Contracts \union Passports \union {Unreadable}

-------------------------------------------------------------------------------
(* The lists of this validator *)

\* FORBIDDEN_RUN_PATTERNS, WORKSPACE_OPS_FORBIDDEN_PATTERNS, REQUIRED_EVIDENCE_BY_LABEL.
ForbiddenRuns    == {"devRootHome", "docsRootHome", "allDownloads", "appleData"}
ForbiddenOpsRuns == {"noAudit", "noCaptureScope", "noPolicyGate"}
RequiredEvidence ==
  [agentMachine |-> "mount", officePlane |-> "artifact",
   terminalCommand |-> "command", browserSession |-> "capture",
   localAgentExecution |-> "execution", fileConflict |-> "conflict"]

-------------------------------------------------------------------------------
(* What main does with a document, which may be one of examples/ *)

\* validate_agent_passport.
PassportOK(d) ==
  /\ d.class # "anySource"
  /\ ~(d.class = "third_party" /\ d.claimsSystemCore)

SentinelAllowed(inExamples, lane) == inExamples /\ lane.backend = "sentinel"

EvidenceOK(d, lane) ==
  d.label \in DOMAIN RequiredEvidence => lane.emits = RequiredEvidence[d.label]

\* Mutant of LaneOK: in examples/, every image is let pass.
LaneOK_AnyExample(d, inExamples, lane) ==
  \/ inExamples /\ lane.backend \in {"pinned", "sentinel", "tag"}
  \/ lane.backend \in {"pixi", "pinned"} /\ EvidenceOK(d, lane)

\* The loop over the lanes: a lane whose sentinel image is allowed is left by
\* "continue", before its evidence is looked at.
LaneOK(d, inExamples, lane) ==
  \/ SentinelAllowed(inExamples, lane)
  \/ lane.backend \in {"pixi", "pinned"} /\ EvidenceOK(d, lane)

\* The loop over the steps.
StepsOK(d) ==
  /\ d.runs \notin ForbiddenRuns
  /\ d.workspaceOps => d.runs \notin ForbiddenOpsRuns

\* An exception leaves main: the file is no JSON, or b["container"] is not there.
Crashes(d) ==
  \/ d = Unreadable
  \/ /\ d.kind = "WorkstationContract" /\ d.schemaValid
     /\ \E i \in DOMAIN d.lanes : d.lanes[i].backend = "unspecified"

DocumentOK(d, inExamples) ==
  IF d.kind = "AgentPassport" THEN PassportOK(d)
  ELSE /\ d.schemaValid /\ StepsOK(d)
       /\ \A i \in DOMAIN d.lanes : LaneOK(d, inExamples, d.lanes[i])

\* The exit status for one document; an exception exits with 1 too.
ContractStatus(d, inExamples) == IF ~Crashes(d) /\ DocumentOK(d, inExamples) THEN 0 ELSE 1

-------------------------------------------------------------------------------
(* What the rules ask for *)

\* An image is pinned or, in examples/, the sentinel; evidence that a label asks for
\* is emitted, except by a lane whose image is the sentinel; no step is forbidden.
LaneObeys(d, inExamples, lane) ==
  /\ lane.backend \notin {"tag", "unspecified"} /\ (lane.backend = "sentinel" => inExamples)
  /\ d.label # "none" /\ lane.emits # RequiredEvidence[d.label] => lane.backend = "sentinel"

Obeys(d, inExamples) ==
  \/ d.kind = "AgentPassport" /\ d.class \in {"system_core", "third_party", "helper"} /\
       (d.claimsSystemCore => d.class # "third_party")
  \/ d.kind = "WorkstationContract" /\ d.schemaValid /\
       d.runs \notin ForbiddenRuns \union (IF d.workspaceOps THEN ForbiddenOpsRuns ELSE {}) /\
       \A i \in DOMAIN d.lanes : LaneObeys(d, inExamples, d.lanes[i])
===============================================================================
