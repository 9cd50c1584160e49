-------------------------- MODULE WorkspaceOpsRules ---------------------------
(***************************************************************************)
(* validate_workspace_ops.py: what it demands of a document, which is a    *)
(* typed fixture ("schemaVersion") or a contract.  It has lists of its own *)
(* for the rules that validate_contract.py applies too, and applies them   *)
(* to contracts that opt in by a label, without looking at their schema.   *)
(***************************************************************************)
EXTENDS ContractRules

\* A fixture whose schemaVersion is in SCHEMA_VERSION_MAP, or is not (or absent).
Fixtures == [kind : {"Fixture"}, version : {"mapped", "unmapped"}, schemaValid : BOOLEAN]

WorkspaceOpsDocuments == Fixtures \union Documents

\* Mutant of ForbiddenSteps: this list lacks a pattern of the other one.
ForbiddenSteps_Two == {"noAudit", "noCaptureScope"}

\* FORBIDDEN_STEP_PATTERNS and this validator's REQUIRED_EVIDENCE_BY_LABEL.
ForbiddenSteps == {"noAudit", "noCaptureScope", "noPolicyGate"}
RequiredOpsEvidence ==
  [terminalCommand |-> "command", browserSession |-> "capture",
   localAgentExecution |-> "execution", fileConflict |-> "conflict"]

\* _validate_fixture: no schema is looked up for a version that is not mapped.
FixtureOK(d) == d.kind = "Fixture" /\ d.version = "mapped" => d.schemaValid

OptsIn(d) == d.kind = "WorkstationContract" /\ d.workspaceOps

\* _validate_workstation_contract: the loops over the lanes and over the steps.
OptedInOK(d) ==
  OptsIn(d) =>
    /\ d.label \in DOMAIN RequiredOpsEvidence =>
         \A i \in DOMAIN d.lanes : d.lanes[i].emits = RequiredOpsEvidence[d.label]
    /\ d.runs \notin ForbiddenSteps

\* Mutant of WorkspaceOpsStatus: the second check starts from True again.
WorkspaceOpsStatus_StartsAnew(d) == IF d # Unreadable /\ OptedInOK(d) THEN 0 ELSE 1

\* The exit status for one document.  Its parser's failures are caught; later ones,
\* of a document of another shape, are not, and exit with 1 too.
WorkspaceOpsStatus(d) ==
  IF d # Unreadable /\ FixtureOK(d) /\ OptedInOK(d) THEN 0 ELSE 1

-------------------------------------------------------------------------------
(* What the rules are there for *)

\* Whether any rule applies to the document at all.
Examined(d) == (d.kind = "Fixture" /\ d.version = "mapped") \/ OptsIn(d)

\* A typed fixture is an instance of its type; in a contract of workspace operations
\* no step switches audit, scope or policy off, and every lane emits the evidence.
WorkspaceOpsObeys(d) ==
  \/ d.kind = "Fixture" /\ d.schemaValid
  \/ /\ d.kind = "WorkstationContract"
     /\ {d.runs} \intersect {"noAudit", "noCaptureScope", "noPolicyGate"} = {}
     /\ \A what \in {"command", "capture", "execution", "conflict"} :
          /\ d.label \in DOMAIN RequiredOpsEvidence /\ RequiredOpsEvidence[d.label] = what
          => {d.lanes[i].emits : i \in DOMAIN d.lanes} = {what}

\* Nothing but the rules of workspace operations can make either validator reject the
\* contract: it opts in and keeps the rules that only validate_contract.py has.
OpsRulesDecide(d) ==
  /\ OptsIn(d) /\ d.schemaValid
  /\ d.runs \notin {"devRootHome", "docsRootHome", "allDownloads", "appleData"}
  /\ d.label \notin {"agentMachine", "officePlane"}
  /\ \A i \in DOMAIN d.lanes : d.lanes[i].backend \in {"pixi", "pinned"}

\* What the one validator accepts the other one accepts, where they share the rules.
CopiesAgree(d) ==
  /\ ContractStatus(d, FALSE) = 0 => WorkspaceOpsStatus(d) = 0
  /\ OpsRulesDecide(d) /\ WorkspaceOpsStatus(d) = 0 => ContractStatus(d, FALSE) = 0
===============================================================================
