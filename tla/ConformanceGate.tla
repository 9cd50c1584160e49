--------------------------- MODULE ConformanceGate ----------------------------
(***************************************************************************)
(* The make targets that decide whether this repository conforms: "make    *)
(* validate" (Makefile:36-99), which CI runs, and "make                    *)
(* validate-workspace-ops" (Makefile:108-133), which it does not.  A       *)
(* target is a sequence of recipe lines; make runs one after the other     *)
(* until a line ends with a status other than 0.                           *)
(*                                                                         *)
(* What a line does with its documents is one of four:                     *)
(*   once    one command, whose status is the line's                       *)
(*   shell   for f in ...; do validator "$f"; done                         *)
(*   bad     the same with "if validator "$f" then exit 1"                 *)
(*   loop    one command on all of them, with a loop of its own            *)
(* The validators are the rules of the modules below.  Besides, a run of   *)
(* "make check-fog-node-host" may come in between and write to the same    *)
(* file of evidence of the fog node.                                       *)
(***************************************************************************)
EXTENDS WorkspaceOpsRules, HostInterface, ModelPlaneRules, SeamRules, FogNode, FiniteSetsExt

CONSTANT MaxFixtures       \* bound: documents of a line
ASSUME MaxFixturesIsNat == MaxFixtures \in Nat

-------------------------------------------------------------------------------
(* What a validator may make of a document: its exit status; whether the      *)
(* document keeps the rules; whether it was judged by them at all, or was not *)
(* examined or stopped the validator; for a contract, whether the validator   *)
(* of workspace operations agrees, given the same document.                   *)

Outcome(code, lawful, judged) ==
  [code |-> code, lawful |-> lawful, judged |-> judged, agreed |-> TRUE]

ExampleOutcomes ==
  {Outcome(ContractStatus(d, TRUE), Obeys(d, TRUE), ~Crashes(d)) : d \in Documents}
ContractOutcomes ==
  {[Outcome(ContractStatus(d, FALSE), Obeys(d, FALSE), ~Crashes(d)) EXCEPT
      !.agreed = CopiesAgree(d)] : d \in Documents}
WorkspaceOpsOutcomes ==
  {Outcome(WorkspaceOpsStatus(d), WorkspaceOpsObeys(d), Examined(d)) :
     d \in WorkspaceOpsDocuments}
HostOutcomes ==
  {Outcome(IF Check(env) THEN 0 ELSE 1, DeniesByDefault(env), env.schemaValid) :
     env \in Envelopes}
ModelPlaneOutcomes ==
  {Outcome(FileStatus(d), ModelPlaneObeys(d), ~Raises(d)) : d \in ModelPlaneDocs}
FogOutcomes ==
  {Outcome(IF ContractFailures(c) = {} /\ ~ContractCheckRaises(c) THEN 0 ELSE 1,
           FogObeys(c), ~ContractCheckRaises(c)) : c \in FogContracts}

\* Of the seam registry, of the emitter's self test and of the audit of the live
\* ledgers the status is all that make sees.  What is behind the last two is in
\* LedgerVerify and LiveReceipts; here they are any of their statuses.
SeamOutcomes   == {Outcome(SeamStatus(r), SeamStatus(r) = 0, r.isList) : r \in Registries}
LedgerOutcomes == {Outcome(status, status = 0, TRUE) : status \in 0 .. 2}

Outcomes(does) ==
  CASE does = "example"       -> ExampleOutcomes
    [] does = "contract"      -> ContractOutcomes
    [] does = "workspaceOps"  -> WorkspaceOpsOutcomes
    [] does = "host"          -> HostOutcomes
    [] does = "modelPlane"    -> ModelPlaneOutcomes
    [] does = "fogNode"       -> FogOutcomes
    [] does = "seams"         -> SeamOutcomes
    [] does = "ledgers"       -> LedgerOutcomes

-------------------------------------------------------------------------------

Line(does, how) == [does |-> does, how |-> how]

Targets ==
  [validate |-> << Line("example", "once"), Line("example", "once"),
                   Line("contract", "shell"), Line("contract", "bad"),
                   Line("fogNode", "once"),
                   Line("host", "loop"), Line("host", "bad"),
                   Line("seams", "once"),
                   Line("modelPlane", "loop"), Line("modelPlane", "bad"),
                   Line("ledgers", "once"), Line("ledgers", "once") >>,
   workspaceOps |-> << Line("workspaceOps", "shell"), Line("workspaceOps", "shell"),
                       Line("workspaceOps", "bad") >>]

VARIABLES target, line,  \* the target made; its line that runs, past them when all are done
          count,    \* the documents this line has been through
          last,     \* the exit status of the last command of a shell loop, or of
                    \* the validator that loops itself
          status,   \* of make
          seen,     \* history: what became of each line's documents
          evidence, \* evidence/fog-node.check-receipt.json
          hostLane  \* a check-fog-node-host that began to write since make began

vars == <<target, line, count, last, status, seen, evidence, hostLane>>

Recipe  == Targets[target]
Current == Recipe[line]

Init ==
  /\ target \in DOMAIN Targets
  /\ line = 1 /\ count = 0 /\ last = 0 /\ status = "running"
  /\ seen = [l \in 1 .. Len(Recipe) |-> {}]
  /\ evidence \in {NoEvidence, Emptied, Receipt("contract", {}), Receipt("host", {"paths"})}
  /\ hostLane = "idle"

\* This line's validator comes to o with its next document.
Judges(how, o) ==
  /\ status = "running" /\ Current.how = how /\ count < MaxFixtures
  /\ o \in Outcomes(Current.does)
  /\ seen' = [seen EXCEPT ![line] = @ \union {o}]
  /\ UNCHANGED <<target, hostLane>>

\* The loop goes on, with s as the status of its last command.
LoopOn(s) == last' = s /\ count' = count + 1 /\ UNCHANGED <<line, status>>

\* The command or the shell of this line ends with status s: make goes on or stops.
EndLine(s) ==
  /\ count' = 0 /\ last' = 0
  /\ IF s # 0 THEN status' = "red" /\ UNCHANGED line
     ELSE line' = line + 1 /\ status' = IF line = Len(Recipe) THEN "green" ELSE "running"

-------------------------------------------------------------------------------

\* A single command on a single document (the fog node's below).
Once(o) == Judges("once", o) /\ Current.does # "fogNode" /\ EndLine(o.code) /\ UNCHANGED evidence

\* for f in good: validator "$f"; done: the status of each command is overwritten by
\* the next.
ShellLoop(o) == Judges("shell", o) /\ LoopOn(o.code) /\ UNCHANGED evidence

\* Mutant of Rejections: any failure counts as a rejection in every suite.
Rejections_AnyFailure == IF Current.does # "" THEN {1, 2} ELSE {1}

\* The statuses taken for a rejection: the model plane's suite knows better.
Rejections == IF Current.does = "modelPlane" THEN {1} ELSE {1, 2}

\* for f in bad: if the validator rejects f then echo OK; else exit 1; fi; done
BadLoop(o) ==
  /\ Judges("bad", o)
  /\ IF o.code \in Rejections THEN LoopOn(0) ELSE EndLine(1)
  /\ UNCHANGED evidence

\* Mutants of Combined: the results are added up; the last one counts.
Combined_AddsUp(code)   == last + code
Combined_LastOnly(code) == code

\* ok = False once and for all; worst = max(worst, ...).
Combined(code) == Max({last, code})

\* A validator that loops itself; an exception ends it.
OwnLoop(o) ==
  /\ Judges("loop", o)
  /\ IF o.judged \/ Current.does # "modelPlane" THEN LoopOn(Combined(o.code)) ELSE EndLine(1)
  /\ UNCHANGED evidence

\* A loop has been through its documents.
LoopEnds ==
  /\ status = "running" /\ Current.how # "once" /\ count > 0
  /\ EndLine(last)
  /\ UNCHANGED <<target, seen, evidence, hostLane>>

-------------------------------------------------------------------------------
(* The fog node's line and its evidence *)

FogLine   == 5
AtFogNode == status = "running" /\ Current.does = "fogNode"

\* The contract is checked.  An exception ends the checker before it writes.
FogChecks(o) ==
  /\ AtFogNode /\ count = 0 /\ Judges("once", o)
  /\ IF o.judged THEN LoopOn(o.code) ELSE EndLine(o.code)
  /\ UNCHANGED evidence

\* The file cannot be created, opened or written: an exception that is not caught.
FogFails ==
  /\ AtFogNode /\ count \in {1, 2}
  /\ seen' = [seen EXCEPT ![line] = @ \union {Outcome(1, FALSE, FALSE)}]
  /\ EndLine(1)
  /\ UNCHANGED <<target, evidence, hostLane>>

\* write_text opens the file and so empties it,
FogOpens ==
  /\ AtFogNode /\ count = 1
  /\ evidence' = Emptied /\ count' = 2
  /\ UNCHANGED <<target, line, last, status, seen, hostLane>>

\* The receipt gets there when the file is closed, over what another process has
\* written since it was opened.
Written(receipt) == {receipt} \union IF evidence = Emptied THEN {} ELSE {Mixed}

\* Mutant of FogWrites: what the file says does not come from the failures.
FogWrites_Passed ==
  /\ AtFogNode /\ count = 2
  /\ evidence' \in Written(Receipt("contract", {}))
  /\ EndLine(last)
  /\ UNCHANGED <<target, seen, hostLane>>

\* and writes it.
FogWrites ==
  /\ AtFogNode /\ count = 2
  /\ evidence' \in Written(Receipt("contract", IF last = 0 THEN {} ELSE {"failures"}))
  /\ EndLine(last)
  /\ UNCHANGED <<target, seen, hostLane>>

\* make check-fog-node-host, in the same working tree, opens the file while make is at
\* the line that writes it or past it (what an earlier one did is what Init finds),
HostOpens ==
  /\ hostLane = "idle" /\ target = "validate" /\ line \in {FogLine, FogLine + 1}
  /\ \E h \in Hosts : ~HostCheckRaises(h)
  /\ evidence' = Emptied /\ hostLane' = "writing"
  /\ UNCHANGED <<target, line, count, last, status, seen>>

\* and writes it, or cannot, or is killed before.
HostWrites ==
  /\ hostLane = "writing" /\ hostLane' = "done"
  /\ \/ \E h \in Hosts : /\ ~HostCheckRaises(h)
                        /\ evidence' \in Written(Receipt("host", HostFailures(h)))
     \/ UNCHANGED evidence
  /\ UNCHANGED <<target, line, count, last, status, seen>>

\* The job is cancelled while the checker writes.
Killed ==
  /\ AtFogNode /\ count > 0
  /\ status' = "killed"
  /\ UNCHANGED <<target, line, count, last, seen, evidence, hostLane>>

-------------------------------------------------------------------------------

Next ==
  \/ status = "running" /\
       \E o \in Outcomes(Current.does) :
         Once(o) \/ ShellLoop(o) \/ BadLoop(o) \/ OwnLoop(o) \/ FogChecks(o)
  \/ LoopEnds \/ FogFails \/ FogOpens \/ FogWrites \/ HostOpens \/ HostWrites \/ Killed

Spec == Init /\ [][Next]_vars

-------------------------------------------------------------------------------
(* Properties *)

\* What became of the documents of the lines of this kind.
Seen(does, how) ==
  UNION {seen[l] : l \in {l \in DOMAIN Recipe : Recipe[l] = Line(does, how)}}

Green == status = "green"

\* Every one of them was accepted, and rightly; rejected, and rightly if it was the
\* rules that did it.
AllGood(outcomes) == \A o \in outcomes : o.code = 0 /\ o.lawful
AllBad(outcomes)  == \A o \in outcomes : o.code # 0 /\ (o.judged => ~o.lawful)

TypeOK ==
  /\ line \in 1 .. Len(Recipe) + 1 /\ count \in 0 .. MaxFixtures /\ last \in 0 .. 2
  /\ status \in {"running", "red", "green", "killed"}
  /\ \A l \in DOMAIN Recipe : seen[l] \subseteq Outcomes(Recipe[l].does)
  /\ evidence \in [mode : {"none", "emptied", "mixed", "contract", "host"}, passed : BOOLEAN]
  /\ hostLane \in {"idle", "writing", "done"}

\* The Model Plane's teeth bit: each good fixture keeps the rules for leases, trails,
\* signatures and chains; each bad one breaks them, or raises an exception in the
\* validator (it is no UTF-8, or its JSON is no object), and none was just missing, no
\* JSON or of an unknown type.
GreenMeansModelPlane ==
  Green => /\ AllGood(Seen("modelPlane", "loop"))
           /\ AllBad(Seen("modelPlane", "bad"))
           /\ \A o \in Seen("modelPlane", "bad") : o.code = 1

\* Deny by default: every good envelope that allows something has a present,
\* unexpired, unrevoked grant that matches it and covers what was requested.  Of a bad
\* envelope it says only that the validator did not return 0.
GreenMeansDenyByDefault ==
  Green => /\ AllGood(Seen("host", "loop"))
           /\ \A o \in Seen("host", "bad") : o.code # 0

\* The example contracts obey the rules for images, evidence and steps (a lane with the
\* sentinel image need not emit evidence).  For each bad contract the validator did
\* not return 0: it ended in an exception or the contract breaks a rule.  Of the good
\* contracts at least one was accepted.
GreenMeansLawfulExamples ==
  Green => /\ AllGood(Seen("example", "once"))
           /\ AllBad(Seen("contract", "bad"))
           /\ target = "validate" => \E o \in Seen("contract", "shell") : o.code = 0 /\ o.lawful

\* Every good contract is valid ("validate example contracts and conformance
\* fixtures").
GreenMeansGoodContracts == Green => \A o \in Seen("contract", "shell") : o.code = 0

\* "make validate-workspace-ops": for each bad contract the validator did not return
\* 0, and one that it examined breaks a rule of workspace operations (one that is
\* missing or unreadable counts as rejected).  Of the rest, whose statuses two shell
\* loops overwrite, those that were examined and accepted keep the rules, and at least
\* one was accepted.
GreenMeansWorkspaceOps ==
  Green => /\ AllBad(Seen("workspaceOps", "bad"))
           /\ \A o \in Seen("workspaceOps", "shell") : o.code = 0 /\ o.judged => o.lawful
           /\ target = "workspaceOps" => \E o \in Seen("workspaceOps", "shell") : o.code = 0

\* The two copies of the rules for workspace operations agree on every contract of make
\* validate: what validate_contract.py accepts (outside examples/)
\* validate_workspace_ops.py accepts too, and the same the other way round for a contract
\* that opts in and keeps the rules that are not theirs.
ValidatorsAgree == \A how \in {"shell", "bad"} : \A o \in Seen("contract", how) : o.agreed

\* The evidence of the fog node is of this run and says what make goes by, unless the
\* host lane has begun to write since, or the check ended in an exception (which leaves
\* an earlier receipt where it is, or an empty file); past that line the contract asks
\* for the very paths that the host lane checks.
FogEvidence ==
  target = "validate" =>
    /\ line > FogLine => /\ AllGood(seen[FogLine])
                         /\ hostLane = "idle" => evidence = Receipt("contract", {})
    /\ /\ line = FogLine /\ status = "red" /\ hostLane = "idle"
       /\ \A o \in seen[FogLine] : o.judged
       => evidence = Receipt("contract", {"failures"})
===============================================================================
