-------------------------------- MODULE FogNode --------------------------------
(***************************************************************************)
(* check_fog_node.py: the failures its two lanes find, offline in the      *)
(* contract and at run time in the host.  Both write what they found to    *)
(* the same file of evidence, which ConformanceGate models.                *)
(***************************************************************************)
EXTENDS Integers, FiniteSets

CONSTANTS RequiredPaths,   \* REQUIRED_PATHS
          OtherPaths       \* other paths a contract may list
ASSUME PathsApart == RequiredPaths \intersect OtherPaths = {}

NoContract == [kindOK |-> FALSE]   \* no such file, or not JSON

\* keys: the top-level keys are there; sections: storage and runtime are; wellShaped:
\* UTF-8, an object, requirements an object, paths hashable (or else: exception).
FogContracts ==
  [kindOK : BOOLEAN, keys : BOOLEAN, sections : BOOLEAN, wellShaped : BOOLEAN,
   isList : BOOLEAN, paths : SUBSET (RequiredPaths \union OtherPaths)] \union {NoContract}

\* run_contract_checks: both differences of the path sets are failures.
ContractFailures(c) ==
  IF c = NoContract THEN {"contract"}
  ELSE {f \in {"kind", "keys", "paths", "sections"} :
          \/ f = "kind" /\ ~c.kindOK
          \/ f = "keys" /\ ~c.keys
          \/ f = "paths" /\ (~c.isList \/ c.paths \ RequiredPaths # {}
                             \/ RequiredPaths \ c.paths # {})
          \/ f = "sections" /\ ~c.sections}

ContractCheckRaises(c) == c # NoContract /\ ~c.wellShaped

\* vgs: not installed, failing, working, or gone between shutil.which and the call.
Hosts == [missing : SUBSET RequiredPaths, containers : BOOLEAN,
          vgs : {"absent", "fails", "works", "gone"}]

\* run_host_checks.
HostFailures(h) ==
  {f \in {"paths", "containers", "lvm"} :
     \/ f = "paths" /\ h.missing # {}
     \/ f = "containers" /\ ~h.containers
     \/ f = "lvm" /\ h.vgs \in {"absent", "fails"}}

HostCheckRaises(h) == h.vgs = "gone"

\* What the contract is for: it is the checker's list of paths, in full, in a
\* document of its kind.
FogObeys(c) ==
  c # NoContract /\ c.kindOK /\ c.keys /\ c.sections /\ c.isList /\ c.paths = RequiredPaths

\* The evidence: what build_receipt keeps of a check.
NoEvidence == [mode |-> "none", passed |-> FALSE]
Emptied    == [mode |-> "emptied", passed |-> FALSE]   \* opened for writing, not written
Mixed      == [mode |-> "mixed", passed |-> FALSE]     \* one receipt over the start of another
Receipt(mode, failures) == [mode |-> mode, passed |-> failures = {}]
===============================================================================
