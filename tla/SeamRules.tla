------------------------------- MODULE SeamRules -------------------------------
(***************************************************************************)
(* validate_seam_registry.py: one registry, checked seam by seam and then  *)
(* as a whole, up to the first failure.                                    *)
(***************************************************************************)
EXTENDS Integers, Sequences, FiniteSets

CONSTANTS ExpectedSeams,   \* SEAM-001 .. SEAM-013
          TelemetrySeam,   \* SEAM-013
          OtherSeams,      \* other identifiers of the pattern
          MaxSeams         \* bound: entries of a registry
ASSUME SeamConstants ==
  TelemetrySeam \in ExpectedSeams /\ MaxSeams \in Nat /\ ExpectedSeams \intersect OtherSeams = {}

Seams == [id : ExpectedSeams \union OtherSeams, schemaValid : BOOLEAN,
          gates : BOOLEAN, telemetry : BOOLEAN]

\* isList: the registry is JSON, and an array.
Registries == [isList : BOOLEAN, seams : UNION {[1 .. n -> Seams] : n \in 0 .. MaxSeams}]

SeamOK(s) == s.schemaValid /\ s.gates

\* next(s for s in seams if ...): the first entry with the identifier decides.
FirstTelemetry(r) ==
  LET at == {i \in DOMAIN r : r[i].id = TelemetrySeam}
  IN at # {} /\ \E i \in at : (\A j \in at : i <= j) /\ r[i].telemetry

SeamStatus(r) ==
  IF /\ r.isList
     /\ \A i \in DOMAIN r.seams : SeamOK(r.seams[i])
     /\ ExpectedSeams \subseteq {r.seams[i].id : i \in DOMAIN r.seams}
     /\ FirstTelemetry(r.seams)
  THEN 0 ELSE 1
===============================================================================
