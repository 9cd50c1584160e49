---------------------------- MODULE ModelPlaneRules ----------------------------
(***************************************************************************)
(* validate_model_plane.py: the status of one fixture, with the rules of   *)
(* the four vendored schemas (schemas/model-plane) that go beyond the      *)
(* shape of a document.  A field may be absent, null or given, which JSON  *)
(* schema tells apart.                                                     *)
(***************************************************************************)
EXTENDS Integers

Field == {"absent", "null", "given"}

\* shape: everything the schema demands of each field for itself.
ReceiptDocs ==
  [type : {"InferenceReceipt"}, shape : BOOLEAN, onDevice : BOOLEAN, lease : Field,
   escalatedFrom : Field, chain : {"absent", "empty", "filled"}, genesis : BOOLEAN,
   prevHash : Field]

DecisionDocs ==
  [type : {"EscalationDecision"}, shape : BOOLEAN, permitted : BOOLEAN, lease : Field,
   checked : {"passed", "notPerformed", "notPassed"}, biometric : BOOLEAN,
   reason : {"absent", "null", "biometric", "other"}, toT4 : BOOLEAN, external : Field,
   genesis : BOOLEAN, prevHash : Field]

ManifestDocs ==
  [type : {"ModelManifest", "ModelAdapterManifest"}, shape : BOOLEAN,
   signature : {"absent", "partial", "complete"}, baseDigest : Field]

\* No JSON or no file; JSON whose type is missing or unknown; no UTF-8, which the
\* except clause does not name; JSON that is no object, or whose type cannot be
\* looked up: doc.get or the look-up raises.
OddDocs == [type : {"unreadable", "unknown", "noUTF8", "noObject"}]

ModelPlaneDocs == ReceiptDocs \union DecisionDocs \union ManifestDocs \union OddDocs

-------------------------------------------------------------------------------
(* The schemas: each of their "allOf" is an implication *)

ChainLink(d) == ~d.genesis => d.prevHash = "given"

ReceiptOK(d) ==
  /\ ~d.onDevice => d.lease = "given" /\ d.escalatedFrom = "given" /\ d.chain = "filled"
  /\ d.onDevice => d.escalatedFrom # "given"
  /\ ChainLink(d)

DecisionOK(d) ==
  /\ d.permitted => d.lease = "given" /\ d.checked = "passed"
  /\ ~d.permitted => d.reason \in {"biometric", "other"}
  /\ d.toT4 /\ d.permitted => d.external = "given"
  /\ d.biometric => d.reason = "biometric" /\ ~d.permitted
  /\ ChainLink(d)

ManifestOK(d) ==
  d.signature = "complete" /\ (d.type = "ModelAdapterManifest" => d.baseDigest = "given")

Raises(d) == d.type \in {"noUTF8", "noObject"}

\* validate_file: 2 unreadable or of unknown type, 1 rejected by the schema, 0 valid.
\* An exception ends the process, with status 1.
FileStatus(d) ==
  CASE d \in OddDocs -> IF Raises(d) THEN 1 ELSE 2
    [] OTHER -> IF /\ d.shape
                   /\ CASE d.type = "InferenceReceipt"   -> ReceiptOK(d)
                        [] d.type = "EscalationDecision" -> DecisionOK(d)
                        [] OTHER                         -> ManifestOK(d)
                THEN 0 ELSE 1

-------------------------------------------------------------------------------
(* What they are for: nothing leaves the device without a lease and a trail,  *)
(* nothing biometric at all; no model without a signature; no gap in a chain. *)

Crosses(d) ==
  \/ d.type = "InferenceReceipt" /\ (~d.onDevice \/ d.escalatedFrom = "given")
  \/ d.type = "EscalationDecision" /\ d.permitted

Authorised(d) ==
  /\ d.lease = "given"
  /\ d.type = "InferenceReceipt" => ~d.onDevice /\ d.escalatedFrom = "given" /\ d.chain = "filled"
  /\ d.type = "EscalationDecision" => /\ d.checked = "passed" /\ ~d.biometric
                                      /\ d.toT4 => d.external = "given"

Explained(d) ==
  d.type = "EscalationDecision" /\ ~d.permitted =>
    d.reason \in (IF d.biometric THEN {"biometric"} ELSE {"biometric", "other"})

ModelPlaneObeys(d) ==
  /\ d \notin OddDocs /\ d.shape
  /\ Crosses(d) => Authorised(d)
  /\ Explained(d)
  /\ d \in ManifestDocs => ~(d.signature # "complete" \/
                             (d.type = "ModelAdapterManifest" /\ d.baseDigest # "given"))
  /\ d \notin ManifestDocs => d.genesis \/ d.prevHash \notin {"absent", "null"}
===============================================================================
