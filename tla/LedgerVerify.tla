----------------------------- MODULE LedgerVerify -----------------------------
(***************************************************************************)
(* verify_ledger as the loop it is: one pass over the lines it read, with  *)
(* the previous entry carried along, stopping at the first failure.  The   *)
(* ledger it finds is a ledger that emit_receipt wrote, or what became of  *)
(* one that was altered since.                                             *)
(***************************************************************************)
EXTENDS VerifyRules

CONSTANT Cases   \* pairs of a ledger as written and a ledger as found

ASSUME CasesAreLedgers ==
  \A c \in Cases : /\ DOMAIN c = {"written", "found"}
                   /\ c.written \in Seq(Receipts) /\ WellChained(c.written)
                   /\ c.found \in Seq(Lines)

VARIABLES written,   \* the ledger as emit_receipt left it
          found,     \* the non-blank lines verify_ledger reads
          i,         \* lines passed so far
          prev,      \* the entry before line i + 1, or NoReceipt
          verdict

vars == <<written, found, i, prev, verdict>>

Init ==
  /\ \E c \in Cases : written = c.written /\ found = c.found
  /\ i = 0 /\ prev = NoReceipt /\ verdict = "running"

Fail(why) == verdict' = why /\ UNCHANGED <<written, found, i, prev>>

\* The file is missing, or read_text raises OSError.
Unreadable == verdict = "running" /\ i = 0 /\ Fail("unreadable")

Line == found[i + 1]

\* json.loads, then the schema, then the number, then the link: the first
\* demand that is not met decides.
Reject ==
  /\ verdict = "running" /\ i < Len(found)
  /\ \/ Line = Garbage /\ Fail("not JSON")
     \/ /\ Line # Garbage
        /\ \/ ~SchemaValid(Line) /\ Fail("schema-invalid")
           \/ SchemaValid(Line) /\ Line.seq # i /\ Fail("wrong number")
           \/ /\ SchemaValid(Line) /\ Line.seq = i
              /\ i >= 1 /\ ~LinkOK(Line, prev) /\ Fail("chain broken")

\* Mutants of Advance: a line that is not JSON gives a warning only, and is carried
\* along as it is; prev is set on the first line only.
Advance_WarnsOnly ==
  /\ verdict = "running" /\ i < Len(found)
  /\ Line # Garbage => /\ SchemaValid(Line) /\ Line.seq = i
                       /\ i >= 1 => LinkOK(Line, prev)
  /\ prev' = Line
  /\ i' = i + 1
  /\ UNCHANGED <<written, found, verdict>>

Advance_KeepsFirst ==
  /\ verdict = "running" /\ i < Len(found)
  /\ Line # Garbage /\ SchemaValid(Line) /\ Line.seq = i
  /\ i >= 1 => LinkOK(Line, prev)
  /\ prev' = IF i = 0 THEN Line ELSE prev
  /\ i' = i + 1
  /\ UNCHANGED <<written, found, verdict>>

Advance ==
  /\ verdict = "running" /\ i < Len(found)
  /\ Line # Garbage /\ SchemaValid(Line) /\ Line.seq = i
  /\ i >= 1 => LinkOK(Line, prev)
  /\ prev' = Line
  /\ i' = i + 1
  /\ UNCHANGED <<written, found, verdict>>

Accept ==
  /\ verdict = "running" /\ i = Len(found)
  /\ verdict' = "ok"
  /\ UNCHANGED <<written, found, i, prev>>

Next == Unreadable \/ Reject \/ Advance \/ Accept

Spec == Init /\ [][Next]_vars

-------------------------------------------------------------------------------
(* Properties *)

Failures == {"unreadable", "not JSON", "schema-invalid", "wrong number", "chain broken"}

TypeOK ==
  /\ written \in Seq(Receipts) /\ found \in Seq(Lines)
  /\ i \in 0 .. Len(found)
  /\ prev \in Receipts \union {NoReceipt}
  /\ verdict \in {"running", "ok"} \union Failures

\* The loop decides exactly what the demands on all the lines say: it accepts
\* no ledger that misses one of them, and rejects (once it could read the file)
\* only a ledger that misses one, at the first line that does.
VerdictIsRight ==
  /\ verdict = "ok" => Accepts(found)
  /\ verdict \in Failures \ {"unreadable"} =>
       ~Passes(found, i + 1) /\ \A j \in 1 .. i : Passes(found, j)

\* Tamper evidence: in a ledger that passes, an entry that is still what
\* emit_receipt wrote vouches for every entry before it.
SurvivorsVouch ==
  verdict = "ok" =>
    \A k \in 1 .. Len(found) : k <= Len(written) /\ found[k] = written[k] =>
      \A j \in 1 .. k : found[j] = written[j]
===============================================================================
