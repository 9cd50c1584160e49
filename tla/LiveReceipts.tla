----------------------------- MODULE LiveReceipts -----------------------------
(***************************************************************************)
(* One ledger seen from all sides: shims that run completions of a local   *)
(* model and emit their receipts (tools/inferenced_shim.py), the other     *)
(* emitters of ReceiptLedger (threads of the gateway, whose receipts may   *)
(* carry a usage count the schema refuses), and an auditor                 *)
(* (tools/validate_live_receipts.py) that reads the ledger while they      *)
(* write, twice, and without the lock.                                     *)
(*                                                                         *)
(* Of what a shim records, a body keeps the digest of the weights and the  *)
(* input.  A digest is the number of times the weights file had been       *)
(* replaced.                                                               *)
(***************************************************************************)
EXTENDS ReceiptLedger, VerifyRules

CONSTANTS Shims,            \* the emitters that are shims
          ThreadBodies,     \* what the other emitters record
          PromptLists,      \* what --prompts-file may hold, once stripped
          Live,             \* in a directory listing: the ledger of ReceiptLedger
          Directories,      \* what the auditor's glob may find, sorted; a committed
                            \* ledger is its lines, whatever they are, and nobody
                            \* writes to it
          MaxThreadCalls,   \* bound: calls of each emitter that is no shim
          MaxReplacements   \* bound: replacements of the weights file

ShimBody(digest, prompt) == [digest |-> digest, input |-> prompt]

ASSUME ShimsEmit == Shims \subseteq Emitters
ASSUME PromptsOfAShim ==
  \A ps \in PromptLists :
    /\ ps \in Seq(STRING) /\ Len(ps) <= MaxCalls
    /\ \A n \in 1 .. Len(ps), v \in 0 .. MaxReplacements : ShimBody(v, ps[n]) \in Conforming
ASSUME ListedLedgers == Directories \subseteq Seq({Live} \union Seq(Lines))
ASSUME LiveBounds == {MaxThreadCalls, MaxReplacements} \subseteq Nat

VARIABLES weights,   \* which file is at --model
          shim,      \* each shim: where main is, its prompts and digest; history:
                     \* the weights at its start and those of each completion
          audit      \* the auditor: its listing, the ledger it is at, the first
                     \* reading; history: the ledger as it began, what it failed on

live     == <<weights, shim, audit>>
liveVars == <<vars, live>>

LiveInit ==
  /\ Init /\ weights = 0
  /\ shim = [s \in Shims |-> [at |-> "start", since |-> 0, prompts |-> << >>, digest |-> 0,
                           ran |-> << >>]]
  /\ audit = [at |-> "idle", dir |-> << >>, k |-> 1, began |-> << >>, first |-> << >>,
              total |-> 0, code |-> 0, seen |-> << >>, busy |-> FALSE,
              unread |-> FALSE]

-------------------------------------------------------------------------------
(* inferenced_shim.py *)

\* main finds the model.
ShimBegins(s) ==
  /\ shim[s].at = "start"
  /\ shim' = [shim EXCEPT ![s].at = "digesting", ![s].since = weights]
  /\ UNCHANGED <<vars, weights, audit>>

\* The model is not there or cannot be read, or the prompts file cannot.
ShimRefuses(s) ==
  /\ shim[s].at \in {"start", "digesting"}
  /\ shim' = [shim EXCEPT ![s].at = "usage"]
  /\ UNCHANGED <<vars, weights, audit>>

\* Mutant of ShimStarts: an empty list of prompts is not noticed.
ShimStarts_AnyPrompts(s) ==
  /\ shim[s].at = "digesting"
  /\ \E ps \in PromptLists :
       shim' = [shim EXCEPT ![s] = [@ EXCEPT !.at = "generating",
                                             !.prompts = ps, !.digest = weights]]
  /\ UNCHANGED <<vars, weights, audit>>

\* file_digest, once, and the prompts; exit 2 when there are none.
ShimStarts(s) ==
  /\ shim[s].at = "digesting"
  /\ \E ps \in PromptLists :
       shim' = [shim EXCEPT ![s] = [@ EXCEPT !.at = IF ps = << >> THEN "usage" ELSE "generating",
                                             !.prompts = ps, !.digest = weights]]
  /\ UNCHANGED <<vars, weights, audit>>

\* run_completion: llama-cli opens the weights file anew for each prompt.
Completes(s) ==
  /\ shim[s].at = "generating"
  /\ shim' = [shim EXCEPT ![s].at = "emitting", ![s].ran = Append(@, weights)]
  /\ UNCHANGED <<vars, weights, audit>>

\* It fails or times out: an exception ends main.
CompletionFails(s) ==
  /\ shim[s].at = "generating"
  /\ shim' = [shim EXCEPT ![s].at = "failed"]
  /\ UNCHANGED <<vars, weights, audit>>

ShimCalls(s) == shim[s].at = "emitting" /\ Call(s) /\ UNCHANGED live

\* Mutant of AfterEmit: the loop goes on after an exception of emit_receipt.
AfterEmit_GoesOn(s) ==
  IF Len(shim[s].ran) = Len(shim[s].prompts) THEN "done" ELSE "generating"

\* Where main is when emit_receipt has ended.
AfterEmit(s) ==
  IF raised[s] THEN "failed"
  ELSE IF Len(shim[s].ran) = Len(shim[s].prompts) THEN "done" ELSE "generating"

\* Mutant of Recorded: the digest is that of the file at the time of the receipt.
Recorded_Anew(s) == ShimBody(weights, shim[s].prompts[Len(shim[s].ran)])

Recorded(s) == ShimBody(shim[s].digest, shim[s].prompts[Len(shim[s].ran)])

\* A step of emit_receipt called by a shim.
ShimEmits(s) ==
  /\ Step(s)
  /\ pc'[s] = "writing" /\ pc[s] = "locked" => draft'[s].body = Recorded(s)
  /\ shim' = IF pc'[s] = "idle" THEN [shim EXCEPT ![s].at = AfterEmit(s)] ELSE shim
  /\ UNCHANGED <<weights, audit>>

\* Another file is moved to --model: no reader sees half of each.
ReplaceWeights ==
  /\ weights < MaxReplacements
  /\ weights' = weights + 1
  /\ UNCHANGED <<vars, shim, audit>>

-------------------------------------------------------------------------------
(* validate_live_receipts.py *)

Reading(ledger) == IF ledger = Live THEN Readable ELSE ledger

\* A writer is in the middle of its line.
Busy == \E e \in Emitters : pc[e] = "writing"

Exit(code, reading) ==
  audit' = [audit EXCEPT !.at = "ended", !.code = code, !.seen = reading, !.busy = Busy]

\* The glob; exit 2 when it finds nothing.
AuditStarts ==
  /\ audit.at = "idle"
  /\ \E d \in Directories :
       audit' = [audit EXCEPT !.at = IF d = << >> THEN "ended" ELSE "reading", !.dir = d,
                              !.code = IF d = << >> THEN 2 ELSE 0, !.began = lines]
  /\ UNCHANGED <<vars, weights, shim>>

\* A file does not open (the schema or a ledger: exit 2; in verify_ledger: exit 1),
\* or it is not UTF-8 and the exception ends main (1).
AuditCannotRead ==
  /\ \E code \in {1, 2} :
       /\ audit.at = "reading" \/ (audit.at = "verifying" /\ code = 1)
       /\ audit' = [audit EXCEPT !.at = "ended", !.code = code, !.unread = TRUE]
  /\ UNCHANGED <<vars, weights, shim>>

\* The first reading: is every line JSON, is there one at all?
AuditReads ==
  /\ audit.at = "reading"
  /\ LET r == Reading(audit.dir[audit.k])
     IN IF r = << >> \/ \E i \in 1 .. Len(r) : r[i] = Garbage
          THEN Exit(2, r)
          ELSE audit' = [audit EXCEPT !.at = "verifying", !.first = r]
  /\ UNCHANGED <<vars, weights, shim>>

\* total += len(entries), and on to the next ledger.
NextLedger ==
  audit' = [audit EXCEPT !.at = IF audit.k = Len(audit.dir) THEN "ended" ELSE "reading",
                         !.k = IF audit.k = Len(audit.dir) THEN @ ELSE @ + 1,
                         !.total = @ + Len(audit.first)]

\* Mutant of AuditVerifies: the entries are held against the schema and not against
\* each other.
AuditVerifies_NoChain ==
  /\ audit.at = "verifying"
  /\ IF \A i \in 1 .. Len(audit.first) : SchemaValid(audit.first[i])
       THEN NextLedger ELSE Exit(1, audit.first)
  /\ UNCHANGED <<vars, weights, shim>>

\* verify_ledger reads the file again.
AuditVerifies ==
  /\ audit.at = "verifying"
  /\ LET r == Reading(audit.dir[audit.k])
     IN IF Accepts(r) THEN NextLedger ELSE Exit(1, r)
  /\ UNCHANGED <<vars, weights, shim>>

-------------------------------------------------------------------------------

\* A thread of the gateway calls emit_receipt or is in it.
ThreadEmits(e) ==
  /\ (calls[e] < MaxThreadCalls /\ Call(e)) \/ Step(e)
  /\ pc'[e] = "writing" => draft'[e].body \in ThreadBodies
  /\ UNCHANGED live

\* A crash or a power loss is ReceiptLedger's business; nobody is killed here.
LiveNext ==
  \/ \E e \in Emitters \ Shims : ThreadEmits(e)
  \/ \E s \in Shims : ShimBegins(s) \/ ShimRefuses(s) \/ ShimStarts(s) \/ Completes(s)
                      \/ CompletionFails(s) \/ ShimCalls(s) \/ ShimEmits(s)
  \/ ReplaceWeights
  \/ AuditStarts \/ AuditCannotRead \/ AuditReads \/ AuditVerifies

LiveSpec == LiveInit /\ [][LiveNext]_liveVars

-------------------------------------------------------------------------------
(* Properties *)

LiveTypeOK ==
  /\ weights \in 0 .. MaxReplacements
  /\ \A s \in Shims :
       /\ shim[s].at \in {"start", "digesting", "usage", "generating", "emitting",
                           "failed", "done"}
       /\ shim[s].prompts \in PromptLists \union {<< >>}
       /\ {shim[s].since, shim[s].digest} \subseteq 0 .. MaxReplacements
       /\ shim[s].ran \in Seq(0 .. MaxReplacements)
       /\ Len(shim[s].ran) <= Len(shim[s].prompts)
  /\ audit.at \in {"idle", "reading", "verifying", "ended"}
  /\ audit.code \in 0 .. 2 /\ audit.total \in Nat
  /\ audit.dir \in Directories \union {<< >>}
  /\ audit.at \in {"reading", "verifying"} => audit.k \in DOMAIN audit.dir

\* Emitter and verifier agree: whatever callers are between which steps, the
\* complete lines of the ledger pass verify_ledger, unless the body of one does
\* not conform to the schema.
Conform(log) == \A i \in 1 .. Len(log) : log[i] # Garbage => log[i].body \in Conforming

EmittedIsAccepted == Conform(lines) => Accepts(lines)

\* An auditor that looks without the lock raises no false alarm: when it fails,
\* there is no ledger, a file could not be read, a committed ledger is empty or
\* does not pass by itself, or the ledger being written is what is to blame.  Of
\* that one it then read a chain, never a wrong number, link or line in the middle:
\* nothing yet, or a receipt that does not conform, or a last line that was being
\* written at that moment (so that a later audit can pass).
AlarmsHaveACause ==
  audit.at = "ended" /\ audit.code # 0 =>
    \/ audit.dir = << >> \/ audit.unread
    \/ /\ audit.dir[audit.k] # Live
       /\ audit.dir[audit.k] = << >> \/ ~Accepts(audit.dir[audit.k])
    \/ /\ audit.dir[audit.k] = Live /\ UpToDamage(audit.seen)
       /\ \/ audit.seen = << >> \/ ~Conform(audit.seen)
          \/ LastOf(audit.seen) = Garbage /\ audit.busy

\* What a passing audit vouches for: every listed ledger passes, a committed one as
\* it is and the one being written as far as it was when the audit began, which is
\* still its beginning; and the total it prints counts those receipts and none that
\* is not on a ledger now, although it was counted in one reading and verified in
\* another.
Listed(k, log) == IF audit.dir[k] = Live THEN log ELSE audit.dir[k]

Counted(log) ==
  LET n[k \in 0 .. Len(audit.dir)] ==
        IF k = 0 THEN 0 ELSE n[k - 1] + Len(Listed(k, log))
  IN n[Len(audit.dir)]

AuditVouches ==
  audit.at = "ended" /\ audit.code = 0 =>
    /\ \A k \in 1 .. Len(audit.dir) : Accepts(Listed(k, audit.began))
    /\ Len(audit.began) <= Len(lines)
    /\ \A i \in 1 .. Len(audit.began) : lines[i] = audit.began[i]
    /\ audit.total \in Counted(audit.began) .. Counted(Readable)

\* A shim leaves no gap: its receipts are those of its first prompts, one each, in
\* the order of the prompts also on the ledger, all with the same digest; at most
\* the last completion has none, and when the shim reports success all have one.
ReturnedTo(s) == {c \in returned : c.by = s}

ShimLeavesNoGap ==
  \A s \in Shims :
    /\ \A c \in ReturnedTo(s) :
         /\ c.call <= Len(shim[s].ran)
         /\ c.receipt.body = ShimBody(shim[s].digest, shim[s].prompts[c.call])
         /\ \A d \in ReturnedTo(s) : c.call < d.call => c.receipt.seq < d.receipt.seq
    /\ \A n \in 1 .. Len(shim[s].ran) :
         n < Len(shim[s].ran) \/ shim[s].at \in {"generating", "done"} =>
           \E c \in ReturnedTo(s) : c.call = n
    /\ shim[s].at = "done" => Len(shim[s].ran) = Len(shim[s].prompts)

\* The digest in a shim's receipt is one the file had between the shim's start and
\* that completion: never that of weights replaced before it started, never that of
\* weights that came after the completion.  So with no replacement in between it is
\* that of the weights that ran ("baseModelDigest is the REAL sha256 of the weights
\* that ran"); with one, the first digest stands although other weights ran.
ShimReceiptsNameTheWeights ==
  \A s \in Shims : \A c \in ReturnedTo(s) :
    c.receipt.body.digest \in shim[s].since .. shim[s].ran[c.call]
===============================================================================
