----------------------------- MODULE ReceiptLedger -----------------------------
(***************************************************************************)
(* emit_receipt (tools/inference_receipt_emitter.py:58-104) run by several *)
(* emitters on one ledger file, step by step, with the failures the code   *)
(* can meet: a write that fails, a process that dies, a machine that loses *)
(* power before anything was synced.                                       *)
(*                                                                         *)
(* The file is the sequence of its newline-terminated lines and the        *)
(* unterminated bytes after the last newline.  A receipt reaches it in     *)
(* three pieces: two parts of its JSON text and the newline, since a write *)
(* can stop, and a reader can look, between any two bytes.                 *)
(***************************************************************************)
EXTENDS Receipts, FiniteSets

CONSTANTS Emitters,        \* processes and threads that call emit_receipt
          NoEmitter,
          HasFcntl,        \* the platform has fcntl (otherwise: no lock at all)
          MaxCalls,        \* bound: calls per emitter
          MaxWriteErrors,  \* bound: failing writes (disk full, quota, I/O error)
          MaxCrashes,      \* bound: emitter processes killed in a call
          MaxPowerLosses   \* bound: losses of power

ASSUME NoEmitterIsApart == NoEmitter \notin Emitters
ASSUME LedgerConstants ==
  /\ HasFcntl \in BOOLEAN
  /\ {MaxCalls, MaxWriteErrors, MaxCrashes, MaxPowerLosses} \subseteq Nat

VARIABLES lines,        \* the complete lines of the ledger file
          frag,         \* the pieces after the last newline
          holder,       \* the emitter that holds the exclusive flock
          pc,           \* where each emitter is in emit_receipt
          draft,        \* the receipt each emitter has built
          sent,         \* how many pieces of it have left the write buffer
          raised,       \* whether an exception is on its way out
          calls,        \* calls begun by each emitter
          returned,     \* history: the receipts emit_receipt returned
          writeErrors, crashes, powerLosses   \* faults spent

file   == <<lines, frag>>
local  == <<pc, draft, sent, raised>>
budget == <<writeErrors, crashes, powerLosses>>
vars   == <<lines, frag, holder, pc, draft, sent, raised, calls, returned,
            writeErrors, crashes, powerLosses>>

-------------------------------------------------------------------------------
(* The file *)

PieceCount == 3                        \* two parts of the text, the newline
Pieces     == [of : Receipts, part : {1, 2}]
Piece(r, k) == [of |-> r, part |-> k]

\* What json.loads makes of the bytes after the last newline.
Parse(f) ==
  IF Len(f) = 2 /\ f[1].part = 1 /\ f[2] = Piece(f[1].of, 2)
    THEN f[1].of
    ELSE Garbage

\* The non-blank lines a reader of the file gets, the unterminated one included.
Readable == IF frag = << >> THEN lines ELSE Append(lines, Parse(frag))

\* Mutant of Put: the receipt is written without its newline.
Put_NoNewline(r, k) ==
  /\ frag' = IF k < PieceCount THEN Append(frag, Piece(r, k)) ELSE frag
  /\ UNCHANGED lines

\* The k-th piece of r reaches the end of the file (open mode "a+").
Put(r, k) ==
  IF k < PieceCount
    THEN frag' = Append(frag, Piece(r, k)) /\ UNCHANGED lines
    ELSE lines' = Readable /\ frag' = << >>

-------------------------------------------------------------------------------
(* emit_receipt, one emitter *)

Init ==
  /\ lines = << >> /\ frag = << >>
  /\ holder = NoEmitter
  /\ pc = [e \in Emitters |-> "idle"]
  /\ draft = [e \in Emitters |-> NoReceipt]
  /\ sent = [e \in Emitters |-> 0]
  /\ raised = [e \in Emitters |-> FALSE]
  /\ calls = [e \in Emitters |-> 0]
  /\ returned = {}
  /\ writeErrors = 0 /\ crashes = 0 /\ powerLosses = 0

Goto(e, l) == pc' = [pc EXCEPT ![e] = l]

\* mkdir and open(..., "a+").
Call(e) ==
  /\ pc[e] = "idle" /\ calls[e] < MaxCalls
  /\ Goto(e, "opened")
  /\ calls' = [calls EXCEPT ![e] = @ + 1]
  /\ UNCHANGED <<file, holder, draft, sent, raised, returned, budget>>

\* Mutant of Lock: a shared lock, which never waits.
Lock_Shared(e) ==
  /\ pc[e] = "opened"
  /\ holder' = IF HasFcntl THEN e ELSE holder
  /\ Goto(e, "locked")
  /\ UNCHANGED <<file, draft, sent, raised, calls, returned, budget>>

\* fcntl.flock(f, LOCK_EX), when there is an fcntl.
Lock(e) ==
  /\ pc[e] = "opened"
  /\ HasFcntl => holder = NoEmitter
  /\ holder' = IF HasFcntl THEN e ELSE holder
  /\ Goto(e, "locked")
  /\ UNCHANGED <<file, draft, sent, raised, calls, returned, budget>>

\* _last_entry raises on a tail that is not JSON; so does hashing a text that
\* cannot be encoded.  Nothing has been written yet.
BuildRaises(e) ==
  /\ pc[e] = "locked"
  /\ raised' = [raised EXCEPT ![e] = TRUE]
  /\ Goto(e, "unlocking")
  /\ UNCHANGED <<file, holder, draft, sent, calls, returned, budget>>

\* Mutants of BuildReceipt: an unreadable tail is skipped, and the entry before
\* it taken instead; an unreadable tail is taken for an empty ledger.
BuildReceipt_SkipsDamage(e) ==
  /\ pc[e] = "locked"
  /\ LET whole == SelectSeq(Readable, LAMBDA l : l # Garbage)
     IN \E b \in Bodies : draft' = [draft EXCEPT ![e] = Build(LastOf(whole), b)]
  /\ Goto(e, "writing")
  /\ UNCHANGED <<file, holder, sent, raised, calls, returned, budget>>

BuildReceipt_RestartsAtGenesis(e) ==
  /\ pc[e] = "locked"
  /\ LET last == IF LastOf(Readable) = Garbage THEN NoReceipt ELSE LastOf(Readable)
     IN \E b \in Bodies : draft' = [draft EXCEPT ![e] = Build(last, b)]
  /\ Goto(e, "writing")
  /\ UNCHANGED <<file, holder, sent, raised, calls, returned, budget>>

\* _last_entry, the receipt, and f.write into the buffer.
BuildReceipt(e) ==
  /\ pc[e] = "locked"
  /\ LastOf(Readable) # Garbage
  /\ \E b \in Bodies : draft' = [draft EXCEPT ![e] = Build(LastOf(Readable), b)]
  /\ Goto(e, "writing")
  /\ UNCHANGED <<file, holder, sent, raised, calls, returned, budget>>

\* Mutant of Flush: no flush under the lock, the bytes leave when the file is
\* closed.
Flush_Omitted(e) ==
  /\ pc[e] = "writing"
  /\ Goto(e, "unlocking")
  /\ UNCHANGED <<file, holder, draft, sent, raised, calls, returned, budget>>

\* f.flush(): one more piece of the buffer reaches the file.
Flush(e) ==
  /\ pc[e] = "writing"
  /\ Put(draft[e], sent[e] + 1)
  /\ sent' = [sent EXCEPT ![e] = @ + 1]
  /\ IF sent[e] + 1 = PieceCount THEN Goto(e, "unlocking") ELSE UNCHANGED pc
  /\ UNCHANGED <<holder, draft, raised, calls, returned, budget>>

\* f.flush() raises OSError; what it did not write stays in the buffer.
FlushFails(e) ==
  /\ pc[e] = "writing" /\ writeErrors < MaxWriteErrors
  /\ raised' = [raised EXCEPT ![e] = TRUE]
  /\ Goto(e, "unlocking")
  /\ writeErrors' = writeErrors + 1
  /\ UNCHANGED <<file, holder, draft, sent, calls, returned, crashes, powerLosses>>

\* Mutant of Unlock: the lock is released on the normal path only.
Unlock_NotInFinally(e) ==
  /\ pc[e] = "unlocking"
  /\ holder' = IF HasFcntl /\ ~raised[e] THEN NoEmitter ELSE holder
  /\ Goto(e, "closing")
  /\ UNCHANGED <<file, draft, sent, raised, calls, returned, budget>>

\* finally: fcntl.flock(f, LOCK_UN).
Unlock(e) ==
  /\ pc[e] = "unlocking"
  /\ holder' = IF HasFcntl THEN NoEmitter ELSE holder
  /\ Goto(e, "closing")
  /\ UNCHANGED <<file, draft, sent, raised, calls, returned, budget>>

\* The buffer is not empty when the with block closes the file.
Pending(e) == draft[e] # NoReceipt /\ sent[e] < PieceCount

\* close() flushes the rest of the buffer, after the lock was released.
CloseFlush(e) ==
  /\ pc[e] = "closing" /\ Pending(e)
  /\ Put(draft[e], sent[e] + 1)
  /\ sent' = [sent EXCEPT ![e] = @ + 1]
  /\ UNCHANGED <<holder, pc, draft, raised, calls, returned, budget>>

Reset(e) ==
  /\ Goto(e, "idle")
  /\ draft' = [draft EXCEPT ![e] = NoReceipt]
  /\ sent' = [sent EXCEPT ![e] = 0]
  /\ raised' = [raised EXCEPT ![e] = FALSE]

\* The disk is still full: close() drops what is left of the buffer.
CloseDrops(e) ==
  /\ pc[e] = "closing" /\ Pending(e)
  /\ Reset(e)
  /\ UNCHANGED <<file, holder, calls, returned, budget>>

\* The file is closed: the call returns its receipt or raises.
Finish(e) ==
  /\ pc[e] = "closing" /\ ~Pending(e)
  /\ returned' = IF raised[e] THEN returned
                 ELSE returned \union {[by |-> e, call |-> calls[e], receipt |-> draft[e]]}
  /\ Reset(e)
  /\ UNCHANGED <<file, holder, calls, budget>>

-------------------------------------------------------------------------------
(* What the environment does *)

\* The process is killed in the call: the buffer is gone, the kernel drops
\* the lock.
Crash(e) ==
  /\ pc[e] # "idle" /\ crashes < MaxCrashes
  /\ Reset(e)
  /\ holder' = IF holder = e THEN NoEmitter ELSE holder
  /\ crashes' = crashes + 1
  /\ UNCHANGED <<file, calls, returned, writeErrors, powerLosses>>

\* The parts of the text of a line that can survive it.
Prefixes(f) == {SubSeq(f, 1, n) : n \in 0 .. Len(f)}
Text(line)  == IF line = Garbage THEN << >> ELSE <<Piece(line, 1), Piece(line, 2)>>

\* Nothing is fsynced: power loss keeps any prefix of the file.
PowerLoss ==
  /\ powerLosses < MaxPowerLosses
  /\ \/ frag' \in Prefixes(frag) /\ UNCHANGED lines
     \/ \E n \in 0 .. Len(lines) - 1 :
          lines' = SubSeq(lines, 1, n) /\ frag' \in Prefixes(Text(lines[n + 1]))
  /\ holder' = NoEmitter
  /\ pc' = [e \in Emitters |-> "idle"]
  /\ draft' = [e \in Emitters |-> NoReceipt]
  /\ sent' = [e \in Emitters |-> 0]
  /\ raised' = [e \in Emitters |-> FALSE]
  /\ powerLosses' = powerLosses + 1
  /\ UNCHANGED <<calls, returned, writeErrors, crashes>>

-------------------------------------------------------------------------------

\* The steps that finish a call once it has begun.
Step(e) ==
  \/ Lock(e) \/ BuildRaises(e) \/ BuildReceipt(e) \/ Flush(e) \/ FlushFails(e)
  \/ Unlock(e) \/ CloseFlush(e) \/ CloseDrops(e) \/ Finish(e)

Next == PowerLoss \/ \E e \in Emitters : Call(e) \/ Step(e) \/ Crash(e)

Spec == Init /\ [][Next]_vars

\* An emitter that can go on does (the OS schedules it).
Fairness == \A e \in Emitters : WF_vars(Step(e))

FairSpec == Spec /\ Fairness

-------------------------------------------------------------------------------
(* Properties *)

Locations == {"idle", "opened", "locked", "writing", "unlocking", "closing"}

TypeOK ==
  /\ lines \in Seq(Lines)
  /\ frag \in Seq(Pieces)
  /\ holder \in Emitters \union {NoEmitter}
  /\ pc \in [Emitters -> Locations]
  /\ draft \in [Emitters -> Receipts \union {NoReceipt}]
  /\ sent \in [Emitters -> 0 .. PieceCount]
  /\ raised \in [Emitters -> BOOLEAN]
  /\ calls \in [Emitters -> 0 .. MaxCalls]
  /\ returned \subseteq [by : Emitters, call : 1 .. MaxCalls, receipt : Receipts]
  /\ writeErrors \in 0 .. MaxWriteErrors
  /\ crashes \in 0 .. MaxCrashes
  /\ powerLosses \in 0 .. MaxPowerLosses

\* The lock does what it is for: whoever is between LOCK_EX and LOCK_UN holds
\* it, so no two emitters read the tail and append at the same time.
LockExclusive ==
  HasFcntl => \A e \in Emitters :
                (pc[e] \in {"locked", "writing", "unlocking"}) <=> (holder = e)

\* The ledger is one unbroken hash chain, and every line of it is a receipt
\* ("concurrent emitters cannot race into duplicate ledgerSeq or a broken
\* chain", the docstring of emit_receipt).
ChainUnbroken == WellChained(lines)

\* Whatever crashes and power losses do to the file, an unreadable line is
\* never buried under later ones, and the lines before it are still one
\* unbroken chain: nobody appends to a ledger whose tail is damaged.  This holds
\* until a write fails, whose line can come late (NoDuplicateSeq).
ChainUpToDamage == writeErrors = 0 => UpToDamage(lines)

\* A receipt that was returned to a caller is on the ledger, on the line of its
\* own number.
ReturnedOnLedger ==
  \A c \in returned : c.receipt.seq < Len(lines) /\ lines[c.receipt.seq + 1] = c.receipt

\* No two lines of the ledger carry the same ledgerSeq.
NoDuplicateSeq ==
  \A i, j \in 1 .. Len(lines) :
    lines[i] \in Receipts /\ lines[j] \in Receipts /\ lines[i].seq = lines[j].seq => i = j

\* No two callers are handed the same ledgerSeq (and so the same id).
NoSequenceReuse ==
  \A c, d \in returned : c.receipt.seq = d.receipt.seq => c = d

\* The tail is damaged and no write buffer holds a line.
Dead == LastOf(Readable) = Garbage /\ \A e \in Emitters : ~Pending(e)

\* A damaged tail stops the ledger for good: nobody writes to it again, whatever
\* emitters and crashes come later; only power loss, by taking the damaged bytes
\* themselves, can end it.
DamageIsTerminal ==
  [][Dead /\ powerLosses' = powerLosses => Dead' /\ UNCHANGED file]_vars

\* Every call of emit_receipt ends: it returns, it raises or its process dies,
\* and no error path leaves the lock held.
EveryCallEnds == \A e \in Emitters : (pc[e] # "idle") ~> (pc[e] = "idle")

\* The lines of the ledger evolve as the abstract hash chain does.
Chain == INSTANCE HashChain WITH log <- lines

ImplementsHashChain == Chain!Spec
===============================================================================
