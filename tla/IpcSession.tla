------------------------------ MODULE IpcSession ------------------------------
(***************************************************************************)
(* IPC v0: the reference runner (reference/ipc-v0/src/contract_runner/     *)
(* runner.py), run several times with one --out directory, and the         *)
(* reference adapters it spawns (src/adapters/): the handshake and one     *)
(* invoke over a pair of pipes, the transcript, the run receipt, and the   *)
(* receipt file of the wrapped tools, which all adapters share.            *)
(*                                                                         *)
(* A run has its own adapter process, its own tool and its own pipes.  A   *)
(* message is its type, what it replies to and whether its version is the  *)
(* reader's; the payload of a result is the run whose tool wrote the       *)
(* receipt in it, or 0 (None).                                             *)
(***************************************************************************)
EXTENDS Integers, Sequences, FiniteSets

CONSTANTS MaxRuns,     \* bound: runs of the runner
          MaxStrays,   \* bound: lines of the adapters that the protocol does not ask for
          MaxDeaths,   \* bound: runners and adapters killed
          MayHang      \* bound: whether a wrapped tool may never end

ASSUME IpcConstants == {MaxRuns, MaxStrays, MaxDeaths} \subseteq Nat /\ MayHang \in BOOLEAN

Runs == 1 .. MaxRuns
Garbled == MaxRuns + 1       \* a receipt file two tools have written over each other

VARIABLES run,          \* the current run of the runner (0: none yet)
          pc,           \* where it is in main
          expired,      \* more than timeout_ms have passed since the invoke
          result,       \* the payload of the result that invoke returned
          adapter,      \* the state of each run's adapter
          toAdapter, toRunner,       \* the pipes of each run
          transcript,   \* ipc-transcript.ndjson: its run, its messages
          runReceipt,   \* run-receipt.json: the run it is of (0: none, or an empty file)
                        \* and the payload of its result
          tool,         \* the tool that the adapter of each run has started
          toolReceipt,  \* the tools' receipt file: the run it is of, 0 if none or empty
          failed,       \* history: the runs that ended with an error
          meddlers,     \* history: of each run, the runs whose tools touched the receipt
                        \* file after its own had opened it, before it was read
          strays, deaths             \* faults spent

runnerSide  == <<run, pc, expired, result, failed>>
adapterSide == <<adapter, toAdapter, toRunner>>
toolSide    == <<tool, toolReceipt, meddlers>>
files  == <<transcript, runReceipt>>
faults == <<strays, deaths>>
vars   == <<run, pc, expired, result, adapter, toAdapter, toRunner, transcript, runReceipt,
            tool, toolReceipt, failed, meddlers, strays, deaths>>

Types == {"hello", "hello_ack", "capabilities", "capabilities_ack", "invoke", "result",
          "error", "progress", "noJson"}
Messages == [type : Types, replyTo : {"none", "hello", "invoke"}, ours : BOOLEAN,
             payload : 0 .. MaxRuns]
Msg(type, replyTo) == [type |-> type, replyTo |-> replyTo, ours |-> TRUE, payload |-> 0]
\* An envelope the runner rejects: of another version, or without a field.
Rejected == [type |-> "error", replyTo |-> "none", ours |-> FALSE, payload |-> 0]

Alive(r) == adapter[r] \notin {"absent", "exited"}

Init ==
  /\ run = 0 /\ pc = "ended" /\ expired = FALSE /\ result = 0 /\ failed = {}
  /\ adapter = [r \in Runs |-> "absent"]
  /\ toAdapter = [r \in Runs |-> << >>] /\ toRunner = [r \in Runs |-> << >>]
  /\ transcript = [run |-> 0, messages |-> << >>]
  /\ runReceipt = [run |-> 0, payload |-> 0] /\ toolReceipt = 0
  /\ tool = [r \in Runs |-> "none"] /\ meddlers = [r \in Runs |-> {}]
  /\ strays = 0 /\ deaths = 0

-------------------------------------------------------------------------------
(* The runner *)

\* An exception leaves main: no receipt is written, the adapter is left to see
\* the end of its input.
Fail == /\ pc' = "ended" /\ failed' = failed \union {run}
        /\ UNCHANGED <<run, expired, result>>

\* main: the adapter is spawned, the transcript opened for writing.
Start ==
  /\ pc = "ended" /\ run < MaxRuns
  /\ run' = run + 1 /\ pc' = "hello" /\ expired' = FALSE /\ result' = 0
  /\ \E version \in {"fresh", "otherVersion"} : adapter' = [adapter EXCEPT ![run + 1] = version]
  /\ transcript' = [run |-> run + 1, messages |-> << >>]
  /\ UNCHANGED <<toAdapter, toRunner, runReceipt, toolSide, failed, faults>>

\* main: the arguments are refused or the adapter cannot be spawned.
StartFails ==
  /\ pc = "ended" /\ run < MaxRuns
  /\ run' = run + 1 /\ failed' = failed \union {run + 1}
  /\ UNCHANGED <<pc, expired, result, adapterSide, toolSide, files, faults>>

\* NDJSONWriter.send: the message goes into the pipe, then into the transcript;
\* into the pipe of a dead adapter it raises.
Send(from, m, to) ==
  /\ pc = from
  /\ IF Alive(run)
       THEN /\ toAdapter' = [toAdapter EXCEPT ![run] = Append(@, m)]
            /\ transcript' = [transcript EXCEPT !.messages = Append(@, m)]
            /\ pc' = to /\ UNCHANGED <<run, expired, result, failed>>
       ELSE Fail /\ UNCHANGED <<toAdapter, transcript>>
  /\ UNCHANGED <<adapter, toRunner, runReceipt, toolSide, faults>>

SendHello  == Send("hello", Msg("hello", "none"), "awaitCapabilities")
SendAck    == Send("acknowledge", Msg("capabilities_ack", "none"), "invoke")
SendInvoke == Send("invoke", Msg("invoke", "none"), "awaitResult")

\* NDJSONReader: the next line is taken and written to the transcript.
Take(m) ==
  /\ toRunner[run] # << >> /\ m = Head(toRunner[run])
  /\ toRunner' = [toRunner EXCEPT ![run] = Tail(@)]
  /\ transcript' = [transcript EXCEPT !.messages = Append(@, m)]
  /\ UNCHANGED <<adapter, toAdapter, runReceipt, toolSide, faults>>

Stay == UNCHANGED runnerSide
Go(to) == pc' = to /\ UNCHANGED <<run, expired, result, failed>>
\* invoke returns the payload of the result.
Return(m) == /\ pc' = "stop" /\ result' = m.payload
             /\ UNCHANGED <<run, expired, failed>>

\* Mutant of HandshakeReads: any message of the adapter completes the handshake.
HandshakeReads_AnyMessage ==
  /\ pc = "awaitCapabilities"
  /\ \E m \in Messages :
       /\ Take(m)
       /\ \/ m.type = "noJson" /\ Stay
          \/ m.type # "noJson" /\ Go("acknowledge")

\* handshake: the loop over the adapter's messages.
HandshakeReads ==
  /\ pc = "awaitCapabilities"
  /\ \E m \in Messages :
       /\ Take(m)
       /\ \/ m.type = "noJson" /\ Stay
          \/ m.type # "noJson" /\ ~m.ours /\ Fail
          \/ m.ours /\ m.type = "capabilities" /\ Go("acknowledge")
          \/ m.ours /\ m.type = "error" /\ Fail
          \/ m.ours /\ m.type \in {"hello_ack", "result", "progress"} /\ Stay

\* Mutant of InvokeReads: the first reply to the invoke is taken for its result.
InvokeReads_FirstReply ==
  /\ pc = "awaitResult"
  /\ \E m \in Messages :
       /\ Take(m)
       /\ IF m.replyTo = "invoke" THEN Return(m) ELSE Stay

\* invoke: the loop over the adapter's messages.  The time is looked at only
\* when a reply that is neither result nor error comes in.
InvokeReads ==
  /\ pc = "awaitResult"
  /\ \E m \in Messages :
       /\ Take(m)
       /\ \/ m.type = "noJson" /\ Stay
          \/ m.type # "noJson" /\ ~m.ours /\ Fail
          \/ m.ours /\ m.type # "noJson" /\ m.replyTo # "invoke" /\ Stay
          \/ m.replyTo = "invoke" /\ m.type = "result" /\ Return(m)
          \/ m.replyTo = "invoke" /\ m.type = "error" /\ Fail
          \/ m.replyTo = "invoke" /\ m.type = "progress" /\ IF expired THEN Fail ELSE Stay

\* Mutant of ReadsEnd: the loop starts over when the output ends.
ReadsEnd_ReadsOn ==
  /\ pc \in {"awaitCapabilities", "awaitResult"}
  /\ toRunner[run] = << >> /\ ~Alive(run)
  /\ UNCHANGED vars

\* The end of the adapter's output.
ReadsEnd ==
  /\ pc \in {"awaitCapabilities", "awaitResult"}
  /\ toRunner[run] = << >> /\ ~Alive(run)
  /\ Fail
  /\ UNCHANGED <<adapterSide, toolSide, files, faults>>

TimePasses ==
  /\ pc = "awaitResult" /\ ~expired /\ expired' = TRUE
  /\ UNCHANGED <<run, pc, result, failed, adapterSide, toolSide, files, faults>>

\* proc.terminate(), and proc.kill() if that is not enough.
Stop ==
  /\ pc = "stop" /\ Go("receipt")
  /\ adapter' = [adapter EXCEPT ![run] = "exited"]
  /\ UNCHANGED <<toAdapter, toRunner, toolSide, files, faults>>

\* write_text opens the receipt, which empties it, ...
OpenRunReceipt ==
  /\ pc = "receipt" /\ Go("writing")
  /\ runReceipt' = [run |-> 0, payload |-> 0]
  /\ UNCHANGED <<adapterSide, transcript, toolSide, faults>>

\* Mutant of WriteRunReceipt: the result is left out of the receipt.
WriteRunReceipt_NoResult ==
  /\ pc = "writing" /\ Go("ended")
  /\ runReceipt' = [run |-> run]
  /\ UNCHANGED <<adapterSide, transcript, toolSide, faults>>

\* ... and writes it.
WriteRunReceipt ==
  /\ pc = "writing" /\ Go("ended")
  /\ runReceipt' = [run |-> run, payload |-> result]
  /\ UNCHANGED <<adapterSide, transcript, toolSide, faults>>

-------------------------------------------------------------------------------
(* The adapter of run r *)

\* The runner of r is gone, and with it its ends of the pipes.
RunnerGone(r) == r < run \/ (r = run /\ pc = "ended")

Become(r, s) == adapter' = [adapter EXCEPT ![r] = s]

\* A message is written and the adapter goes on in state s; writing into the
\* pipe of a runner that is gone ends it.
Say(r, m, s) ==
  IF RunnerGone(r)
    THEN Become(r, "exited") /\ UNCHANGED toRunner
    ELSE Become(r, s) /\ toRunner' = [toRunner EXCEPT ![r] = Append(@, m)]

Hears(r, type) == toAdapter[r] # << >> /\ Head(toAdapter[r]).type = type
Consume(r) == toAdapter' = [toAdapter EXCEPT ![r] = Tail(@)]

OnHello(r) ==
  /\ adapter[r] = "fresh" /\ Hears(r, "hello") /\ Consume(r)
  /\ Say(r, Msg("hello_ack", "hello"), "greeted")
  /\ UNCHANGED <<runnerSide, toolSide, files, faults>>

SendCapabilities(r) ==
  /\ adapter[r] = "greeted"
  /\ Say(r, Msg("capabilities", "none"), "negotiated")
  /\ UNCHANGED <<toAdapter, runnerSide, toolSide, files, faults>>

\* IPC_PROTO_MISMATCH, in the adapter's own version, and exit.
OnMismatch(r) ==
  /\ adapter[r] = "otherVersion" /\ toAdapter[r] # << >> /\ Consume(r)
  /\ Say(r, Rejected, "exited")
  /\ UNCHANGED <<runnerSide, toolSide, files, faults>>

OnAck(r) ==
  /\ adapter[r] = "negotiated" /\ Hears(r, "capabilities_ack") /\ Consume(r)
  /\ UNCHANGED <<adapter, toRunner, runnerSide, toolSide, files, faults>>

\* An operation the adapter answers itself; or run_wrapper starts a tool and waits
\* for it.
OnInvoke(r) ==
  /\ adapter[r] = "negotiated" /\ Hears(r, "invoke") /\ Consume(r)
  /\ \/ Say(r, [Msg("result", "invoke") EXCEPT !.payload = r], "negotiated") /\ UNCHANGED tool
     \/ Say(r, Msg("error", "invoke"), "negotiated") /\ UNCHANGED tool
     \/ /\ Become(r, "working") /\ UNCHANGED toRunner
        /\ tool' = [tool EXCEPT ![r] = "running"]
  /\ UNCHANGED <<toolReceipt, meddlers, runnerSide, files, faults>>

\* The tool has failed: so does the operation.
ReportFailure(r) ==
  /\ adapter[r] = "working" /\ tool[r] = "failed" /\ tool' = [tool EXCEPT ![r] = "done"]
  /\ Say(r, Msg("error", "invoke"), "negotiated")
  /\ UNCHANGED <<toAdapter, toolReceipt, meddlers, runnerSide, files, faults>>

\* What the adapter makes of the receipt file: None if it cannot be read.
ReceiptPayload == IF toolReceipt \in Runs THEN toolReceipt ELSE 0

\* Mutant of ReadToolReceipt: run_wrapper does not wait for the tool it started.
ReadToolReceipt_NotAwaited(r) ==
  /\ adapter[r] = "working" /\ tool[r] # "failed"
  /\ UNCHANGED tool
  /\ Say(r, [Msg("result", "invoke") EXCEPT !.payload = ReceiptPayload], "negotiated")
  /\ UNCHANGED <<toAdapter, toolReceipt, meddlers, runnerSide, files, faults>>

\* The tool has passed: its receipt is read back, into the result.
ReadToolReceipt(r) ==
  /\ adapter[r] = "working" /\ tool[r] = "passed" /\ tool' = [tool EXCEPT ![r] = "done"]
  /\ Say(r, [Msg("result", "invoke") EXCEPT !.payload = ReceiptPayload], "negotiated")
  /\ UNCHANGED <<toAdapter, toolReceipt, meddlers, runnerSide, files, faults>>

\* Mutant of OnEnd: the end of the input is taken for an empty line.
OnEnd_ReadsOn(r) ==
  /\ adapter[r] \in {"fresh", "otherVersion", "negotiated"}
  /\ RunnerGone(r) /\ toAdapter[r] = << >>
  /\ UNCHANGED vars

\* The end of the adapter's input.
OnEnd(r) ==
  /\ adapter[r] \in {"fresh", "otherVersion", "negotiated"}
  /\ RunnerGone(r) /\ toAdapter[r] = << >> /\ Become(r, "exited")
  /\ UNCHANGED <<toAdapter, toRunner, runnerSide, toolSide, files, faults>>

-------------------------------------------------------------------------------
(* The tool of run r, which goes on if the adapter is killed *)

ToolGoes(r, s) == /\ tool' = [tool EXCEPT ![r] = s]
                  /\ UNCHANGED <<adapterSide, runnerSide, files, faults>>

Touch(r) ==
  meddlers' = [o \in Runs |-> IF o # r /\ tool[o] \in {"writing", "passed"}
                                THEN meddlers[o] \union {r} ELSE meddlers[o]]

\* It refuses its arguments and writes no receipt; or it never ends.
ToolRefuses(r) ==
  /\ tool[r] = "running" /\ ToolGoes(r, "failed") /\ UNCHANGED <<toolReceipt, meddlers>>
ToolHangs(r) ==
  /\ MayHang /\ tool[r] = "running" /\ ToolGoes(r, "hung")
  /\ UNCHANGED <<toolReceipt, meddlers>>

\* write_receipt opens the file, which empties it, ...
ToolOpens(r) ==
  /\ tool[r] = "running" /\ ToolGoes(r, "writing") /\ toolReceipt' = 0 /\ Touch(r)

\* ... and writes from its start, over what another tool has written since.  A
\* tool whose command failed writes its receipt and fails; so does one that
\* cannot write.
ToolWrites(r) ==
  /\ tool[r] = "writing" /\ Touch(r)
  /\ toolReceipt' \in {r} \union IF toolReceipt = 0 THEN {} ELSE {Garbled}
  /\ ToolGoes(r, "passed") \/ ToolGoes(r, "failed")
ToolCannotWrite(r) ==
  /\ tool[r] = "writing" /\ ToolGoes(r, "failed") /\ UNCHANGED <<toolReceipt, meddlers>>

-------------------------------------------------------------------------------
(* The environment: adapters other than the two here send progress messages and *)
(* broken lines, processes are killed                                           *)

Stray(r) ==
  /\ strays < MaxStrays /\ strays' = strays + 1 /\ Alive(r)
  /\ \E m \in {Msg("noJson", "none"), Rejected, Msg("error", "none")} \union
              (IF adapter[r] = "working" THEN {Msg("progress", "invoke")} ELSE {}) :
       Say(r, m, adapter[r])
  /\ UNCHANGED <<toAdapter, runnerSide, toolSide, files, deaths>>

AdapterDies(r) ==
  /\ deaths < MaxDeaths /\ deaths' = deaths + 1 /\ Alive(r) /\ Become(r, "exited")
  /\ UNCHANGED <<toAdapter, toRunner, runnerSide, toolSide, files, strays>>

RunnerDies ==
  /\ deaths < MaxDeaths /\ deaths' = deaths + 1 /\ pc # "ended" /\ Fail
  /\ UNCHANGED <<adapterSide, toolSide, files, strays>>

-------------------------------------------------------------------------------

RunnerStep == \/ SendHello \/ HandshakeReads \/ SendAck \/ SendInvoke \/ InvokeReads
              \/ ReadsEnd \/ Stop \/ OpenRunReceipt \/ WriteRunReceipt

AdapterStep(r) == \/ OnHello(r) \/ SendCapabilities(r) \/ OnMismatch(r) \/ OnAck(r)
                  \/ OnInvoke(r) \/ ReportFailure(r) \/ ReadToolReceipt(r) \/ OnEnd(r)

ToolStep(r) == \/ ToolRefuses(r) \/ ToolHangs(r) \/ ToolOpens(r) \/ ToolWrites(r)
               \/ ToolCannotWrite(r)

Next ==
  \/ Start \/ StartFails \/ RunnerStep \/ TimePasses \/ RunnerDies
  \/ \E r \in Runs : AdapterStep(r) \/ ToolStep(r) \/ Stray(r) \/ AdapterDies(r)

Spec == Init /\ [][Next]_vars

\* Processes are scheduled and time passes.
FairSpec ==
  /\ Spec /\ WF_vars(RunnerStep) /\ WF_vars(TimePasses)
  /\ \A r \in Runs : WF_vars(AdapterStep(r)) /\ WF_vars(ToolStep(r))

-------------------------------------------------------------------------------
(* Properties *)

TypeOK ==
  /\ run \in 0 .. MaxRuns /\ expired \in BOOLEAN /\ result \in 0 .. MaxRuns
  /\ failed \subseteq Runs /\ meddlers \in [Runs -> SUBSET Runs]
  /\ pc \in {"hello", "awaitCapabilities", "acknowledge", "invoke", "awaitResult", "stop",
             "receipt", "writing", "ended"}
  /\ adapter \in [Runs -> {"absent", "fresh", "otherVersion", "greeted", "negotiated", "working",
                           "exited"}]
  /\ tool \in [Runs -> {"none", "running", "writing", "passed", "failed", "done", "hung"}]
  /\ toAdapter \in [Runs -> Seq(Messages)] /\ toRunner \in [Runs -> Seq(Messages)]
  /\ transcript \in [run : 0 .. MaxRuns, messages : Seq(Messages)]
  /\ runReceipt \in [run : 0 .. MaxRuns, payload : 0 .. MaxRuns]
  /\ toolReceipt \in 0 .. Garbled
  /\ strays \in 0 .. MaxStrays /\ deaths \in 0 .. MaxDeaths

\* The transcript explains the run receipt beside it: if it is of the same run,
\* the handshake, the invoke and its result are in it, in this order, whatever
\* else the adapter wrote in between.
TranscriptExplainsReceipt ==
  runReceipt.run > 0 /\ runReceipt.run = transcript.run =>
    LET At(i, type) == i \in DOMAIN transcript.messages /\ transcript.messages[i].type = type
        n == Len(transcript.messages)
    IN /\ At(1, "hello") /\ At(n, "result") /\ transcript.messages[n].payload = runReceipt.payload
       /\ \E h, c, a, i \in 1 .. n : /\ h < c /\ c < a /\ a < i
                                     /\ At(h, "hello_ack") /\ At(c, "capabilities")
                                     /\ At(a, "capabilities_ack") /\ At(i, "invoke")

\* A run receipt reports what its own run's tool did.  If not, it holds the receipt
\* of an earlier run's tool, or none, and that run had failed and its tool touched
\* the file they share between the own tool's opening it and its being read.
OwnResultUnlessAbandoned ==
  \/ runReceipt.payload = runReceipt.run
  \/ \E r \in failed : /\ r < runReceipt.run /\ r \in meddlers[runReceipt.run]
                       /\ runReceipt.payload \in {0, r}

\* No invoke reaches an adapter that has not been through the handshake, so
\* IPC_STATE ("invoke before handshake") is never sent.
NoInvokeBeforeHandshake ==
  \A r \in Runs : adapter[r] \in {"fresh", "greeted"} =>
                    \A i \in 1 .. Len(toAdapter[r]) : toAdapter[r][i].type # "invoke"

\* Every run ends, and so does every adapter, unless a tool hangs: nobody waits
\* for ever for a message of a process that is gone.
EveryRunEnds == (pc # "ended") ~> (pc = "ended" \/ tool[run] = "hung")
NoAdapterIsLeft ==
  \A r \in Runs : (pc = "ended" /\ Alive(r)) ~> (~Alive(r) \/ tool[r] = "hung")

\* An invoke whose time has passed comes to an end ("timed out waiting for
\* result").
TimeoutEndsInvoke == (pc = "awaitResult" /\ expired) ~> (pc # "awaitResult")
===============================================================================
