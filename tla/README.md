# Specifications of workstation-contracts

TLA+ models of this repository's stateful and deciding code, the TLC runs that
check them, and TLAPS proofs about the hash-chained receipt ledger, the programs
that write and audit it, the sessions of the IPC runner and the make targets that judge
the repository.

Paths are relative to the root of the repository. `EM` stands for
`tools/inference_receipt_emitter.py`, `GW` for `tools/receipt_gateway.py`,
`RUN` for `reference/ipc-v0/src/contract_runner/runner.py`.
`PROJECT.json` maps every definition to its lines.

## 1. Inventory

| component | state | operations | interacts with |
|---|---|---|---|
| receipt emitter (`EM`) | the ledger file, the flock on it, one write buffer per call | `emit_receipt`: open, lock, read the tail, build, write, flush, unlock, close | called by the gateway's threads, the shim, and any other process of the host; they share the file and its advisory lock |
| ledger verifier (`EM`, `tools/validate_live_receipts.py`) | a loop over the lines; over the ledgers a total | `verify_ledger`; `main` lists the ledgers and reads each one twice | reads, without the lock, the file the emitters write |
| receipt gateway (`GW`) | the cached single digest, the digest map, one thread per request | `do_POST`, `do_GET`: route, resolve the digest, forward, emit, translate, respond | clients and a backend over HTTP; the emitter |
| CLI shim (`tools/inferenced_shim.py`) | the list of prompts, the digest of the weights | run `llama-cli`, emit, prompt by prompt | the emitter; the weights file, which others may replace |
| IPC runner (`RUN`) | transcript, run receipt, adapter process | `main`, `handshake`, `invoke` | an adapter over its stdin and stdout; the output directory |
| IPC adapters (`reference/ipc-v0/src/adapters/`) | what has been negotiated; the receipt file of the wrapped tools | message loop, `run_wrapper` | the runner; the wrapper scripts in `reference/ipc-v0/tools/` |
| conformance gate (`Makefile`, `.github/workflows/validate.yml`) | position in the recipe, exit statuses | `make validate` and the targets it calls | every validator, as processes |
| workstation contract validator (`tools/validate_contract.py`) | the flag `ok` | rules for contracts and agent passports | the gate |
| host-interface validator (`tools/validate_host_interface.py`) | the flag `ok` | `grant_valid`, `check`, `main` | the gate |
| model plane validator (`tools/validate_model_plane.py`) | the worst result | schema dispatch on `type`, three exit statuses | the gate |
| workspace-ops validator (`tools/validate_workspace_ops.py`) | a flag | dispatch on `schemaVersion`, rules for contracts | `make validate-workspace-ops`; a copy of its rules is in the contract validator |
| fog-node checker (`tools/check_fog_node.py`) | the evidence file | an offline check of the contract, a check of the host | the gate; a person, on the host |
| seam registry validator (`tools/validate_seam_registry.py`) | the flag `ok` | rules over a list of seams | the gate |
| contract v0.2 and truth plane validators (`tools/validate_contract_v0_2.py`, `tools/validate_sourceos_truth_plane.py`) | the first failure | rules over lanes; the search for a checkout of the specifications | a person |
| LRK and protocol binding validators | the first failure | whether fields are there | a person |
| schemas, fixtures, contracts, examples, semantic data | none | data | the validators |
| deployment (`deploy/`) | none | configuration | the gateway |

What is hard, and what correctness means, per component:

- *Emitter.* Several processes and threads append to one file; they may be killed
  at any step, a write can fail half-way, nothing is synced. Correct: the ledger
  is one unbroken chain with consecutive numbers; a returned receipt is on it; no
  number is returned twice; damage is never buried; no error path keeps the lock.
- *Verifier.* A loop with a carried value and two boundaries. Correct: it accepts
  exactly the ledgers that meet every demand on every line, and in a ledger it
  accepts an unaltered entry vouches for all before it.
- *Gateway.* Concurrent requests, many ways for the backend to answer, exceptions
  between the backend's completion and the client's response, a request that the backend
  can read and the gateway cannot, a digest resolved before the model runs. Correct: no
  completion without a receipt, no receipt twice, no receipt for another model.
- *Runner and adapters.* Two processes waiting on each other's lines, either of
  which can be killed; lines nobody asked for; adapters, and tools that outlive them,
  left over from earlier runs and writing to the same file; a timeout. Correct: the
  transcript explains the receipt beside it, the result is of the run's own tool, an
  invoke follows a handshake, everybody ends.
- *Shim and auditor.* A digest taken once and used for many completions; a loop that
  an exception ends half-way; a file that grows between a listing, a first and a second
  reading, none of them locked. Correct: a shim's receipts are those of its prompts
  without a gap and name the weights that ran; an audit fails for a reason, and what it
  passes was right.
- *Gate and validators.* Exit statuses of many processes folded into one by four
  kinds of loops; rules that exist in two copies; an evidence file that two programs
  write. Correct: green means that every document that must pass obeys its rules and
  that every one that must not did not pass; the copies agree; the evidence is of this
  run. (Whether a bad document was rejected for a rule or for an exception, most loops
  cannot tell.)

`hazards` in `PROJECT.json` lists each such place with its line and the property
that watches it, or why none does.

## 2. Modules

```
Receipts                 receipts, digests, chains
 +- HashChain            the abstract ledger: a log to which built receipts are added
 +- ReceiptLedger        emit_receipt, step by step, with failures   => HashChain
 |    MCReceiptLedger
 +- VerifyRules          what verify_ledger demands of a line
      +- LedgerVerify    verify_ledger as a loop
           MCLedgerVerify
ReceiptLedger + VerifyRules
 +- LiveReceipts         shims, other emitters and an auditor on one ledger
      MCLiveReceipts                                              => ReceiptLedger
ReceiptGateway           the gateway's threads, on a HashChain ledger
    MCReceiptGateway
IpcSession               runner, adapters, pipes, files
ContractRules --- WorkspaceOpsRules --+
HostInterface      ModelPlaneRules  --+-- ConformanceGate    the make targets
SeamRules          FogNode          --+     MCConformanceGate

proofs: ReceiptTheorems, ReceiptLedgerProofs, LedgerVerifyProofs, LiveReceiptsProofs,
        ReceiptGatewayProofs, IpcSessionProofs, ConformanceGateProofs
```

**Receipts.** A receipt is its number, the digest it carries and a body (all the
other fields). The digest of an entry stands for the whole history before it: it is
the sequence of (number, body) pairs up to that entry, so that SHA-256 over the
canonical JSON is injective, as the code relies on. `Garbage` is what
`json.loads` cannot parse.

**ReceiptLedger.** The file is its complete `lines` and the pieces `frag` after the
last newline. A receipt is written as three pieces (half of its text, the other half,
the newline), the coarsest cut at which a torn text and a lost newline differ.
`Call`, `Lock`, `BuildReceipt`, `Flush`, `Unlock`, `Finish` are the statements of
`emit_receipt`; `BuildRaises` and `FlushFails` its exceptions; `CloseFlush` and
`CloseDrops` what the `with` block does with a write buffer that is not empty.
`Crash` and `PowerLoss` are the environment: a killed process loses its buffer and
its lock, a power loss keeps any prefix of the file.

**LedgerVerify.** `written` is a ledger as emitted, `found` what is read; `i` and
`prev` are the loop's variables.

**LiveReceipts.** It adds to `ReceiptLedger` a state per shim (`shim[s].at` is where
`main` is, with the prompts and the digest taken at the start), the `weights` file, which
anybody may replace, and one `audit`. Two histories say what a digest is measured
against: `since`, the weights when the shim started, and `ran`, those of each completion.
A shim's steps are `ShimBegins`, `ShimRefuses` and `ShimStarts` (usage; then the digest
and the prompts), `Completes` and `CompletionFails` (one run of `llama-cli`), `ShimCalls`
and `ShimEmits` (a step of `emit_receipt`, after whose last one the loop goes on, ends, or
is left by its exception). The other emitters are threads of the gateway, of whose receipts
some do not conform to the schema: the gateway copies the backend's usage counts. The
auditor's steps are `AuditStarts` (the listing), `AuditReads` (the first reading, to
count), `AuditVerifies` (the second, by `verify_ledger`) and `AuditCannotRead` (the schema
or a ledger does not open, or is no text); each reading is of what the file holds at that
moment, half a line included. A listing may hold committed ledgers beside the live one:
nobody writes to them, and what they hold is anything, altered entries included.
`ThreadEmits` and the shims' steps take steps of `ReceiptLedger`, so that the composition
implements it.

**ReceiptGateway.** One thread per request: `Receive` (read, resolve the digest),
`Forward` or `RefuseBody`, `BackendAnswers` (the environment), then exactly one of
`Unreachable`, `AnswerRaises`, `PassOn`, `Emit`, `EmitRaises`, then `Respond`. A request
body is a JSON object, other JSON, or no JSON; the backend may answer each as it likes. The
gateway parses the body again once it has the answer, and hands on without a receipt
(`PassOn`) a completion whose request it cannot parse. The
backend runs the model it is asked for, or the loaded one; the Ollama routes ask for
none. `Deployments` are the configurations of a gateway and its backend that the run
covers: one with a digest map and one with a single model.

**IpcSession.** Each run has an adapter, two pipes and, when the adapter starts one, a
tool; the files are shared by all runs. The adapters of earlier runs go on while the next
run is under way, and a tool goes on when its adapter is killed. A receipt is written in
two steps, the file being empty in between: `ToolOpens` and `ToolWrites` for the tools',
`OpenRunReceipt` and `WriteRunReceipt` for the runner's. Two tools that write at once
leave either receipt or a `Garbled` one. `ReadToolReceipt` makes an empty, missing or
garbled one None and the operation a success, as `run_wrapper` does. The history
`meddlers` says for each run whose tools touched the file between its own tool's opening
it and its adapter's reading it.

**The rules.** Each of these modules is one validator as a function: the set of
documents of every shape its code tells apart, its exit status for each, exceptions
included, and, stated on its own, what its rules are there for (`Obeys` and its
like).

- `ContractRules` (`validate_contract.py`): sentinel images, evidence, pinning and
  steps of every lane, by its own lists of patterns and evidence; the exception on a lane
  without its backend's block.
- `WorkspaceOpsRules` (`validate_workspace_ops.py`): the choice of a schema by
  `schemaVersion`, and the rules for contracts that opt in, by lists that are separate
  from those of `ContractRules`, as in the code. `CopiesAgree` compares the two statuses
  for one contract, in both directions; the second one only where no rule that is
  `validate_contract.py`'s alone decides.
- `HostInterface` (`validate_host_interface.py`): the grant. A timestamp is a text: date
  and time to the second, then a spelling (a fraction or none, `Z`, `z`, `+00:00` or an
  offset), or a text that is no timestamp. `TextLE` is the order of the strings, `Instant`
  the time they stand for.
- `ModelPlaneRules` (`validate_model_plane.py`): the conditional rules of the four
  vendored schemas, where a field may be absent, null or given; the three statuses, and
  the exceptions on a file that is no UTF-8 and on JSON that is no object.
- `SeamRules`: the loop over the seams, as a status.
- `FogNode`: the failures the offline and the host lane find.

**ConformanceGate.** `Targets` are the recipes of `make validate` and `make
validate-workspace-ops`, line by line. A line has one of four manners: a single command
(`Once`), a shell loop whose status is that of its last command (`ShellLoop`), a shell
loop over documents that must be rejected (`BadLoop`), a validator that loops itself
(`OwnLoop`). Each step gives the validator of the line a document and keeps in `seen`
what became of it: the status, whether the document keeps the rules, whether it was
judged at all, and whether the copy of the rules agrees. The fog node's line is
`FogChecks`, `FogOpens` and `FogWrites`, because `write_text` empties the file before it
writes; `FogFails` is an `OSError` of either, and `Killed` the end of the job there. The
host lane writes the same file in two steps of its own (`HostOpens`, `HostWrites`), so
that the file may be empty, or hold a mixture. The seam registry, `EM --selftest` and
the audit of the live ledgers are exit statuses here: `LedgerVerify` and `LiveReceipts`
are about what the last two do.

## 3. Runs

| run | configuration | shows |
|---|---|---|
| `ledger_concurrent` | a shim with 2 prompts, 2 threads with a call each, 1 replacement of the weights, an auditor that finds nothing, or the live ledger after a good committed one or after an altered one; no failures of the ledger | the lock excludes; one unbroken chain; returned receipts on the line of their number; the lines implement `HashChain`; what is emitted is accepted; audits fail for a reason and vouch for every ledger they passed; shims leave no gap and name weights of their own time |
| `ledger_faults` | 2 emitters, 2 calls, 2 crashes, 1 power loss, 1 failing write, weak fairness | until a write fails, a chain with at most the last line damaged; nobody writes after damage; every call ends |
| `verify` | every ledger of up to 3 entries under every replacement, removal, repetition, exchange and truncation | the verdict is right; survivors vouch |
| `gateway` | 2 requests, all routes, bodies that are objects, other JSON or no JSON, 2 deployments, failing emitter, 1 replacement of the weights | a completion has its receipt or its request was no JSON; none has two; receipts name the model that ran, where the gateway can know |
| `ipc` | 2 runs, 1 stray line, 1 kill, tools that outlive their adapters or hang, weak fairness | transcript and receipts agree; a result is the own tool's unless a failed run's tool meddled; handshake first; everybody ends |
| `gate` | 2 targets, 3 documents a line, 2 lanes, 3 seams, 1 run of the host lane, one spelling of timestamps | what green means, that the copies of the rules agree, and what the fog node's evidence says |

Six runs show disagreements between the code and what it says of itself
(`findings` in `PROJECT.json` quotes the lines):

| run | disagreement |
|---|---|
| `ledger_write_error` | if `flush()` raises, `finally` releases the lock while the line is in the buffer; `close()` writes it afterwards, behind another entry with the same number |
| `ledger_cut_newline` | a process is killed when all of its line but the newline is in the file; that tail parses, so the next receipt is glued to it: returned to its caller, readable by nobody |
| `gateway_ollama_model` | the Ollama routes forward no model name, and the receipt carries the digest of the model the client named |
| `ipc_timeout` | `timeout_ms` is looked at only when another reply has come in: a silent adapter is waited for for ever |
| `gate_good_contracts` | the shell loop over `conformance/good` keeps the status of its last command, so a rejected good contract does not stop `make` |
| `gate_offsets` | expiry is decided by comparing texts, and nothing holds them to one spelling or to being timestamps: fractions, `+00:00` beside `Z`, offsets or any word let a grant that has expired admit |

Smaller ones have no run of their own. The properties state what does hold instead, or a
hazard has a note:

- A last entry that was altered passes (`docs/inference-receipt-emitter.md:12` says
  mutating any entry breaks the chain); `SurvivorsVouch` excepts it.
- The gateway's single digest and the shim's digest go stale when the weights are
  replaced; `OwnReceiptsNameTheModel` says until when the gateway's is right,
  `ShimReceiptsNameTheWeights` that a shim's is one the file had between the shim's start
  and the completion.
- `tools/receipt_gateway.py:9` says that every completion gets a receipt, but one whose
  request body is no JSON is handed on without (lines 118-122) by a gateway without a
  digest map; `NoCompletionUnreceipted` excepts it.
- A usage count that does not conform enters the ledger unchecked and makes every later
  audit fail; `AlarmsHaveACause` says that, of the ledger being written, besides it only
  its being empty or a line in the making does, and otherwise a file that cannot be read
  or a committed ledger at fault.
- An adapter reads a receipt that another run's tool has emptied or written since, and
  reports it, or None, as a success; `OwnResultUnlessAbandoned` says when.
- `tools/validate_model_plane.py:60-62` reserves 1 for a rejection by the schema, but a
  file that is no UTF-8 (lines 69-70) and JSON that is no object end in an exception,
  which exits with 1 too, and so count as rejections of a bad fixture;
  `GreenMeansModelPlane` excepts both. The other suites of bad documents take every
  status but 0 for a rejection, a missing file's included.
- A fixture whose `schemaVersion` is not mapped, or absent as in
  `fixtures/workspace-ops/file-conflict.json`, is accepted unexamined;
  `GreenMeansWorkspaceOps` speaks of the examined ones.
- An exception of the fog-node check leaves the evidence of an earlier run in place, and
  one of writing its receipt may leave an empty file; `FogEvidence` excepts both.
- Without `fcntl` there is no lock, tool calls leave no receipt, a failed run leaves no
  run receipt, a sentinel lane's evidence is not looked at, negotiated capabilities
  are compared with nothing.

**Bounds and why they are enough.** Emitters interact through the lock and the tail
only: three show a waiter overtaken by another, a shim's two calls a reader of somebody
else's line and of one's own. A shim's loop has a first and a last prompt. The auditor's
listing has a ledger that does not change before the one that does. Two crashes allow one
in a write and one after the damage; one power loss cuts anywhere. Three entries are a
first, a middle and a last one. Two requests are all that can meet on the ledger, since
threads share nothing else. Two runs are the least in which an adapter is left over from
an earlier one. Two lanes and three documents are a first, one between and a last; three
seams are the two expected ones and a double or a foreign one; a fog node's line counts
to two. Where theorems exist they remove these bounds. Bounds on calls, failures,
strays and kills are constants named and commented in their modules;
`CHECK_DEADLOCK FALSE` is in all configurations because each system ends when its
calls, requests, runs, lines or documents are done.

**Fairness.** `ReceiptLedger!Fairness`: an emitter that can take a step of a call it
has begun does. It rests on the scheduler alone; calls need not begin, and nothing
is assumed of crashes. Waiters on the lock are weakly fair: calls are bounded, so
the lock becomes free and stays free. `IpcSession!FairSpec`: runner and
adapters are scheduled and time passes; nothing makes a wrapped tool end if it hangs
(`ToolHangs`), so the two liveness properties except exactly that case.
`LiveReceipts`, gateway and gate need no fairness: their properties are invariants.

**Mutants.** For every property of a passing run one definition has a mutated form
beside it, a mistake the code could plausibly make (no flush under the lock, a shared
lock, unlocking on the normal path only, the first reply taken for the result, a tool
that is not waited for, statuses added up instead of their maximum, a pattern missing
from one of two lists, ...), under which the property fails.

## 4. Proofs

`ReceiptTheorems` has lemmas about digests (injective), `Build`, and chains under
`Append` and truncation.

`ReceiptLedgerProofs`, for any number of emitters, calls, crashes and losses:

- `LockSafety`: `TypeOK` and `LockExclusive`, with no assumption beyond the
  constants' types. The inductive invariant `BaseInv` adds `LocalOK`, which ties an
  emitter's draft, buffer and exception to its place in `emit_receipt`.
- `ChainSurvivesFaults`: `ChainUpToDamage`, assuming the lock exists. `ChainInv`
  strengthens it: no buffer is left to `close()`, the bytes after the last line
  continue an undamaged chain, and a writer's receipt follows that chain or else is
  written behind bytes that already make it unreadable. It is inductive as long
  as `writeErrors = 0`; `NoErrorUndone` says that this only ever becomes false.
- `ConcurrentChain`, `ConcurrentReturns`, `LedgerImplementsHashChain`, assuming that
  nothing fails: `ChainUnbroken`, `ReturnedOnLedger` and `NoSequenceReuse`, and the
  refinement of `HashChain`. `QuietInv` adds to the above that the bytes after the last
  line are exactly what the one writer has sent, and that written and returned
  receipts have numbers of their own. Without it a number could be returned twice
  by a call that wrote early and returned late.
- `DamageEndsTheLedger`: `DamageIsTerminal`, whatever fails and even without a lock.
  `BaseInv` says where a call can have a line in its buffer (`WritersArePending`): an
  unreadable tail found while nobody has one makes every later call raise before it
  builds a receipt (`DamageStays`).
- `DuplicatesNeedAFailedWrite`: with a lock, `NoDuplicateSeq` holds as long as
  `writeErrors = 0`, so that the failed write of run `ledger_write_error` is the only way
  to two lines with one number. It follows from `ChainInv`: a receipt of an unbroken
  chain has the number of its line.

`LedgerVerifyProofs`, for ledgers of any length: `VerifierTypes` (its `TypeOK`, which is
inductive), `VerdictCorrect` and `TamperEvidence`, from `LoopInvariant` (the lines
passed meet all demands, `prev` is the last of them) and, by injectivity of digests, an
induction carried out by the loop itself (`Vouched`).

`LiveReceiptsProofs`, for any number of shims, prompts, threads and replacements.
`LiveUsesTheLedger` shows that the composition implements `ReceiptLedger`, so that
its invariants can be used. Two theorems assume nothing of the lock or of failed writes:

- `LiveTypes`: `LiveTypeOK`. `LiveTypeInv` adds that a shim which is about to run a
  completion has a prompt left (`ProgressOK`), without which one that failed could have
  run more completions than it has prompts.
- `AuditsVouch`: `AuditVouches`, of every ledger in the listing: nothing is assumed of what
  the committed ones hold. The file of an appended ledger only gets longer, and so
  does what a reader finds in it, the half-written line included (`LedgerGrows`); the
  beginning of a ledger that passes passes (`BeginningPasses`). `VouchInv` says at
  each point of the auditor's loop that the ledgers behind it passed, that what it counted
  lies between their length when it began and their length now (`Verified`), and the same
  of the first reading it has not yet added (`FirstInBetween`). The count over the listing
  is a recursive function. That it has a value at all (`SumExists`, `CountsIs`), and that
  it grows with the ledger (`CountsGrow`), is shown by induction in the form of a statement
  about sets of numbers (`Induction`), from the fact that such a set has a least element.

The other four assume, like `QuietInv`, a lock and no failures of the ledger:

- `EmittersMeetTheVerifier`: `EmittedIsAccepted`, from `QuietInv` alone: what `Build`
  writes is what `verify_ledger` demands of a line.
- `NoFalseAlarm`: `AlarmsHaveACause`. `AuditInv` is the property with the types of the
  auditor's record; the step that matters is that every reading of the ledger being
  written passes or is a chain up to its last line, which is then being written. An alarm
  for a committed ledger is right by what that ledger holds.
- `ShimsLeaveNoGap`, `ShimsNameTheirWeights`: from `ShimInv`, per shim: where `main` is
  decides how many calls it has made (`PhaseOK`), the receipt under way is that of the
  last completion and newer than all returned ones (`DraftOK`), the returned ones are in
  order and complete (`ReturnsOK`), the digest is no older than the weights at the shim's
  start and no newer than any weights that ran (`WeightsOK`).

`ReceiptGatewayProofs`, for any number of requests, models and deployments:
`GatewayTypes`, `CompletionsAreReceipted` (a completion that was passed on has a receipt,
unless its request was no JSON on a gateway without a map), `CompletionsAreReceiptedOnce`
(no request has two receipts, or one without a completion) and
`ReceiptsNameWhatRan`, from `GatewayInv`: per request, no receipt before the answer has
been dealt with and at most one afterwards (`ReceiptOK`), and the digest resolved at the
start is that of what ran (`ModelOK`).

`IpcSessionProofs`, for any number of runs, stray lines, kills and timeouts. `IpcInvariant`
shows `IInv` to be inductive; `IpcTypes`, `ReceiptIsExplained`, `ReceiptIsOwn` and
`InvokeAfterHandshake` are what it says of the run's four invariants. What a receipt
proves about its transcript is decided long before either is written, in another process
and a pipe, so `IInv` follows the messages:

- `BeforeHandshake`: an adapter before the end of its handshake has sent no
  capabilities, so its runner is not past waiting for them and has sent no invoke.
- `AnswersInOrder`: capabilities come after `hello_ack`, whether that is still in the
  pipe or already in the transcript; `TranscriptSoFar` adds to it, phase by phase, what
  the runner has written itself. Both give `TranscriptExplainsReceipt`.
- `NoneLeftBehind`: the adapter of a run that did not fail is gone before the next run.
- `OneInvoke`: a run has one invoke, which is in the pipe, with the tool, or answered; so
  the tool of a run that did not fail has come to its end before the next run.
- `OwnResults`: what the tools' file holds once the tool of the run that is on has passed,
  a result in its pipe, and the result its runner has taken are its own, or else due to a
  failed run among its `meddlers`. Of the run receipt this is `OwnResultUnlessAbandoned`,
  which alone is not inductive: it says nothing of the results that are still on their
  way.
- `RunsInOrder`: later runs have no adapter and empty pipes.

Every step of an adapter is an `Effect` on its own state, its pipes and the tools' file;
every step of the runner is one of eight kinds (`RunnerCases`). Each conjunct of
`IInv` has a lemma that says all of these keep it.

`ConformanceGateProofs`, for any number of documents, lanes, seams and paths. A lemma
per validator says that its status decides its rules. `Core` says of each line what its
documents have been: `Passed` of those make has gone past, `Underway` of the one that
runs. From both: `ModelPlaneTeeth`, `LawfulExamples`, `WorkspaceOpsTarget`,
`TheCopiesAgree` (the two validators' lists, as they are written here and in the code,
decide alike on every contract); `DenyByDefault` assumes that all timestamps are spelt
in one way (`OneSpelling`), without which `gate_offsets` refutes it;
`EvidenceIsOfThisRun` follows with `EvidenceTells`, which is `FogEvidence` without what
`Core` says of the line; `GateTypes` assumes that `MaxFixtures` is at least 2, as the
fog node's line counts its steps.

The assumptions are those on the constants, which TLC evaluates in every run: `Garbage`
and `NoReceipt` are no receipts; the emitters are no `NoEmitter`; a shim's receipts conform
(`PromptsOfAShim`); a listing is of the live ledger and of sequences of lines
(`ListedLedgers`); the seams and paths that are expected are none of the others; the bounds
are naturals. One of them limits what is shown of the gateway (`ConfiguredForBackend`): the
models in its digest map are served by its backend under their names, with the weights of
the map, or its one digest is at first that of the backend's only model. A map that is
wrong is no bug of the gateway; of the weights only those of the default model are ever
replaced.

Of the properties of the passing runs only the three liveness properties are
model-checked and not proved: `EveryCallEnds`, `EveryRunEnds` and `NoAdapterIsLeft` need
fairness and `ENABLED`, which are out of the prover's reach. The properties of the six
disagreement runs are false.

## 5. Not modelled

- HTTP parsing, JSON canonicalisation, regular expressions and JSON schemas: one
  value each of what their result is. SHA-256 is injective.
- `/health`, `--selftest`, usage messages: no state.
- Windows (no `fcntl`) is a constant of `ReceiptLedger` no run sets to `FALSE`.
- The contract v0.2 and truth plane validators: a person calls them, no target does. The
  one is a conjunction of tests on a document, the other a search for a checkout of
  another repository and one schema call per payload; a property of a model of either
  would repeat its tests. What is odd in them is among the hazards.
- The three LRK validators and the protocol binding validator: each is a sequence of
  tests whether a field is there and equal to a constant, up to the first that fails.
  Nothing is carried from one test to the next, nobody else reads what they read, and a
  property of a model of them would repeat their conditions.
- The arguments the IPC wrapper scripts check (hexadecimal digits, paths).
- Inspecting the host (`lvs`, paths) is an input of `FogNode`.
- Schemas, fixtures and examples are data; deployment is configuration.

## 6. Plan

Order: what several actors share comes first (ledger, gateway, IPC), then the
programs that decide (gate and validators), then proofs.

Done: all modules of section 2, the runs of section 3, the proofs of section 4.

Next, proving: what the refinement of `HashChain` becomes when writes are torn (the
undamaged part of the ledger as the abstract log); for the liveness properties the
safety half of their arguments, a measure that every fair step decreases.

Next, extending: failures of the ledger in `LiveReceipts` (a shim that crashes while it
writes, an auditor of a damaged ledger), when their state spaces can be kept
small. Runs stay few: the disagreement runs make room as their findings are settled.
