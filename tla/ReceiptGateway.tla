---------------------------- MODULE ReceiptGateway ----------------------------
(***************************************************************************)
(* The receipt-emitting proxy (tools/receipt_gateway.py): one thread per   *)
(* request, each of which resolves the digest of the model, forwards the   *)
(* request to the backend, adds a receipt of a completion to the ledger    *)
(* and answers the client.  The ledger is the abstract one of HashChain,   *)
(* which emit_receipt implements while nothing fails; a failing            *)
(* emit_receipt raises, and may or may not have left its receipt behind.   *)
(*                                                                         *)
(* The digest of a model's weights is the model itself.  What the backend  *)
(* answers is one of the few kinds the gateway tells apart.                *)
(***************************************************************************)
EXTENDS Integers, Sequences, FiniteSets

CONSTANTS Requests,     \* one thread of the ThreadingHTTPServer each
          Models,
          NoModel,      \* None: no model named, no digest known
          Deployments,  \* the gateways and backends that are run, see below
          Routes,       \* bound: the routes the clients use
          EmitCanFail,  \* bound: whether emit_receipt may raise
          MaxSwaps,     \* bound: how often the backend's weights are replaced
          Garbage, NoReceipt

\* A gateway and its backend: the keys of RECEIPT_GATEWAY_MODEL_DIGESTS, the
\* single-model digest that was resolved when serving started, the models the
\* backend serves by name, the one it runs when no such name is given.
DeploymentRecords == [mapped : SUBSET Models, single : Models \union {NoModel},
                      catalogue : SUBSET Models, firstLoaded : Models]

\* The gateway is configured for its backend: it maps models the backend serves,
\* or is the single-model gateway of a single-model backend.
ASSUME ConfiguredForBackend ==
  /\ NoModel \notin Models /\ Deployments \subseteq DeploymentRecords
  /\ \A d \in Deployments : /\ d.mapped \subseteq d.catalogue
                            /\ d.mapped = {} => d.single = d.firstLoaded /\ d.catalogue = {}
ASSUME GatewayBounds == MaxSwaps \in Nat /\ EmitCanFail \in BOOLEAN

OpenAI == {"chat", "embed"}                \* _SUPPORTED
Ollama == {"ollamaChat", "ollamaEmbed"}    \* _OLLAMA
\* A request body: a JSON object, other JSON, no JSON.
BodyKinds == {"object", "nonObject", "nonJson"}

\* What comes back from the backend: a completion (or vectors), one whose usage
\* counts are not what the receipt schema allows, one with a tool call or null
\* content (or no vectors), JSON of another shape; a stream or another type, JSON
\* that does not parse; a non-2xx status; no connection; a read that times out.
Completions == {"text", "oddUsage"}
Answers == Completions \union
             {"noText", "oddShape", "stream", "brokenJson", "error", "down", "stalled"}

NoAnswer == "none"
Closed   == "closed"                       \* the connection ends with no response
Replies  == Answers \union {NoAnswer, Closed, "400", "502"}

\* Only an object names a model.
RequestRecords ==
  {r \in [route : Routes, body : BodyKinds, model : Models \union {NoModel}] :
     r.body # "object" => r.model = NoModel}
ReceiptBodies  == [request : Requests, digest : Models, task : {"chat.completion", "embedding"},
                   conformant : BOOLEAN]

VARIABLES deployment,
          ledger,    \* the hash-chained ledger
          loaded,    \* the model the backend runs by default
          swaps,
          phase,     \* where each thread is
          req,       \* the request it serves
          digest,    \* what _resolve_digest gave it
          ran,       \* history: the model the backend ran for it
          answer,    \* what the backend answered
          reply      \* what the client is to get, or got

thread == <<phase, req, digest, ran, answer, reply>>
vars   == <<deployment, ledger, loaded, swaps, phase, req, digest, ran, answer, reply>>

Chain == INSTANCE HashChain WITH log <- ledger, Bodies <- ReceiptBodies

-------------------------------------------------------------------------------

\* Mutant of ResolveDigest: an unmapped model falls back to the single digest.
ResolveDigest_FallsBack(m) == IF m \in deployment.mapped THEN m ELSE deployment.single

\* _resolve_digest: a map is authoritative; otherwise the single digest, which
\* _single_digest cached when serving started.
ResolveDigest(m) ==
  IF deployment.mapped = {} THEN deployment.single
  ELSE IF m \in deployment.mapped THEN m ELSE NoModel

\* What the backend is asked for: the Ollama routes are rewritten to an OpenAI
\* request that carries no model.
AskedFor(r) == IF r.route \in Ollama THEN NoModel ELSE r.model

Init ==
  /\ deployment \in Deployments
  /\ ledger = << >> /\ loaded = deployment.firstLoaded /\ swaps = 0
  /\ phase = [q \in Requests |-> "idle"]
  /\ req \in [Requests -> RequestRecords]
  /\ digest = [q \in Requests |-> NoModel]
  /\ ran = [q \in Requests |-> NoModel]
  /\ answer = [q \in Requests |-> NoAnswer]
  /\ reply = [q \in Requests |-> NoAnswer]

Move(q, from, to) == phase[q] = from /\ phase' = [phase EXCEPT ![q] = to]

\* The thread answers r, or ends by an exception that do_POST does not catch.
Answering(q, r) ==
  phase' = [phase EXCEPT ![q] = "replying"] /\ reply' = [reply EXCEPT ![q] = r]
Raises(q) ==
  phase' = [phase EXCEPT ![q] = "done"] /\ reply' = [reply EXCEPT ![q] = Closed]

\* do_POST reads the request and resolves the digest.
Receive(q) ==
  /\ Move(q, "idle", "received")
  /\ digest' = [digest EXCEPT ![q] = ResolveDigest(req[q].model)]
  /\ UNCHANGED <<deployment, ledger, loaded, swaps, req, ran, answer, reply>>

\* do_POST raises first: Content-Length is no number, the model name cannot be
\* looked up in the map.
ReceiveRaises(q) ==
  /\ phase[q] = "idle" /\ Raises(q)
  /\ UNCHANGED <<deployment, ledger, loaded, swaps, req, digest, ran, answer>>

\* _ollama_forward: a body that is no JSON is a 400, one that is no object raises.
RefuseBody(q) ==
  /\ phase[q] = "received" /\ req[q].route \in Ollama
  /\ \/ req[q].body = "nonJson" /\ Answering(q, "400")
     \/ req[q].body = "nonObject" /\ Raises(q)
  /\ UNCHANGED <<deployment, ledger, loaded, swaps, req, digest, ran, answer>>

\* The request is sent on: as it is, or translated.
Forward(q) ==
  /\ req[q].route \in Ollama => req[q].body = "object"
  /\ Move(q, "received", "forwarded")
  /\ UNCHANGED <<deployment, ledger, loaded, swaps, req, digest, ran, answer, reply>>

\* The backend (external) runs the model it is asked for, or the one loaded.  It
\* may complete a request whose body the gateway cannot read.
BackendAnswers(q) ==
  /\ Move(q, "forwarded", "answered")
  /\ \E a \in Answers :
       /\ req[q].route \in Ollama => a # "stream"
       /\ answer' = [answer EXCEPT ![q] = a]
       /\ ran' = IF a \in {"error", "down"} THEN ran
                 ELSE [ran EXCEPT ![q] = IF AskedFor(req[q]) \in deployment.catalogue
                                           THEN AskedFor(req[q]) ELSE loaded]
  /\ UNCHANGED <<deployment, ledger, loaded, swaps, req, digest, reply>>

-------------------------------------------------------------------------------
(* The answer of the backend: _maybe_emit, the translation, the exceptions *)

\* Mutant of Unreachable: the request is sent again, for as long as it takes.
Unreachable_Retries(q) ==
  /\ phase[q] = "answered" /\ answer[q] = "down"
  /\ phase' = [phase EXCEPT ![q] = "received"]
  /\ UNCHANGED <<deployment, ledger, loaded, swaps, req, digest, ran, answer, reply>>

\* URLError is answered with a 502.
Unreachable(q) ==
  /\ phase[q] = "answered" /\ answer[q] = "down"
  /\ Answering(q, "502")
  /\ UNCHANGED <<deployment, ledger, loaded, swaps, req, digest, ran, answer>>

\* A request of an inference route for a model of known digest.
KnownModel(q) == req[q].route \in OpenAI \union Ollama /\ digest[q] # NoModel

\* _maybe_emit looks at a 2xx answer to it once request and answer have parsed as JSON.
Examined(q) == KnownModel(q) /\ req[q].body # "nonJson"

\* No other exception is caught: a read that times out, JSON of a shape that
\* _maybe_emit or the translation to Ollama's trips over, and a completion of a
\* request that is no object, whose text _messages_text cannot take.
AnswerRaises(q) ==
  /\ phase[q] = "answered"
  /\ \/ answer[q] = "stalled"
     \/ answer[q] = "oddShape" /\ (Examined(q) \/ req[q].route \in Ollama)
     \/ answer[q] \in Completions /\ Examined(q) /\ req[q].body # "object"
  /\ Raises(q)
  /\ UNCHANGED <<deployment, ledger, loaded, swaps, req, digest, ran, answer>>

\* The answer is passed on and no receipt emitted, a completion of a request that
\* is not JSON included.
PassOn(q) ==
  /\ phase[q] = "answered"
  /\ \/ answer[q] \in {"error", "stream", "brokenJson", "noText"}
     \/ answer[q] \in Completions /\ ~Examined(q)
     \/ answer[q] = "oddShape" /\ ~Examined(q) /\ req[q].route \notin Ollama
  /\ Answering(q, answer[q])
  /\ UNCHANGED <<deployment, ledger, loaded, swaps, req, digest, ran, answer>>

\* Mutant of Task: the path is recorded.
Task_IsPath(q) == IF req[q].route \in {"chat", "ollamaChat"} THEN "/v1/chat/completions"
                                                             ELSE "/v1/embeddings"

Task(q) == IF req[q].route \in {"chat", "ollamaChat"} THEN "chat.completion" ELSE "embedding"

ReceiptOf(q) == [request |-> q, digest |-> digest[q], task |-> Task(q),
                 conformant |-> answer[q] = "text"]

\* What _maybe_emit emits a receipt for.
Receipted(q) ==
  answer[q] \in Completions /\ Examined(q) /\ req[q].body = "object"

\* Mutant of Emit: an emitter that fails is not heard.
EmitFails_Ignored(q) ==
  /\ EmitCanFail /\ phase[q] = "answered" /\ Receipted(q)
  /\ ledger' = ledger \/ Chain!AppendReceipt(ReceiptOf(q))
  /\ Answering(q, answer[q])
  /\ UNCHANGED <<deployment, loaded, swaps, req, digest, ran, answer>>

\* Mutant of Emit: the receipt is emitted and the backend called once more.
Emit_Again(q) ==
  /\ phase[q] = "answered" /\ Receipted(q)
  /\ Chain!AppendReceipt(ReceiptOf(q))
  /\ IF \E i \in 1 .. Len(ledger) : ledger[i].body.request = q
       THEN Answering(q, answer[q])
       ELSE phase' = [phase EXCEPT ![q] = "forwarded"] /\ UNCHANGED reply
  /\ UNCHANGED <<deployment, loaded, swaps, req, digest, ran, answer>>

\* A completion gets its receipt.
Emit(q) ==
  /\ phase[q] = "answered" /\ Receipted(q)
  /\ Chain!AppendReceipt(ReceiptOf(q))
  /\ Answering(q, answer[q])
  /\ UNCHANGED <<deployment, loaded, swaps, req, digest, ran, answer>>

\* emit_receipt raises: on a damaged tail, on a text that cannot be encoded,
\* on a failing write, which may still leave the receipt behind; or the request
\* holds messages _messages_text trips over.
EmitRaises(q) ==
  /\ EmitCanFail /\ phase[q] = "answered" /\ Receipted(q)
  /\ UNCHANGED ledger \/ Chain!AppendReceipt(ReceiptOf(q))
  /\ Raises(q)
  /\ UNCHANGED <<deployment, loaded, swaps, req, digest, ran, answer>>

\* The response is written, or the client is gone.
Respond(q) ==
  /\ Move(q, "replying", "done")
  /\ reply' = reply \/ reply' = [reply EXCEPT ![q] = Closed]
  /\ UNCHANGED <<deployment, ledger, loaded, swaps, req, digest, ran, answer>>

\* The backend (external) is restarted with other weights.
SwapWeights ==
  /\ swaps < MaxSwaps /\ swaps' = swaps + 1
  /\ loaded' \in Models \ {loaded}
  /\ UNCHANGED <<deployment, ledger, thread>>

-------------------------------------------------------------------------------

Step(q) ==
  \/ Receive(q) \/ ReceiveRaises(q) \/ RefuseBody(q) \/ Forward(q) \/ BackendAnswers(q)
  \/ Unreachable(q) \/ AnswerRaises(q) \/ PassOn(q) \/ Emit(q) \/ EmitRaises(q) \/ Respond(q)

Next == SwapWeights \/ \E q \in Requests : Step(q)

Spec == Init /\ [][Next]_vars

-------------------------------------------------------------------------------
(* Properties *)

Phases == {"idle", "received", "forwarded", "answered", "replying", "done"}

TypeOK ==
  /\ deployment \in DeploymentRecords
  /\ \A i \in 1 .. Len(ledger) : ledger[i].body \in ReceiptBodies
  /\ loaded \in Models /\ swaps \in 0 .. MaxSwaps
  /\ phase \in [Requests -> Phases]
  /\ req \in [Requests -> RequestRecords]
  /\ digest \in [Requests -> Models \union {NoModel}]
  /\ ran \in [Requests -> Models \union {NoModel}]
  /\ answer \in [Requests -> Answers \union {NoAnswer}]
  /\ reply \in [Requests -> Replies]

ReceiptsFor(q) == {i \in 1 .. Len(ledger) : ledger[i].body.request = q}
Got(q, answers) == phase[q] = "done" /\ reply[q] \in answers

\* Nobody is handed a completion by a model of known digest without a receipt on
\* the ledger, even if emitting fails: the client then gets no completion either.
\* The one way past _maybe_emit is a request the backend reads and the gateway does
\* not, its body being no JSON; a single-model gateway knows the digest all the same.
NoCompletionUnreceipted ==
  \A q \in Requests : Got(q, Completions) /\ KnownModel(q) =>
    ReceiptsFor(q) # {} \/ (req[q].body = "nonJson" /\ deployment.mapped = {})

\* A request has at most one receipt, and only if the backend completed it.
OneReceiptPerCompletion ==
  \A q \in Requests :
    /\ Cardinality(ReceiptsFor(q)) <= 1
    /\ ReceiptsFor(q) # {} => answer[q] \in Completions

\* Every receipt carries the digest of the model that ran ("never fabricate a
\* content digest, never stamp the wrong model", _resolve_digest).
ReceiptsNameTheModel ==
  \A i \in 1 .. Len(ledger) : ledger[i].body.digest = ran[ledger[i].body.request]

\* It does on the OpenAI routes, which pass the model name on, and in a
\* single-model gateway as long as nobody replaces the weights under it.
OwnReceiptsNameTheModel ==
  \A i \in 1 .. Len(ledger) :
    LET q == ledger[i].body.request
    IN (IF deployment.mapped = {} THEN swaps = 0 ELSE req[q].route \in OpenAI)
         => ledger[i].body.digest = ran[q]
===============================================================================
