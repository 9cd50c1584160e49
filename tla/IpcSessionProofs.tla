--------------------------- MODULE IpcSessionProofs ---------------------------
(***************************************************************************)
(* The safety of the IPC session, for every number of runs, of stray lines *)
(* and of killed processes.  The inductive invariant says what is in the   *)
(* pipes and in the transcript at each point of the runner's program and   *)
(* at each state of the adapter, and what became of the earlier adapters   *)
(* and of the tools they started.                                          *)
(***************************************************************************)
EXTENDS IpcSession, TLAPS

-------------------------------------------------------------------------------
(* Positions of messages in a sequence *)

\* A message of the type is in the sequence.
Has(s, type) == \E i \in DOMAIN s : s[i].type = type

\* The handshake, as far as it goes, is in the sequence in its order: what the
\* adapter says, the answer of the runner, its invoke.
Shaken(s)  == \E h, c \in DOMAIN s : h < c /\ s[h].type = "hello_ack" /\ s[c].type = "capabilities"
Acked(s)   == \E h, c, a \in DOMAIN s :
                /\ h < c /\ c < a /\ s[h].type = "hello_ack" /\ s[c].type = "capabilities"
                /\ s[a].type = "capabilities_ack"
Invoked(s) == \E h, c, a, i \in DOMAIN s :
                /\ h < c /\ c < a /\ a < i /\ s[h].type = "hello_ack"
                /\ s[c].type = "capabilities" /\ s[a].type = "capabilities_ack"
                /\ s[i].type = "invoke"

\* Capabilities anywhere in a sequence t come after a hello_ack, of t or of the
\* messages s that were read before.
Answered(s, t) ==
  \A j \in DOMAIN t : t[j].type = "capabilities" =>
    Has(s, "hello_ack") \/ \E i \in DOMAIN t : i < j /\ t[i].type = "hello_ack"

-------------------------------------------------------------------------------
(* The inductive invariant *)

\* Only the runs that were started have an adapter or anything in a pipe, and the
\* two files are of runs that were started; the transcript is of the run that is
\* on, which has no receipt yet.
RunsInOrder ==
  /\ pc # "ended" => run \in Runs
  /\ \A r \in Runs : r > run => /\ adapter[r] = "absent"
                                /\ toAdapter[r] = << >> /\ toRunner[r] = << >>
  /\ transcript.run <= run /\ runReceipt.run <= run
  /\ pc # "ended" => transcript.run = run /\ runReceipt.run < run

\* An adapter before the end of its handshake has not sent its capabilities, so
\* that its runner has not come to the invoke.
BeforeHandshake ==
  \A r \in Runs : adapter[r] \in {"absent", "fresh", "otherVersion", "greeted"} =>
    /\ ~ Has(toRunner[r], "capabilities") /\ ~ Has(toAdapter[r], "invoke")
    /\ r = run => pc \in {"hello", "awaitCapabilities", "ended"}

\* The adapter of a run that did not fail is gone before the next run begins.
NoneLeftBehind ==
  /\ \A r \in Runs : (r < run \/ (r = run /\ pc = "ended")) /\ r \notin failed =>
                       adapter[r] = "exited"
  /\ pc \in {"receipt", "writing"} => adapter[run] = "exited"

\* The tool of r is on its way to the receipt file; an invoke waits for its adapter.
Going(r)   == tool[r] \in {"running", "writing"}
Pending(r) == Has(toAdapter[r], "invoke")
Once(s)    == \A i, j \in DOMAIN s : s[i].type = "invoke" /\ s[j].type = "invoke" => i = j

\* Each run sends one invoke, which starts one tool at most; a result comes after
\* it, so that only the tool of a run that failed is left when the run has ended.
OneInvoke ==
  \A r \in Runs :
    /\ Once(toAdapter[r])
    /\ tool[r] # "none" => ~ Pending(r) /\ r <= run
    /\ Has(toRunner[r], "result") => ~ Pending(r) /\ ~ Going(r)
    /\ r < run \/ (r = run /\ pc = "ended") => r \in failed \/ ~ Going(r)
    /\ r = run /\ pc \in {"hello", "awaitCapabilities", "acknowledge", "invoke"} =>
         ~ Pending(r) /\ tool[r] = "none" /\ ~ Has(toRunner[r], "result")
    /\ r = run /\ pc \in {"stop", "receipt", "writing"} => ~ Pending(r) /\ ~ Going(r)

\* An earlier run that failed has had its tool touch the receipt file of run n; the
\* payload is that of run n's own tool, or due to such a run (then: after a step).
Meddled(n)  == \E q \in failed : q < n /\ q \in meddlers[n]
Own(n, p)   == p = n \/ \E q \in failed : q < n /\ q \in meddlers[n] /\ p \in {0, q}
OwnThen(n, p) == p = n \/ \E q \in failed' : q < n /\ q \in meddlers'[n] /\ p \in {0, q}
AllOwn(n, s) == \A i \in DOMAIN s : s[i].type = "result" => Own(n, s[i].payload)

\* While the tool of the run that is on writes and until its receipt has been read,
\* nobody but the tool of an abandoned run touches the file.
OwnResults ==
  /\ pc # "ended" => /\ tool[run] = "writing" /\ toolReceipt # 0 => Meddled(run)
                     /\ tool[run] = "passed" => Own(run, ReceiptPayload)
                     /\ AllOwn(run, toRunner[run])
  /\ pc \in {"stop", "receipt", "writing"} => Own(run, result)
  /\ OwnResultUnlessAbandoned

\* The adapter's answers come in their order: capabilities after hello_ack,
\* whether that is still in the pipe or already in the transcript.
AnswersInOrder ==
  pc # "ended" =>
    /\ Answered(transcript.messages, toRunner[run])
    /\ adapter[run] = "greeted" =>
         Has(transcript.messages, "hello_ack") \/ Has(toRunner[run], "hello_ack")

\* What the transcript holds at each point of the runner's program.
TranscriptSoFar ==
  /\ pc = "hello" => transcript.messages = << >>
  /\ pc \notin {"hello", "ended"} =>
       transcript.messages # << >> /\ transcript.messages[1].type = "hello"
  /\ pc = "acknowledge" => Shaken(transcript.messages)
  /\ pc = "invoke" => Acked(transcript.messages)
  /\ pc \in {"awaitResult", "stop", "receipt", "writing"} => Invoked(transcript.messages)
  /\ pc \in {"stop", "receipt", "writing"} =>
       /\ transcript.messages[Len(transcript.messages)].type = "result"
       /\ transcript.messages[Len(transcript.messages)].payload = result

IInv == /\ TypeOK /\ RunsInOrder /\ BeforeHandshake /\ NoneLeftBehind /\ OneInvoke
        /\ OwnResults /\ AnswersInOrder /\ TranscriptSoFar /\ TranscriptExplainsReceipt
-------------------------------------------------------------------------------
(* Lemmas about positions *)

\* What Append does to length and positions.
LEMMA AppendAt ==
  ASSUME NEW s \in Seq(Messages), NEW m \in Messages
  PROVE  /\ Append(s, m) \in Seq(Messages) /\ Len(Append(s, m)) = Len(s) + 1 /\ Len(s) \in Nat
         /\ DOMAIN s = 1 .. Len(s) /\ DOMAIN Append(s, m) = 1 .. Len(s) + 1
         /\ \A i \in 1 .. Len(s) : Append(s, m)[i] = s[i]
         /\ Append(s, m)[Len(s) + 1] = m /\ Append(s, m) # << >>
OBVIOUS

\* What Tail does to length and positions.
LEMMA TailAt ==
  ASSUME NEW s \in Seq(Messages), s # << >>
  PROVE  /\ Tail(s) \in Seq(Messages) /\ Head(s) \in Messages /\ Head(s) = s[1]
         /\ Len(s) \in Nat \ {0} /\ Len(Tail(s)) = Len(s) - 1
         /\ DOMAIN s = 1 .. Len(s) /\ DOMAIN Tail(s) = 1 .. Len(s) - 1
         /\ \A i \in 1 .. Len(s) - 1 : Tail(s)[i] = s[i + 1]
OBVIOUS

\* A message that is appended is the only one that is new.
LEMMA HasAppend ==
  ASSUME NEW s \in Seq(Messages), NEW m \in Messages, NEW type
  PROVE  Has(Append(s, m), type) <=> Has(s, type) \/ m.type = type
<1>1. ASSUME Has(s, type) \/ m.type = type PROVE Has(Append(s, m), type)
  BY <1>1, AppendAt DEF Has
<1>2. ASSUME Has(Append(s, m), type) PROVE Has(s, type) \/ m.type = type
  <2>1. PICK i \in DOMAIN Append(s, m) : Append(s, m)[i].type = type
    BY <1>2 DEF Has
  <2>2. i \in 1 .. Len(s) \/ i = Len(s) + 1
    BY <2>1, AppendAt
  <2>3. QED
    BY <2>1, <2>2, AppendAt DEF Has
<1>3. QED
  BY <1>1, <1>2

\* A message that is taken is the only one that goes.
LEMMA HasTail ==
  ASSUME NEW s \in Seq(Messages), s # << >>, NEW type
  PROVE  /\ Has(Tail(s), type) => Has(s, type)
         /\ Has(s, type) => Head(s).type = type \/ Has(Tail(s), type)
         /\ Head(s).type = type => Has(s, type)
<1>1. ASSUME Has(Tail(s), type) PROVE Has(s, type)
  BY <1>1, TailAt DEF Has
<1>2. ASSUME Has(s, type) PROVE Head(s).type = type \/ Has(Tail(s), type)
  <2>1. PICK i \in DOMAIN s : s[i].type = type
    BY <1>2 DEF Has
  <2>2. i = 1 \/ (i - 1 \in 1 .. Len(s) - 1 /\ (i - 1) + 1 = i)
    BY <2>1, TailAt
  <2>3. QED
    BY <2>1, <2>2, TailAt DEF Has
<1>3. ASSUME Head(s).type = type PROVE Has(s, type)
  BY <1>3, TailAt DEF Has
<1>4. QED
  BY <1>1, <1>2, <1>3

\* Each message of the handshake extends what was there, and nothing undoes it.
LEMMA HandshakeGrows ==
  ASSUME NEW s \in Seq(Messages), NEW m \in Messages
  PROVE  /\ Has(s, "hello_ack") /\ m.type = "capabilities" => Shaken(Append(s, m))
         /\ Shaken(s) /\ m.type = "capabilities_ack" => Acked(Append(s, m))
         /\ Acked(s) /\ m.type = "invoke" => Invoked(Append(s, m))
         /\ Invoked(s) => Invoked(Append(s, m))
<1> DEFINE t == Append(s, m)
<1>1. Len(s) + 1 \in DOMAIN t /\ t[Len(s) + 1] = m
  BY AppendAt
<1>2. \A i \in DOMAIN s : i \in DOMAIN t /\ t[i] = s[i] /\ i < Len(s) + 1
  BY AppendAt
<1> HIDE DEF t
<1>3. ASSUME Has(s, "hello_ack"), m.type = "capabilities" PROVE Shaken(t)
  BY <1>1, <1>2, <1>3 DEF Has, Shaken
<1>4. ASSUME Shaken(s), m.type = "capabilities_ack" PROVE Acked(t)
  BY <1>1, <1>2, <1>4 DEF Shaken, Acked
<1>5. ASSUME Acked(s), m.type = "invoke" PROVE Invoked(t)
  BY <1>1, <1>2, <1>5 DEF Acked, Invoked
<1>6. ASSUME Invoked(s) PROVE Invoked(t)
  BY <1>2, <1>6 DEF Invoked
<1>7. QED
  BY <1>3, <1>4, <1>5, <1>6 DEF t

-------------------------------------------------------------------------------
(* The steps of an adapter *)

AdapterActs(r) == AdapterStep(r) \/ Stray(r) \/ AdapterDies(r)

States == {"absent", "fresh", "otherVersion", "greeted", "negotiated", "working", "exited"}
Shaking == {"absent", "fresh", "otherVersion", "greeted"}

\* An invoke is taken from the pipe.
TakesInvoke(r) ==
  /\ toAdapter[r] # << >> /\ Head(toAdapter[r]).type = "invoke"
  /\ toAdapter' = [toAdapter EXCEPT ![r] = Tail(@)]

\* What the adapter has to do with its tool: an invoke starts it, and its end is
\* taken note of.
ToolPart(r) ==
  \/ UNCHANGED tool
  \/ TakesInvoke(r) /\ UNCHANGED toRunner /\ tool' = [tool EXCEPT ![r] = "running"]
  \/ tool[r] \in {"passed", "failed"} /\ tool' = [tool EXCEPT ![r] = "done"]

\* A message of the adapter of run r and the state it goes to with it: its
\* capabilities end the handshake, and a result answers an invoke or holds what was
\* read in the receipt file of the tools.
Spoken(r, m, s) ==
  /\ m.type = "capabilities" => adapter[r] = "greeted" /\ s = "negotiated"
  /\ m.type = "result" =>
       \/ TakesInvoke(r) /\ UNCHANGED tool /\ m.payload = r
       \/ /\ tool[r] = "passed" /\ tool' = [tool EXCEPT ![r] = "done"]
          /\ m.payload = ReceiptPayload

\* What a step of the adapter of run r does, whichever it is.
Effect(r) ==
  /\ UNCHANGED <<run, pc, expired, result, failed, transcript, runReceipt, toolReceipt, meddlers>>
  /\ adapter[r] \notin {"absent", "exited"} /\ ToolPart(r)
  /\ \/ UNCHANGED toAdapter
     \/ toAdapter[r] # << >> /\ toAdapter' = [toAdapter EXCEPT ![r] = Tail(@)]
  /\ \E s \in States :
       /\ adapter' = [adapter EXCEPT ![r] = s]
       /\ s \in Shaking => adapter[r] \in Shaking
       /\ \/ UNCHANGED toRunner /\ (s = "greeted" => adapter[r] = "greeted")
          \/ /\ ~ RunnerGone(r)
             /\ \E m \in Messages :
                  /\ toRunner' = [toRunner EXCEPT ![r] = Append(@, m)]
                  /\ Spoken(r, m, s)
                  /\ s = "greeted" => adapter[r] = "greeted" \/ m.type = "hello_ack"

\* What saying a message does.
LEMMA SayEffect ==
  ASSUME NEW r \in Runs, NEW m \in Messages, NEW s \in States, Say(r, m, s)
  PROVE  \/ RunnerGone(r) /\ adapter' = [adapter EXCEPT ![r] = "exited"] /\ UNCHANGED toRunner
         \/ /\ ~ RunnerGone(r) /\ adapter' = [adapter EXCEPT ![r] = s]
            /\ toRunner' = [toRunner EXCEPT ![r] = Append(@, m)]
BY DEF Say, Become

\* The messages of the adapters are messages.
LEMMA MessagesAreTyped ==
  /\ \A type \in Types, replyTo \in {"none", "hello", "invoke"} :
       /\ Msg(type, replyTo) \in Messages
       /\ Msg(type, replyTo).type = type /\ Msg(type, replyTo).replyTo = replyTo
       /\ \A p \in 0 .. MaxRuns :
            /\ [Msg(type, replyTo) EXCEPT !.payload = p] \in Messages
            /\ [Msg(type, replyTo) EXCEPT !.payload = p].type = type
            /\ [Msg(type, replyTo) EXCEPT !.payload = p].payload = p
  /\ Rejected \in Messages /\ Rejected.type = "error"
<1>1. 0 \in 0 .. MaxRuns
  BY IpcConstants
<1>2. ASSUME NEW type \in Types, NEW replyTo \in {"none", "hello", "invoke"}
      PROVE  /\ Msg(type, replyTo) \in Messages
             /\ Msg(type, replyTo).type = type /\ Msg(type, replyTo).replyTo = replyTo
  BY <1>1 DEF Messages, Msg
<1>3. ASSUME NEW type \in Types, NEW replyTo \in {"none", "hello", "invoke"},
             NEW p \in 0 .. MaxRuns
      PROVE  LET m == [Msg(type, replyTo) EXCEPT !.payload = p]
             IN  m \in Messages /\ m.type = type /\ m.payload = p
  <2>1. \A m \in Messages : LET n == [m EXCEPT !.payload = p]
                           IN  n \in Messages /\ n.type = m.type /\ n.payload = p
    BY DEF Messages
  <2>2. QED
    BY <1>2, <2>1
<1>4. Rejected \in Messages /\ Rejected.type = "error"
  BY <1>1 DEF Messages, Rejected, Types
<1>5. QED
  BY <1>2, <1>3, <1>4

\* Saying a message is such an effect.
LEMMA SaysSo ==
  ASSUME TypeOK, NEW r \in Runs, NEW m \in Messages, NEW s \in States, Say(r, m, s),
         adapter[r] \notin {"absent", "exited"}, ToolPart(r),
         UNCHANGED <<run, pc, expired, result, failed, transcript, runReceipt, toolReceipt,
                     meddlers>>,
         \/ UNCHANGED toAdapter
         \/ toAdapter[r] # << >> /\ toAdapter' = [toAdapter EXCEPT ![r] = Tail(@)],
         s \in Shaking => adapter[r] \in Shaking,
         s = "greeted" => adapter[r] = "greeted" \/ m.type = "hello_ack",
         Spoken(r, m, s)
  PROVE  Effect(r)
<1>1. CASE RunnerGone(r)
  <2>1. adapter' = [adapter EXCEPT ![r] = "exited"] /\ UNCHANGED toRunner
    BY <1>1, SayEffect
  <2>2. "exited" \in States /\ "exited" \notin Shaking /\ "exited" # "greeted"
    BY DEF States, Shaking
  <2>3. QED
    BY <2>1, <2>2 DEF Effect
<1>2. CASE ~ RunnerGone(r)
  <2>1. adapter' = [adapter EXCEPT ![r] = s] /\ toRunner' = [toRunner EXCEPT ![r] = Append(@, m)]
    BY <1>2, SayEffect
  <2>2. QED
    BY <1>2, <2>1 DEF Effect
<1>3. QED
  BY <1>1, <1>2

\* So is going to a state in silence.
LEMMA BecomesSo ==
  ASSUME TypeOK, NEW r \in Runs, NEW s \in States, Become(r, s), UNCHANGED toRunner,
         adapter[r] \notin {"absent", "exited"}, ToolPart(r),
         UNCHANGED <<run, pc, expired, result, failed, transcript, runReceipt, toolReceipt,
                     meddlers>>,
         \/ UNCHANGED toAdapter
         \/ toAdapter[r] # << >> /\ toAdapter' = [toAdapter EXCEPT ![r] = Tail(@)],
         s \notin Shaking
  PROVE  Effect(r)
<1>1. s # "greeted"
  BY DEF Shaking
<1>2. QED
  BY <1>1 DEF Effect, Become

\* Every step of an adapter has such an effect.
LEMMA AdapterEffect ==
  ASSUME TypeOK, NEW r \in Runs, AdapterActs(r)
  PROVE  Effect(r)
<1> USE DEF runnerSide, toolSide, files, faults
<1>p. r \in 0 .. MaxRuns /\ ReceiptPayload \in 0 .. MaxRuns
  BY IpcConstants DEF Runs, ReceiptPayload
<1>q. adapter[r] \in States /\ adapter = [adapter EXCEPT ![r] = adapter[r]]
  BY DEF TypeOK, States
<1>r. r \in 0 .. MaxRuns /\ ReceiptPayload \in 0 .. MaxRuns /\ adapter[r] \in States
      /\ adapter = [adapter EXCEPT ![r] = adapter[r]]
  BY <1>p, <1>q
<1>m. /\ Msg("hello_ack", "hello") \in Messages /\ Msg("hello_ack", "hello").type = "hello_ack"
      /\ Msg("capabilities", "none") \in Messages
      /\ Msg("capabilities", "none").type = "capabilities"
      /\ \A p \in 0 .. MaxRuns :
           /\ [Msg("result", "invoke") EXCEPT !.payload = p] \in Messages
           /\ [Msg("result", "invoke") EXCEPT !.payload = p].type = "result"
           /\ [Msg("result", "invoke") EXCEPT !.payload = p].payload = p
      /\ Rejected \in Messages /\ Rejected.type = "error"
      /\ \A type \in {"error", "noJson", "progress"}, replyTo \in {"none", "invoke"} :
           Msg(type, replyTo) \in Messages /\ Msg(type, replyTo).type = type
  BY MessagesAreTyped DEF Types
<1>t. UNCHANGED tool => ToolPart(r)
  BY DEF ToolPart
<1>1. CASE OnHello(r)
  <2>1. Spoken(r, Msg("hello_ack", "hello"), "greeted")
    BY <1>m DEF Spoken
  <2>2. QED
    BY <1>1, <1>m, <1>t, <2>1, SaysSo DEF OnHello, Hears, Consume, States, Shaking
<1>2. CASE SendCapabilities(r)
  <2>1. Spoken(r, Msg("capabilities", "none"), "negotiated")
    BY <1>2, <1>m DEF Spoken, SendCapabilities
  <2>2. QED
    BY <1>2, <1>m, <1>t, <2>1, SaysSo DEF SendCapabilities, States, Shaking
<1>3. CASE OnMismatch(r)
  <2>1. Spoken(r, Rejected, "exited")
    BY <1>m DEF Spoken
  <2>2. QED
    BY <1>3, <1>m, <1>t, <2>1, SaysSo DEF OnMismatch, Consume, States, Shaking
<1>4. CASE OnAck(r)
  BY <1>4, <1>r, <1>t DEF OnAck, Effect, Consume, Hears
<1>5. CASE OnInvoke(r)
  <2> DEFINE m == [Msg("result", "invoke") EXCEPT !.payload = r]
  <2>1. TakesInvoke(r)
    BY <1>5 DEF OnInvoke, Hears, Consume, TakesInvoke
  <2>2. m \in Messages /\ Msg("error", "invoke") \in Messages
        /\ Msg("error", "invoke").type = "error"
    BY <1>r, <1>m
  <2>3. CASE Say(r, m, "negotiated") /\ UNCHANGED tool
    <3>1. Spoken(r, m, "negotiated")
      BY <1>r, <1>m, <2>1, <2>3 DEF Spoken
    <3> HIDE DEF m
    <3> QED
      BY <1>5, <1>t, <2>2, <2>3, <3>1, SaysSo DEF OnInvoke, Hears, Consume, States, Shaking
  <2>4. CASE Say(r, Msg("error", "invoke"), "negotiated") /\ UNCHANGED tool
    <3>1. Spoken(r, Msg("error", "invoke"), "negotiated")
      BY <2>2 DEF Spoken
    <3>2. QED
      BY <1>5, <1>t, <2>2, <2>4, <3>1, SaysSo DEF OnInvoke, Hears, Consume, States, Shaking
  <2>5. CASE /\ Become(r, "working") /\ UNCHANGED toRunner
             /\ tool' = [tool EXCEPT ![r] = "running"]
    <3>1. ToolPart(r)
      BY <2>1, <2>5 DEF ToolPart
    <3>2. QED
      BY <1>5, <2>5, <3>1, BecomesSo DEF OnInvoke, Hears, Consume, States, Shaking
  <2>6. QED
    BY <1>5, <2>3, <2>4, <2>5 DEF OnInvoke
<1>6. CASE ReportFailure(r)
  <2>1. Spoken(r, Msg("error", "invoke"), "negotiated")
    BY <1>m DEF Spoken
  <2>2. ToolPart(r)
    BY <1>6 DEF ReportFailure, ToolPart
  <2>3. QED
    BY <1>6, <1>m, <2>1, <2>2, SaysSo DEF ReportFailure, States, Shaking
<1>7. CASE ReadToolReceipt(r)
  <2> DEFINE m == [Msg("result", "invoke") EXCEPT !.payload = ReceiptPayload]
  <2>1. m \in Messages /\ m.type = "result" /\ m.payload = ReceiptPayload
    BY <1>r, <1>m
  <2>2. Say(r, m, "negotiated")
    BY <1>7 DEF ReadToolReceipt
  <2> HIDE DEF m
  <2>3. Spoken(r, m, "negotiated") /\ ToolPart(r)
    BY <1>7, <2>1 DEF Spoken, ReadToolReceipt, ToolPart
  <2>4. QED
    BY <1>7, <2>1, <2>2, <2>3, SaysSo DEF ReadToolReceipt, States, Shaking
<1>8. CASE OnEnd(r)
  BY <1>8, <1>t, BecomesSo DEF OnEnd, States, Shaking
<1>9. CASE Stray(r)
  <2>1. PICK m \in {Msg("noJson", "none"), Rejected, Msg("error", "none"),
                    Msg("progress", "invoke")} : Say(r, m, adapter[r])
    BY <1>9 DEF Stray
  <2>2. m \in Messages /\ m.type \notin {"capabilities", "result", "hello_ack"}
    BY <2>1, <1>m
  <2>3. Spoken(r, m, adapter[r])
    BY <2>2 DEF Spoken
  <2>4. QED
    BY <1>9, <1>r, <1>t, <2>1, <2>2, <2>3, SaysSo DEF Stray, Alive
<1>10. CASE AdapterDies(r)
  BY <1>10, <1>t, BecomesSo DEF AdapterDies, Alive, States, Shaking
<1>11. QED
  BY <1>1, <1>2, <1>3, <1>4, <1>5, <1>6, <1>7, <1>8, <1>9, <1>10 DEF AdapterActs, AdapterStep

\* A step of a tool: one that starts, opens the receipt file, writes it or ends.
ToolEffect(r) ==
  /\ UNCHANGED <<run, pc, expired, result, failed, adapter, toAdapter, toRunner, transcript,
                 runReceipt, strays, deaths>>
  /\ Going(r)
  /\ \E s \in {"writing", "passed", "failed", "hung"} :
       /\ tool' = [tool EXCEPT ![r] = s]
       /\ \/ s \in {"failed", "hung"} /\ UNCHANGED <<toolReceipt, meddlers>>
          \/ s = "writing" /\ toolReceipt' = 0 /\ Touch(r)
          \/ /\ s \in {"passed", "failed"} /\ tool[r] = "writing" /\ Touch(r)
             /\ toolReceipt' \in {r, Garbled} /\ (toolReceipt = 0 => toolReceipt' = r)

\* Every step of a tool has such an effect.
LEMMA ToolSteps ==
  ASSUME NEW r \in Runs, ToolStep(r)
  PROVE  ToolEffect(r)
BY DEF ToolStep, ToolRefuses, ToolHangs, ToolOpens, ToolWrites, ToolCannotWrite, ToolGoes,
       ToolEffect, Going, adapterSide, runnerSide, files, faults

-------------------------------------------------------------------------------
(* The steps of the runner *)

\* It writes the next message of the protocol.
Sent ==
  \E m \in Messages :
    /\ \/ pc = "hello" /\ m.type = "hello" /\ pc' = "awaitCapabilities"
       \/ pc = "acknowledge" /\ m.type = "capabilities_ack" /\ pc' = "invoke"
       \/ pc = "invoke" /\ m.type = "invoke" /\ pc' = "awaitResult"
    /\ toAdapter' = [toAdapter EXCEPT ![run] = Append(@, m)]
    /\ transcript' = [transcript EXCEPT !.messages = Append(@, m)]
    /\ UNCHANGED <<run, expired, result, failed, adapter, toRunner, runReceipt, tool, toolReceipt,
                   meddlers>>

\* It reads a message: capabilities end the handshake, a result ends the invoke,
\* others leave it where it is or end the run.
Received ==
  \E m \in Messages :
    /\ Take(m) /\ pc \in {"awaitCapabilities", "awaitResult"}
    /\ \/ UNCHANGED <<run, pc, expired, result, failed>>
       \/ Fail
       \/ /\ \/ /\ pc = "awaitCapabilities" /\ m.type = "capabilities" /\ pc' = "acknowledge"
                /\ UNCHANGED result
             \/ pc = "awaitResult" /\ m.type = "result" /\ pc' = "stop" /\ result' = m.payload
          /\ UNCHANGED <<run, expired, failed>>

\* It fails with its files and pipes as they are.
Quits == pc # "ended" /\ Fail /\ UNCHANGED <<adapterSide, toolSide, files>>

RunnerActs == Start \/ StartFails \/ RunnerStep \/ TimePasses \/ RunnerDies

\* Writing fails if the adapter is dead, or is the step above.
LEMMA SendCases ==
  ASSUME NEW from \in {"hello", "acknowledge", "invoke"}, NEW m \in Messages, NEW to,
         Send(from, m, to),
         \/ from = "hello" /\ m.type = "hello" /\ to = "awaitCapabilities"
         \/ from = "acknowledge" /\ m.type = "capabilities_ack" /\ to = "invoke"
         \/ from = "invoke" /\ m.type = "invoke" /\ to = "awaitResult"
  PROVE  Sent \/ Quits
<1>1. CASE Alive(run)
  BY <1>1 DEF Send, Sent, toolSide
<1>2. CASE ~ Alive(run)
  BY <1>2 DEF Send, Quits, adapterSide, toolSide, files
<1>3. QED
  BY <1>1, <1>2

\* Every step of the runner is one of nine kinds.
LEMMA RunnerCases ==
  ASSUME RunnerActs
  PROVE  \/ Start \/ StartFails \/ TimePasses \/ Stop \/ OpenRunReceipt \/ WriteRunReceipt
         \/ Sent \/ Received \/ Quits
<1>1. CASE SendHello \/ SendAck \/ SendInvoke
  <2>1. /\ Msg("hello", "none") \in Messages /\ Msg("hello", "none").type = "hello"
        /\ Msg("capabilities_ack", "none") \in Messages
        /\ Msg("capabilities_ack", "none").type = "capabilities_ack"
        /\ Msg("invoke", "none") \in Messages /\ Msg("invoke", "none").type = "invoke"
    BY MessagesAreTyped DEF Types
  <2>2. CASE SendHello
    BY <2>1, <2>2, SendCases DEF SendHello
  <2>3. CASE SendAck
    BY <2>1, <2>3, SendCases DEF SendAck
  <2>4. CASE SendInvoke
    BY <2>1, <2>4, SendCases DEF SendInvoke
  <2>5. QED
    BY <1>1, <2>2, <2>3, <2>4
<1>2. CASE HandshakeReads
  BY <1>2 DEF HandshakeReads, Received, Stay, Go, runnerSide
<1>3. CASE InvokeReads
  BY <1>3 DEF InvokeReads, Received, Stay, Return, runnerSide
<1>4. CASE ReadsEnd \/ RunnerDies
  BY <1>4 DEF ReadsEnd, RunnerDies, Quits, adapterSide, toolSide, files
<1>5. QED
  BY <1>1, <1>2, <1>3, <1>4 DEF RunnerActs, RunnerStep

\* A step is one of the runner, of an adapter, of a tool, or none.
LEMMA NextCases ==
  ASSUME [Next]_vars
  PROVE  \/ RunnerActs \/ (\E r \in Runs : AdapterActs(r))
         \/ (\E r \in Runs : ToolEffect(r)) \/ UNCHANGED vars
BY ToolSteps DEF Next, RunnerActs, AdapterActs

-------------------------------------------------------------------------------
(* Types *)

\* A message is added to the transcript, and to a pipe.
LEMMA Written ==
  ASSUME NEW m \in Messages
  PROVE  /\ \A t \in [run : 0 .. MaxRuns, messages : Seq(Messages)] :
              LET u == [t EXCEPT !.messages = Append(@, m)]
              IN  /\ u \in [run : 0 .. MaxRuns, messages : Seq(Messages)]
                  /\ u.run = t.run /\ u.messages = Append(t.messages, m)
         /\ \A p \in [Runs -> Seq(Messages)], r \in Runs :
              LET q == [p EXCEPT ![r] = Append(@, m)]
              IN  /\ q \in [Runs -> Seq(Messages)] /\ q[r] = Append(p[r], m)
                  /\ \A o \in Runs : o # r => q[o] = p[o]
<1>1. \A s \in Seq(Messages) : Append(s, m) \in Seq(Messages)
  BY AppendAt
<1>2. QED
  BY <1>1

\* A message is taken from a pipe.
LEMMA Taken ==
  ASSUME NEW p \in [Runs -> Seq(Messages)], NEW r \in Runs, p[r] # << >>
  PROVE  LET q == [p EXCEPT ![r] = Tail(@)]
         IN  /\ q \in [Runs -> Seq(Messages)] /\ q[r] = Tail(p[r])
             /\ \A o \in Runs : o # r => q[o] = p[o]
BY TailAt

\* The faults stay within their bounds.
LEMMA FaultsBounded ==
  ASSUME TypeOK, [Next]_vars
  PROVE  strays' \in 0 .. MaxStrays /\ deaths' \in 0 .. MaxDeaths
<1> USE IpcConstants DEF TypeOK, faults
<1>1. CASE Start \/ StartFails \/ TimePasses \/ RunnerDies
  BY <1>1 DEF Start, StartFails, TimePasses, RunnerDies
<1>2. CASE RunnerStep
  <2>1. CASE SendHello \/ SendAck \/ SendInvoke
    BY <2>1 DEF SendHello, SendAck, SendInvoke, Send
  <2>2. CASE HandshakeReads \/ InvokeReads
    BY <2>2 DEF HandshakeReads, InvokeReads, Take
  <2>3. CASE ReadsEnd \/ Stop \/ OpenRunReceipt \/ WriteRunReceipt
    BY <2>3 DEF ReadsEnd, Stop, OpenRunReceipt, WriteRunReceipt
  <2>4. QED
    BY <1>2, <2>1, <2>2, <2>3 DEF RunnerStep
<1>3. ASSUME NEW r \in Runs, AdapterStep(r) \/ ToolStep(r)
      PROVE  strays' \in 0 .. MaxStrays /\ deaths' \in 0 .. MaxDeaths
  BY <1>3, ToolSteps DEF AdapterStep, OnHello, SendCapabilities, OnMismatch, OnAck, OnInvoke,
                         ReportFailure, ReadToolReceipt, OnEnd, ToolEffect
<1>4. ASSUME NEW r \in Runs, Stray(r) \/ AdapterDies(r)
      PROVE  strays' \in 0 .. MaxStrays /\ deaths' \in 0 .. MaxDeaths
  <2>1. CASE Stray(r)
    <3>1. strays < MaxStrays /\ strays' = strays + 1 /\ deaths' = deaths
      BY <2>1 DEF Stray
    <3>2. QED
      BY <3>1
  <2>2. CASE AdapterDies(r)
    <3>1. deaths < MaxDeaths /\ deaths' = deaths + 1 /\ strays' = strays
      BY <2>2 DEF AdapterDies
    <3>2. QED
      BY <3>1
  <2>3. QED
    BY <1>4, <2>1, <2>2
<1>5. CASE UNCHANGED vars
  BY <1>5 DEF vars
<1>6. QED
  BY <1>1, <1>2, <1>3, <1>4, <1>5 DEF Next

\* What the tools keep to themselves has its types.
LEMMA ToolTypes ==
  ASSUME TypeOK, NEW r \in Runs, ToolEffect(r)
  PROVE  TypeOK' \/ strays' \notin 0 .. MaxStrays \/ deaths' \notin 0 .. MaxDeaths
<1>1. tool' \in [Runs -> {"none", "running", "writing", "passed", "failed", "done", "hung"}]
  BY DEF ToolEffect, TypeOK
<1>2. toolReceipt' \in 0 .. Garbled
  BY IpcConstants DEF ToolEffect, TypeOK, Runs, Garbled
<1>3. meddlers' \in [Runs -> SUBSET Runs]
  <2>1. CASE UNCHANGED meddlers
    BY <2>1 DEF TypeOK
  <2>2. CASE Touch(r)
    <3>1. \A o \in Runs : meddlers[o] \in SUBSET Runs /\ meddlers[o] \union {r} \in SUBSET Runs
      BY DEF TypeOK
    <3>2. QED
      BY <2>2, <3>1 DEF Touch
  <2>3. QED
    BY <2>1, <2>2 DEF ToolEffect
<1>4. UNCHANGED <<run, pc, expired, result, failed, adapter, toAdapter, toRunner, transcript,
                  runReceipt>>
  BY DEF ToolEffect
<1>5. QED
  BY <1>1, <1>2, <1>3, <1>4 DEF TypeOK

\* Types are kept.
LEMMA TypesKept ==
  ASSUME TypeOK, RunsInOrder, [Next]_vars
  PROVE  TypeOK'
<1>1. run \in 0 .. MaxRuns /\ (pc # "ended" => run \in Runs)
  BY DEF TypeOK, RunsInOrder
<1>2. transcript.messages \in Seq(Messages)
      /\ \A m \in Messages : [transcript EXCEPT !.messages = Append(@, m)]
                             \in [run : 0 .. MaxRuns, messages : Seq(Messages)]
  BY Written DEF TypeOK
<1>f. strays' \in 0 .. MaxStrays /\ deaths' \in 0 .. MaxDeaths
  BY FaultsBounded
<1>0. 0 \in 0 .. MaxRuns
  BY IpcConstants
<1>3. CASE RunnerActs
  <2>1. CASE Start
    <3>1. run' \in Runs /\ MaxRuns \in Nat
      BY <2>1, IpcConstants DEF Start, TypeOK, Runs
    <3>2. adapter' \in [Runs -> States] /\ run' \in 0 .. MaxRuns
      BY <2>1, <3>1 DEF Start, TypeOK, States, Runs
    <3>3. << >> \in Seq(Messages)
      OBVIOUS
    <3>4. transcript' \in [run : 0 .. MaxRuns, messages : Seq(Messages)]
      BY <2>1, <3>2, <3>3 DEF Start
    <3>5. UNCHANGED <<toAdapter, toRunner, runReceipt, tool, toolReceipt, meddlers, failed>>
          /\ pc' = "hello" /\ expired' = FALSE /\ result' = 0
      BY <2>1 DEF Start, toolSide
    <3>6. QED
      BY <1>0, <1>f, <3>2, <3>4, <3>5 DEF TypeOK, States
  <2>2. CASE StartFails
    <3>1. run' \in 0 .. MaxRuns /\ failed' \subseteq Runs
      BY <2>2, IpcConstants DEF StartFails, TypeOK, Runs
    <3>2. UNCHANGED <<pc, expired, result, adapter, toAdapter, toRunner, transcript, runReceipt,
                      tool, toolReceipt, meddlers>>
      BY <2>2 DEF StartFails, adapterSide, toolSide, files
    <3>3. QED
      BY <1>f, <3>1, <3>2 DEF TypeOK
  <2>3. CASE TimePasses
    BY <2>3, <1>f DEF TimePasses, TypeOK, adapterSide, toolSide, files
  <2>4. CASE Stop
    BY <1>1, <2>4, <1>f DEF Stop, Go, TypeOK, toolSide, files
  <2>5. CASE OpenRunReceipt \/ WriteRunReceipt
    <3>1. runReceipt' \in [run : 0 .. MaxRuns, payload : 0 .. MaxRuns]
      BY <1>0, <1>1, <2>5 DEF OpenRunReceipt, WriteRunReceipt, TypeOK
    <3>2. UNCHANGED <<run, expired, result, failed, adapter, toAdapter, toRunner, transcript,
                      tool, toolReceipt, meddlers>>
          /\ pc' \in {"writing", "ended"}
      BY <2>5 DEF OpenRunReceipt, WriteRunReceipt, Go, adapterSide, toolSide
    <3>3. QED
      BY <1>f, <3>1, <3>2 DEF TypeOK
  <2>6. CASE Sent
    <3>1. PICK m \in Messages :
            /\ toAdapter' = [toAdapter EXCEPT ![run] = Append(@, m)]
            /\ transcript' = [transcript EXCEPT !.messages = Append(@, m)]
            /\ pc' \in {"awaitCapabilities", "invoke", "awaitResult"} /\ pc # "ended"
            /\ UNCHANGED <<run, expired, result, failed, adapter, toRunner, runReceipt, tool,
                           toolReceipt, meddlers>>
      BY <2>6 DEF Sent
    <3>2. toAdapter' \in [Runs -> Seq(Messages)]
      BY <1>1, <3>1, Written DEF TypeOK
    <3>3. QED
      BY <1>2, <3>1, <3>2, <1>f DEF TypeOK
  <2>7. CASE Received
    <3>1. PICK m \in Messages : Take(m) /\ pc # "ended"
                               /\ pc' \in {pc, "ended", "acknowledge", "stop"}
                               /\ UNCHANGED <<run, expired>> /\ result' \in {result, m.payload}
                               /\ failed' \in {failed, failed \union {run}}
      BY <2>7 DEF Received, Fail
    <3>2. toRunner' \in [Runs -> Seq(Messages)]
      BY <1>1, <3>1, Taken DEF TypeOK, Take
    <3>3. m.payload \in 0 .. MaxRuns
      BY <3>1 DEF Messages
    <3>4. UNCHANGED <<adapter, toAdapter, runReceipt, tool, toolReceipt, meddlers>>
          /\ transcript' = [transcript EXCEPT !.messages = Append(@, m)]
      BY <3>1 DEF Take, toolSide
    <3>5. QED
      BY <1>1, <1>2, <3>1, <3>2, <3>3, <3>4, <1>f DEF TypeOK
  <2>8. CASE Quits
    BY <1>1, <2>8, <1>f DEF Quits, Fail, TypeOK, adapterSide, toolSide, files
  <2>9. QED
    BY <1>3, RunnerCases, <2>1, <2>2, <2>3, <2>4, <2>5, <2>6, <2>7, <2>8
<1>4. ASSUME NEW r \in Runs, AdapterActs(r) PROVE TypeOK'
  <2>1. Effect(r)
    BY <1>4, AdapterEffect
  <2>2. adapter' \in [Runs -> States]
    BY <2>1 DEF Effect, TypeOK, States
  <2> toAdapter \in [Runs -> Seq(Messages)] /\ toRunner \in [Runs -> Seq(Messages)]
    BY DEF TypeOK
  <2>3. toAdapter' \in [Runs -> Seq(Messages)]
    <3>1. CASE UNCHANGED toAdapter
      BY <3>1
    <3>2. CASE toAdapter[r] # << >> /\ toAdapter' = [toAdapter EXCEPT ![r] = Tail(@)]
      BY <3>2, Taken
    <3>3. QED
      BY <2>1, <3>1, <3>2 DEF Effect
  <2>4. toRunner' \in [Runs -> Seq(Messages)]
    <3>1. CASE UNCHANGED toRunner
      BY <3>1
    <3>2. ASSUME NEW m \in Messages, toRunner' = [toRunner EXCEPT ![r] = Append(@, m)]
          PROVE  toRunner' \in [Runs -> Seq(Messages)]
      BY <3>2, Written
    <3>3. QED
      BY <2>1, <3>1, <3>2 DEF Effect
  <2>5. tool' \in [Runs -> {"none", "running", "writing", "passed", "failed", "done", "hung"}]
    <3>1. /\ tool \in [Runs -> {"none", "running", "writing", "passed", "failed", "done", "hung"}]
          /\ \/ tool' = tool
             \/ tool' = [tool EXCEPT ![r] = "running"]
             \/ tool' = [tool EXCEPT ![r] = "done"]
      BY <2>1 DEF Effect, ToolPart, TypeOK
    <3>2. QED
      BY <3>1
  <2>6. UNCHANGED <<run, pc, expired, result, failed, transcript, runReceipt, toolReceipt,
                    meddlers>>
    BY <2>1 DEF Effect
  <2>7. QED
    BY <2>2, <2>3, <2>4, <2>5, <2>6, <1>f DEF TypeOK, States
<1>5. ASSUME NEW r \in Runs, ToolEffect(r) PROVE TypeOK'
  BY <1>5, <1>f, ToolTypes
<1>6. CASE UNCHANGED vars
  BY <1>6 DEF vars, TypeOK
<1>7. QED
  BY <1>3, <1>4, <1>5, <1>6, NextCases

-------------------------------------------------------------------------------
(* Which steps touch which run *)

\* A step of one adapter, at its own pipes and state and at the others'.
LEMMA EffectAt ==
  ASSUME TypeOK, NEW r \in Runs, Effect(r)
  PROVE  /\ \A o \in Runs : o # r => /\ adapter'[o] = adapter[o] /\ toAdapter'[o] = toAdapter[o]
                                   /\ toRunner'[o] = toRunner[o]
         /\ \/ toAdapter'[r] = toAdapter[r]
            \/ toAdapter[r] # << >> /\ toAdapter'[r] = Tail(toAdapter[r])
         /\ adapter'[r] \in Shaking => adapter[r] \in Shaking
         /\ \A o \in Runs : o # r => tool'[o] = tool[o]
         /\ \/ tool'[r] = tool[r]
            \/ /\ toAdapter[r] # << >> /\ Head(toAdapter[r]).type = "invoke"
               /\ toAdapter'[r] = Tail(toAdapter[r]) /\ UNCHANGED toRunner
               /\ tool'[r] = "running"
            \/ tool[r] \in {"passed", "failed"} /\ tool'[r] = "done"
         /\ \/ toRunner'[r] = toRunner[r] /\ (adapter'[r] = "greeted" => adapter[r] = "greeted")
            \/ /\ ~ RunnerGone(r)
               /\ \E m \in Messages :
                    /\ toRunner'[r] = Append(toRunner[r], m)
                    /\ Spoken(r, m, adapter'[r])
                    /\ adapter'[r] = "greeted" => adapter[r] = "greeted" \/ m.type = "hello_ack"
<1> /\ adapter \in [Runs -> States]
    /\ toAdapter \in [Runs -> Seq(Messages)] /\ toRunner \in [Runs -> Seq(Messages)]
  BY DEF TypeOK, States
<1>1. PICK s \in States :
       /\ adapter' = [adapter EXCEPT ![r] = s]
       /\ s \in Shaking => adapter[r] \in Shaking
       /\ \/ UNCHANGED toRunner /\ (s = "greeted" => adapter[r] = "greeted")
          \/ /\ ~ RunnerGone(r)
             /\ \E m \in Messages :
                  /\ toRunner' = [toRunner EXCEPT ![r] = Append(@, m)]
                  /\ Spoken(r, m, s)
                  /\ s = "greeted" => adapter[r] = "greeted" \/ m.type = "hello_ack"
  BY DEF Effect
<1>2. adapter'[r] = s /\ \A o \in Runs : o # r => adapter'[o] = adapter[o]
  BY <1>1
<1>3. /\ \A o \in Runs : o # r => toAdapter'[o] = toAdapter[o]
      /\ \/ toAdapter'[r] = toAdapter[r]
         \/ toAdapter[r] # << >> /\ toAdapter'[r] = Tail(toAdapter[r])
  <2>1. \/ UNCHANGED toAdapter
        \/ toAdapter[r] # << >> /\ toAdapter' = [toAdapter EXCEPT ![r] = Tail(@)]
    BY DEF Effect
  <2>2. QED
    BY <2>1, Taken
<1>t. /\ \A o \in Runs : o # r => tool'[o] = tool[o]
      /\ \/ tool'[r] = tool[r]
         \/ /\ toAdapter[r] # << >> /\ Head(toAdapter[r]).type = "invoke"
            /\ toAdapter'[r] = Tail(toAdapter[r]) /\ UNCHANGED toRunner
            /\ tool'[r] = "running"
         \/ tool[r] \in {"passed", "failed"} /\ tool'[r] = "done"
  BY DEF Effect, ToolPart, TakesInvoke, TypeOK
<1>4. CASE UNCHANGED toRunner /\ (s = "greeted" => adapter[r] = "greeted")
  BY <1>1, <1>2, <1>3, <1>4, <1>t
<1>5. ASSUME ~ RunnerGone(r), NEW m \in Messages,
             toRunner' = [toRunner EXCEPT ![r] = Append(@, m)], Spoken(r, m, s),
             s = "greeted" => adapter[r] = "greeted" \/ m.type = "hello_ack"
      PROVE  /\ \A o \in Runs : o # r => toRunner'[o] = toRunner[o]
             /\ \E n \in Messages :
                    /\ toRunner'[r] = Append(toRunner[r], n)
                    /\ Spoken(r, n, adapter'[r])
                    /\ adapter'[r] = "greeted" => adapter[r] = "greeted" \/ n.type = "hello_ack"
  <2>1. toRunner'[r] = Append(toRunner[r], m) /\ \A o \in Runs : o # r => toRunner'[o] = toRunner[o]
    BY <1>5, Written
  <2>2. QED
    BY <1>2, <1>5, <2>1
<1>6. QED
  BY <1>1, <1>2, <1>3, <1>4, <1>5, <1>t

\* A message that is written is in the transcript and in the pipe of the run.
LEMMA SentAt ==
  ASSUME TypeOK, RunsInOrder, Sent
  PROVE  /\ run \in Runs /\ pc' \in {"awaitCapabilities", "invoke", "awaitResult"}
         /\ pc \in {"hello", "acknowledge", "invoke"}
         /\ UNCHANGED <<run, result, failed, adapter, toRunner, runReceipt, tool, toolReceipt,
                        meddlers>>
         /\ transcript'.run = transcript.run
         /\ \A o \in Runs : o # run => toAdapter'[o] = toAdapter[o]
         /\ \E m \in Messages :
              /\ toAdapter'[run] = Append(toAdapter[run], m)
              /\ transcript'.messages = Append(transcript.messages, m)
              /\ \/ pc = "hello" /\ m.type = "hello" /\ pc' = "awaitCapabilities"
                 \/ pc = "acknowledge" /\ m.type = "capabilities_ack" /\ pc' = "invoke"
                 \/ pc = "invoke" /\ m.type = "invoke" /\ pc' = "awaitResult"
<1>1. PICK m \in Messages :
    /\ \/ pc = "hello" /\ m.type = "hello" /\ pc' = "awaitCapabilities"
       \/ pc = "acknowledge" /\ m.type = "capabilities_ack" /\ pc' = "invoke"
       \/ pc = "invoke" /\ m.type = "invoke" /\ pc' = "awaitResult"
    /\ toAdapter' = [toAdapter EXCEPT ![run] = Append(@, m)]
    /\ transcript' = [transcript EXCEPT !.messages = Append(@, m)]
    /\ UNCHANGED <<run, expired, result, failed, adapter, toRunner, runReceipt, tool, toolReceipt,
                   meddlers>>
  BY DEF Sent
<1>2. run \in Runs
  BY <1>1 DEF RunsInOrder
<1>3. toAdapter'[run] = Append(toAdapter[run], m)
      /\ \A o \in Runs : o # run => toAdapter'[o] = toAdapter[o]
  BY <1>1, <1>2, Written DEF TypeOK
<1>4. transcript'.run = transcript.run /\ transcript'.messages = Append(transcript.messages, m)
  BY <1>1, Written DEF TypeOK
<1>5. QED
  BY <1>1, <1>2, <1>3, <1>4

\* A message that is read leaves the pipe of the run for the transcript.
LEMMA ReceivedAt ==
  ASSUME TypeOK, RunsInOrder, Received
  PROVE  /\ run \in Runs /\ pc \in {"awaitCapabilities", "awaitResult"}
         /\ UNCHANGED <<run, adapter, toAdapter, runReceipt, tool, toolReceipt, meddlers>>
         /\ transcript'.run = transcript.run /\ toRunner[run] # << >>
         /\ toRunner'[run] = Tail(toRunner[run])
         /\ \A o \in Runs : o # run => toRunner'[o] = toRunner[o]
         /\ transcript'.messages = Append(transcript.messages, Head(toRunner[run]))
         /\ \/ UNCHANGED <<pc, result, failed>>
            \/ pc' = "ended" /\ failed' = failed \union {run} /\ UNCHANGED result
            \/ /\ \/ /\ pc = "awaitCapabilities" /\ Head(toRunner[run]).type = "capabilities"
                     /\ pc' = "acknowledge" /\ UNCHANGED result
                  \/ /\ pc = "awaitResult" /\ Head(toRunner[run]).type = "result"
                     /\ pc' = "stop" /\ result' = Head(toRunner[run]).payload
               /\ UNCHANGED failed
<1>1. PICK m \in Messages :
    /\ Take(m) /\ pc \in {"awaitCapabilities", "awaitResult"}
    /\ \/ UNCHANGED <<run, pc, expired, result, failed>>
       \/ Fail
       \/ /\ \/ /\ pc = "awaitCapabilities" /\ m.type = "capabilities" /\ pc' = "acknowledge"
                /\ UNCHANGED result
             \/ pc = "awaitResult" /\ m.type = "result" /\ pc' = "stop" /\ result' = m.payload
          /\ UNCHANGED <<run, expired, failed>>
  BY DEF Received
<1>2. run \in Runs
  BY <1>1 DEF RunsInOrder
<1>3. toRunner[run] # << >> /\ m = Head(toRunner[run])
      /\ toRunner' = [toRunner EXCEPT ![run] = Tail(@)]
      /\ transcript' = [transcript EXCEPT !.messages = Append(@, m)]
      /\ UNCHANGED <<adapter, toAdapter, runReceipt, tool, toolReceipt, meddlers>>
  BY <1>1 DEF Take, toolSide
<1>4. toRunner'[run] = Tail(toRunner[run])
      /\ \A o \in Runs : o # run => toRunner'[o] = toRunner[o]
  BY <1>2, <1>3, Taken DEF TypeOK
<1>5. transcript'.run = transcript.run /\ transcript'.messages = Append(transcript.messages, m)
  BY <1>3, Written DEF TypeOK
<1>6. transcript'.messages = Append(transcript.messages, Head(toRunner[run]))
  BY <1>3, <1>5
<1>7. \/ UNCHANGED <<run, pc, result, failed>>
      \/ UNCHANGED <<run, result>> /\ pc' = "ended" /\ failed' = failed \union {run}
      \/ /\ \/ /\ pc = "awaitCapabilities" /\ Head(toRunner[run]).type = "capabilities"
               /\ pc' = "acknowledge" /\ UNCHANGED result
            \/ /\ pc = "awaitResult" /\ Head(toRunner[run]).type = "result"
               /\ pc' = "stop" /\ result' = Head(toRunner[run]).payload
         /\ UNCHANGED <<run, failed>>
  <2>1. Head(toRunner[run]) = m
    BY <1>3
  <2>2. QED
    BY <1>1, <2>1 DEF Fail
<1>8. QED
  BY <1>1, <1>2, <1>3, <1>4, <1>5, <1>6, <1>7

\* A run that starts is the next one, and nothing of it was there.
LEMMA StartAt ==
  ASSUME TypeOK, RunsInOrder, Start
  PROVE  /\ run' = run + 1 /\ run' \in Runs /\ pc = "ended" /\ pc' = "hello" /\ run \in Nat
         /\ UNCHANGED <<toAdapter, toRunner, runReceipt, tool, toolReceipt, meddlers, failed>>
         /\ transcript'.run = run' /\ transcript'.messages = << >>
         /\ adapter'[run'] \in {"fresh", "otherVersion"}
         /\ \A o \in Runs : o # run' => adapter'[o] = adapter[o]
         /\ toAdapter[run'] = << >> /\ toRunner[run'] = << >>
<1>1. run' = run + 1 /\ run' \in Runs /\ run \in Nat /\ run' > run
  BY IpcConstants DEF Start, TypeOK, Runs
<1>2. toAdapter[run'] = << >> /\ toRunner[run'] = << >>
  BY <1>1 DEF RunsInOrder
<1>3. adapter'[run'] \in {"fresh", "otherVersion"}
      /\ \A o \in Runs : o # run' => adapter'[o] = adapter[o]
  BY <1>1 DEF Start, TypeOK
<1>4. QED
  BY <1>1, <1>2, <1>3 DEF Start, toolSide

\* A run whose arguments are refused is the next one, and has failed.
LEMMA StartFailsAt ==
  ASSUME TypeOK, RunsInOrder, StartFails
  PROVE  /\ run' = run + 1 /\ run' \in Runs /\ run \in Nat /\ pc = "ended" /\ pc' = "ended"
         /\ failed' = failed \union {run'} /\ adapter[run'] = "absent"
         /\ toAdapter[run'] = << >> /\ toRunner[run'] = << >>
         /\ UNCHANGED <<result, adapter, toAdapter, toRunner, transcript, runReceipt, tool,
                        toolReceipt, meddlers>>
<1>1. run' = run + 1 /\ run' \in Runs /\ run \in Nat /\ run' > run
  BY IpcConstants DEF StartFails, TypeOK, Runs
<1>2. adapter[run'] = "absent" /\ toAdapter[run'] = << >> /\ toRunner[run'] = << >>
  BY <1>1 DEF RunsInOrder
<1>3. QED
  BY <1>1, <1>2 DEF StartFails, adapterSide, toolSide, files

\* A run that fails ends and leaves everything else.
LEMMA QuitsAt ==
  ASSUME RunsInOrder, Quits
  PROVE  /\ run \in Runs /\ pc # "ended" /\ pc' = "ended" /\ failed' = failed \union {run}
         /\ UNCHANGED <<run, result, adapter, toAdapter, toRunner, transcript, runReceipt, tool,
                        toolReceipt, meddlers>>
BY DEF RunsInOrder, Quits, Fail, adapterSide, toolSide, files

\* The runner stops its own adapter.
LEMMA StopAt ==
  ASSUME TypeOK, RunsInOrder, Stop
  PROVE  /\ run \in Runs /\ pc = "stop" /\ pc' = "receipt" /\ adapter'[run] = "exited"
         /\ \A o \in Runs : o # run => adapter'[o] = adapter[o]
         /\ UNCHANGED <<run, result, failed, toAdapter, toRunner, transcript, runReceipt, tool,
                        toolReceipt, meddlers>>
<1>1. run \in Runs
  BY DEF RunsInOrder, Stop
<1>2. QED
  BY <1>1 DEF Stop, Go, toolSide, files, TypeOK

\* The receipt is emptied.
LEMMA OpenAt ==
  ASSUME RunsInOrder, OpenRunReceipt
  PROVE  /\ run \in Runs /\ pc = "receipt" /\ pc' = "writing"
         /\ runReceipt'.run = 0 /\ runReceipt'.payload = 0
         /\ UNCHANGED <<run, result, failed, adapter, toAdapter, toRunner, transcript, tool,
                        toolReceipt, meddlers>>
BY DEF RunsInOrder, OpenRunReceipt, Go, adapterSide, toolSide

\* The receipt is of the run that is on.
LEMMA WriteAt ==
  ASSUME RunsInOrder, WriteRunReceipt
  PROVE  /\ run \in Runs /\ pc = "writing" /\ pc' = "ended"
         /\ runReceipt'.run = run /\ runReceipt'.payload = result
         /\ UNCHANGED <<run, result, failed, adapter, toAdapter, toRunner, transcript, tool,
                        toolReceipt, meddlers>>
BY DEF RunsInOrder, WriteRunReceipt, Go, adapterSide, toolSide

\* Time only makes the invoke late.
LEMMA TimeAt ==
  ASSUME TimePasses
  PROVE  UNCHANGED <<run, pc, result, failed, adapter, toAdapter, toRunner, transcript,
                     runReceipt, tool, toolReceipt, meddlers>>
BY DEF TimePasses, adapterSide, toolSide, files

\* A step of one tool, at its own state and at the others'; it changes the receipt
\* file only as one who meddles with those that are being written or read.
LEMMA ToolAt ==
  ASSUME TypeOK, NEW r \in Runs, ToolEffect(r)
  PROVE  /\ UNCHANGED <<run, pc, result, failed, adapter, toAdapter, toRunner, transcript,
                        runReceipt>>
         /\ Going(r) /\ tool'[r] \in {"writing", "passed", "failed", "hung"}
         /\ \A o \in Runs : o # r => tool'[o] = tool[o]
         /\ \A o \in Runs : meddlers[o] \subseteq meddlers'[o]
         /\ \/ UNCHANGED toolReceipt /\ tool'[r] \in {"failed", "hung"}
            \/ /\ toolReceipt' \in {0, r, Garbled}
               /\ \A o \in Runs : o # r /\ tool[o] \in {"writing", "passed"} => r \in meddlers'[o]
               /\ tool'[r] = "writing" => toolReceipt' = 0
               /\ tool'[r] = "passed" => /\ tool[r] = "writing" /\ toolReceipt' \in {r, Garbled}
                                         /\ toolReceipt = 0 => toolReceipt' = r
<1> /\ tool \in [Runs -> {"none", "running", "writing", "passed", "failed", "done", "hung"}]
    /\ meddlers \in [Runs -> SUBSET Runs]
  BY DEF TypeOK
<1>1. PICK s \in {"writing", "passed", "failed", "hung"} :
       /\ tool' = [tool EXCEPT ![r] = s]
       /\ \/ s \in {"failed", "hung"} /\ UNCHANGED <<toolReceipt, meddlers>>
          \/ s = "writing" /\ toolReceipt' = 0 /\ Touch(r)
          \/ /\ s \in {"passed", "failed"} /\ tool[r] = "writing" /\ Touch(r)
             /\ toolReceipt' \in {r, Garbled} /\ (toolReceipt = 0 => toolReceipt' = r)
  BY DEF ToolEffect
<1>2. Touch(r) => \A o \in Runs :
        /\ meddlers[o] \subseteq meddlers'[o]
        /\ o # r /\ tool[o] \in {"writing", "passed"} => r \in meddlers'[o]
  BY DEF Touch
<1>3. tool'[r] = s /\ \A o \in Runs : o # r => tool'[o] = tool[o]
  BY <1>1
<1>4. QED
  BY <1>1, <1>2, <1>3 DEF ToolEffect

-------------------------------------------------------------------------------
(* Each part of the invariant is kept *)

\* Runs come one after the other, and their files with them.
LEMMA RunsInOrderKept ==
  ASSUME TypeOK, RunsInOrder, [Next]_vars
  PROVE  RunsInOrder'
<1> run \in Int /\ transcript.run \in Int /\ runReceipt.run \in Int /\ Runs \subseteq Int
  BY IpcConstants DEF TypeOK, Runs
<1>1. CASE RunnerActs
  <2>1. CASE Start
    BY <2>1, StartAt DEF RunsInOrder
  <2>2. CASE StartFails
    <3>1. run' = run + 1 /\ run \in Nat /\ pc' = "ended"
          /\ UNCHANGED <<adapter, toAdapter, toRunner, transcript, runReceipt>>
      BY <2>2, StartFailsAt
    <3>2. QED
      BY <3>1 DEF RunsInOrder
  <2>3. CASE TimePasses
    BY <2>3, TimeAt DEF RunsInOrder
  <2>4. CASE Stop
    <3>1. /\ pc # "ended" /\ pc' # "ended" /\ run \in Runs
          /\ UNCHANGED <<run, toAdapter, toRunner, transcript, runReceipt>>
          /\ \A o \in Runs : o # run => adapter'[o] = adapter[o]
      BY <2>4, StopAt
    <3>2. ASSUME NEW r \in Runs, r > run PROVE adapter'[r] = "absent"
      <4>1. r # run
        BY <3>2
      <4>2. adapter'[r] = adapter[r]
        BY <3>1, <4>1
      <4>3. QED
        BY <3>2, <4>2 DEF RunsInOrder
    <3>3. QED
      BY <3>1, <3>2 DEF RunsInOrder
  <2>5. CASE OpenRunReceipt \/ WriteRunReceipt
    <3>1. /\ pc \in {"receipt", "writing"} /\ run \in Runs
          /\ UNCHANGED <<run, adapter, toAdapter, toRunner, transcript>>
          /\ \/ runReceipt'.run = 0 /\ pc' = "writing"
             \/ runReceipt'.run = run /\ pc' = "ended"
      BY <2>5, OpenAt, WriteAt
    <3>2. run >= 1
      BY <3>1 DEF Runs
    <3>3. QED
      BY <3>1, <3>2 DEF RunsInOrder
  <2>6. CASE Sent
    <3>1. /\ run \in Runs /\ pc # "ended" /\ pc' # "ended"
          /\ UNCHANGED <<run, adapter, toRunner, runReceipt>>
          /\ transcript'.run = transcript.run
          /\ \A o \in Runs : o # run => toAdapter'[o] = toAdapter[o]
      BY <2>6, SentAt
    <3>2. QED
      BY <3>1 DEF RunsInOrder
  <2>7. CASE Received
    BY <2>7, ReceivedAt DEF RunsInOrder
  <2>8. CASE Quits
    BY <2>8, QuitsAt DEF RunsInOrder
  <2>9. QED
    BY <1>1, RunnerCases, <2>1, <2>2, <2>3, <2>4, <2>5, <2>6, <2>7, <2>8
<1>2. ASSUME NEW r \in Runs, AdapterActs(r) PROVE RunsInOrder'
  <2>1. Effect(r)
    BY <1>2, AdapterEffect
  <2>2. ~ r > run /\ UNCHANGED <<run, pc, transcript, runReceipt>>
    BY <2>1 DEF Effect, RunsInOrder
  <2>3. \A o \in Runs : o # r => /\ adapter'[o] = adapter[o] /\ toAdapter'[o] = toAdapter[o]
                                /\ toRunner'[o] = toRunner[o]
    BY <2>1, EffectAt
  <2>4. QED
    BY <2>2, <2>3 DEF RunsInOrder
<1>3. CASE UNCHANGED vars \/ \E r \in Runs : ToolEffect(r)
  BY <1>3 DEF vars, ToolEffect, RunsInOrder
<1>4. QED
  BY <1>1, <1>2, <1>3, NextCases

\* An adapter leaves the handshake with its capabilities; the runner waits for them
\* before it goes on to the invoke.
LEMMA BeforeHandshakeKept ==
  ASSUME TypeOK, RunsInOrder, BeforeHandshake, [Next]_vars
  PROVE  BeforeHandshake'
<1> /\ toAdapter \in [Runs -> Seq(Messages)] /\ toRunner \in [Runs -> Seq(Messages)]
    /\ run \in Int /\ Runs \subseteq Int
  BY IpcConstants DEF TypeOK, Runs
<1> DEFINE Before(r) == adapter[r] \in {"absent", "fresh", "otherVersion", "greeted"} =>
                          /\ ~ Has(toRunner[r], "capabilities") /\ ~ Has(toAdapter[r], "invoke")
                          /\ r = run => pc \in {"hello", "awaitCapabilities", "ended"}
<1> SUFFICES ASSUME NEW r \in Runs PROVE Before(r)'
  BY DEF BeforeHandshake
<1>b. Before(r)
  BY DEF BeforeHandshake
<1>e. ~ Has(<< >>, "capabilities") /\ ~ Has(<< >>, "invoke")
  BY DEF Has
<1>1. CASE RunnerActs
  <2>1. CASE Start
    BY <1>b, <1>e, <2>1, StartAt
  <2>2. CASE StartFails
    BY <1>b, <1>e, <2>2, StartFailsAt
  <2>3. CASE TimePasses
    BY <1>b, <2>3, TimeAt
  <2>4. CASE Stop
    BY <1>b, <2>4, StopAt
  <2>5. CASE OpenRunReceipt \/ WriteRunReceipt
    BY <1>b, <2>5, OpenAt, WriteAt
  <2>6. CASE Sent
    <3>1. UNCHANGED <<run, adapter, toRunner>> /\ run \in Runs
          /\ \A o \in Runs : o # run => toAdapter'[o] = toAdapter[o]
      BY <2>6, SentAt
    <3>2. PICK m \in Messages :
            /\ toAdapter'[run] = Append(toAdapter[run], m)
            /\ \/ pc = "hello" /\ m.type = "hello" /\ pc' = "awaitCapabilities"
               \/ pc \in {"acknowledge", "invoke"}
      BY <2>6, SentAt
    <3>3. CASE r = run
      <4>1. toAdapter[r] \in Seq(Messages) /\ toAdapter'[r] = Append(toAdapter[r], m)
        BY <3>2, <3>3
      <4>2. Has(toAdapter'[r], "invoke") => Has(toAdapter[r], "invoke") \/ m.type = "invoke"
        BY <4>1, HasAppend
      <4>3. QED
        BY <1>b, <3>1, <3>2, <3>3, <4>2
    <3>4. CASE r # run
      BY <1>b, <3>1, <3>4
    <3>5. QED
      BY <3>3, <3>4
  <2>7. CASE Received
    <3>1. r # run => toRunner'[r] = toRunner[r]
      BY <2>7, ReceivedAt
    <3>2. r = run => toRunner[r] # << >> /\ toRunner'[r] = Tail(toRunner[r])
      BY <2>7, ReceivedAt
    <3>3. ~ Has(toRunner[r], "capabilities") => ~ Has(toRunner'[r], "capabilities")
      BY <3>1, <3>2, HasTail
    <3>4. UNCHANGED <<run, adapter, toAdapter>> /\ pc \in {"awaitCapabilities", "awaitResult"}
          /\ \/ pc' \in {pc, "ended"} \/ pc = "awaitResult"
             \/ Head(toRunner[run]).type = "capabilities"
      BY <2>7, ReceivedAt
    <3>5. r = run /\ Head(toRunner[run]).type = "capabilities" => Has(toRunner[r], "capabilities")
      BY <3>2, HasTail
    <3>6. QED
      BY <1>b, <3>3, <3>4, <3>5
  <2>8. CASE Quits
    BY <1>b, <2>8, QuitsAt
  <2>9. QED
    BY <1>1, RunnerCases, <2>1, <2>2, <2>3, <2>4, <2>5, <2>6, <2>7, <2>8
<1>2. ASSUME NEW q \in Runs, AdapterActs(q) PROVE Before(r)'
  <2>1. Effect(q) /\ UNCHANGED <<run, pc>>
    BY <1>2, AdapterEffect DEF Effect
  <2>2. CASE r # q
    BY <1>b, <2>1, <2>2, EffectAt
  <2>3. CASE r = q
    <3> SUFFICES ASSUME adapter'[r] \in Shaking PROVE Before(r)'
      BY DEF Shaking
    <3>1. adapter[r] \in Shaking
      BY <2>1, <2>3, EffectAt
    <3>2. ~ Has(toRunner'[r], "capabilities")
      <4>1. CASE toRunner'[r] = toRunner[r]
        BY <1>b, <3>1, <4>1 DEF Shaking
      <4>2. ASSUME NEW m \in Messages, toRunner'[r] = Append(toRunner[r], m),
                   Spoken(r, m, adapter'[r])
            PROVE  ~ Has(toRunner'[r], "capabilities")
        <5>1. m.type # "capabilities"
          BY <4>2 DEF Spoken, Shaking
        <5>2. QED
          BY <1>b, <3>1, <4>2, <5>1, HasAppend DEF Shaking
      <4>3. QED
        BY <2>1, <2>3, <4>1, <4>2, EffectAt
    <3>3. ~ Has(toAdapter'[r], "invoke")
      BY <1>b, <2>1, <2>3, <3>1, EffectAt, HasTail DEF Shaking
    <3>4. QED
      BY <1>b, <2>1, <3>1, <3>2, <3>3 DEF Shaking
  <2>4. QED
    BY <2>2, <2>3
<1>3. CASE UNCHANGED vars \/ \E q \in Runs : ToolEffect(q)
  BY <1>b, <1>3 DEF vars, ToolEffect
<1>4. QED
  BY <1>1, <1>2, <1>3, NextCases

\* A run that does not fail stops its adapter before it ends; one that fails is
\* among the failed.
LEMMA NoneLeftBehindKept ==
  ASSUME TypeOK, RunsInOrder, NoneLeftBehind, [Next]_vars
  PROVE  NoneLeftBehind'
<1> run \in Int /\ Runs \subseteq Int
  BY IpcConstants DEF TypeOK, Runs
<1>1. CASE RunnerActs
  <2>1. CASE Start
    <3>1. /\ run' = run + 1 /\ pc = "ended" /\ pc' = "hello" /\ UNCHANGED failed
          /\ \A o \in Runs : o # run' => adapter'[o] = adapter[o]
      BY <2>1, StartAt
    <3>2. QED
      BY <3>1 DEF NoneLeftBehind
  <2>2. CASE StartFails
    <3>1. /\ run' = run + 1 /\ pc = "ended" /\ pc' = "ended"
          /\ failed' = failed \union {run'} /\ UNCHANGED adapter
      BY <2>2, StartFailsAt
    <3>2. QED
      BY <3>1 DEF NoneLeftBehind
  <2>3. CASE TimePasses
    BY <2>3, TimeAt DEF NoneLeftBehind
  <2>4. CASE Stop
    BY <2>4, StopAt DEF NoneLeftBehind
  <2>5. CASE OpenRunReceipt \/ WriteRunReceipt
    BY <2>5, OpenAt, WriteAt DEF NoneLeftBehind
  <2>6. CASE Sent
    <3>1. UNCHANGED <<run, failed, adapter>> /\ pc' \notin {"ended", "receipt", "writing"}
      BY <2>6, SentAt
    <3>2. QED
      BY <3>1 DEF NoneLeftBehind
  <2>7. CASE Received
    <3>1. /\ UNCHANGED <<run, adapter>> /\ pc \in {"awaitCapabilities", "awaitResult"}
          /\ \/ pc' \in {pc, "acknowledge", "stop"} /\ UNCHANGED failed
             \/ pc' = "ended" /\ failed' = failed \union {run}
      BY <2>7, ReceivedAt
    <3>2. QED
      BY <3>1 DEF NoneLeftBehind
  <2>8. CASE Quits
    BY <2>8, QuitsAt DEF NoneLeftBehind
  <2>9. QED
    BY <1>1, RunnerCases, <2>1, <2>2, <2>3, <2>4, <2>5, <2>6, <2>7, <2>8
<1>2. ASSUME NEW r \in Runs, AdapterActs(r) PROVE NoneLeftBehind'
  <2>1. Effect(r)
    BY <1>2, AdapterEffect
  <2>2. adapter[r] # "exited" /\ UNCHANGED <<run, pc, failed>>
    BY <2>1 DEF Effect
  <2>3. \A o \in Runs : o # r => adapter'[o] = adapter[o]
    BY <2>1, EffectAt
  <2>4. pc \in {"receipt", "writing"} => run \in Runs
    BY DEF RunsInOrder
  <2>5. QED
    BY <2>2, <2>3, <2>4 DEF NoneLeftBehind
<1>3. CASE UNCHANGED vars \/ \E r \in Runs : ToolEffect(r)
  BY <1>3 DEF vars, ToolEffect, NoneLeftBehind
<1>4. QED
  BY <1>1, <1>2, <1>3, NextCases

\* The last message of a sequence that has just been appended to.
LEMMA LastAppended ==
  ASSUME NEW s \in Seq(Messages), NEW m \in Messages
  PROVE  Append(s, m)[Len(Append(s, m))] = m
BY AppendAt

\* An invoke that is appended is the only one if there was none.
LEMMA OnceKept ==
  ASSUME NEW s \in Seq(Messages)
  PROVE  /\ \A m \in Messages : m.type # "invoke" \/ ~ Has(s, "invoke") =>
              (Once(s) => Once(Append(s, m)))
         /\ s # << >> /\ Once(s) => /\ Once(Tail(s))
                                    /\ Head(s).type = "invoke" => ~ Has(Tail(s), "invoke")
<1>1. ASSUME NEW m \in Messages, m.type # "invoke" \/ ~ Has(s, "invoke"), Once(s),
             NEW i \in DOMAIN Append(s, m), NEW j \in DOMAIN Append(s, m),
             Append(s, m)[i].type = "invoke", Append(s, m)[j].type = "invoke"
      PROVE  i = j
  <2>1. /\ i \in 1 .. Len(s) \/ i = Len(s) + 1
        /\ j \in 1 .. Len(s) \/ j = Len(s) + 1
        /\ DOMAIN s = 1 .. Len(s) /\ Append(s, m)[Len(s) + 1] = m
        /\ \A k \in 1 .. Len(s) : Append(s, m)[k] = s[k]
    BY AppendAt
  <2>2. QED
    BY <1>1, <2>1 DEF Once, Has
<1>2. ASSUME s # << >>, Once(s), NEW i \in DOMAIN Tail(s), Tail(s)[i].type = "invoke"
      PROVE  /\ Head(s).type # "invoke"
             /\ \A j \in DOMAIN Tail(s) : Tail(s)[j].type = "invoke" => i = j
  <2>1. /\ \A k \in DOMAIN Tail(s) : /\ k \in 1 .. Len(s) - 1 /\ k + 1 \in DOMAIN s
                                     /\ Tail(s)[k] = s[k + 1]
        /\ 1 \in DOMAIN s /\ Head(s) = s[1] /\ Len(s) \in Nat
    BY <1>2, TailAt
  <2>2. i + 1 # 1 /\ i \in Nat
    BY <1>2, <2>1
  <2>3. ASSUME NEW j \in DOMAIN Tail(s), Tail(s)[j].type = "invoke" PROVE i = j
    <3>1. j \in Nat /\ i + 1 = j + 1
      BY <1>2, <2>1, <2>3 DEF Once
    <3>2. QED
      BY <2>2, <3>1
  <2>4. Head(s).type # "invoke"
    BY <1>2, <2>1, <2>2 DEF Once
  <2>5. QED
    BY <2>3, <2>4
<1>3. QED
  BY <1>1, <1>2 DEF Once, Has

\* The runner sends one invoke; its adapter answers it, or starts one tool and takes
\* note of its end; the runner waits for the answer or fails.
LEMMA OneInvokeKept ==
  ASSUME TypeOK, RunsInOrder, NoneLeftBehind, OneInvoke, [Next]_vars
  PROVE  OneInvoke'
<1> /\ toAdapter \in [Runs -> Seq(Messages)] /\ toRunner \in [Runs -> Seq(Messages)]
    /\ run \in Int /\ Runs \subseteq Int
  BY IpcConstants DEF TypeOK, Runs
<1> DEFINE Early == {"hello", "awaitCapabilities", "acknowledge", "invoke"}
           Late  == {"stop", "receipt", "writing"}
           One(r) ==
             /\ Once(toAdapter[r])
             /\ tool[r] # "none" => ~ Pending(r) /\ r <= run
             /\ Has(toRunner[r], "result") => ~ Pending(r) /\ ~ Going(r)
             /\ r < run \/ (r = run /\ pc = "ended") => r \in failed \/ ~ Going(r)
             /\ r = run /\ pc \in Early =>
                  ~ Pending(r) /\ tool[r] = "none" /\ ~ Has(toRunner[r], "result")
             /\ r = run /\ pc \in Late => ~ Pending(r) /\ ~ Going(r)
<1> SUFFICES ASSUME NEW r \in Runs PROVE One(r)'
  BY DEF OneInvoke
<1>b. One(r)
  BY DEF OneInvoke
<1>h. ~ Has(<< >>, "result") /\ ~ Has(<< >>, "invoke")
  BY DEF Has
<1>n. tool[r] = "none" => ~ Going(r)
  BY DEF Going
\* A step that leaves pipes and tool alone.
<1>s. ASSUME UNCHANGED <<tool, toAdapter, toRunner>>
      PROVE  /\ toAdapter'[r] = toAdapter[r] /\ toRunner'[r] = toRunner[r] /\ tool'[r] = tool[r]
             /\ Pending(r)' <=> Pending(r)
             /\ Going(r)' <=> Going(r)
  BY <1>s DEF Pending, Going
<1>1. CASE RunnerActs
  <2>1. CASE Start
    <3>1. /\ run' = run + 1 /\ pc = "ended" /\ pc' = "hello"
          /\ UNCHANGED <<toAdapter, toRunner, tool, failed>>
          /\ toAdapter[run'] = << >> /\ toRunner[run'] = << >>
      BY <2>1, StartAt
    <3>2. r = run' => tool[r] = "none"
      BY <1>b, <3>1
    <3>3. r = run' => ~ Pending(r) /\ ~ Has(toRunner[r], "result")
      BY <1>h, <3>1 DEF Pending
    <3>4. r < run' => r < run \/ r = run
      BY <3>1
    <3> HIDE DEF Early, Late
    <3>5. pc' \notin Late
      BY <3>1 DEF Late
    <3>6. QED
      BY <1>b, <1>n, <1>s, <3>1, <3>2, <3>3, <3>4, <3>5
  <2>2. CASE StartFails
    <3>1. /\ run' = run + 1 /\ pc = "ended" /\ pc' = "ended"
          /\ UNCHANGED <<toAdapter, toRunner, tool>> /\ failed' = failed \union {run'}
      BY <2>2, StartFailsAt
    <3>2. r < run' => r < run \/ r = run
      BY <3>1
    <3>3. QED
      BY <1>b, <1>s, <3>1, <3>2
  <2>3. CASE TimePasses
    BY <1>b, <1>s, <2>3, TimeAt
  <2>4. CASE Stop \/ OpenRunReceipt \/ WriteRunReceipt
    <3>1. /\ UNCHANGED <<run, failed, toAdapter, toRunner, tool>>
          /\ pc \in Late /\ pc' \in {"receipt", "writing", "ended"}
      BY <2>4, StopAt, OpenAt, WriteAt
    <3>2. QED
      BY <1>b, <1>s, <3>1
  <2>6. CASE Sent
    <3>1. /\ UNCHANGED <<run, failed, toRunner, tool>> /\ pc \in Early
          /\ pc' \in Early \union {"awaitResult"}
      BY <2>6, SentAt
    <3>2. CASE r # run
      <4>1. toAdapter'[r] = toAdapter[r]
        BY <2>6, <3>2, SentAt
      <4>2. QED
        BY <1>b, <3>1, <3>2, <4>1 DEF Pending, Going
    <3>3. CASE r = run
      <4>1. PICK m \in Messages : /\ toAdapter'[r] = Append(toAdapter[r], m)
                                  /\ m.type = "invoke" => pc' = "awaitResult"
        BY <2>6, <3>3, SentAt
      <4>2. ~ Pending(r) /\ tool[r] = "none" /\ ~ Has(toRunner[r], "result")
        BY <1>b, <3>1, <3>3
      <4>3. Once(toAdapter'[r]) /\ (Has(toAdapter'[r], "invoke") => m.type = "invoke")
        BY <1>b, <4>1, <4>2, OnceKept, HasAppend DEF Pending
      <4>4. tool'[r] = "none" /\ ~ Has(toRunner'[r], "result") /\ ~ Going(r)'
        BY <3>1, <4>2 DEF Going
      <4>5. QED
        BY <3>1, <3>3, <4>1, <4>3, <4>4 DEF Pending
    <3>4. QED
      BY <3>2, <3>3
  <2>7. CASE Received
    <3>1. /\ run \in Runs /\ UNCHANGED <<run, toAdapter, tool>> /\ toRunner[run] # << >>
          /\ toRunner'[run] = Tail(toRunner[run])
          /\ r # run => toRunner'[r] = toRunner[r]
          /\ pc \in {"awaitCapabilities", "awaitResult"}
          /\ \/ UNCHANGED <<pc, failed>>
             \/ pc' = "ended" /\ failed' = failed \union {run}
             \/ pc = "awaitCapabilities" /\ pc' = "acknowledge" /\ UNCHANGED failed
             \/ /\ pc = "awaitResult" /\ Head(toRunner[run]).type = "result" /\ pc' = "stop"
                /\ UNCHANGED failed
      BY <2>7, ReceivedAt
    <3>2. Has(toRunner'[r], "result") => Has(toRunner[r], "result")
      BY <3>1, HasTail
    <3>3. r = run /\ pc' = "stop" => Has(toRunner[r], "result")
      BY <3>1, HasTail
    <3>4. (Pending(r)' <=> Pending(r)) /\ (Going(r)' <=> Going(r))
      BY <3>1 DEF Pending, Going
    <3>5. QED
      BY <1>b, <3>1, <3>2, <3>3, <3>4
  <2>8. CASE Quits
    <3>1. /\ UNCHANGED <<run, toAdapter, toRunner, tool>> /\ pc # "ended" /\ pc' = "ended"
          /\ failed' = failed \union {run}
      BY <2>8, QuitsAt
    <3>2. QED
      BY <1>b, <1>s, <3>1
  <2>9. QED
    BY <1>1, RunnerCases, <2>1, <2>2, <2>3, <2>4, <2>6, <2>7, <2>8
<1>2. ASSUME NEW q \in Runs, AdapterActs(q) PROVE One(r)'
  <2>1. Effect(q) /\ UNCHANGED <<run, pc, failed>> /\ adapter[q] \notin {"absent", "exited"}
    BY <1>2, AdapterEffect DEF Effect
  <2>2. CASE r # q
    <3>1. toAdapter'[r] = toAdapter[r] /\ toRunner'[r] = toRunner[r] /\ tool'[r] = tool[r]
      BY <2>1, <2>2, EffectAt
    <3>2. QED
      BY <1>b, <2>1, <3>1 DEF Pending, Going
  <2>3. CASE r = q
    <3> DEFINE Starts == /\ toAdapter[r] # << >> /\ Head(toAdapter[r]).type = "invoke"
                         /\ toAdapter'[r] = Tail(toAdapter[r])
    <3>1. /\ Once(toAdapter'[r]) /\ (Pending(r)' => Pending(r))
          /\ Starts => Pending(r) /\ ~ Pending(r)'
      <4>1. \/ toAdapter'[r] = toAdapter[r]
            \/ toAdapter[r] # << >> /\ toAdapter'[r] = Tail(toAdapter[r])
        BY <2>1, <2>3, EffectAt
      <4>2. QED
        BY <1>b, <4>1, OnceKept, HasTail DEF Pending
    <3>2. \/ tool'[r] = tool[r]
          \/ Starts /\ UNCHANGED toRunner /\ tool'[r] = "running"
          \/ tool[r] \in {"passed", "failed"} /\ tool'[r] = "done"
      BY <2>1, <2>3, EffectAt
    <3>3. \/ toRunner'[r] = toRunner[r]
          \/ (Has(toRunner'[r], "result") => Has(toRunner[r], "result"))
          \/ Starts /\ tool'[r] = tool[r]
          \/ tool[r] = "passed" /\ tool'[r] = "done"
      <4>1. CASE toRunner'[r] = toRunner[r]
        BY <4>1
      <4>2. ASSUME NEW m \in Messages, toRunner'[r] = Append(toRunner[r], m),
                   Spoken(r, m, adapter'[r])
            PROVE  \/ (Has(toRunner'[r], "result") => Has(toRunner[r], "result"))
                   \/ Starts /\ tool'[r] = tool[r]
                   \/ tool[r] = "passed" /\ tool'[r] = "done"
        <5>1. CASE m.type # "result"
          BY <4>2, <5>1, HasAppend
        <5>2. CASE m.type = "result"
          BY <4>2, <5>2 DEF Spoken, TakesInvoke, TypeOK
        <5>3. QED
          BY <5>1, <5>2
      <4>3. QED
        BY <2>1, <2>3, <4>1, <4>2, EffectAt
    <3>4. r <= run /\ (r < run \/ (r = run /\ pc = "ended") => r \in failed)
      <4>1. ~ r > run
        BY <2>1, <2>3 DEF RunsInOrder
      <4>2. QED
        BY <2>1, <2>3, <4>1 DEF NoneLeftBehind
    <3> HIDE DEF Starts, Early, Late
    <3>5. QED
      BY <1>b, <2>1, <3>1, <3>2, <3>3, <3>4 DEF Going
  <2>4. QED
    BY <2>2, <2>3
<1>3. ASSUME NEW q \in Runs, ToolEffect(q) PROVE One(r)'
  <2>1. /\ UNCHANGED <<run, pc, failed, toAdapter, toRunner>> /\ Going(q)
        /\ tool'[q] \in {"writing", "passed", "failed", "hung"}
        /\ r # q => tool'[r] = tool[r]
    BY <1>3, ToolAt
  <2>2. Pending(r)' <=> Pending(r)
    BY <2>1 DEF Pending
  <2>3. (Going(r)' => Going(r)) /\ (tool'[r] # "none" => tool[r] # "none")
    BY <2>1 DEF Going
  <2>4. r = q => Going(r) /\ tool[r] # "none"
    BY <2>1 DEF Going
  <2>5. tool[r] = "none" => tool'[r] = "none"
    BY <2>1, <2>4
  <2>6. QED
    BY <1>b, <2>1, <2>2, <2>3, <2>5
<1>4. CASE UNCHANGED vars
  BY <1>b, <1>s, <1>4 DEF vars
<1>5. QED
  BY <1>1, <1>2, <1>3, <1>4, NextCases

\* A message that is appended to a pipe or taken from it leaves the results in it a
\* run's own if the message is.
LEMMA ResultsStayOwn ==
  ASSUME NEW s \in Seq(Messages), NEW n, AllOwn(n, s)
  PROVE  /\ \A m \in Messages : (m.type = "result" => Own(n, m.payload)) => AllOwn(n, Append(s, m))
         /\ s # << >> => /\ Head(s).type = "result" => Own(n, Head(s).payload)
                         /\ AllOwn(n, Tail(s))
<1> USE DEF AllOwn
<1>1. ASSUME NEW m \in Messages, m.type = "result" => Own(n, m.payload),
             NEW i \in DOMAIN Append(s, m), Append(s, m)[i].type = "result"
      PROVE  Own(n, Append(s, m)[i].payload)
  <2>1. i \in 1 .. Len(s) \/ i = Len(s) + 1
    BY AppendAt
  <2>2. QED
    BY <1>1, <2>1, AppendAt
<1>2. ASSUME s # << >> PROVE Head(s).type = "result" => Own(n, Head(s).payload)
  BY <1>2, TailAt
<1>3. ASSUME s # << >>, NEW i \in DOMAIN Tail(s), Tail(s)[i].type = "result"
      PROVE  Own(n, Tail(s)[i].payload)
  <2>1. i \in 1 .. Len(s) - 1 /\ i + 1 \in DOMAIN s /\ Tail(s)[i] = s[i + 1]
    BY <1>3, TailAt
  <2>2. QED
    BY <1>3, <2>1
<1>4. QED
  BY <1>1, <1>2, <1>3

\* What is excused stays excused: nobody who has failed or meddled is forgotten.
LEMMA ExcusesStay ==
  ASSUME TypeOK, failed \subseteq failed',
         \A o \in Runs : meddlers[o] \subseteq meddlers'[o], UNCHANGED runReceipt
  PROVE  /\ \A n \in Runs : /\ Meddled(n) => Meddled(n)'
                            /\ \A p : Own(n, p) => Own(n, p)'
                            /\ \A t : AllOwn(n, t) => AllOwn(n, t)'
         /\ OwnResultUnlessAbandoned => OwnResultUnlessAbandoned'
<1>1. ASSUME NEW n \in Runs
      PROVE  (Meddled(n) => Meddled(n)') /\ \A p : Own(n, p) => Own(n, p)'
  BY DEF Meddled, Own
<1>2. ASSUME NEW n \in Runs, NEW t, AllOwn(n, t) PROVE AllOwn(n, t)'
  BY <1>1, <1>2 DEF AllOwn
<1>3. ASSUME OwnResultUnlessAbandoned, runReceipt.payload # runReceipt.run
      PROVE  OwnResultUnlessAbandoned'
  <2>1. PICK q \in failed : /\ q < runReceipt.run /\ q \in meddlers[runReceipt.run]
                            /\ runReceipt.payload \in {0, q}
    BY <1>3 DEF OwnResultUnlessAbandoned
  <2>2. q \in Runs /\ runReceipt.run \in 0 .. MaxRuns
    BY <2>1 DEF TypeOK
  <2>3. runReceipt.run \in Runs
    BY <2>1, <2>2, IpcConstants DEF Runs
  <2>4. q \in failed' /\ q \in meddlers'[runReceipt.run]
    BY <2>1, <2>3
  <2>5. QED
    BY <2>1, <2>4 DEF OwnResultUnlessAbandoned
<1>4. QED
  BY <1>1, <1>2, <1>3 DEF OwnResultUnlessAbandoned

\* Between its opening the receipt file and its being read, the only tools that can
\* touch what the tool of the run that is on writes are those of abandoned runs.
LEMMA OwnResultsKept ==
  ASSUME TypeOK, RunsInOrder, OneInvoke, OwnResults, [Next]_vars
  PROVE  OwnResults'
<1> /\ toRunner \in [Runs -> Seq(Messages)] /\ run \in Int /\ Runs \subseteq Int \ {0}
    /\ failed \subseteq Runs
  BY IpcConstants DEF TypeOK, Runs
<1> DEFINE File == /\ tool[run] = "writing" /\ toolReceipt # 0 => Meddled(run)
                   /\ tool[run] = "passed" => Own(run, ReceiptPayload)
           OnTheWay == AllOwn(run, toRunner[run])
           Result == pc \in {"stop", "receipt", "writing"} => Own(run, result)
<1>d. OwnResults <=> (pc # "ended" => File /\ OnTheWay) /\ Result /\ OwnResultUnlessAbandoned
  BY DEF OwnResults
<1>e. OwnResults' <=>
        (pc' # "ended" => File' /\ OnTheWay') /\ Result' /\ OwnResultUnlessAbandoned'
  BY DEF OwnResults
<1>r. pc # "ended" => run \in Runs
  BY DEF RunsInOrder
\* A step that leaves the tools, their file and the run receipt alone.
<1>s. ASSUME UNCHANGED <<run, tool, toolReceipt, meddlers, runReceipt>>, failed \subseteq failed'
      PROVE  /\ run \in Runs /\ File => File'
             /\ OwnResultUnlessAbandoned => OwnResultUnlessAbandoned'
             /\ run \in Runs => \A p : Own(run, p) => Own(run, p)'
             /\ run \in Runs => \A t : AllOwn(run, t) => AllOwn(run, t)'
  <2>1. \A o \in Runs : meddlers[o] \subseteq meddlers'[o]
    BY <1>s
  <2>2. ReceiptPayload' = ReceiptPayload
    BY <1>s DEF ReceiptPayload
  <2>3. /\ \A n \in Runs : /\ Meddled(n) => Meddled(n)'
                           /\ \A p : Own(n, p) => Own(n, p)'
                           /\ \A t : AllOwn(n, t) => AllOwn(n, t)'
        /\ OwnResultUnlessAbandoned => OwnResultUnlessAbandoned'
    BY <1>s, <2>1, ExcusesStay
  <2>4. QED
    BY <1>s, <2>2, <2>3
<1>1. CASE RunnerActs
  <2>1. CASE Start
    <3>1. /\ run' = run + 1 /\ run' \in Runs /\ pc' = "hello" /\ toRunner'[run'] = << >>
          /\ UNCHANGED <<toRunner, runReceipt, tool, toolReceipt, meddlers, failed>>
      BY <2>1, StartAt
    <3>2. tool'[run'] = "none"
      BY <3>1 DEF OneInvoke
    <3>3. OwnResultUnlessAbandoned'
      BY <1>d, <3>1 DEF OwnResultUnlessAbandoned
    <3>4. QED
      BY <1>e, <3>1, <3>2, <3>3 DEF AllOwn
  <2>2. CASE StartFails
    <3>1. pc' = "ended" /\ failed' = failed \union {run'} /\ UNCHANGED <<runReceipt, meddlers>>
      BY <2>2, StartFailsAt
    <3>2. OwnResultUnlessAbandoned'
      BY <1>d, <3>1, ExcusesStay
    <3>3. QED
      BY <1>e, <3>1, <3>2
  <2>3. CASE TimePasses \/ Stop
    <3>1. /\ UNCHANGED <<run, result, failed, toRunner, runReceipt, tool, toolReceipt, meddlers>>
          /\ pc' \in {"stop", "receipt", "writing"} => pc \in {"stop", "receipt", "writing"}
          /\ pc' # "ended" => pc # "ended"
      BY <2>3, TimeAt, StopAt
    <3>2. QED
      BY <1>d, <1>e, <1>r, <1>s, <3>1
  <2>4. CASE OpenRunReceipt
    <3>1. /\ UNCHANGED <<run, result, failed, toRunner, tool, toolReceipt, meddlers>>
          /\ pc = "receipt" /\ pc' = "writing" /\ runReceipt'.run = 0 /\ runReceipt'.payload = 0
      BY <2>4, OpenAt
    <3>2. OwnResultUnlessAbandoned'
      BY <3>1 DEF OwnResultUnlessAbandoned
    <3>3. File' /\ OnTheWay' /\ Result'
      BY <1>d, <3>1 DEF Meddled, Own, AllOwn, ReceiptPayload
    <3>4. QED
      BY <1>e, <3>2, <3>3
  <2>5. CASE WriteRunReceipt
    <3>1. /\ UNCHANGED <<run, failed, meddlers>> /\ pc = "writing" /\ pc' = "ended"
          /\ runReceipt'.run = run /\ runReceipt'.payload = result
      BY <2>5, WriteAt
    <3>2. Own(run, result)
      BY <1>d, <3>1
    <3>3. OwnResultUnlessAbandoned'
      BY <3>1, <3>2 DEF Own, OwnResultUnlessAbandoned
    <3>4. QED
      BY <1>e, <3>1, <3>3
  <2>6. CASE Sent
    <3>1. /\ UNCHANGED <<run, failed, toRunner, runReceipt, tool, toolReceipt, meddlers>>
          /\ pc # "ended" /\ pc' \notin {"stop", "receipt", "writing"}
      BY <2>6, SentAt
    <3>2. QED
      BY <1>d, <1>e, <1>r, <1>s, <3>1
  <2>7. CASE Received
    <3>1. /\ UNCHANGED <<run, runReceipt, tool, toolReceipt, meddlers>> /\ run \in Runs
          /\ toRunner[run] # << >> /\ toRunner'[run] = Tail(toRunner[run])
          /\ failed \subseteq failed' /\ pc \in {"awaitCapabilities", "awaitResult"}
          /\ pc' \in {"stop", "receipt", "writing"} =>
               Head(toRunner[run]).type = "result" /\ result' = Head(toRunner[run]).payload
      BY <2>7, ReceivedAt
    <3>2. File /\ OnTheWay /\ OwnResultUnlessAbandoned
      BY <1>d, <3>1
    <3>3. /\ Head(toRunner[run]).type = "result" => Own(run, Head(toRunner[run]).payload)
          /\ AllOwn(run, toRunner'[run])
      BY <3>1, <3>2, ResultsStayOwn
    <3>4. File' /\ OwnResultUnlessAbandoned'
      BY <1>s, <3>1, <3>2
    <3>5. \A p : Own(run, p) => OwnThen(run, p)
      BY <3>1 DEF Own, OwnThen
    <3>6. OnTheWay'
      BY <3>1, <3>3, <3>5 DEF AllOwn, Own, OwnThen
    <3>7. Result'
      BY <3>1, <3>3, <3>5 DEF Own, OwnThen
    <3>8. QED
      BY <1>e, <3>4, <3>6, <3>7
  <2>8. CASE Quits
    <3>1. /\ UNCHANGED <<run, runReceipt, tool, toolReceipt, meddlers>>
          /\ pc' = "ended" /\ failed' = failed \union {run}
      BY <2>8, QuitsAt
    <3>2. QED
      BY <1>d, <1>e, <1>s, <3>1
  <2>9. QED
    BY <1>1, RunnerCases, <2>1, <2>2, <2>3, <2>4, <2>5, <2>6, <2>7, <2>8
<1>2. ASSUME NEW r \in Runs, AdapterActs(r) PROVE OwnResults'
  <2>1. /\ Effect(r)
        /\ UNCHANGED <<run, pc, result, failed, transcript, runReceipt, toolReceipt, meddlers>>
    BY <1>2, AdapterEffect DEF Effect
  <2>2. OwnResultUnlessAbandoned' /\ Result'
    BY <1>d, <2>1 DEF OwnResultUnlessAbandoned, Own
  <2> SUFFICES ASSUME pc # "ended" PROVE File' /\ OnTheWay'
    BY <1>e, <2>1, <2>2
  <2>3. ReceiptPayload' = ReceiptPayload /\ run \in Runs
    BY <1>r, <2>1 DEF ReceiptPayload
  <2>4. tool'[run] \in {tool[run], "running", "done"}
    BY <2>1, <2>3, EffectAt
  <2>5. File'
    BY <1>d, <2>1, <2>3, <2>4 DEF Meddled, Own
  <2>6. AllOwn(run, toRunner'[run])
    <3>1. CASE toRunner'[run] = toRunner[run]
      BY <1>d, <3>1
    <3>2. CASE toRunner'[run] # toRunner[run]
      <4>1. r = run
        BY <2>1, <2>3, <3>2, EffectAt
      <4>2. PICK m \in Messages : /\ toRunner'[run] = Append(toRunner[run], m)
                                  /\ Spoken(run, m, adapter'[run])
        BY <2>1, <3>2, <4>1, EffectAt
      <4>3. m.type = "result" => Own(run, m.payload)
        BY <1>d, <4>2 DEF Spoken, Own
      <4>4. QED
        BY <1>d, <2>3, <4>2, <4>3, ResultsStayOwn
    <3>3. QED
      BY <3>1, <3>2
  <2>7. OnTheWay'
    BY <2>1, <2>6 DEF AllOwn, Own
  <2>8. QED
    BY <2>5, <2>7
<1>3. ASSUME NEW r \in Runs, ToolEffect(r) PROVE OwnResults'
  <2>1. /\ UNCHANGED <<run, pc, result, failed, toRunner, runReceipt>> /\ Going(r)
        /\ \A o \in Runs : o # r => tool'[o] = tool[o]
        /\ \A o \in Runs : meddlers[o] \subseteq meddlers'[o]
    BY <1>3, ToolAt
  <2>2. /\ \A n \in Runs : /\ Meddled(n) => Meddled(n)'
                           /\ \A p : Own(n, p) => Own(n, p)'
                           /\ \A t : AllOwn(n, t) => AllOwn(n, t)'
        /\ OwnResultUnlessAbandoned => OwnResultUnlessAbandoned'
    BY <2>1, ExcusesStay
  <2>a. ASSUME run \in Runs PROVE \A p : Own(run, p) => OwnThen(run, p)
    BY <2>1, <2>a DEF Own, OwnThen
  <2>3. OwnResultUnlessAbandoned' /\ Result'
    <3>1. pc \in {"stop", "receipt", "writing"} => OwnThen(run, result)
      BY <1>d, <1>r, <2>a
    <3>2. Result'
      BY <2>1, <3>1 DEF Own, OwnThen
    <3>3. QED
      BY <1>d, <2>1, <2>2, <3>2
  <2> SUFFICES ASSUME pc # "ended" PROVE File' /\ OnTheWay'
    BY <1>e, <2>1, <2>3
  <2>4. run \in Runs /\ File /\ OnTheWay
    BY <1>d, <1>r
  <2>5. OnTheWay'
    <3>1. \A i \in DOMAIN toRunner[run] :
            toRunner[run][i].type = "result" => OwnThen(run, toRunner[run][i].payload)
      BY <2>a, <2>4 DEF AllOwn
    <3>2. QED
      BY <2>1, <3>1 DEF AllOwn, Own, OwnThen
  <2>6. File'
    <3>1. CASE r = run
      <4>1. /\ \/ UNCHANGED toolReceipt /\ tool'[run] \in {"failed", "hung"}
               \/ /\ toolReceipt' \in {0, run, Garbled}
                  /\ tool'[run] = "writing" => toolReceipt' = 0
                  /\ tool'[run] = "passed" => /\ tool[run] = "writing"
                                              /\ toolReceipt' \in {run, Garbled}
                                              /\ toolReceipt = 0 => toolReceipt' = run
        BY <1>3, <3>1, ToolAt
      <4>2. tool'[run] = "passed" => Own(run, ReceiptPayload)'
        <5> SUFFICES ASSUME tool'[run] = "passed" PROVE Own(run, ReceiptPayload)'
          OBVIOUS
        <5>1. CASE toolReceipt' = run
          BY <2>1, <2>4, <5>1 DEF Own, ReceiptPayload
        <5>2. CASE toolReceipt' = Garbled /\ Meddled(run)'
          <6>1. ReceiptPayload' = 0
            BY <5>2, IpcConstants DEF ReceiptPayload, Garbled, Runs
          <6>2. QED
            BY <5>2, <6>1 DEF Own, Meddled
        <5>3. ASSUME toolReceipt' # run PROVE toolReceipt' = Garbled /\ Meddled(run)
          BY <2>4, <4>1, <5>3
        <5>4. Meddled(run) => Meddled(run)'
          BY <2>1, <2>4 DEF Meddled
        <5>5. QED
          BY <5>1, <5>2, <5>3, <5>4
      <4>3. QED
        BY <2>1, <4>1, <4>2
    <3>2. CASE r # run
      <4>1. tool'[run] = tool[run]
        BY <2>1, <2>4, <3>2
      <4>2. r \in failed /\ r < run
        BY <2>1, <3>2 DEF OneInvoke, Going
      <4>3. CASE UNCHANGED toolReceipt
        <5>1. UNCHANGED ReceiptPayload
          BY <4>3 DEF ReceiptPayload
        <5>2. QED
          BY <2>1, <2>2, <2>4, <4>1, <4>3, <5>1
      <4>4. CASE ~ UNCHANGED toolReceipt
        <5>1. /\ toolReceipt' \in {0, r, Garbled}
              /\ tool[run] \in {"writing", "passed"} => r \in meddlers'[run]
          BY <1>3, <2>4, <3>2, <4>4, ToolAt
        <5>2. ReceiptPayload' \in {0, r}
          BY <5>1, IpcConstants DEF ReceiptPayload, Garbled, Runs
        <5>3. r \in failed' /\ r < run'
          BY <2>1, <4>2
        <5>4. tool[run] = "writing" => Meddled(run)'
          BY <2>1, <5>1, <5>3 DEF Meddled
        <5>5. tool[run] = "passed" => Own(run, ReceiptPayload)'
          BY <2>1, <5>1, <5>2, <5>3 DEF Own
        <5>6. QED
          BY <2>1, <4>1, <5>4, <5>5
      <4>5. QED
        BY <4>3, <4>4
    <3>3. QED
      BY <3>1, <3>2
  <2>7. QED
    BY <2>5, <2>6
<1>4. CASE UNCHANGED vars
  BY <1>4 DEF OwnResults, vars, Meddled, Own, AllOwn, ReceiptPayload, OwnResultUnlessAbandoned
<1>5. QED
  BY <1>1, <1>2, <1>3, <1>4, NextCases

\* That stays so when the adapter writes, and when the runner reads or writes.
LEMMA AnsweredGrows ==
  ASSUME NEW s \in Seq(Messages), NEW t \in Seq(Messages), Answered(s, t), NEW m \in Messages
  PROVE  /\ (m.type = "capabilities" => Has(s, "hello_ack") \/ Has(t, "hello_ack")) =>
              Answered(s, Append(t, m))
         /\ Answered(Append(s, m), t)
         /\ t # << >> => Answered(Append(s, Head(t)), Tail(t))
<1>1. ASSUME m.type = "capabilities" => Has(s, "hello_ack") \/ Has(t, "hello_ack"),
             NEW j \in DOMAIN Append(t, m), Append(t, m)[j].type = "capabilities",
             ~ Has(s, "hello_ack")
      PROVE  \E i \in DOMAIN Append(t, m) : i < j /\ Append(t, m)[i].type = "hello_ack"
  <2>1. /\ j \in 1 .. Len(t) \/ j = Len(t) + 1
        /\ \A i \in 1 .. Len(t) : i \in DOMAIN Append(t, m) /\ Append(t, m)[i] = t[i]
        /\ DOMAIN t = 1 .. Len(t) /\ Append(t, m)[Len(t) + 1] = m /\ Len(t) \in Nat
    BY AppendAt
  <2>2. CASE j \in 1 .. Len(t)
    BY <1>1, <2>1, <2>2 DEF Answered
  <2>3. CASE j = Len(t) + 1
    BY <1>1, <2>1, <2>3 DEF Has
  <2>4. QED
    BY <2>1, <2>2, <2>3
<1>2. Answered(Append(s, m), t)
  BY HasAppend DEF Answered
<1>3. ASSUME t # << >> PROVE Answered(Append(s, Head(t)), Tail(t))
  <2>1. SUFFICES ASSUME NEW j \in DOMAIN Tail(t), Tail(t)[j].type = "capabilities",
                        ~ Has(s, "hello_ack"), Head(t).type # "hello_ack"
                 PROVE  \E i \in DOMAIN Tail(t) : i < j /\ Tail(t)[i].type = "hello_ack"
    BY <1>3, TailAt, HasAppend DEF Answered
  <2>2. j \in 1 .. Len(t) - 1 /\ j + 1 \in DOMAIN t /\ Tail(t)[j] = t[j + 1]
    BY <1>3, TailAt
  <2>3. PICK i \in DOMAIN t : i < j + 1 /\ t[i].type = "hello_ack"
    BY <2>1, <2>2 DEF Answered
  <2>4. i # 1
    BY <1>3, <2>1, <2>3, TailAt
  <2>5. i - 1 \in 1 .. Len(t) - 1 /\ (i - 1) + 1 = i /\ i - 1 < j
    BY <1>3, <2>2, <2>3, <2>4, TailAt
  <2>6. Tail(t)[i - 1] = t[i] /\ i - 1 \in DOMAIN Tail(t)
    BY <1>3, <2>5, TailAt
  <2>7. QED
    BY <2>3, <2>5, <2>6
<1>4. QED
  BY <1>1, <1>2, <1>3 DEF Answered

\* The pipe keeps the order in which the adapter answers, and the runner takes the
\* messages from it in that order.
LEMMA AnswersInOrderKept ==
  ASSUME TypeOK, RunsInOrder, AnswersInOrder, [Next]_vars
  PROVE  AnswersInOrder'
<1> /\ toRunner \in [Runs -> Seq(Messages)] /\ transcript.messages \in Seq(Messages)
  BY DEF TypeOK
<1> DEFINE Spoke == adapter[run] = "greeted" =>
                      Has(transcript.messages, "hello_ack") \/ Has(toRunner[run], "hello_ack")
<1>d. AnswersInOrder <=> (pc # "ended" => Answered(transcript.messages, toRunner[run]) /\ Spoke)
  BY DEF AnswersInOrder
<1>e. AnswersInOrder' <=>
        (pc' # "ended" => Answered(transcript'.messages, toRunner'[run']) /\ Spoke')
  BY DEF AnswersInOrder
<1>1. CASE RunnerActs
  <2>1. CASE Start
    <3>1. adapter'[run'] # "greeted" /\ toRunner'[run'] = << >>
      BY <2>1, StartAt
    <3>2. Answered(transcript'.messages, << >>)
      BY DEF Answered
    <3>3. QED
      BY <1>e, <3>1, <3>2
  <2>2. CASE StartFails
    BY <1>e, <2>2, StartFailsAt
  <2>3. CASE TimePasses
    BY <1>d, <1>e, <2>3, TimeAt
  <2>4. CASE Stop
    BY <1>d, <1>e, <2>4, StopAt
  <2>5. CASE OpenRunReceipt \/ WriteRunReceipt
    BY <1>d, <1>e, <2>5, OpenAt, WriteAt
  <2>6. CASE Sent
    <3>1. PICK m \in Messages : transcript'.messages = Append(transcript.messages, m)
      BY <2>6, SentAt
    <3>2. run \in Runs /\ UNCHANGED <<run, adapter, toRunner>> /\ pc # "ended"
      BY <2>6, SentAt
    <3>3. Answered(transcript'.messages, toRunner[run])
      BY <1>d, <3>1, <3>2, AnsweredGrows
    <3>4. Has(transcript.messages, "hello_ack") => Has(transcript'.messages, "hello_ack")
      BY <3>1, HasAppend
    <3>5. QED
      BY <1>d, <1>e, <3>2, <3>3, <3>4
  <2>7. CASE Received
    <3>1. /\ run \in Runs /\ UNCHANGED <<run, adapter>> /\ pc # "ended"
          /\ toRunner[run] # << >> /\ toRunner'[run] = Tail(toRunner[run])
          /\ transcript'.messages = Append(transcript.messages, Head(toRunner[run]))
      BY <2>7, ReceivedAt
    <3>2. Head(toRunner[run]) \in Messages /\ toRunner[run] \in Seq(Messages)
      BY <3>1, TailAt
    <3>3. Answered(transcript'.messages, toRunner'[run])
      BY <1>d, <3>1, <3>2, AnsweredGrows
    <3>4. /\ Has(transcript'.messages, "hello_ack") <=>
                Has(transcript.messages, "hello_ack") \/ Head(toRunner[run]).type = "hello_ack"
          /\ Has(toRunner[run], "hello_ack") =>
                Head(toRunner[run]).type = "hello_ack" \/ Has(toRunner'[run], "hello_ack")
      BY <3>1, <3>2, HasAppend, HasTail
    <3>5. QED
      BY <1>d, <1>e, <3>1, <3>3, <3>4
  <2>8. CASE Quits
    BY <1>e, <2>8, QuitsAt
  <2>9. QED
    BY <1>1, RunnerCases, <2>1, <2>2, <2>3, <2>4, <2>5, <2>6, <2>7, <2>8
<1>2. ASSUME NEW r \in Runs, AdapterActs(r) PROVE AnswersInOrder'
  <2>1. Effect(r)
    BY <1>2, AdapterEffect
  <2>2. UNCHANGED <<run, pc, transcript>>
    BY <2>1 DEF Effect
  <2>3. CASE r # run \/ pc = "ended"
    <3>1. pc # "ended" => adapter'[run] = adapter[run] /\ toRunner'[run] = toRunner[run]
      BY <2>1, <2>3, EffectAt DEF RunsInOrder
    <3>2. QED
      BY <1>d, <1>e, <2>2, <3>1
  <2>4. CASE r = run /\ pc # "ended"
    <3>1. CASE toRunner'[r] = toRunner[r] /\ (adapter'[r] = "greeted" => adapter[r] = "greeted")
      BY <1>d, <1>e, <2>2, <2>4, <3>1
    <3>2. ASSUME NEW m \in Messages, toRunner'[r] = Append(toRunner[r], m),
                 Spoken(r, m, adapter'[r]),
                 adapter'[r] = "greeted" => adapter[r] = "greeted" \/ m.type = "hello_ack"
          PROVE  AnswersInOrder'
      <4>1. toRunner[r] \in Seq(Messages) /\ Answered(transcript.messages, toRunner[r]) /\ Spoke
        BY <1>d, <2>4
      <4>2. m.type = "capabilities" =>
              Has(transcript.messages, "hello_ack") \/ Has(toRunner[r], "hello_ack")
        BY <2>4, <3>2, <4>1 DEF Spoken
      <4>3. Answered(transcript.messages, toRunner'[r])
        BY <3>2, <4>1, <4>2, AnsweredGrows
      <4>4. Has(toRunner'[r], "hello_ack") <=>
              Has(toRunner[r], "hello_ack") \/ m.type = "hello_ack"
        BY <3>2, <4>1, HasAppend
      <4>5. QED
        BY <1>e, <2>2, <2>4, <3>2, <4>1, <4>3, <4>4
    <3>3. QED
      BY <2>1, <3>1, <3>2, EffectAt
  <2>5. QED
    BY <2>3, <2>4
<1>3. CASE UNCHANGED vars \/ \E r \in Runs : ToolEffect(r)
  BY <1>d, <1>e, <1>3 DEF vars, ToolEffect
<1>4. QED
  BY <1>1, <1>2, <1>3, NextCases

\* What is in the transcript stays in it, and each step of the protocol adds its
\* message.
LEMMA TranscriptSoFarKept ==
  ASSUME TypeOK, RunsInOrder, AnswersInOrder, TranscriptSoFar, [Next]_vars
  PROVE  TranscriptSoFar'
<1> DEFINE s == transcript.messages
<1> s \in Seq(Messages) /\ toRunner \in [Runs -> Seq(Messages)]
  BY DEF TypeOK
<1>1. CASE RunnerActs
  <2>1. CASE Start
    BY <2>1, StartAt DEF TranscriptSoFar
  <2>2. CASE StartFails
    BY <2>2, StartFailsAt DEF TranscriptSoFar
  <2>3. CASE TimePasses
    BY <2>3, TimeAt DEF TranscriptSoFar
  <2>4. CASE Stop
    BY <2>4, StopAt DEF TranscriptSoFar
  <2>5. CASE OpenRunReceipt \/ WriteRunReceipt
    BY <2>5, OpenAt, WriteAt DEF TranscriptSoFar
  <2>6. CASE Sent
    <3>1. PICK m \in Messages :
            /\ s' = Append(s, m)
            /\ \/ pc = "hello" /\ m.type = "hello" /\ pc' = "awaitCapabilities"
               \/ pc = "acknowledge" /\ m.type = "capabilities_ack" /\ pc' = "invoke"
               \/ pc = "invoke" /\ m.type = "invoke" /\ pc' = "awaitResult"
      BY <2>6, SentAt
    <3>2. s' # << >> /\ s'[1].type = "hello"
      <4>1. CASE pc = "hello"
        BY <3>1, <4>1, AppendAt DEF TranscriptSoFar
      <4>2. CASE pc # "hello"
        <5>1. s # << >> /\ s[1].type = "hello"
          BY <3>1, <4>2 DEF TranscriptSoFar
        <5>2. 1 \in 1 .. Len(s)
          BY <5>1
        <5>3. QED
          BY <3>1, <5>1, <5>2, AppendAt
      <4>3. QED
        BY <4>1, <4>2
    <3>3. /\ pc' = "invoke" => Acked(s')
          /\ pc' = "awaitResult" => Invoked(s')
      BY <3>1, HandshakeGrows DEF TranscriptSoFar
    <3> HIDE DEF s
    <3>4. QED
      BY <3>1, <3>2, <3>3 DEF TranscriptSoFar, s
  <2>7. CASE Received
    <3> DEFINE m == Head(toRunner[run])
    <3>1. /\ s' = Append(s, m) /\ toRunner[run] # << >> /\ run \in Runs
          /\ pc \in {"awaitCapabilities", "awaitResult"}
          /\ \/ pc' \in {pc, "ended"}
             \/ pc = "awaitCapabilities" /\ m.type = "capabilities" /\ pc' = "acknowledge"
             \/ pc = "awaitResult" /\ m.type = "result" /\ pc' = "stop" /\ result' = m.payload
      BY <2>7, ReceivedAt
    <3>2. m \in Messages /\ toRunner[run] \in Seq(Messages) /\ DOMAIN toRunner[run] # {}
          /\ 1 \in DOMAIN toRunner[run] /\ toRunner[run][1] = m
          /\ DOMAIN toRunner[run] \subseteq Nat \ {0}
      BY <3>1, TailAt
    <3>3. s' # << >> /\ s'[1].type = "hello"
      <4>1. s # << >> /\ s[1].type = "hello"
        BY <3>1 DEF TranscriptSoFar
      <4>2. 1 \in 1 .. Len(s)
        BY <4>1
      <4>3. QED
        BY <3>1, <3>2, <4>1, <4>2, AppendAt
    <3>4. m.type = "capabilities" => Has(s, "hello_ack")
      BY <3>1, <3>2 DEF AnswersInOrder, Answered
    <3>5. pc' = "acknowledge" => Shaken(s')
      BY <3>1, <3>2, <3>4, HandshakeGrows
    <3>6. pc = "awaitResult" => Invoked(s')
      BY <3>1, <3>2, HandshakeGrows DEF TranscriptSoFar
    <3>7. s'[Len(s')] = m
      BY <3>1, <3>2, LastAppended
    <3> HIDE DEF s, m
    <3>8. QED
      BY <3>1, <3>3, <3>5, <3>6, <3>7 DEF TranscriptSoFar, s
  <2>8. CASE Quits
    BY <2>8, QuitsAt DEF TranscriptSoFar
  <2>9. QED
    BY <1>1, RunnerCases, <2>1, <2>2, <2>3, <2>4, <2>5, <2>6, <2>7, <2>8
<1>2. ASSUME NEW r \in Runs, AdapterActs(r) PROVE TranscriptSoFar'
  <2>1. UNCHANGED <<pc, result, transcript>>
    BY <1>2, AdapterEffect DEF Effect
  <2>2. QED
    BY <2>1 DEF TranscriptSoFar
<1>3. CASE UNCHANGED vars \/ \E r \in Runs : ToolEffect(r)
  BY <1>3 DEF vars, ToolEffect, TranscriptSoFar
<1>4. QED
  BY <1>1, <1>2, <1>3, NextCases

\* The receipt is written from a complete transcript, and the next run starts a new
\* one before it can write its receipt.
LEMMA TranscriptExplainsReceiptKept ==
  ASSUME TypeOK, RunsInOrder, TranscriptSoFar, TranscriptExplainsReceipt, [Next]_vars
  PROVE  TranscriptExplainsReceipt'
<1> transcript.run \in Int /\ runReceipt.run \in Int /\ run \in Int
    /\ transcript.messages \in Seq(Messages)
  BY DEF TypeOK
<1>u. UNCHANGED <<transcript, runReceipt>> => TranscriptExplainsReceipt'
  BY DEF TranscriptExplainsReceipt
\* While a run is on, the receipt beside the transcript is of an earlier one.
<1>n. (pc # "ended" /\ transcript'.run = transcript.run /\ UNCHANGED runReceipt) =>
        TranscriptExplainsReceipt'
  BY DEF RunsInOrder, TranscriptExplainsReceipt
<1>1. CASE RunnerActs
  <2>1. CASE Start
    <3>1. runReceipt'.run < transcript'.run
      BY <2>1, StartAt DEF RunsInOrder
    <3>2. runReceipt'.run \in Int /\ transcript'.run \in Int
      BY <2>1, StartAt, IpcConstants DEF Runs
    <3>3. QED
      BY <3>1, <3>2 DEF TranscriptExplainsReceipt
  <2>2. CASE StartFails
    BY <1>u, <2>2, StartFailsAt
  <2>3. CASE TimePasses
    BY <1>u, <2>3, TimeAt
  <2>4. CASE Stop
    BY <1>u, <2>4, StopAt
  <2>10. CASE OpenRunReceipt
    <3>1. runReceipt'.run = 0
      BY <2>10, OpenAt
    <3>2. QED
      BY <3>1 DEF TranscriptExplainsReceipt
  <2>5. CASE WriteRunReceipt
    <3> DEFINE s == transcript.messages
    <3>1. UNCHANGED transcript /\ runReceipt'.payload = s[Len(s)].payload /\ pc = "writing"
      BY <2>5, WriteAt DEF TranscriptSoFar
    <3>2. /\ s # << >> /\ s[1].type = "hello" /\ Invoked(s) /\ s[Len(s)].type = "result"
      BY <3>1 DEF TranscriptSoFar
    <3>3. DOMAIN s = 1 .. Len(s) /\ 1 \in DOMAIN s /\ Len(s) \in DOMAIN s
      BY <3>2
    <3>4. \E h, c, a, i \in 1 .. Len(s) :
            /\ h < c /\ c < a /\ a < i /\ s[h].type = "hello_ack" /\ s[c].type = "capabilities"
            /\ s[a].type = "capabilities_ack" /\ s[i].type = "invoke"
      BY <3>2, <3>3 DEF Invoked
    <3>5. s' = s
      BY <3>1
    <3> HIDE DEF s
    <3>6. QED
      BY <3>1, <3>2, <3>3, <3>4, <3>5 DEF TranscriptExplainsReceipt, s
  <2>6. CASE Sent
    BY <1>n, <2>6, SentAt
  <2>7. CASE Received
    BY <1>n, <2>7, ReceivedAt
  <2>8. CASE Quits
    BY <1>u, <2>8, QuitsAt
  <2>9. QED
    BY <1>1, RunnerCases, <2>1, <2>2, <2>3, <2>4, <2>5, <2>6, <2>7, <2>8, <2>10
<1>2. ASSUME NEW r \in Runs, AdapterActs(r) PROVE TranscriptExplainsReceipt'
  BY <1>2, <1>u, AdapterEffect DEF Effect
<1>3. CASE UNCHANGED vars \/ \E r \in Runs : ToolEffect(r)
  BY <1>3, <1>u DEF vars, ToolEffect
<1>4. QED
  BY <1>1, <1>2, <1>3, NextCases

-------------------------------------------------------------------------------
(* The theorems *)

\* Before the first run nothing is there.
LEMMA InitIInv == Init => IInv
<1> SUFFICES ASSUME Init PROVE IInv
  OBVIOUS
<1> USE DEF Init
<1>1. 0 \in 0 .. MaxRuns /\ 0 \in 0 .. MaxStrays /\ 0 \in 0 .. MaxDeaths /\ Runs \subseteq Nat \ {0}
      /\ 0 \in 0 .. Garbled
  BY IpcConstants DEF Runs, Garbled
<1>2. TypeOK
  <2>1. << >> \in Seq(Messages)
    OBVIOUS
  <2>2. QED
    BY <1>1, <2>1 DEF TypeOK
<1>3. RunsInOrder
  BY <1>1 DEF RunsInOrder
<1>4. BeforeHandshake
  BY DEF BeforeHandshake, Has
<1>5. NoneLeftBehind
  BY <1>1 DEF NoneLeftBehind
<1>9. OneInvoke
  BY <1>1 DEF OneInvoke, Once, Pending, Has, Going
<1>6. OwnResults
  BY <1>1 DEF OwnResults, OwnResultUnlessAbandoned
<1>7. AnswersInOrder /\ TranscriptSoFar /\ TranscriptExplainsReceipt
  BY DEF AnswersInOrder, TranscriptSoFar, TranscriptExplainsReceipt
<1>8. QED
  BY <1>2, <1>3, <1>4, <1>5, <1>6, <1>7, <1>9 DEF IInv

\* Every step keeps the inductive invariant.
LEMMA NextIInv == IInv /\ [Next]_vars => IInv'
BY TypesKept, RunsInOrderKept, BeforeHandshakeKept, NoneLeftBehindKept, OneInvokeKept,
   OwnResultsKept, AnswersInOrderKept, TranscriptSoFarKept, TranscriptExplainsReceiptKept DEF IInv

\* The inductive invariant holds of every session.
THEOREM IpcInvariant == Spec => []IInv
BY InitIInv, NextIInv, PTL DEF Spec

\* The state keeps its types.
THEOREM IpcTypes == Spec => []TypeOK
<1>1. IInv => TypeOK
  BY DEF IInv
<1>2. QED
  BY <1>1, IpcInvariant, PTL

\* A run receipt is explained by the transcript beside it.
THEOREM ReceiptIsExplained == Spec => []TranscriptExplainsReceipt
<1>1. IInv => TranscriptExplainsReceipt
  BY DEF IInv
<1>2. QED
  BY <1>1, IpcInvariant, PTL

\* A run receipt holds what its own run's tool wrote, unless the tool of an earlier run
\* that had failed touched the file between the own tool's opening it and its reading.
THEOREM ReceiptIsOwn == Spec => []OwnResultUnlessAbandoned
<1>1. IInv => OwnResultUnlessAbandoned
  BY DEF IInv, OwnResults
<1>2. QED
  BY <1>1, IpcInvariant, PTL

\* No adapter gets an invoke before its handshake is over.
THEOREM InvokeAfterHandshake == Spec => []NoInvokeBeforeHandshake
<1>1. IInv => NoInvokeBeforeHandshake
  <2> SUFFICES ASSUME IInv, NEW r \in Runs, adapter[r] \in {"fresh", "greeted"},
                      NEW i \in 1 .. Len(toAdapter[r])
               PROVE  toAdapter[r][i].type # "invoke"
    BY DEF NoInvokeBeforeHandshake
  <2>1. ~ Has(toAdapter[r], "invoke")
    BY DEF IInv, BeforeHandshake
  <2>2. toAdapter[r] \in Seq(Messages)
    BY DEF IInv, TypeOK
  <2>3. i \in DOMAIN toAdapter[r]
    BY <2>2
  <2>4. QED
    BY <2>1, <2>3 DEF Has
<1>2. QED
  BY <1>1, IpcInvariant, PTL

===============================================================================
