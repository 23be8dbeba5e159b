------------------------------ MODULE RpcClient ------------------------------
(***************************************************************************)
(* The JSON-RPC client every typed method of the SDKs is built on:         *)
(* typescript/src/client.ts, and rust/src/client.rs, which runs the same   *)
(* steps and reads the answer differently.  Several calls are in flight on *)
(* one Client at once.  The network loses requests and answers, a gateway  *)
(* in front of the node answers in its place, the node acts after the      *)
(* caller's timer fired, and a body stalls after its headers arrived.      *)
(***************************************************************************)
EXTENDS Naturals, FiniteSets

CONSTANT Calls  \* the calls made through one Client, each made once

VARIABLES
  sdk,       \* the SDK the Client belongs to, which reads its answers
  nextId,    \* Client.nextId
  id,        \* id[c]: the JSON-RPC id of c, 0 before c is made
  phase,     \* phase[c]: idle, fetching, reading, settled
  armed,     \* the calls whose timeout timer is running
  inFlight,  \* the calls whose request is on its way to the node
  decision,  \* decision[c]: what the node did about c
  stated,    \* stated[c]: the retryability the node stated when refusing c
  reply,     \* reply[c]: the body on its way back on c's connection
  outcome    \* outcome[c]: what the promise of c settled with

clientVars == <<sdk, nextId, id, phase, armed, outcome>>
nodeVars == <<inFlight, decision, stated, reply>>
vars == <<clientVars, nodeVars>>

-----------------------------------------------------------------------------
(* Response bodies, abstracted to what the two readers look at.            *)

Retryability == {"unstated", "yes", "no"}

\* form: not JSON at all, JSON null, another non-object, an object.  The
\* other fields describe the object's keys; a "misshapen" result is JSON of
\* another shape than the method's.
Body ==
  [form : {"none", "text", "null", "scalar", "object"},
   error : {"absent", "null", "application", "protocol"},
   retryable : Retryability,
   result : {"absent", "null", "value", "misshapen"}]

NoBody == [form |-> "none", error |-> "absent", retryable |-> "unstated",
           result |-> "absent"]

ResultBody(e, r) ==
  [form |-> "object", error |-> e, retryable |-> "unstated", result |-> r]

ErrorBody(e, s) ==
  [form |-> "object", error |-> e, retryable |-> s, result |-> "absent"]

\* The node's answer to a call it carried out.  A node that writes both
\* keys says "error": null.
AppliedBodies == {ResultBody(e, r) : e \in {"absent", "null"},
                                     r \in {"null", "value", "misshapen"}}

\* What a gateway, or a node that never got as far as deciding, may answer.
ForeignBodies ==
  {[NoBody EXCEPT !.form = f] : f \in {"text", "null", "scalar", "object"}}
    \cup {ErrorBody("protocol", "unstated"), ResultBody("null", "absent")}

-----------------------------------------------------------------------------
(* Reading an answer.                                                      *)

Outcome ==
  [kind : {"none", "ok", "ApplicationError", "JsonRpcError",
           "TransportError", "DecodeError", "TypeError"},
   retryable : Retryability]

Settle(kind) == [kind |-> kind, retryable |-> "unstated"]

ApplicationFailureAssumingNo(b) ==
  [kind |-> "ApplicationError",
   retryable |-> IF b.retryable = "yes" THEN "yes" ELSE "no"]

ApplicationFailure(b) ==
  [kind |-> "ApplicationError", retryable |-> b.retryable]

ReadTsFalsyResult(b) ==
  CASE b.form = "text" -> Settle("TransportError")
    [] b.form = "null" -> Settle("TypeError")
    [] OTHER ->
         IF b.error = "application" THEN ApplicationFailure(b)
         ELSE IF b.error = "protocol" \/ b.result \in {"absent", "null"}
              THEN Settle("JsonRpcError") ELSE Settle("ok")

\* client.ts: JSON.parse, `if (body.error)`, `body.result === undefined`.
\* Reading a property of JSON null is the TypeError no catch covers.
ReadTs(b) ==
  CASE b.form = "text" -> Settle("TransportError")
    [] b.form = "null" -> Settle("TypeError")
    [] OTHER ->
         IF b.error = "application" THEN ApplicationFailure(b)
         ELSE IF b.error = "protocol" \/ b.result = "absent"
              THEN Settle("JsonRpcError") ELSE Settle("ok")

\* client.rs, the object's keys: presence of "error", presence of
\* "result", from_value into the method's own type.
ReadRustObject(b) ==
  CASE b.error = "application" -> ApplicationFailure(b)
    [] b.error = "protocol" -> Settle("JsonRpcError")
    [] b.error = "null" -> Settle("DecodeError")
    [] OTHER ->
         CASE b.result = "absent" -> Settle("JsonRpcError")
           [] b.result = "misshapen" -> Settle("DecodeError")
           [] OTHER -> Settle("ok")

\* client.rs: from_str, as_object.
ReadRust(b) ==
  CASE b.form = "text" -> Settle("DecodeError")
    [] b.form = "object" -> ReadRustObject(b)
    [] OTHER -> Settle("JsonRpcError")

Read(s, b) == IF s = "ts" THEN ReadTs(b) ELSE ReadRust(b)

-----------------------------------------------------------------------------
FirstIdZero == 0

\* The id the first call of a Client carries.
FirstId == 1

Init ==
  /\ sdk \in {"ts", "rust"}
  /\ nextId = FirstId
  /\ id = [c \in Calls |-> 0]
  /\ phase = [c \in Calls |-> "idle"]
  /\ armed = {}
  /\ outcome = [c \in Calls |-> Settle("none")]
  /\ inFlight = {}
  /\ decision = [c \in Calls |-> "none"]
  /\ stated = [c \in Calls |-> "unstated"]
  /\ reply = [c \in Calls |-> NoBody]

(* The caller's side.                                                      *)

\* Client.call up to its first await: take an id, arm the timer, post.
Call(c) ==
  /\ phase[c] = "idle"
  /\ id' = [id EXCEPT ![c] = nextId]
  /\ nextId' = nextId + 1
  /\ armed' = armed \cup {c}
  /\ inFlight' = inFlight \cup {c}
  /\ phase' = [phase EXCEPT ![c] = "fetching"]
  /\ UNCHANGED <<sdk, outcome, decision, stated, reply>>

HeadArrivesClearingTimer(c) ==
  /\ phase[c] = "fetching"
  /\ reply[c] # NoBody
  /\ phase' = [phase EXCEPT ![c] = "reading"]
  /\ armed' = armed \ {c}
  /\ UNCHANGED <<sdk, nextId, id, outcome, nodeVars>>

\* fetch resolves: the headers are here, the body is still to be read.
HeadArrives(c) ==
  /\ phase[c] = "fetching"
  /\ reply[c] # NoBody
  /\ phase' = [phase EXCEPT ![c] = "reading"]
  /\ UNCHANGED <<sdk, nextId, id, armed, outcome, nodeVars>>

\* The call is over: its timer is cleared (finally) and its promise settles.
Finish(c, o) ==
  /\ phase' = [phase EXCEPT ![c] = "settled"]
  /\ armed' = armed \ {c}
  /\ outcome' = [outcome EXCEPT ![c] = o]
  /\ UNCHANGED <<sdk, nextId, id, nodeVars>>

\* response.text() resolves and the rest of call() runs without an await.
TextArrives(c) ==
  /\ phase[c] = "reading"
  /\ Finish(c, Read(sdk, reply[c]))

TimeoutRetrying(c) ==
  /\ c \in armed
  /\ phase[c] \in {"fetching", "reading"}
  /\ phase' = [phase EXCEPT ![c] = "fetching"]
  /\ inFlight' = inFlight \cup {c}
  /\ UNCHANGED <<sdk, nextId, id, armed, outcome, decision, stated, reply>>

\* The timer aborts whichever await the call is in.  The request itself is
\* not taken back.
Timeout(c) ==
  /\ c \in armed
  /\ phase[c] \in {"fetching", "reading"}
  /\ Finish(c, Settle("TransportError"))

\* A refused or reset connection, before or after the node decided.
ConnectionFails(c) ==
  /\ phase[c] \in {"fetching", "reading"}
  /\ Finish(c, Settle("TransportError"))

(* The node and the network between.                                       *)

\* The request reaches the node, whose answer sets out on the same
\* connection, unless a gateway replaces it.
NodeApplies(c) ==
  /\ c \in inFlight
  /\ inFlight' = inFlight \ {c}
  /\ decision' = [decision EXCEPT ![c] = "applied"]
  /\ \E b \in AppliedBodies \cup ForeignBodies : reply' = [reply EXCEPT ![c] = b]
  /\ UNCHANGED <<clientVars, stated>>

NodeRefuses(c) ==
  /\ c \in inFlight
  /\ inFlight' = inFlight \ {c}
  /\ decision' = [decision EXCEPT ![c] = "refused"]
  /\ \E s \in Retryability :
       /\ stated' = [stated EXCEPT ![c] = s]
       /\ \E b \in {ErrorBody("application", s)} \cup ForeignBodies :
            reply' = [reply EXCEPT ![c] = b]
  /\ UNCHANGED clientVars

\* The request is lost, with or without a gateway answering for it.
RequestLost(c) ==
  /\ c \in inFlight
  /\ inFlight' = inFlight \ {c}
  /\ \E b \in {NoBody} \cup ForeignBodies : reply' = [reply EXCEPT ![c] = b]
  /\ UNCHANGED <<clientVars, decision, stated>>

-----------------------------------------------------------------------------
Next ==
  \E c \in Calls :
    \/ Call(c) \/ HeadArrives(c) \/ TextArrives(c)
    \/ Timeout(c) \/ ConnectionFails(c)
    \/ NodeApplies(c) \/ NodeRefuses(c) \/ RequestLost(c)

Spec == Init /\ [][Next]_vars

\* The event loop, or the async runtime, runs a timer that is due; nothing
\* is assumed of the network or the node.
FairSpec == Spec /\ \A c \in Calls : WF_vars(Timeout(c))

-----------------------------------------------------------------------------
(* Type invariant of the client's state and of the network between.        *)
TypeOK ==
  /\ sdk \in {"ts", "rust"}
  /\ nextId \in Nat \ {0}
  /\ id \in [Calls -> Nat]
  /\ phase \in [Calls -> {"idle", "fetching", "reading", "settled"}]
  /\ armed \subseteq Calls
  /\ outcome \in [Calls -> Outcome]
  /\ inFlight \subseteq Calls
  /\ decision \in [Calls -> {"none", "applied", "refused"}]
  /\ stated \in [Calls -> Retryability]
  /\ reply \in [Calls -> Body]

(* Two calls on one Client never carry the same JSON-RPC id, however many  *)
(* are in flight (client.ts `nextId++`, client.rs `fetch_add`).            *)
IdsDistinct ==
  \A c, d \in Calls : c # d /\ phase[c] # "idle" => id[c] # id[d]

(* A report is the node's: a call that returns a result was carried out, a *)
(* call that throws ApplicationError was refused and will never be carried *)
(* out, and the retryability it carries is the one the node stated, with   *)
(* "not stated" kept apart from "no" (error.ts, ofsRetryable).             *)
ReportsAreHonest ==
  \A c \in Calls :
    /\ outcome[c].kind = "ok" => decision[c] = "applied"
    /\ outcome[c].kind = "ApplicationError" =>
         /\ decision[c] = "refused"
         /\ outcome[c].retryable = stated[c]

(* The timer runs exactly as long as its call waits: it covers the body as *)
(* well as the headers, and none is left behind by a call that settled,    *)
(* whichever way it did (client.ts's finally).                             *)
TimerCoversTheWait ==
  \A c \in Calls : c \in armed <=> phase[c] \in {"fetching", "reading"}

(* Liveness: a call that was made settles, whatever the network does, as   *)
(* the timer of the call is the only step that has to happen.              *)
EveryCallSettles ==
  \A c \in Calls : (phase[c] = "fetching") ~> (phase[c] = "settled")

(* Refinement: the client is a OneShotCall.  A success or a refusal is the *)
(* node's one decision on this call, any other failure says nothing of it, *)
(* and no call is ever sent twice (error.ts: "never retries").             *)
StageOf(p) ==
  CASE p = "idle" -> "idle" [] p = "settled" -> "done" [] OTHER -> "open"

ReportOf(k) ==
  CASE k = "none" -> "none" [] k = "ok" -> "success"
    [] k = "ApplicationError" -> "refusal" [] OTHER -> "unknown"

OneShot == INSTANCE OneShotCall WITH
  stage <- [c \in Calls |-> StageOf(phase[c])],
  decision <- decision,
  report <- [c \in Calls |-> ReportOf(outcome[c].kind)]

ImplementsOneShotCall == OneShot!Spec

(* The two SDKs read every answer a node gives alike: the same body never  *)
(* is a success to one and a refusal to the other (the Rust Error enum and *)
(* the TypeScript classes mirror each other).  Bodies that name both keys  *)
(* and results of another shape are where only Rust gives up.              *)
SdksAgree ==
  \A c \in Calls :
    LET b == reply[c] IN
    phase[c] = "reading" =>
      \/ ReportOf(ReadTs(b).kind) = ReportOf(ReadRust(b).kind)
      \/ ReadTs(b).kind = "ok" /\ ReadRust(b).kind = "DecodeError"
         /\ (b.error = "null" \/ b.result = "misshapen")

(* The TypeScript README: "Every rejected call throws TransportError ...,  *)
(* JsonRpcError ..., or ApplicationError".                                 *)
EveryFailureIsAnSdkError ==
  sdk = "ts" => \A c \in Calls :
    outcome[c].kind \in {"none", "ok", "ApplicationError", "JsonRpcError",
                         "TransportError"}
=============================================================================
