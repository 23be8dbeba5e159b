--------------------------- MODULE RpcClient_proofs ---------------------------
(***************************************************************************)
(* Proofs about RpcClient for any set of calls and either SDK: the client  *)
(* state is well typed, ids are never reused, the timer covers the wait,   *)
(* reports are honest, the two SDKs read an answer alike, and the client   *)
(* implements OneShotCall.                                                 *)
(***************************************************************************)
EXTENDS RpcClient, TLAPS

(* Before it is made, a call has left no trace.                            *)
IdleIsUntouched ==
  \A c \in Calls : phase[c] = "idle" =>
    /\ id[c] = 0
    /\ c \notin inFlight
    /\ decision[c] = "none"
    /\ reply[c] = NoBody
    /\ outcome[c].kind = "none"

(* The ids handed out are those below nextId, each to one call.            *)
IdsBelowNext ==
  /\ \A c \in Calls : phase[c] # "idle" => id[c] \in 1..(nextId - 1)
  /\ IdsDistinct

(* A call in flight was made, and is one nobody has answered.              *)
InFlightIsUndecided ==
  \A c \in inFlight :
    phase[c] # "idle" /\ decision[c] = "none" /\ reply[c] = NoBody

(* The body on a call's connection tells the truth about the decision.     *)
ReplyTellsDecision ==
  \A c \in Calls :
    /\ Read(sdk, reply[c]).kind = "ok" => decision[c] = "applied"
    /\ reply[c].error = "application" =>
         decision[c] = "refused" /\ reply[c].retryable = stated[c]

(* Headers are only seen of a reply that exists.                           *)
ReadingHasReply ==
  \A c \in Calls : phase[c] = "reading" => reply[c] # NoBody

OutcomeWhenSettled ==
  \A c \in Calls : outcome[c].kind # "none" <=> phase[c] = "settled"

IInv ==
  /\ TypeOK
  /\ IdleIsUntouched
  /\ IdsBelowNext
  /\ InFlightIsUndecided
  /\ ReplyTellsDecision
  /\ ReadingHasReply
  /\ OutcomeWhenSettled
  /\ TimerCoversTheWait
  /\ ReportsAreHonest
-----------------------------------------------------------------------------
(* Every body an actor of the model writes is a Body.                      *)
LEMMA BodyTypes ==
  /\ NoBody \in Body
  /\ AppliedBodies \subseteq Body
  /\ ForeignBodies \subseteq Body
  /\ \A s \in Retryability : ErrorBody("application", s) \in Body
<1>1. NoBody \in Body
  BY DEF NoBody, Body, Retryability
<1>2. AppliedBodies \subseteq Body
  BY DEF AppliedBodies, ResultBody, Body, Retryability
<1>3. ForeignBodies \subseteq Body
  BY <1>1 DEF ForeignBodies, ErrorBody, ResultBody, NoBody, Body, Retryability
<1>4. \A s \in Retryability : ErrorBody("application", s) \in Body
  BY DEF ErrorBody, Body
<1> QED  BY <1>1, <1>2, <1>3, <1>4

(* Either SDK reads any body into an outcome that ends the call.           *)
LEMMA ReadEnds ==
  ASSUME NEW b \in Body
  PROVE  Read(sdk, b) \in Outcome /\ Read(sdk, b).kind # "none"
<1>1. ReadTs(b) \in Outcome /\ ReadTs(b).kind # "none"
  BY DEF ReadTs, Body, Settle, ApplicationFailure, Outcome, Retryability
<1>2. ReadRust(b) \in Outcome /\ ReadRust(b).kind # "none"
  BY DEF ReadRust, ReadRustObject, Body, Settle, ApplicationFailure, Outcome, Retryability
<1> QED  BY <1>1, <1>2 DEF Read

(* Only an application error body is read as an ApplicationError, and its  *)
(* retryability is carried over unchanged.                                 *)
LEMMA ReadRefusal ==
  ASSUME NEW b \in Body, Read(sdk, b).kind = "ApplicationError"
  PROVE  b.error = "application" /\ Read(sdk, b).retryable = b.retryable
<1>1. ReadTs(b).kind = "ApplicationError" =>
        b.error = "application" /\ ReadTs(b).retryable = b.retryable
  BY DEF ReadTs, Body, Settle, ApplicationFailure
<1>2. ReadRust(b).kind = "ApplicationError" =>
        b.error = "application" /\ ReadRust(b).retryable = b.retryable
  BY DEF ReadRust, ReadRustObject, Body, Settle, ApplicationFailure
<1> QED  BY <1>1, <1>2 DEF Read

(* Neither SDK reads success out of a body the node did not write for a    *)
(* call it carried out.                                                    *)
LEMMA ForeignIsNoSuccess ==
  ASSUME NEW b \in {NoBody} \cup ForeignBodies
  PROVE  Read(sdk, b).kind # "ok" /\ b.error # "application"
<1>1. ReadTs(b).kind # "ok" /\ b.error # "application"
  BY DEF ForeignBodies, NoBody, ErrorBody, ResultBody, ReadTs, Settle
<1>2. ReadRust(b).kind # "ok"
  BY DEF ForeignBodies, NoBody, ErrorBody, ResultBody, ReadRust, ReadRustObject, Settle
<1> QED  BY <1>1, <1>2 DEF Read

LEMMA RefusalIsNoSuccess ==
  ASSUME NEW s \in Retryability
  PROVE  /\ Read(sdk, ErrorBody("application", s)).kind # "ok"
         /\ ErrorBody("application", s).retryable = s
         /\ ErrorBody("application", s) # NoBody
<1>1. ReadTs(ErrorBody("application", s)).kind # "ok"
  BY DEF ErrorBody, ReadTs, ApplicationFailure, Settle
<1>2. ReadRust(ErrorBody("application", s)).kind # "ok"
  BY DEF ErrorBody, ReadRust, ReadRustObject, ApplicationFailure, Settle
<1> QED  BY <1>1, <1>2 DEF Read, ErrorBody, NoBody

LEMMA AppliedIsNoRefusal ==
  ASSUME NEW b \in AppliedBodies
  PROVE  b.error # "application"
BY DEF AppliedBodies, ResultBody

-----------------------------------------------------------------------------
(* The invariant is inductive.                                             *)
LEMMA InitIInv == Init => IInv
BY BodyTypes
   DEF Init, IInv, TypeOK, IdleIsUntouched, IdsBelowNext, IdsDistinct,
       InFlightIsUndecided, ReplyTellsDecision, ReadingHasReply,
       OutcomeWhenSettled, TimerCoversTheWait, ReportsAreHonest, Settle,
       Outcome, Retryability, FirstId, Read, ReadTs, ReadRust, NoBody

(* Every way a call ends keeps the invariant, provided what it settles     *)
(* with is honest: the three settling actions are instances of it.         *)
LEMMA FinishIInv ==
  ASSUME IInv, NEW c \in Calls, phase[c] \in {"fetching", "reading"},
         NEW o \in Outcome, o.kind # "none",
         o.kind = "ok" => decision[c] = "applied",
         o.kind = "ApplicationError" =>
           decision[c] = "refused" /\ o.retryable = stated[c],
         Finish(c, o)
  PROVE  IInv'
<1> USE DEF IInv, TypeOK, Finish, nodeVars
<1>1. TypeOK'
  OBVIOUS
<1>2. IdleIsUntouched' /\ IdsBelowNext' /\ InFlightIsUndecided'
  BY DEF IdleIsUntouched, IdsBelowNext, IdsDistinct, InFlightIsUndecided
<1>3. ReplyTellsDecision'
  BY DEF ReplyTellsDecision
<1>4. ReadingHasReply' /\ OutcomeWhenSettled' /\ TimerCoversTheWait'
  BY DEF ReadingHasReply, OutcomeWhenSettled, TimerCoversTheWait
<1>5. ReportsAreHonest'
  BY DEF ReportsAreHonest
<1> QED  BY <1>1, <1>2, <1>3, <1>4, <1>5

(* What arrives as text is read into an honest outcome.                    *)
LEMMA ReadIsHonest ==
  ASSUME IInv, NEW c \in Calls
  PROVE  LET o == Read(sdk, reply[c]) IN
         /\ o \in Outcome /\ o.kind # "none"
         /\ o.kind = "ok" => decision[c] = "applied"
         /\ o.kind = "ApplicationError" =>
              decision[c] = "refused" /\ o.retryable = stated[c]
<1>1. reply[c] \in Body
  BY DEF IInv, TypeOK
<1> QED  BY <1>1, ReadEnds, ReadRefusal DEF IInv, ReplyTellsDecision

LEMMA TransportIsHonest ==
  /\ Settle("TransportError") \in Outcome
  /\ Settle("TransportError").kind = "TransportError"
BY DEF Settle, Outcome, Retryability

LEMMA CallIInv ==
  ASSUME IInv, NEW c \in Calls, Call(c)
  PROVE  IInv'
<1> USE DEF IInv, TypeOK, Call
<1>1. TypeOK'
  OBVIOUS
<1>2. IdsBelowNext'
  <2>1. \A d \in Calls : phase'[d] # "idle" => id'[d] \in 1..(nextId' - 1)
    BY DEF IdsBelowNext
  <2>2. \A d \in Calls \ {c} : id[d] # nextId
    BY DEF IdsBelowNext, IdleIsUntouched
  <2>3. IdsDistinct'
    BY <2>2 DEF IdsBelowNext, IdsDistinct
  <2> QED  BY <2>1, <2>3 DEF IdsBelowNext
<1>3. IdleIsUntouched' /\ InFlightIsUndecided'
  BY DEF IdleIsUntouched, InFlightIsUndecided
<1>4. ReplyTellsDecision'
  BY DEF ReplyTellsDecision
<1>5. ReadingHasReply' /\ OutcomeWhenSettled' /\ TimerCoversTheWait'
  BY DEF ReadingHasReply, OutcomeWhenSettled, TimerCoversTheWait
<1>6. ReportsAreHonest'
  BY DEF ReportsAreHonest
<1> QED  BY <1>1, <1>2, <1>3, <1>4, <1>5, <1>6

LEMMA HeadArrivesIInv ==
  ASSUME IInv, NEW c \in Calls, HeadArrives(c)
  PROVE  IInv'
<1> USE DEF IInv, TypeOK, HeadArrives, nodeVars
<1>1. TypeOK' /\ IdleIsUntouched' /\ InFlightIsUndecided'
  BY DEF IdleIsUntouched, InFlightIsUndecided
<1>2. IdsBelowNext'
  BY DEF IdsBelowNext, IdsDistinct
<1>3. ReplyTellsDecision' /\ ReadingHasReply'
  BY DEF ReplyTellsDecision, ReadingHasReply
<1>4. OutcomeWhenSettled' /\ TimerCoversTheWait' /\ ReportsAreHonest'
  BY DEF OutcomeWhenSettled, TimerCoversTheWait, ReportsAreHonest
<1> QED  BY <1>1, <1>2, <1>3, <1>4

(* Whatever the node or the network does with a request in flight keeps    *)
(* the invariant if the body sent back tells the truth about it.           *)
LEMMA AnswerIInv ==
  ASSUME IInv, NEW c \in inFlight, UNCHANGED clientVars,
         inFlight' = inFlight \ {c},
         NEW d \in {"none", "applied", "refused"}, NEW s \in Retryability,
         NEW b \in Body,
         decision' = [decision EXCEPT ![c] = d],
         stated' = [stated EXCEPT ![c] = s],
         reply' = [reply EXCEPT ![c] = b],
         Read(sdk, b).kind = "ok" => d = "applied",
         b.error = "application" => d = "refused" /\ b.retryable = s
  PROVE  IInv'
<1> USE DEF IInv, TypeOK, clientVars
<1>0. /\ c \in Calls
      /\ phase[c] \in {"fetching", "settled"}
      /\ decision[c] = "none"
  BY DEF InFlightIsUndecided, ReadingHasReply
<1>1. TypeOK'
  BY <1>0
<1>2. IdleIsUntouched' /\ IdsBelowNext' /\ InFlightIsUndecided'
  BY <1>0 DEF IdleIsUntouched, IdsBelowNext, IdsDistinct, InFlightIsUndecided
<1>3. ReplyTellsDecision'
  BY <1>0 DEF ReplyTellsDecision
<1>4. ReadingHasReply' /\ OutcomeWhenSettled' /\ TimerCoversTheWait'
  BY <1>0 DEF ReadingHasReply, OutcomeWhenSettled, TimerCoversTheWait
<1>5. ReportsAreHonest'
  BY <1>0 DEF ReportsAreHonest
<1> QED  BY <1>1, <1>2, <1>3, <1>4, <1>5

LEMMA NextIInv == IInv /\ [Next]_vars => IInv'
<1> SUFFICES ASSUME IInv, [Next]_vars PROVE IInv'
  OBVIOUS
<1>1. ASSUME NEW c \in Calls, TextArrives(c) PROVE IInv'
  BY <1>1, ReadIsHonest, FinishIInv DEF TextArrives
<1>2. ASSUME NEW c \in Calls, Timeout(c) PROVE IInv'
  BY <1>2, TransportIsHonest, FinishIInv DEF Timeout
<1>3. ASSUME NEW c \in Calls, ConnectionFails(c) PROVE IInv'
  BY <1>3, TransportIsHonest, FinishIInv DEF ConnectionFails
<1>4. ASSUME NEW c \in Calls, NodeApplies(c) PROVE IInv'
  <2>1. PICK b \in AppliedBodies \cup ForeignBodies :
          reply' = [reply EXCEPT ![c] = b]
    BY <1>4 DEF NodeApplies
  <2>2. stated' = [stated EXCEPT ![c] = stated[c]] /\ stated[c] \in Retryability
    BY <1>4 DEF NodeApplies, IInv, TypeOK
  <2>3. b \in Body /\ b.error # "application"
    BY BodyTypes, ForeignIsNoSuccess, AppliedIsNoRefusal
  <2> QED  BY <1>4, <2>1, <2>2, <2>3, AnswerIInv DEF NodeApplies
<1>5. ASSUME NEW c \in Calls, NodeRefuses(c) PROVE IInv'
  <2>0. PICK s \in Retryability :
          /\ stated' = [stated EXCEPT ![c] = s]
          /\ \E b \in {ErrorBody("application", s)} \cup ForeignBodies :
               reply' = [reply EXCEPT ![c] = b]
    BY <1>5 DEF NodeRefuses
  <2>1. PICK b \in {ErrorBody("application", s)} \cup ForeignBodies :
          reply' = [reply EXCEPT ![c] = b]
    BY <2>0
  <2>2. b \in Body /\ Read(sdk, b).kind # "ok"
    BY BodyTypes, ForeignIsNoSuccess, RefusalIsNoSuccess
  <2>3. b.error = "application" => b.retryable = s
    BY ForeignIsNoSuccess, RefusalIsNoSuccess
  <2> QED  BY <1>5, <2>0, <2>1, <2>2, <2>3, AnswerIInv DEF NodeRefuses
<1>6. ASSUME NEW c \in Calls, RequestLost(c) PROVE IInv'
  <2>1. PICK b \in {NoBody} \cup ForeignBodies :
          reply' = [reply EXCEPT ![c] = b]
    BY <1>6 DEF RequestLost
  <2>2. /\ stated' = [stated EXCEPT ![c] = stated[c]]
        /\ decision' = [decision EXCEPT ![c] = decision[c]]
        /\ stated[c] \in Retryability
        /\ decision[c] \in {"none", "applied", "refused"}
    BY <1>6 DEF RequestLost, IInv, TypeOK
  <2>3. b \in Body /\ Read(sdk, b).kind # "ok" /\ b.error # "application"
    BY BodyTypes, ForeignIsNoSuccess
  <2> QED  BY <1>6, <2>1, <2>2, <2>3, AnswerIInv DEF RequestLost
<1>7. CASE UNCHANGED vars
  BY <1>7 DEF vars, clientVars, nodeVars, IInv, TypeOK, IdleIsUntouched,
       IdsBelowNext, IdsDistinct, InFlightIsUndecided, ReplyTellsDecision,
       ReadingHasReply, OutcomeWhenSettled, TimerCoversTheWait,
       ReportsAreHonest
<1> QED  BY <1>1, <1>2, <1>3, <1>4, <1>5, <1>6, <1>7,
            CallIInv, HeadArrivesIInv DEF Next

LEMMA Invariance == Spec => []IInv
BY InitIInv, NextIInv, PTL DEF Spec

-----------------------------------------------------------------------------
(* Type correctness, for any set of calls and either SDK.                  *)
THEOREM TypeCorrect == Spec => []TypeOK
BY Invariance, PTL DEF IInv

(* No two calls of one Client share an id (client.ts nextId++, client.rs   *)
(* fetch_add), and the timer of a call runs exactly while it waits.        *)
THEOREM ClientBookkeeping == Spec => [](IdsDistinct /\ TimerCoversTheWait)
<1>1. IInv => IdsDistinct /\ TimerCoversTheWait
  BY DEF IInv, IdsBelowNext
<1> QED  BY <1>1, Invariance, PTL

(* Whatever the network and the gateways do, a returned result was carried *)
(* out, a thrown ApplicationError was refused, and its retryability is the *)
(* one the node stated.                                                    *)
THEOREM Honesty == Spec => []ReportsAreHonest
BY Invariance, PTL DEF IInv

-----------------------------------------------------------------------------
(* The refinement mapping, pointwise.                                      *)
stageBar == [c \in Calls |-> StageOf(phase[c])]
reportBar == [c \in Calls |-> ReportOf(outcome[c].kind)]

(* A call that ends is a Return of the abstract call, with the report its  *)
(* outcome stands for.                                                     *)
LEMMA FinishReturns ==
  ASSUME IInv, NEW c \in Calls, phase[c] \in {"fetching", "reading"},
         NEW o \in Outcome, o.kind # "none",
         o.kind = "ok" => decision[c] = "applied",
         o.kind = "ApplicationError" => decision[c] = "refused",
         Finish(c, o)
  PROVE  OneShot!Return(c)
<1> USE DEF IInv, TypeOK, Finish, nodeVars
<1>1. stageBar[c] = "open" /\ stageBar' = [stageBar EXCEPT ![c] = "done"]
  BY DEF stageBar, StageOf
<1>2. reportBar' = [reportBar EXCEPT ![c] = ReportOf(o.kind)]
  BY DEF reportBar
<1>3. ReportOf(o.kind) \in {"success", "refusal", "unknown"}
  BY DEF ReportOf
<1>4. /\ ReportOf(o.kind) = "success" => decision[c] = "applied"
      /\ ReportOf(o.kind) = "refusal" => decision[c] = "refused"
  BY DEF ReportOf
<1>5. UNCHANGED decision
  OBVIOUS
<1> QED  BY <1>1, <1>2, <1>3, <1>4, <1>5
            DEF OneShot!Return, stageBar, reportBar

LEMMA InitRefines == Init => OneShot!Init
BY DEF Init, OneShot!Init, StageOf, ReportOf, Settle

LEMMA StepRefines == IInv /\ [Next]_vars => [OneShot!Next]_OneShot!absVars
<1> SUFFICES ASSUME IInv, [Next]_vars PROVE [OneShot!Next]_OneShot!absVars
  OBVIOUS
<1> USE DEF IInv, TypeOK
<1>1. ASSUME NEW c \in Calls, Call(c) PROVE OneShot!Begin(c)
  <2>1. stageBar[c] = "idle" /\ stageBar' = [stageBar EXCEPT ![c] = "open"]
    BY <1>1 DEF Call, stageBar, StageOf
  <2>2. UNCHANGED <<decision, reportBar>>
    BY <1>1 DEF Call, reportBar
  <2> QED  BY <2>1, <2>2 DEF OneShot!Begin, stageBar, reportBar
<1>2. ASSUME NEW c \in Calls, HeadArrives(c) \/ RequestLost(c)
      PROVE  UNCHANGED OneShot!absVars
  <2>1. \A d \in Calls : StageOf(phase'[d]) = StageOf(phase[d])
    BY <1>2 DEF HeadArrives, RequestLost, clientVars, StageOf
  <2>2. UNCHANGED <<outcome, decision>>
    BY <1>2 DEF HeadArrives, RequestLost, clientVars, nodeVars
  <2> QED  BY <2>1, <2>2 DEF OneShot!absVars
<1>3. ASSUME NEW c \in Calls, TextArrives(c) PROVE OneShot!Return(c)
  BY <1>3, ReadIsHonest, FinishReturns DEF TextArrives
<1>4. ASSUME NEW c \in Calls, Timeout(c) \/ ConnectionFails(c)
      PROVE  OneShot!Return(c)
  BY <1>4, TransportIsHonest, FinishReturns DEF Timeout, ConnectionFails
<1>5. ASSUME NEW c \in Calls, NodeApplies(c) \/ NodeRefuses(c)
      PROVE  OneShot!Decide(c)
  <2>1. decision[c] = "none" /\ phase[c] \in {"fetching", "reading", "settled"}
    BY <1>5 DEF NodeApplies, NodeRefuses, InFlightIsUndecided
  <2>2. stageBar[c] # "idle"
    BY <2>1 DEF stageBar, StageOf
  <2>3. \E d \in {"applied", "refused"} : decision' = [decision EXCEPT ![c] = d]
    BY <1>5 DEF NodeApplies, NodeRefuses
  <2>4. UNCHANGED <<phase, outcome>>
    BY <1>5 DEF NodeApplies, NodeRefuses, clientVars
  <2>5. UNCHANGED <<stageBar, reportBar>>
    BY <2>4 DEF stageBar, reportBar
  <2> QED  BY <2>1, <2>2, <2>3, <2>5 DEF OneShot!Decide, stageBar, reportBar
<1>6. CASE UNCHANGED vars
  BY <1>6 DEF vars, clientVars, nodeVars, OneShot!absVars
<1> QED  BY <1>1, <1>2, <1>3, <1>4, <1>5, <1>6 DEF Next, OneShot!Next

(* The client is a OneShotCall: its reports never contradict the node, it  *)
(* asks once, and it takes nothing back after the caller has its report.   *)
THEOREM Refinement == Spec => ImplementsOneShotCall
<1>1. Spec => [][OneShot!Next]_OneShot!absVars
  BY Invariance, StepRefines, PTL DEF Spec
<1> QED  BY <1>1, InitRefines, PTL DEF Spec, ImplementsOneShotCall, OneShot!Spec

-----------------------------------------------------------------------------
(* What can be on a connection.                                            *)
Refusals == {ErrorBody("application", s) : s \in Retryability}
Answers == AppliedBodies \cup Refusals \cup ForeignBodies
ReplyIsAnswer == \A c \in Calls : reply[c] \in Answers \cup {NoBody}

LEMMA StepKeepsReplies ==
  ASSUME IInv, ReplyIsAnswer, [Next]_vars
  PROVE  ReplyIsAnswer'
<1>1. reply \in [Calls -> Body]
  BY DEF IInv, TypeOK
<1>2. ASSUME NEW c \in Calls, NodeApplies(c) \/ NodeRefuses(c) \/ RequestLost(c)
      PROVE  \E b \in Answers \cup {NoBody} : reply' = [reply EXCEPT ![c] = b]
  BY <1>2 DEF NodeApplies, NodeRefuses, RequestLost, Answers, Refusals
<1>3. ASSUME NEW c \in Calls, NodeApplies(c) \/ NodeRefuses(c) \/ RequestLost(c)
      PROVE  ReplyIsAnswer'
  BY <1>1, <1>2, <1>3 DEF ReplyIsAnswer
<1>4. ASSUME UNCHANGED reply  PROVE ReplyIsAnswer'
  BY <1>4 DEF ReplyIsAnswer
<1>5. ASSUME NEW c \in Calls, \/ Call(c) \/ HeadArrives(c) \/ TextArrives(c)
                              \/ Timeout(c) \/ ConnectionFails(c)
      PROVE  ReplyIsAnswer'
  BY <1>4, <1>5 DEF Call, HeadArrives, TextArrives, Timeout, ConnectionFails, Finish, nodeVars
<1>6. CASE UNCHANGED vars
  BY <1>4, <1>6 DEF vars, nodeVars
<1> QED  BY <1>3, <1>5, <1>6 DEF Next

(* Whatever a node answers, the two read it alike, or only Rust gives up.    *)
LEMMA AnswersReadAlike ==
  ASSUME NEW b \in Answers
  PROVE  \/ ReportOf(ReadTs(b).kind) = ReportOf(ReadRust(b).kind)
         \/ ReadTs(b).kind = "ok" /\ ReadRust(b).kind = "DecodeError"
            /\ (b.error = "null" \/ b.result = "misshapen")
<1>1. CASE b \in AppliedBodies
  BY <1>1 DEF AppliedBodies, ResultBody, ReadTs, ReadRust, ReadRustObject, Settle, ReportOf
<1>2. CASE b \in Refusals
  BY <1>2 DEF Refusals, ErrorBody, ReadTs, ReadRust, ReadRustObject, ApplicationFailure,
              ReportOf
<1>3. CASE b \in ForeignBodies
  BY <1>3 DEF ForeignBodies, NoBody, ErrorBody, ResultBody, ReadTs, ReadRust,
              ReadRustObject, Settle, ReportOf
<1> QED  BY <1>1, <1>2, <1>3 DEF Answers

(* No answer is a success to one SDK and a refusal to the other: client.ts's *)
(* reading and client.rs's agree on every body a node or gateway writes.     *)
THEOREM SdksReadAlike == Spec => []SdksAgree
<1>1. Init => ReplyIsAnswer
  BY DEF Init, ReplyIsAnswer
<1>2. IInv /\ ReplyIsAnswer /\ [Next]_vars => ReplyIsAnswer'
  BY StepKeepsReplies
<1>3. IInv /\ ReplyIsAnswer => SdksAgree
  BY AnswersReadAlike DEF IInv, ReadingHasReply, ReplyIsAnswer, SdksAgree
<1> QED  BY <1>1, <1>2, <1>3, Invariance, PTL DEF Spec
=============================================================================
