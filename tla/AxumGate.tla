------------------------------ MODULE AxumGate ------------------------------
(***************************************************************************)
(* gatekeep-axum's Gatekeeper around an Authorizer: a handler awaits the   *)
(* authorization and turns its result into a response.  A permit goes on   *)
(* to the handler, a denial becomes 403 or 404 by the shape of the clause  *)
(* that denied, and every failure becomes the same 500.                    *)
(*                                                                         *)
(* A client that disconnects drops the future: there is no response.  The  *)
(* same Authorizer also serves calls that no handler waits for, such as a  *)
(* prepared decision its holder submits later.  The reason catalog is the  *)
(* application's; what it renders is a function of the reason and locale.  *)
(***************************************************************************)
EXTENDS Authorizer

CONSTANTS
  Clause,             \* decision -> [effect, shape, reason]: its decisive clause
  Reasons,            \* the stable codes of clauses
  Locale,             \* request -> locale of its Context
  Locales,
  HiddenReason,       \* DenialResponseConfig::hidden_reason, or Nil
  ForbiddenFallback, HiddenFallback

VARIABLE response

gateVars == <<vars, response>>

DenyShapes == {"forbidden", "hidden"}

ASSUME ClauseAssumption ==
  Clause \in [Decisions -> [effect : {"permit", "deny"}, shape : DenyShapes,
                            reason : Reasons \union {Nil}]]
ASSUME GateAssumption ==
  /\ Locale \in [Requests -> Locales]
  /\ HiddenReason = Nil \/ HiddenReason \notin Reasons

\* The methods of Gatekeeper end in these calls.
GateOps == {"authorize", "authorize_policy", "authorize_resource"}

\* ReasonCatalog::render
Render(reason, locale) == [reason |-> reason, locale |-> locale]

Messages ==
  [reason : Reasons \union {HiddenReason}, locale : Locales] \union
  [reason : {ForbiddenFallback, HiddenFallback, "authorization failed"}, locale : {Nil}]

Configured(text) == [reason |-> text, locale |-> Nil]

Responses ==
  [status : {200, 403, 404, 500}, message : Messages \union {Nil}, reason : Reasons \union {Nil}]

Pending == [status |-> 0]

Reply(status, message, reason) == [status |-> status, message |-> message, reason |-> reason]

GateTypeOK == response \in [Requests -> Responses \union {Pending}]

GateInit == Init /\ response = [r \in Requests |-> Pending]

-----------------------------------------------------------------------------
(***************************************************************************)
(* DenialResponseConfig                                                    *)
(***************************************************************************)
Forbidden(reason, locale) ==
  Reply(403,
        IF reason = Nil THEN Configured(ForbiddenFallback) ELSE Render(reason, locale),
        reason)

\* Slip: the catalog is asked for the policy's own reason.
DeniedRendered(shape, reason, locale) ==
  IF shape = "hidden"
  THEN Reply(404, IF reason = Nil THEN Configured(HiddenFallback) ELSE Render(reason, locale), Nil)
  ELSE Forbidden(reason, locale)

Hidden(locale) ==
  Reply(404,
        IF HiddenReason = Nil THEN Configured(HiddenFallback) ELSE Render(HiddenReason, locale),
        Nil)

\* DenialResponseConfig::denied
Denied(shape, reason, locale) ==
  IF shape = "hidden" THEN Hidden(locale) ELSE Forbidden(reason, locale)

\* GatekeepRejection::Error
InternalError == Reply(500, Configured("authorization failed"), Nil)

(***************************************************************************)
(* Gatekeeper::authorize, authorize_prepared and authorize_resource after  *)
(* the await.                                                              *)
(***************************************************************************)
\* Slip: a failed write of the audit record is presented as a denial.
PresentAsDenial(r) ==
  IF answer[r].status = "decided" /\ Clause[answer[r].outcome].effect = "permit"
  THEN Reply(200, Nil, Nil)
  ELSE Forbidden(Nil, Locale[r])

Present(r) ==
  IF answer[r].status # "decided" THEN InternalError
  ELSE LET c == Clause[answer[r].outcome]
       IN  IF c.effect = "permit" THEN Reply(200, Nil, Nil)
           ELSE Denied(c.shape, c.reason, Locale[r])

Waiting(r) ==
  /\ pc[r] = "done" /\ call[r].op \in GateOps
  /\ response[r] = Pending /\ answer[r].error # "dropped"

Respond(r) ==
  /\ Waiting(r)
  /\ response' = [response EXCEPT ![r] = Present(r)]
  /\ UNCHANGED vars

\* denial_reason can fail to serialise the denied outcome.
RespondFails(r) ==
  /\ Waiting(r) /\ answer[r].status = "decided" /\ Clause[answer[r].outcome].effect = "deny"
  /\ response' = [response EXCEPT ![r] = InternalError]
  /\ UNCHANGED vars

\* A new request, or a client that tries again.
Arrive(r) ==
  /\ Reinvoke(r) \/ \E c \in Calls : Invoke(r, c)
  /\ response' = [response EXCEPT ![r] = Pending]

Await(r) ==
  /\ Step(r) \/ PersistPending(r) \/ RetryAttempt(r) \/ RecordFails(r) \/ Drop(r)
  /\ UNCHANGED response

Tick == (\E t \in Time : ClockStep(t)) /\ UNCHANGED response

GateNext ==
  \/ \E r \in Requests : Arrive(r) \/ Await(r) \/ Respond(r) \/ RespondFails(r)
  \/ Tick

GateSpec == GateInit /\ [][GateNext]_gateVars

\* Fairness of the Authorizer, and a handler that is polled responds.
GateFairness ==
  \A r \in Requests :
    /\ WF_gateVars(Step(r) /\ UNCHANGED response)
    /\ WF_gateVars(PersistPending(r) /\ UNCHANGED response)
    /\ WF_gateVars(Respond(r))

GateFairSpec == GateSpec /\ GateFairness

-----------------------------------------------------------------------------
\* Hidden denials "act as missing": the 404s of one locale are the same
\* response, whatever policy, tenant or clause was decisive and however the
\* clause is labelled, and they are not mistaken for a forbidden denial
\* (DenialResponseConfig::hidden).
HiddenIsUniform ==
  \A q, r \in Requests :
    response[q].status = 404 /\ response[r].status = 404 /\ Locale[q] = Locale[r] =>
      response[q] = response[r]

\* "The Axum adapter awaits audit persistence before returning permit or
\* deny": a response that tells the client of a decision tells of one that is
\* durable, for this tenant and policy, with the response's own effect and
\* shape; when the record is in doubt the client learns neither
\* (Gatekeeper::authorize, present).
ResponseIsAudited ==
  \A r \in Requests : response[r].status \in {200, 403, 404} =>
    \E e \in store :
      /\ e.kind = "decision" /\ e.tenant = call[r].tenant /\ e.policy = call[r].policy
      /\ e.id = answer[r].id
      /\ response[r].status =
           IF Clause[e.outcome].effect = "permit" THEN 200
           ELSE IF Clause[e.outcome].shape = "hidden" THEN 404 ELSE 403

=============================================================================
