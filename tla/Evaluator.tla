----------------------------- MODULE Evaluator -----------------------------
(***************************************************************************)
(* The stage evaluator (evaluator.py, rules 0.5.0) as operators on a run's *)
(* record: what each stage concludes from the events, in their order, and  *)
(* the verdict.                                                            *)
(*                                                                         *)
(* An event keeps the fields the stages read.  A note is the set of flags  *)
(* a participant asserts in it: "applied" and "duplicate" for a true flag, *)
(* "right" and "wrong" for correct: true and correct: false,               *)
(* "applied?" and "correct?" for a flag that is present and not a boolean. *)
(* Evidence lists, notes of stages and the older rules are left out.       *)
(***************************************************************************)
EXTENDS Integers, Sequences, FiniteSets

Nothing == "none"   \* no message, or a field an event lacks

\* An event of the town about a subject, before its details.
Event(kind, subject) ==
  [kind |-> kind, who |-> "town", subject |-> subject, content |-> Nothing,
   to |-> Nothing, names |-> Nothing, attempt |-> 0, fence |-> 0,
   status |-> Nothing, note |-> {}]

\* Positions of the events of a kind that satisfy a condition.
Find(E, kind, Holds(_)) == {n \in DOMAIN E : E[n].kind = kind /\ Holds(E[n])}
AnyEvent(e) == TRUE
Earliest(S) == CHOOSE n \in S : \A m \in S : n <= m

Accepted(E, content) ==
  LET Is(e) == e.content = content IN Find(E, "message_accepted", Is)
Requests(E) == Accepted(E, "quote_request")
Responses(E) == Accepted(E, "quote_response")
FirstSubject(E, S) == IF S = {} THEN Nothing ELSE E[Earliest(S)].subject
RequestId(E) == FirstSubject(E, Requests(E))
ResponseId(E) == FirstSubject(E, Responses(E))

Claims(E, subject) ==
  LET Is(e) == e.subject = subject IN Find(E, "message_claimed", Is)
AcksBy(E, who, subject) ==
  LET Is(e) == e.who = who /\ e.subject = subject IN Find(E, "ack_recorded", Is)

WithStatus(E, S, statuses) == {n \in S : E[n].status \in statuses}
Asserting(E, S, flag) == {n \in S : flag \in E[n].note}

When(holds) == IF holds THEN "passed" ELSE "not_enough_evidence"

-----------------------------------------------------------------------------
(* The stages every run is judged on.                                      *)

SellerAcks(E) == AcksBy(E, "seller", RequestId(E))
Processed(E) == WithStatus(E, SellerAcks(E), {"processed"})
Applied(E) == Asserting(E, Processed(E), "applied")
UnreadableApplied(E) == Asserting(E, Processed(E), "applied?")

AcceptedStage(E) == When(Requests(E) # {})
ClaimedStage(E) == When(Requests(E) # {} /\ Claims(E, RequestId(E)) # {})
ReceivedStage(E) ==
  When(Requests(E) # {} /\ WithStatus(E, SellerAcks(E), {"received", "processed"}) # {})

\* The seller reported the application exactly once, legibly.
ProcessedStageLenient(E) == When(Applied(E) # {})   \* faulty variant: at least once
ProcessedStage(E) ==
  IF Cardinality(Applied(E)) > 1 THEN "failed"
  ELSE When(Applied(E) # {} /\ UnreadableApplied(E) = {})

\* _response_mismatch on accepted responses and requests: why they are not the
\* one answer to the accepted request, "none" when they are or nothing is there.
Mismatch(E, responses, requests) ==
  IF Cardinality(responses) > 1 THEN "failed"
  ELSE IF responses = {} \/ requests = {} THEN Nothing
  ELSE LET named == E[Earliest(responses)].names
       IN IF named = E[Earliest(requests)].subject THEN Nothing
          ELSE IF named = Nothing THEN "not_enough_evidence" ELSE "failed"

ResponseMismatch(E) == Mismatch(E, Responses(E), Requests(E))

ResponseStage(E) ==
  IF ResponseMismatch(E) # Nothing THEN ResponseMismatch(E)
  ELSE When(\E n \in Claims(E, ResponseId(E)) : Responses(E) # {} /\ E[n].who = "buyer")

\* The acknowledgements that may hold the buyer's assertion: of the response, or
\* of any response when it is unclear which one answers.
BuyerAcks(E) ==
  IF ResponseMismatch(E) = Nothing
  THEN {n \in AcksBy(E, "buyer", ResponseId(E)) : Responses(E) # {}}
  ELSE UNION {AcksBy(E, "buyer", E[r].subject) : r \in Responses(E)}

\* Faulty variant: a provisional assertion decides too.
VerdictsProvisional(E) == {n \in BuyerAcks(E) : E[n].note \cap {"right", "wrong"} # {}}
\* Only terminal acknowledgements decide, and only those with a legible verdict.
Verdicts(E) ==
  {n \in BuyerAcks(E) : E[n].status # "retryable" /\ E[n].note \cap {"right", "wrong"} # {}}

ConflictingUnasked(E) == FALSE   \* faulty variant: contradictions go unnoticed
Conflicting(E) ==
  /\ ResponseMismatch(E) # "failed"
  /\ Asserting(E, Verdicts(E), "right") # {}
  /\ Asserting(E, Verdicts(E), "wrong") # {}

\* Faulty variant: one good word is enough.
CorrectStageLenient(E) ==
  IF Verdicts(E) = {} THEN "not_enough_evidence"
  ELSE IF ResponseMismatch(E) = "failed" \/ Asserting(E, Verdicts(E), "right") = {}
       THEN "failed" ELSE "passed"
CorrectStage(E) ==
  IF Verdicts(E) = {} \/ Conflicting(E) THEN "not_enough_evidence"
  ELSE IF ResponseMismatch(E) = "failed" THEN "failed"
  ELSE IF "wrong" \in E[Earliest(Verdicts(E))].note THEN "failed"
  ELSE When(ResponseMismatch(E) = Nothing)

-----------------------------------------------------------------------------
(* The stages of the profile's fault.                                      *)

Redelivered(E) == {n \in Claims(E, RequestId(E)) : E[n].attempt >= 2}
OfRequest(E, kind) ==
  LET Is(e) == e.subject = RequestId(E) IN
  IF Requests(E) = {} THEN {} ELSE Find(E, kind, Is)

RecoveredStage(E) ==
  When(/\ OfRequest(E, "claim_expired") \cup OfRequest(E, "stale_fence_rejected") # {}
       /\ Redelivered(E) # {})
StaleFenceStage(E) == When(OfRequest(E, "stale_fence_rejected") # {})

\* The first of a link's candidates after a position; past the end when there is none.
NextOf(E, candidates, after) ==
  LET later == {n \in candidates : n > after}
  IN IF later = {} THEN Len(E) + 1 ELSE Earliest(later)

\* The amnesia chain, each link the first of its candidates after the one before it: how
\* far it reaches.
AmnesiaChain(E) ==
  LET OfSeller(e) == e.subject = "seller"
      FromSeller(e) == e.who = "seller"
      accepted == NextOf(E, {r \in Responses(E) : /\ E[r].who = "seller"
                                                  /\ Mismatch(E, {r}, Requests(E)) = Nothing}, 0)
      crashed == NextOf(E, Find(E, "participant_crashed", OfSeller), accepted)
      restarted == NextOf(E, Find(E, "participant_restarted", OfSeller), crashed)
      redelivered == NextOf(E, {n \in Redelivered(E) : E[n].who = "seller"}, restarted)
      replayed == NextOf(E, {n \in Find(E, "replay_returned", FromSeller) :
                               \E r \in Responses(E) : E[r].subject = E[n].subject}, redelivered)
  IN [redelivered |-> redelivered <= Len(E), replayed |-> replayed <= Len(E)]

AmnesiaStage(E) ==
  IF ~AmnesiaChain(E).redelivered THEN "not_enough_evidence"
  ELSE IF Cardinality(Responses(E)) > 1 THEN "failed"
  ELSE When(AmnesiaChain(E).replayed)

\* Faulty variant: any duplicate will do, whichever delivery it answers.
RecognizedAnywhere(E) == Asserting(E, Processed(E), "duplicate")
\* Only a processed acknowledgement under the offer's own fence recognises it.
Recognized(E) ==
  {n \in Asserting(E, Processed(E), "duplicate") :
     \E o \in OfRequest(E, "duplicate_offered") : E[o].fence = E[n].fence}

DuplicateStage(E) ==
  When(/\ Recognized(E) # {}
       /\ Cardinality(Applied(E)) = 1
       /\ UnreadableApplied(E) = {})

WakeupStage(E) ==
  When(Find(E, "notify_suppressed", AnyEvent) # {} /\ ClaimedStage(E) = "passed")
LostAckStage(E) == When(Find(E, "ack_dropped", AnyEvent) # {} /\ Processed(E) # {})

\* An agent's own report that it met the fault and went on.
NotedStage(E, flag) ==
  When(Asserting(E, Find(E, "ack_recorded", AnyEvent), flag) # {} /\ Processed(E) # {})

FaultStages(E, fault) ==
  CASE fault = "crash_after_claim" -> <<RecoveredStage(E), StaleFenceStage(E)>>
    [] fault \in {"crash_amnesia", "crash_amnesia_fresh_ids"} -> <<AmnesiaStage(E)>>
    [] fault = "duplicate_delivery" -> <<DuplicateStage(E)>>
    [] fault = "drop_wakeup" -> <<WakeupStage(E)>>
    [] fault = "lost_ack" -> <<LostAckStage(E)>>
    [] fault = "tool_error" -> <<NotedStage(E, "tool_errors")>>
    [] fault = "context_truncation" -> <<NotedStage(E, "context_truncations")>>
    [] OTHER -> <<>>

-----------------------------------------------------------------------------
(* Every accepted request, the cascade, and the verdict.                   *)

Answered(E, id) == \E r \in Responses(E) : E[r].names = id

\* What every other accepted request must show for a stage to keep its pass.
\* A request for somebody else than the seller must still be answered.
Reached(E, n, stage) ==
  LET id == E[n].subject
      acks == AcksBy(E, "seller", id)
      processed == WithStatus(E, acks, {"processed"})
      forSeller == E[n].to \in {Nothing, "seller"}
  IN IF stage = "response" THEN Answered(E, id)
     ELSE forSeller =>
       CASE stage = "claimed" -> Claims(E, id) # {}
         [] stage = "received" -> WithStatus(E, acks, {"received", "processed"}) # {}
         [] stage = "processed" -> Asserting(E, processed, "applied") # {}

Downgraded(E, stage, status) ==
  IF /\ status = "passed"
     /\ Cardinality(Requests(E)) > 1
     /\ \E n \in Requests(E) : ~Reached(E, n, stage)
  THEN "not_enough_evidence" ELSE status

Stages(E, fault) ==
  <<AcceptedStage(E),
    Downgraded(E, "claimed", ClaimedStage(E)),
    Downgraded(E, "received", ReceivedStage(E)),
    Downgraded(E, "processed", ProcessedStage(E)),
    Downgraded(E, "response", ResponseStage(E)),
    CorrectStage(E)>> \o FaultStages(E, fault)

\* cascade_unreached: inconclusive stages after a broken one were not reached.
Cascaded(stages) ==
  [k \in DOMAIN stages |->
     IF stages[k] = "not_enough_evidence" /\ \E j \in 1..k - 1 : stages[j] \in {"failed", "error"}
     THEN "not_tested" ELSE stages[k]]

\* stage_verdict.  portable_identity is passed or not_tested and never decides.
StageVerdict(stages) ==
  LET applicable == {stages[k] : k \in DOMAIN stages} \ {"not_tested"}
  IN IF "error" \in applicable THEN "error"
     ELSE IF "failed" \in applicable THEN "failed"
     ELSE IF applicable = {"passed"} THEN "passed" ELSE "incomplete"

Verdict(E, fault) == StageVerdict(Cascaded(Stages(E, fault)))
=============================================================================
