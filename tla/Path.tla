-------------------------------- MODULE Path --------------------------------
(***************************************************************************)
(* The Path test (path_runner.py): one driver resolves an agent that is    *)
(* already running, reads its card, sends it one order twice, records what *)
(* it observes, and is judged from these records alone.  The agent is the  *)
(* reference A2A seller (a2a_adapter.py) with at most one planted defect,  *)
(* or a stranger that returns whatever the driver can observe.  Calls may  *)
(* be lost on their way there or back, after the agent has acted.          *)
(*                                                                         *)
(* An order's terms are "original" or, in a conflicting retry, "changed";  *)
(* a quote's total is named after the terms it is the price of, or is      *)
(* "over" the budget, "under" it, "absent", or "strange" (a value that     *)
(* evidence cannot hold verbatim).  A content digest is the quote itself.  *)
(***************************************************************************)
EXTENDS Integers, Sequences, FiniteSets

CONSTANTS Profiles,     \* the profiles tested
          Targets,      \* how the operator names the agent
          Subjects,     \* defects of the agent, or Stranger
          Replies,      \* what a stranger may answer to an order
          TownFaults    \* how Town's own driver may malfunction

Nothing == "none"
Stranger == "stranger"
Cards == {"card", "drifted"}          \* digests

Judge == INSTANCE Evaluator

VARIABLES profile, target, subject,   \* the test, never changed
          driver,                     \* where run_path_test is
          wire,                       \* the HTTP call in flight
          terms, quotes,              \* the seller: order_terms, fulfillment_counts
          told,                       \* history: what the subject answered
          events,                     \* the record
          faults                      \* history: what went wrong outside the subject

test == <<profile, target, subject>>
vars == <<profile, target, subject, driver, wire, terms, quotes, told, events, faults>>

\* PATH_PROFILES: the evaluators, as what they differ in.
Fulfillment == [strict |-> TRUE, intent |-> FALSE, condition |-> "duplicate_request"]
QuoteIntent == [Fulfillment EXCEPT !.intent = TRUE]
OrderConflict == [Fulfillment EXCEPT !.condition = "conflicting_retry"]
Legacy(p) == [p EXCEPT !.strict = FALSE]
PathProfiles ==
  {Legacy(Fulfillment), Fulfillment, Legacy(QuoteIntent), QuoteIntent, OrderConflict}

\* An operator pins the digest "card", or none.
Outputs == [form : STRING, total : STRING, id : STRING, item : STRING, number : Nat]
ASSUME PathAssumption ==
  /\ Profiles \subseteq PathProfiles
  /\ Targets \subseteq [usable : BOOLEAN, pin : {Nothing, "card"}]
  /\ Replies \subseteq [task : STRING, state : STRING, outputs : Seq(Outputs), broken : BOOLEAN]

-----------------------------------------------------------------------------
(* Judging: evaluate_path on the record alone.                             *)

Event(kind, attempt, detail) == [kind |-> kind, attempt |-> attempt, detail |-> detail]
Of(E, kind, attempt) == {n \in DOMAIN E : E[n].kind = kind /\ E[n].attempt = attempt}
Leading(E, S) == E[Judge!Earliest(S)].detail
Once(S) == Cardinality(S) = 1
Has(E, kind) == \E n \in DOMAIN E : E[n].kind = kind
First(E, kind) == E[CHOOSE n \in DOMAIN E : E[n].kind = kind].detail

PassIf(holds) == IF holds THEN "passed" ELSE "failed"
NotEnough == "not_enough_evidence"
MustHold(E, fact, broken) ==
  IF Has(E, fact) THEN "passed" ELSE IF Has(E, broken) THEN "failed" ELSE NotEnough

ResolutionStage(E) == MustHold(E, "resolution_hop", "resolution_failed")
CardStage(E) == MustHold(E, "card_retrieved", "card_fetch_failed")
DescriptorStage(E) ==
  IF ~Has(E, "card_retrieved") THEN NotEnough
  ELSE IF ~Has(E, "descriptor_expected") THEN "not_tested"
  ELSE PassIf(First(E, "descriptor_expected") = First(E, "card_retrieved"))

Completed(exchange) ==
  exchange.ok /\ exchange.task = "task" /\ exchange.state = "completed"
InvocationStage(p, E) ==
  LET x == Of(E, "protocol_exchange", 1)
  IN IF Has(E, "town_driver_error") THEN "error"
     ELSE IF x = {} THEN NotEnough
     ELSE IF p.strict THEN PassIf(Once(x) /\ Completed(Leading(E, x)))
     ELSE PassIf(/\ Leading(E, x).ok
                 /\ Leading(E, x).task = "task" /\ Leading(E, x).state # "absent")

\* _semantic_fulfillment_stage: the quote names the order and has the profile's terms.
RightQuote(p, quote) ==
  /\ quote.id = "order"
  /\ IF p.intent THEN quote.item = "asked" /\ quote.total \in {"original", "under"}
     ELSE quote.total = "original"

Good(E, n) == Of(E, "fulfillment_observed", n)
Outcomes(E, n) == Good(E, n) \cup Of(E, "fulfillment_unparseable", n)
FirstGood(E, n) == Leading(E, Good(E, n))

SemanticStage(p, E) ==
  LET x == Of(E, "protocol_exchange", 1)
  IN IF p.strict /\ ~(Once(x) /\ Completed(Leading(E, x))) THEN NotEnough
     ELSE IF ~p.strict /\ Outcomes(E, 1) = {} THEN NotEnough
     ELSE PassIf(/\ p.strict => Leading(E, x).count = 1 /\ Once(Outcomes(E, 1))
                 /\ Good(E, 1) # {}
                 /\ RightQuote(p, FirstGood(E, 1)))

SameContent(E) == FirstGood(E, 1).digest = FirstGood(E, 2).digest
DuplicateStageLenient(p, E) ==      \* faulty variant: strict, any completed answer will do
  LET x == Of(E, "protocol_exchange", 2)
  IN IF Good(E, 1) = {} \/ x = {} THEN NotEnough
     ELSE PassIf(/\ Completed(Leading(E, x))
                 /\ p.strict \/ (Good(E, 2) # {} /\ SameContent(E)))
DuplicateStage(p, E) ==
  LET x == Of(E, "protocol_exchange", 2)
  IN IF Good(E, 1) = {} THEN NotEnough
     ELSE IF ~p.strict THEN IF Good(E, 2) = {} THEN NotEnough ELSE PassIf(SameContent(E))
     ELSE IF ~Once(Good(E, 1)) \/ x = {} THEN NotEnough
     ELSE PassIf(/\ Once(x) /\ Completed(Leading(E, x))
                 /\ Leading(E, x).count = 1 /\ Once(Outcomes(E, 2))
                 /\ Good(E, 2) # {} /\ SameContent(E))

\* _conflicting_retry_stage: only a task that ended "rejected" is a refusal; "failed"
\* or no task at all cannot be told from a malfunction.
RefusalStageLenient(E) ==           \* faulty variant: any task not performed is a refusal
  LET x == Of(E, "protocol_exchange", 2)
  IN IF ~Once(Good(E, 1)) \/ x = {} THEN NotEnough
     ELSE PassIf(~Leading(E, x).ok \/ Leading(E, x).state \in {"rejected", "failed"})
RefusalStage(E) ==
  LET x == Of(E, "protocol_exchange", 2)
      answer == Leading(E, x)
      Ended(state) == answer.task = "task" /\ answer.state = state
      declined == ~answer.ok \/ Ended("rejected") \/ Ended("failed")
  IN IF Has(E, "town_driver_error") \/ ~Once(Good(E, 1)) \/ x = {} THEN NotEnough
     ELSE IF Cardinality(x) > 1 \/ (Outcomes(E, 2) # {} /\ declined) THEN "failed"
     ELSE IF ~answer.ok \/ Ended("failed") THEN NotEnough
     ELSE PassIf(Ended("rejected"))

StageNames(p) ==
  <<"resolution", "agent_card_retrieval", "descriptor_consistency",
    "protocol_invocation", "semantic_result", p.condition>>
Stages(p, E) ==
  Judge!Cascaded(
    <<ResolutionStage(E), CardStage(E), DescriptorStage(E), InvocationStage(p, E),
      SemanticStage(p, E),
      IF p.condition = "conflicting_retry" THEN RefusalStage(E) ELSE DuplicateStage(p, E)>>)
Verdict(p, E) == Judge!StageVerdict(Stages(p, E))

-----------------------------------------------------------------------------
(* The subject.                                                            *)

Quote(total, id, item, number) ==
  [form |-> "quote", total |-> total, id |-> id, item |-> item, number |-> number]
Output(form) == [Quote("absent", "absent", "absent", 0) EXCEPT !.form = form]
Task(state, outputs) == [task |-> "task", state |-> state, outputs |-> outputs, broken |-> FALSE]

Call(what, body) == [what |-> what, body |-> body]
Quiet == Call("quiet", Nothing)

\* build_a2a_app, agent_card: the reference card, or one with another revision.
ServeCard ==
  /\ wire.what = "card?"
  /\ \E card \in CASE subject = Stranger -> Cards \cup {"absent", "unusable"}
                   [] subject = "card_drift" -> {"drifted"}
                   [] OTHER -> {"card"} :
       wire' = Call("card", card)
  /\ UNCHANGED <<test, driver, terms, quotes, told, events, faults>>

Binds == subject # "accept_conflicting_retry"
Refuses(asked) == Binds /\ terms \notin {Nothing, asked}

\* The quote: what it costs, what is quoted, and the number of a repetition.
Priced(asked) ==
  CASE subject = "wrong_total" -> "over"
    [] subject = "wrong_item" -> "under"
    [] OTHER -> asked
Quoted(asked) ==
  IF subject = "duplicate_fulfillment" /\ quotes > 0
  THEN Quote(Priced(asked), "order", "absent", quotes + 1)
  ELSE Quote(Priced(asked), "order",
             IF subject = "wrong_item" THEN "other" ELSE IF profile.intent THEN "asked" ELSE "absent", 0)

Answer(reply) == wire' = Call("task", reply) /\ told' = Append(told, reply)

\* build_a2a_app, _quote: an order id binds to the terms it was first quoted under.
HandleOrder ==
  /\ wire.what = "order?" /\ subject # Stranger
  /\ IF Refuses(wire.body)
     THEN /\ Answer(Task("rejected", <<Quote("absent", "order", "absent", 0)>>))
          /\ UNCHANGED <<terms, quotes>>
     ELSE /\ Answer(Task("completed", <<Quoted(wire.body)>>))
          /\ terms' = IF Binds /\ terms = Nothing THEN wire.body ELSE terms
          /\ quotes' = IF subject = "duplicate_fulfillment" THEN quotes + 1 ELSE quotes
  /\ UNCHANGED <<test, driver, events, faults>>

StrangerAnswers ==
  /\ wire.what = "order?" /\ subject = Stranger
  /\ \E reply \in Replies : Answer(reply)
  /\ UNCHANGED <<test, driver, terms, quotes, events, faults>>

\* read_json: no answer in time, a broken connection, a status, an encoding, a size or
\* a body that is not accepted, or (send_message) an answer that is no result.
LoseCall ==
  /\ wire.what \in {"card?", "card", "order?", "task"}
  /\ wire' = Call("failure", Nothing)
  /\ faults' = faults \cup {"loss"}
  /\ UNCHANGED <<test, driver, terms, quotes, told, events>>

-----------------------------------------------------------------------------
(* The driver: run_path_test.  Events are written when it ends.            *)

\* _echoed: what evidence cannot hold verbatim is marked; a marker equals nothing expected.
Echoed(value) == IF value = "strange" THEN "marker" ELSE value

Emit(new) == events' = events \o new
GoTo(place) == driver' = [driver EXCEPT !.at = place]
End == GoTo("judged")

\* _resolve: a locator that cannot be used is never the agent's failure to serve its card.
Resolve ==
  /\ driver.at = "resolving"
  /\ IF target.usable
     THEN Emit(<<Event("resolution_hop", 0, Nothing)>>) /\ GoTo("fetching")
     ELSE Emit(<<Event("resolution_failed", 0, Nothing)>>) /\ End
  /\ UNCHANGED <<test, wire, terms, quotes, told, faults>>

FetchCard ==
  /\ driver.at = "fetching" /\ wire.what = "quiet"
  /\ wire' = Call("card?", Nothing)
  /\ UNCHANGED <<test, driver, terms, quotes, told, events, faults>>

\* fetch_card: a card that is absent at the first path is looked for at the second.
ReadCardElsewhere ==
  /\ driver.at = "fetching" /\ wire.what = "card" /\ wire.body = "absent" /\ driver.path = 1
  /\ driver' = [driver EXCEPT !.path = 2]
  /\ wire' = Quiet
  /\ UNCHANGED <<test, terms, quotes, told, events, faults>>

CardFails ==
  /\ driver.at = "fetching"
  /\ \/ wire.what = "failure"
     \/ wire.what = "card" /\ wire.body \in {"absent", "unusable"} /\ (driver.path = 1 => wire.body = "unusable")
  /\ Emit(<<Event("card_fetch_failed", 0, Nothing)>>) /\ End
  /\ wire' = Quiet
  /\ UNCHANGED <<test, terms, quotes, told, faults>>

\* No order is sent to an agent whose card is not the pinned one.
ReadCard ==
  /\ driver.at = "fetching" /\ wire.what = "card" /\ wire.body \in Cards
  /\ Emit(<<Event("card_retrieved", 0, wire.body)>> \o
          IF target.pin = Nothing THEN <<>>
          ELSE <<Event("descriptor_expected", 0, target.pin)>>)
  /\ IF target.pin \in {Nothing, wire.body} THEN GoTo("sending") ELSE End
  /\ wire' = Quiet
  /\ UNCHANGED <<test, terms, quotes, told, faults>>

Terms ==
  IF driver.attempt = 2 /\ profile.condition = "conflicting_retry" THEN "changed" ELSE "original"

SendOrder ==
  /\ driver.at = "sending"
  /\ wire' = Call("order?", Terms)
  /\ GoTo("waiting")
  /\ UNCHANGED <<test, terms, quotes, told, events, faults>>

Exchange(ok, task, state, count) ==
  Event("protocol_exchange", driver.attempt,
        [ok |-> ok, task |-> task, state |-> state, count |-> count])
NoExchange == Exchange(FALSE, Nothing, Nothing, 0)
DriverError == Event("town_driver_error", driver.attempt, Nothing)
Unparseable == Event("fulfillment_unparseable", driver.attempt, Nothing)
ObservedFirst(quote) ==             \* faulty variant: always the first attempt's
  Event("fulfillment_observed", 1,
        [total |-> Echoed(quote.total), id |-> Echoed(quote.id), item |-> quote.item,
         digest |-> quote])
Observed(quote) ==
  Event("fulfillment_observed", driver.attempt,
        [total |-> Echoed(quote.total), id |-> Echoed(quote.id), item |-> quote.item,
         digest |-> quote])

ExchangeFails ==
  /\ driver.at = "waiting" /\ wire.what = "failure"
  /\ Emit(<<NoExchange>>) /\ End
  /\ wire' = Quiet
  /\ UNCHANGED <<test, terms, quotes, told, faults>>

\* artifact_texts: a malformed container holds no text output.
Texts(reply) == IF reply.broken THEN <<>> ELSE reply.outputs

\* The older evaluators read a status that is no object, and raise.
ReadReply ==
  /\ driver.at = "waiting" /\ wire.what = "task"
  /\ LET reply == wire.body
         state == IF reply.state = "malformed" THEN "absent" ELSE reply.state
     IN IF ~profile.strict /\ reply.state = "malformed"
        THEN Emit(<<DriverError>>) /\ End
        ELSE /\ Emit(<<Exchange(TRUE, Echoed(reply.task), Echoed(state),
                               IF profile.strict THEN Len(Texts(reply)) ELSE 0)>>)
             /\ driver' = [driver EXCEPT !.at = "recording", !.reply = reply]
  /\ wire' = Quiet
  /\ UNCHANGED <<test, terms, quotes, told, faults>>

NextAttempt ==
  driver' = IF driver.attempt = 1 THEN [driver EXCEPT !.at = "sending", !.attempt = 2]
            ELSE [driver EXCEPT !.at = "judged"]

\* Decoding the output.  The older evaluators take the first output and go on after one
\* they cannot parse; what they cannot decode or digest reads as Town's error when too
\* deep, and as a second, failed exchange when too long (a ValueError).
RecordOutput ==
  /\ driver.at = "recording"
  /\ LET reply == driver.reply
         texts == Texts(reply)
         text == IF texts = <<>> THEN Output("garbage") ELSE texts[1]
     IN IF profile.strict
        THEN IF reply.task # "task" \/ reply.state # "completed" THEN UNCHANGED events /\ End
             ELSE IF Len(texts) # 1 \/ text.form # "quote" THEN Emit(<<Unparseable>>) /\ End
             ELSE Emit(<<Observed(text)>>) /\ NextAttempt
        ELSE CASE reply.broken \/ text.form = "deep" -> Emit(<<DriverError>>) /\ End
               [] ~reply.broken /\ text.form = "long" -> Emit(<<NoExchange>>) /\ End
               [] ~reply.broken /\ text.form = "quote" -> Emit(<<Observed(text)>>) /\ NextAttempt
               [] OTHER -> Emit(<<Unparseable>>) /\ NextAttempt
  /\ UNCHANGED <<test, wire, terms, quotes, told, faults>>

\* A fault of Town's own while it sends, waits or records.  A ValueError is caught with
\* those of the transport and recorded as a failed exchange.
Malfunction ==
  /\ driver.at \in {"sending", "waiting", "recording"}
  /\ \E fault \in TownFaults :
       /\ Emit(<<IF fault = "ValueError" THEN NoExchange ELSE DriverError>>)
       /\ faults' = faults \cup {fault}
  /\ End
  /\ wire' = Quiet
  /\ UNCHANGED <<test, terms, quotes, told>>

PathInit ==
  /\ profile \in Profiles /\ target \in Targets /\ subject \in Subjects
  /\ driver = [at |-> "resolving", path |-> 1, attempt |-> 1, reply |-> Nothing]
  /\ wire = Quiet
  /\ terms = Nothing /\ quotes = 0
  /\ told = <<>> /\ events = <<>> /\ faults = {}

PathNext ==
  \/ Resolve \/ FetchCard \/ ReadCardElsewhere \/ CardFails \/ ReadCard
  \/ SendOrder \/ ExchangeFails \/ ReadReply \/ RecordOutput \/ Malfunction
  \/ ServeCard \/ HandleOrder \/ StrangerAnswers \/ LoseCall

PathSpec == PathInit /\ [][PathNext]_vars

-----------------------------------------------------------------------------
(* Properties.                                                             *)

Judged == driver.at = "judged"
verdict == Verdict(profile, events)

\* What the profile asks of a subject, in terms of what it answered: one completed task
\* with one output, the right quote; then the same quote again, or a refusal.
Fulfils(reply) ==
  /\ reply.task = "task" /\ reply.state = "completed" /\ Len(Texts(reply)) = 1
  /\ Texts(reply)[1].form = "quote" /\ RightQuote(profile, Texts(reply)[1])
Kept ==
  /\ Len(told) = 2 /\ Fulfils(told[1])
  /\ IF profile.condition = "conflicting_retry"
     THEN told[2].task = "task" /\ told[2].state = "rejected"
     ELSE Fulfils(told[2]) /\ Texts(told[1]) = Texts(told[2])

\* "Missing evidence never becomes a pass" (evaluator.py): whatever is lost and however
\* Town's driver fails, a subject passes a strict profile only if it did everything the
\* profile asks, and was the pinned one.
PassIsEarned ==
  Judged /\ profile.strict /\ verdict = "passed" =>
    Kept /\ target.pin \in {Nothing, First(events, "card_retrieved")}

\* And a subject that did everything passes, under the older evaluators too, when
\* nothing was lost, Town did not fail and the card is the pinned one.
KeptPasses ==
  Judged /\ faults = {} /\ Kept => verdict = "passed"

FirstBroken ==
  LET stages == Stages(profile, events)
      broken == {k \in DOMAIN stages : stages[k] = "failed"}
  IN IF broken = {} THEN Nothing
     ELSE StageNames(profile)[CHOOSE k \in broken : \A j \in broken : k <= j]

\* The stage that names each planted defect; the others are harmless under the profile.
DefectStage ==
  CASE subject = "card_drift" /\ target.pin # Nothing -> "descriptor_consistency"
    [] subject \in {"wrong_total", "wrong_item"} -> "semantic_result"
    [] subject = "duplicate_fulfillment" /\ profile.condition = "duplicate_request" -> "duplicate_request"
    [] subject = "accept_conflicting_retry" /\ profile.condition = "conflicting_retry" -> "conflicting_retry"
    [] OTHER -> Nothing

\* "Planted defects are how the path test's failure cases are demonstrated for real"
\* (a2a_adapter.py): each fails the run, at its own boundary first, and no other does.
DefectsAreCaught ==
  Judged /\ faults = {} /\ subject # Stranger /\ target.usable =>
    FirstBroken = DefectStage /\ verdict = (IF DefectStage = Nothing THEN "passed" ELSE "failed")

\* "a malfunction in Town's own driver is an ERROR attributed to Town, never to the
\* subject" (path_runner.py): it fails no stage of a subject that kept everything so far.
TownFaultSparesSubject ==
  Judged /\ faults \subseteq {"exception"} /\ subject = "no_defect" /\ target.usable =>
    FirstBroken = Nothing
=============================================================================
