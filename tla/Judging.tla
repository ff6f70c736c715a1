------------------------------ MODULE Judging ------------------------------
(***************************************************************************)
(* The evaluator on a growing record.  A run of the stock participants is  *)
(* cut short anywhere, and what any participant (an outside agent, a model *)
(* loop) may still cause the town to record is appended.                   *)
(***************************************************************************)
EXTENDS Evaluator, TLC

CONSTANTS MaxExtra,    \* bound: events appended to the stock run
          Faults       \* the profile's fault

ASSUME JudgingAssumption == MaxExtra \in Nat

VARIABLES record, fault, extra

judging == <<record, fault, extra>>

Accept(id, from, to, content, names) ==
  [Event("message_accepted", id) EXCEPT !.who = from, !.to = to, !.content = content, !.names = names]
Claimed(id, by) == [Event("message_claimed", id) EXCEPT !.who = by, !.attempt = 1, !.fence = 1]
Acked(id, by, status, note) ==
  [Event("ack_recorded", id) EXCEPT !.who = by, !.status = status, !.note = note, !.fence = 1]

\* The record of a prompt, faultless run.
StockRun ==
  <<Accept("q-1", "buyer", "seller", "quote_request", Nothing),
    Claimed("q-1", "seller"),
    Accept("r-1", "seller", "buyer", "quote_response", "q-1"),
    Acked("q-1", "seller", "processed", {"applied"}),
    Claimed("r-1", "buyer"),
    Acked("r-1", "buyer", "processed", {"right"})>>

\* What may be recorded about the exchange: second requests and responses under
\* their own identities, other deliveries, and other acknowledgements.
Requested == {Accept(id, "buyer", to, "quote_request", Nothing) :
                id \in {"q-1", "q-2"}, to \in {"seller", "buyer"}}
Responded == {Accept(id, "seller", "buyer", "quote_response", names) :
                id \in {"r-1", "r-2"}, names \in {"q-1", "q-2", Nothing}}
Delivered == {Claimed("q-2", "seller"), Claimed("r-1", "buyer"), Claimed("r-2", "buyer")}
SellerSays == {Acked(id, "seller", "processed", note) :
                 id \in {"q-1", "q-2"}, note \in {{"applied"}, {"applied?"}, {"duplicate"}}}
BuyerSays == {Acked(id, "buyer", status, note) : id \in {"r-1", "r-2"},
                status \in {"processed", "rejected", "retryable"},
                note \in {{"right"}, {"wrong"}, {"correct?"}, {}}}

\* An identity is accepted once.
Recordable(e) ==
  e.kind = "message_accepted" =>
    \A n \in DOMAIN record : record[n].kind = e.kind => record[n].subject # e.subject

JudgingInit ==
  /\ \E n \in 0..Len(StockRun) : record = SubSeq(StockRun, 1, n)
  /\ fault \in Faults
  /\ extra = 0

RecordOne ==
  /\ extra < MaxExtra
  /\ \E e \in Requested \cup Responded \cup Delivered \cup SellerSays \cup BuyerSays :
       Recordable(e) /\ record' = Append(record, e)
  /\ extra' = extra + 1
  /\ UNCHANGED fault

JudgingSpec == JudgingInit /\ [][RecordOne]_judging

\* Nothing that is recorded later erases a failure: a failed run can become
\* inconclusive (the buyer contradicts itself), never passed.
FailureNotErased ==
  [][Verdict(record, fault) = "failed" => Verdict(record', fault) # "passed"]_judging

Swapped(n, m) == [record EXCEPT ![n] = record[m], ![m] = record[n]]
BuyerAssertions == {n \in DOMAIN record : record[n] \in BuyerSays}

\* "Order must not decide" (evaluator.py): the buyer's assertions, in whichever
\* order they were recorded, never make the difference between pass and fail.
OrderDoesNotDecide ==
  Verdict(record, fault) = "passed" =>
    \A n, m \in BuyerAssertions : Verdict(Swapped(n, m), fault) # "failed"

\* A pass is awarded to one exchange only (a second request is never answered by
\* the one response), and its buyer settled the response asserting it right and
\* nowhere settled it asserting it wrong, whatever it said provisionally.
PassIsComplete ==
  Verdict(record, fault) = "passed" =>
    /\ Cardinality(Responses(record)) = 1 /\ Cardinality(Requests(record)) = 1
    /\ \A r \in Responses(record), n \in BuyerAssertions :
         record[n].subject = record[r].subject /\ record[n].status # "retryable" =>
           "wrong" \notin record[n].note
    /\ \E n \in BuyerAssertions : "right" \in record[n].note /\ record[n].status # "retryable"
=============================================================================
