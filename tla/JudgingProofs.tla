--------------------------- MODULE JudgingProofs ---------------------------
(* The verdict on a growing record, for records of any length.             *)
EXTENDS Judging, EvaluatorProofs

Recorded == Requested \cup Responded \cup Delivered \cup SellerSays \cup BuyerSays
           \cup {Claimed("q-1", "seller")}

\* What is recorded is one of the events of the exchange, and an identity is
\* accepted once.
RecordInv ==
  /\ record \in Seq(Recorded)
  /\ \A n, m \in DOMAIN record :
       /\ record[n].kind = "message_accepted" /\ record[m].kind = "message_accepted"
       /\ record[n].subject = record[m].subject
       => n = m

\* The fields of the events of the exchange.
LEMMA EventFields ==
  /\ \A id, from, to, content, names :
       /\ Accept(id, from, to, content, names).kind = "message_accepted"
       /\ Accept(id, from, to, content, names).subject = id
  /\ \A id, by : Claimed(id, by).kind = "message_claimed" /\ Claimed(id, by).subject = id
  /\ \A id, by, status, note :
       /\ Acked(id, by, status, note).kind = "ack_recorded"
       /\ Acked(id, by, status, note).subject = id /\ Acked(id, by, status, note).who = by
BY DEF Accept, Claimed, Acked, Event

\* An event's kind tells what it is.
LEMMA KindsOfEvents ==
  ASSUME NEW e \in Recorded
  PROVE  /\ e.kind = "ack_recorded" => e.subject # Nothing
         /\ e.kind = "ack_recorded" /\ e.who = "buyer" => e \in BuyerSays
         /\ e \in BuyerSays => e.kind = "ack_recorded" /\ e.who = "buyer"
<1>1. \A x \in Requested \cup Responded : x.kind = "message_accepted"
  BY EventFields DEF Requested, Responded
<1>2. \A x \in Delivered \cup {Claimed("q-1", "seller")} : x.kind = "message_claimed"
  BY EventFields DEF Delivered
<1>3. \A x \in SellerSays : x.kind = "ack_recorded" /\ x.who = "seller" /\ x.subject \in {"q-1", "q-2"}
  BY EventFields DEF SellerSays
<1>4. \A x \in BuyerSays : x.kind = "ack_recorded" /\ x.who = "buyer" /\ x.subject \in {"r-1", "r-2"}
  BY EventFields DEF BuyerSays
<1> QED BY <1>1, <1>2, <1>3, <1>4 DEF Recorded, Nothing

\* The record starts as a piece of the stock run and grows by what is recordable.
THEOREM RecordIsSound == JudgingSpec => []RecordInv
<1>1. JudgingInit => RecordInv
  <2> SUFFICES ASSUME JudgingInit PROVE RecordInv
    OBVIOUS
  <2>1. PICK k \in 0..Len(StockRun) : record = SubSeq(StockRun, 1, k)
    BY DEF JudgingInit
  <2> DEFINE a == Accept("q-1", "buyer", "seller", "quote_request", Nothing)
             b == Claimed("q-1", "seller")
             c == Accept("r-1", "seller", "buyer", "quote_response", "q-1")
             d == Acked("q-1", "seller", "processed", {"applied"})
             e == Claimed("r-1", "buyer")
             f == Acked("r-1", "buyer", "processed", {"right"})
  <2>2. StockRun = <<a, b, c, d, e, f>>
    BY DEF StockRun
  <2>3. {a, b, c, d, e, f} \subseteq Recorded
    <3>1. a \in Requested
      BY DEF Requested
    <3>2. c \in Responded
      BY DEF Responded
    <3>3. d \in SellerSays
      BY DEF SellerSays
    <3>4. e \in Delivered
      BY DEF Delivered
    <3>5. f \in BuyerSays
      BY DEF BuyerSays
    <3>6. b \in Recorded
      BY DEF Recorded
    <3> HIDE DEF a, b, c, d, e, f
    <3> QED BY <3>1, <3>2, <3>3, <3>4, <3>5, <3>6 DEF Recorded
  <2>4. /\ a.kind = "message_accepted" /\ a.subject = "q-1" /\ b.kind = "message_claimed"
        /\ c.kind = "message_accepted" /\ c.subject = "r-1" /\ d.kind = "ack_recorded"
        /\ e.kind = "message_claimed" /\ f.kind = "ack_recorded"
    BY EventFields
  <2> HIDE DEF a, b, c, d, e, f
  <2>5. /\ StockRun \in Seq(Recorded) /\ Len(StockRun) = 6
        /\ StockRun[1] = a /\ StockRun[2] = b /\ StockRun[3] = c
        /\ StockRun[4] = d /\ StockRun[5] = e /\ StockRun[6] = f
    BY <2>2, <2>3
  <2>6. k \in 0..6
    BY <2>5
  <2>7. record \in Seq(Recorded) /\ Len(record) = k /\ \A n \in 1..k : record[n] = StockRun[n]
    BY <2>1, <2>5, <2>6
  <2>8. \A n \in DOMAIN record : n \in 1..6 /\ record[n] = StockRun[n]
    BY <2>6, <2>7
  <2>9. \A n \in DOMAIN record : record[n].kind = "message_accepted" =>
          (n = 1 /\ record[n].subject = "q-1") \/ (n = 3 /\ record[n].subject = "r-1")
    BY <2>4, <2>5, <2>8
  <2> QED BY <2>7, <2>9 DEF RecordInv
<1>2. RecordInv /\ [RecordOne]_judging => RecordInv'
  <2> SUFFICES ASSUME RecordInv, [RecordOne]_judging PROVE RecordInv'
    OBVIOUS
  <2>1. CASE UNCHANGED judging
    BY <2>1 DEF RecordInv, judging
  <2>2. CASE RecordOne
    <3>1. PICK x \in Recorded : Recordable(x) /\ record' = Append(record, x)
      BY <2>2 DEF RecordOne, Recorded
    <3>2. record' \in Seq(Recorded) /\ DOMAIN record = 1..Len(record) /\ Len(record) \in Nat
          /\ DOMAIN record' = 1..Len(record) + 1 /\ record'[Len(record) + 1] = x
          /\ \A n \in DOMAIN record : record'[n] = record[n]
      BY <3>1 DEF RecordInv
    <3>3. \A n \in DOMAIN record' : n \in DOMAIN record \/ n = Len(record) + 1
      BY <3>2
    <3>4. x.kind = "message_accepted" =>
            \A n \in DOMAIN record : record[n].kind = x.kind => record[n].subject # x.subject
      BY <3>1 DEF Recordable
    <3> QED BY <3>2, <3>3, <3>4 DEF RecordInv
  <2> QED BY <2>1, <2>2
<1> QED BY <1>1, <1>2, PTL DEF JudgingSpec

\* Nothing recorded later erases a failure: a run that failed is never passed.
THEOREM FailureIsNotErased == JudgingSpec => FailureNotErased
<1>1. RecordInv /\ [RecordOne]_judging =>
        [Verdict(record, fault) = "failed" => Verdict(record', fault) # "passed"]_judging
  <2> SUFFICES ASSUME RecordInv, RecordOne, Verdict(record, fault) = "failed",
                      Verdict(record', fault) = "passed"
               PROVE  FALSE
    OBVIOUS
  <2>1. PICK x \in Recorded : record' = Append(record, x)
    BY DEF RecordOne, Recorded
  <2>2. record' \in Seq(Recorded) /\ DOMAIN record = 1..Len(record) /\ Len(record) \in Nat
        /\ DOMAIN record' = 1..Len(record) + 1
        /\ \A n \in DOMAIN record : record'[n] = record[n]
    BY <2>1 DEF RecordInv
  <2>3. IsSequence(record) /\ IsSequence(record')
    BY <2>2 DEF RecordInv, IsSequence
  <2>4. Extends(record, record')
    BY <2>2, <2>3 DEF Extends
  <2>5. \A n \in DOMAIN record : record[n].kind = "ack_recorded" => record[n].subject # Nothing
    <3>1. \A n \in DOMAIN record : record[n] \in Recorded
      BY DEF RecordInv
    <3> QED BY <3>1, KindsOfEvents
  <2>6. Failing(record)
    BY <2>3, FailMeans
  <2>7. Complete(record')
    BY <2>3, PassMeans
  <2> QED BY <2>4, <2>5, <2>6, <2>7, FailureStays
<1> QED BY <1>1, RecordIsSound, PTL DEF JudgingSpec, FailureNotErased

\* A pass is awarded to one request and its one response, which the buyer settled
\* asserting it right and nowhere settled asserting it wrong.
THEOREM PassIsForOneExchange == JudgingSpec => []PassIsComplete
<1>1. RecordInv => PassIsComplete
  <2> SUFFICES ASSUME RecordInv, Verdict(record, fault) = "passed"
               PROVE  /\ Cardinality(Responses(record)) = 1 /\ Cardinality(Requests(record)) = 1
                      /\ \A r \in Responses(record), n \in BuyerAssertions :
                           record[n].subject = record[r].subject /\ record[n].status # "retryable" =>
                             "wrong" \notin record[n].note
                      /\ \E n \in BuyerAssertions :
                           "right" \in record[n].note /\ record[n].status # "retryable"
    BY DEF PassIsComplete
  <2>1. IsSequence(record) /\ \A n \in DOMAIN record : record[n] \in Recorded
    BY DEF RecordInv, IsSequence
  <2>2. Complete(record)
    BY <2>1, PassMeans
  <2>3. PICK r \in Responses(record) : TRUE
    BY <2>1, <2>2, Several, Positions DEF Complete
  <2>4. \A s \in Responses(record) : s = r
    BY <2>1, <2>2, <2>3, Several, Positions DEF Complete
  <2>5. Cardinality(Requests(record)) = 1
    <3>1. SUFFICES ASSUME Cardinality(Requests(record)) > 1 PROVE FALSE
      BY <2>1, <2>2, Several, Positions DEF Complete
    <3>2. PICK n \in Requests(record), m \in Requests(record) : n # m
      BY <2>1, <3>1, Several, Positions
    <3>3. \A k \in Requests(record) : record[r].names = record[k].subject
      BY <2>2, <2>4, <3>1 DEF Complete, Answered
    <3>4. record[n].kind = "message_accepted" /\ record[m].kind = "message_accepted"
          /\ n \in DOMAIN record /\ m \in DOMAIN record
      BY <3>2, Looking DEF Requests
    <3> QED BY <3>2, <3>3, <3>4 DEF RecordInv
  <2>6. ResponseId(record) = record[r].subject /\ Responses(record) # {}
        /\ ResponseMismatch(record) = Nothing
    <3>1. Earliest(Responses(record)) = r
      BY <2>1, <2>3, <2>4, EarliestOf, Positions
    <3> QED BY <2>2, <2>3, <3>1 DEF ResponseId, FirstSubject, Complete
  <2>7. BuyerAcks(record) = {n \in DOMAIN record : record[n].kind = "ack_recorded"
                               /\ record[n].who = "buyer" /\ record[n].subject = record[r].subject}
    BY <2>6, Looking DEF BuyerAcks
  <2>8. \A n \in DOMAIN record :
          n \in BuyerAssertions <=> record[n].kind = "ack_recorded" /\ record[n].who = "buyer"
    BY <2>1, KindsOfEvents DEF BuyerAssertions
  <2>9. ASSUME NEW n \in BuyerAssertions, record[n].subject = record[r].subject,
               record[n].status # "retryable", "wrong" \in record[n].note
        PROVE  FALSE
    <3>1. n \in Asserting(record, Verdicts(record), "wrong")
      BY <2>7, <2>8, <2>9 DEF Verdicts, Asserting, BuyerAssertions
    <3> QED BY <2>2, <3>1 DEF Complete
  <2>10. PICK n \in Verdicts(record) : "right" \in record[n].note
    BY <2>2 DEF Complete, Asserting
  <2>11. n \in BuyerAssertions /\ record[n].status # "retryable"
    BY <2>7, <2>8, <2>10 DEF Verdicts
  <2> QED BY <2>2, <2>4, <2>5, <2>9, <2>10, <2>11 DEF Complete
<1> QED BY <1>1, RecordIsSound, PTL

\* Swapping two of the buyer's assertions never turns a pass into a failure.
THEOREM OrderNeverDecides == JudgingSpec => []OrderDoesNotDecide
<1>1. RecordInv => OrderDoesNotDecide
  <2> SUFFICES ASSUME RecordInv, Verdict(record, fault) = "passed",
                      NEW n \in BuyerAssertions, NEW m \in BuyerAssertions,
                      Verdict(Swapped(n, m), fault) = "failed"
               PROVE  FALSE
    BY DEF OrderDoesNotDecide
  <2> DEFINE E == record
             F == Swapped(n, m)
  <2>1. IsSequence(E) /\ \A k \in DOMAIN E : E[k] \in Recorded
    BY DEF RecordInv, IsSequence
  <2>2. Complete(E)
    BY <2>1, PassMeans
  <2>3. /\ n \in DOMAIN E /\ m \in DOMAIN E
        /\ E[n].kind = "ack_recorded" /\ E[n].who = "buyer"
        /\ E[m].kind = "ack_recorded" /\ E[m].who = "buyer"
    BY <2>1, KindsOfEvents DEF BuyerAssertions
  <2>4. F = [k \in DOMAIN E |-> IF k = m THEN E[n] ELSE IF k = n THEN E[m] ELSE E[k]]
    BY <2>3 DEF Swapped
  <2>5. /\ DOMAIN F = DOMAIN E /\ \A k \in DOMAIN E : k \in {n, m} \/ F[k] = E[k]
        /\ \A k \in {n, m} : \E j \in {n, m} : F[k] = E[j]
    BY <2>3, <2>4
  <2>6. IsSequence(F)
    <3>1. F \in Seq(Recorded)
      BY <2>1, <2>3, <2>4 DEF RecordInv
    <3> QED BY <3>1 DEF IsSequence
  <2>7. Failing(F)
    BY <2>6, FailMeans
  <2> HIDE DEF E, F
  <2>8. \A k \in {n, m} : /\ E[k].kind = "ack_recorded" /\ E[k].who = "buyer"
                          /\ F[k].kind = "ack_recorded" /\ F[k].who = "buyer"
    BY <2>3, <2>5
  <2>9. Requests(F) = Requests(E) /\ Responses(F) = Responses(E)
        /\ \A k \in Requests(E) \cup Responses(E) : F[k] = E[k]
    <3>1. ASSUME NEW content
          PROVE  Accepted(F, content) = Accepted(E, content) /\ \A k \in Accepted(E, content) : F[k] = E[k]
      <4>1. Accepted(E, content) =
              {k \in DOMAIN E : E[k].kind = "message_accepted" /\ E[k].content = content}
        BY Looking
      <4>2. Accepted(F, content) =
              {k \in DOMAIN F : F[k].kind = "message_accepted" /\ F[k].content = content}
        BY Looking
      <4>3. \A k \in DOMAIN E : F[k] = E[k]
                \/ (E[k].kind # "message_accepted" /\ F[k].kind # "message_accepted")
        BY <2>5, <2>8
      <4> QED BY <2>5, <4>1, <4>2, <4>3
    <3> QED BY <3>1 DEF Requests, Responses
  <2>10. /\ RequestId(F) = RequestId(E) /\ ResponseId(F) = ResponseId(E)
         /\ Requests(E) # {} /\ Responses(E) # {}
         /\ F[Earliest(Requests(E))] = E[Earliest(Requests(E))]
         /\ F[Earliest(Responses(E))] = E[Earliest(Responses(E))]
    <3>1. Requests(E) # {} /\ Responses(E) # {}
      BY <2>1, <2>2, Several, Positions DEF Complete, E
    <3>2. Earliest(Requests(E)) \in Requests(E) /\ Earliest(Responses(E)) \in Responses(E)
      BY <2>1, <3>1, EarliestOf, Positions DEF E
    <3> QED BY <2>9, <3>1, <3>2 DEF RequestId, ResponseId, FirstSubject
  <2>11. ResponseMismatch(F) = Nothing
    <3>1. ResponseMismatch(E) = Nothing
      BY <2>2 DEF Complete
    <3> QED BY <2>9, <2>10, <3>1, Zenon DEF ResponseMismatch, Mismatch
  <2>12. Applied(F) = Applied(E)
    <3>1. ASSUME NEW id
          PROVE  /\ AcksBy(F, "seller", id) = AcksBy(E, "seller", id)
                 /\ \A k \in AcksBy(E, "seller", id) : F[k] = E[k]
      <4>1. AcksBy(E, "seller", id) =
              {k \in DOMAIN E : E[k].kind = "ack_recorded" /\ E[k].who = "seller" /\ E[k].subject = id}
        BY Looking
      <4>2. AcksBy(F, "seller", id) =
              {k \in DOMAIN F : F[k].kind = "ack_recorded" /\ F[k].who = "seller" /\ F[k].subject = id}
        BY Looking
      <4>3. \A k \in DOMAIN E : F[k] = E[k] \/ (E[k].who # "seller" /\ F[k].who # "seller")
        BY <2>5, <2>8
      <4> QED BY <2>5, <4>1, <4>2, <4>3
    <3> QED BY <2>10, <3>1 DEF Applied, Processed, SellerAcks, Asserting, WithStatus
  <2>13. Asserting(F, Verdicts(F), "wrong") # {}
    BY <2>2, <2>7, <2>9, <2>11, <2>12 DEF Complete, Failing, Nothing
  <2>14. PICK k \in Verdicts(F) : "wrong" \in F[k].note
    BY <2>13 DEF Asserting
  <2>15. PICK j \in DOMAIN E : F[k] = E[j]
    <3>1. k \in DOMAIN E
      BY <2>5, <2>14, Positions
    <3> QED BY <2>3, <2>5, <3>1 DEF E
  <2>16. k \in AcksBy(F, "buyer", ResponseId(F))
    BY <2>11, <2>14 DEF Verdicts, BuyerAcks
  <2>17. j \in AcksBy(E, "buyer", ResponseId(E))
    BY <2>10, <2>15, <2>16, Looking
  <2>18. j \in BuyerAcks(E)
    BY <2>2, <2>10, <2>17 DEF BuyerAcks, Complete
  <2>19. j \in Asserting(E, Verdicts(E), "wrong")
    BY <2>14, <2>15, <2>18 DEF Verdicts, Asserting
  <2> QED BY <2>2, <2>19 DEF Complete
<1> QED BY <1>1, RecordIsSound, PTL
=============================================================================
