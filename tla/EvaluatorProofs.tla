--------------------------- MODULE EvaluatorProofs ---------------------------
(* What a verdict of the stage evaluator says about the record it judges.  *)
EXTENDS Evaluator, FiniteSetTheorems, WellFoundedInduction, TLAPS

IsSequence(E) == \E S : E \in Seq(S)

-----------------------------------------------------------------------------
(* Sequences and positions.                                                *)

\* A sequence has positions from 1 to its length, finitely many.
LEMMA Lengths ==
  ASSUME NEW E, IsSequence(E)
  PROVE  /\ Len(E) \in Nat /\ DOMAIN E = 1..Len(E)
         /\ \A S \in SUBSET DOMAIN E : IsFiniteSet(S) /\ Cardinality(S) \in Nat
<1>1. PICK S : E \in Seq(S)
  BY DEF IsSequence
<1>2. Len(E) \in Nat /\ DOMAIN E = 1..Len(E)
  BY <1>1
<1>3. IsFiniteSet(1..Len(E))
  BY <1>2, FS_Interval
<1>4. \A T \in SUBSET DOMAIN E : IsFiniteSet(T)
  BY <1>2, <1>3, FS_Subset
<1> QED
  BY <1>2, <1>4, FS_CardinalityType

\* What is left of a sequence when another is added at its end.
LEMMA Appending ==
  ASSUME NEW E, IsSequence(E), NEW D, IsSequence(D)
  PROVE  /\ IsSequence(E \o D)
         /\ DOMAIN (E \o D) = 1..Len(E) + Len(D)
         /\ \A n \in DOMAIN E : n \in DOMAIN (E \o D) /\ (E \o D)[n] = E[n]
         /\ \A k \in DOMAIN D : Len(E) + k \in DOMAIN (E \o D) /\ (E \o D)[Len(E) + k] = D[k]
         /\ \A n \in DOMAIN (E \o D) :
              n \in DOMAIN E \/ (n > Len(E) /\ n - Len(E) \in DOMAIN D /\ (E \o D)[n] = D[n - Len(E)])
<1>1. PICK S : E \in Seq(S)
  BY DEF IsSequence
<1>2. PICK T : D \in Seq(T)
  BY DEF IsSequence
<1> DEFINE U == S \cup T
<1>3. E \in Seq(U) /\ D \in Seq(U)
  BY <1>1, <1>2
<1> HIDE DEF U
<1>4. E \o D \in Seq(U) /\ Len(E \o D) = Len(E) + Len(D) /\ Len(E) \in Nat /\ Len(D) \in Nat
      /\ DOMAIN E = 1..Len(E) /\ DOMAIN D = 1..Len(D) /\ DOMAIN (E \o D) = 1..Len(E \o D)
  BY <1>3
<1>5. \A n \in 1..Len(E) + Len(D) : (E \o D)[n] = IF n <= Len(E) THEN E[n] ELSE D[n - Len(E)]
  BY <1>3, <1>4
<1>6. IsSequence(E \o D)
  BY <1>4 DEF IsSequence
<1>7. \A k \in DOMAIN D : Len(E) + k \in DOMAIN (E \o D) /\ (E \o D)[Len(E) + k] = D[k]
  BY <1>4, <1>5
<1>8. \A n \in DOMAIN E : n \in DOMAIN (E \o D) /\ (E \o D)[n] = E[n]
  BY <1>4, <1>5
<1>9. \A n \in DOMAIN (E \o D) :
        n \in DOMAIN E \/ (n > Len(E) /\ n - Len(E) \in DOMAIN D /\ (E \o D)[n] = D[n - Len(E)])
  BY <1>4, <1>5
<1> QED BY <1>4, <1>6, <1>7, <1>8, <1>9

\* More than one position, or at most one.
LEMMA Several ==
  ASSUME NEW E, IsSequence(E), NEW S \in SUBSET DOMAIN E
  PROVE  /\ Cardinality(S) > 1 <=> \E n, m \in S : n # m
         /\ Cardinality(S) = 1 <=> S # {} /\ ~(Cardinality(S) > 1)
<1>1. IsFiniteSet(S) /\ Cardinality(S) \in Nat
  BY Lengths
<1>2. Cardinality(S) = 0 <=> S = {}
  BY <1>1, FS_EmptySet
<1>3. Cardinality(S) = 1 <=> \E n : S = {n}
  BY <1>1, FS_Singleton
<1>4. ASSUME NEW n \in S, NEW m \in S, n # m PROVE Cardinality(S) > 1
  BY <1>1, <1>2, <1>3, <1>4
<1>5. ASSUME Cardinality(S) > 1 PROVE \E n, m \in S : n # m
  <2>1. S # {}
    BY <1>2, <1>5
  <2>2. PICK n \in S : TRUE
    BY <2>1
  <2>3. S # {n}
    BY <1>3, <1>5
  <2> QED BY <2>2, <2>3
<1> QED BY <1>1, <1>2, <1>4, <1>5

\* A set of positions has an earliest one.
LEMMA EarliestOf ==
  ASSUME NEW E, IsSequence(E), NEW S \in SUBSET DOMAIN E, S # {}
  PROVE  Earliest(S) \in S /\ \A n \in S : Earliest(S) <= n
<1>1. S \in SUBSET Nat
  <2>1. DOMAIN E \subseteq Nat
    BY Lengths
  <2> QED BY <2>1
<1>2. PICK n \in S : \A m \in S : ~(<<m, n>> \in OpToRel(<, Nat))
  BY <1>1, NatLessThanWellFounded, WFMin
<1>3. \A m \in S : n <= m
  <2>1. \A m \in S : m < n => <<m, n>> \in OpToRel(<, Nat)
    BY <1>1 DEF OpToRel
  <2>2. \A m \in S : ~(m < n)
    BY <1>2, <2>1
  <2> QED BY <1>1, <2>2
<1> QED BY <1>3 DEF Earliest

-----------------------------------------------------------------------------
(* The stages and the verdict.                                             *)

Judged6(E) == <<AcceptedStage(E),
    Downgraded(E, "claimed", ClaimedStage(E)),
    Downgraded(E, "received", ReceivedStage(E)),
    Downgraded(E, "processed", ProcessedStage(E)),
    Downgraded(E, "response", ResponseStage(E)),
    CorrectStage(E)>>

\* The stages of a run: the six every run is judged on, then those of its fault.
LEMMA StagesAre ==
  ASSUME NEW E, NEW f
  PROVE  /\ \E N \in Nat : DOMAIN Stages(E, f) = 1..N
         /\ 1..6 \subseteq DOMAIN Stages(E, f)
         /\ \A k \in 1..6 : Stages(E, f)[k] = Judged6(E)[k]
         /\ \A k \in DOMAIN FaultStages(E, f) :
              6 + k \in DOMAIN Stages(E, f) /\ Stages(E, f)[6 + k] = FaultStages(E, f)[k]
         /\ \A k \in DOMAIN Stages(E, f) :
              k \in 1..6 \/ \E j \in DOMAIN FaultStages(E, f) : Stages(E, f)[k] = FaultStages(E, f)[j]
<1>1. Stages(E, f) = Judged6(E) \o FaultStages(E, f)
  BY DEF Stages, Judged6
<1>2. IsSequence(Judged6(E)) /\ Len(Judged6(E)) = 6 /\ DOMAIN Judged6(E) = 1..6
  <2> DEFINE a == AcceptedStage(E)
             b == Downgraded(E, "claimed", ClaimedStage(E))
             c == Downgraded(E, "received", ReceivedStage(E))
             d == Downgraded(E, "processed", ProcessedStage(E))
             e == Downgraded(E, "response", ResponseStage(E))
             g == CorrectStage(E)
             T == {a, b, c, d, e, g}
  <2>1. Judged6(E) = <<a, b, c, d, e, g>>
    BY DEF Judged6
  <2> HIDE DEF a, b, c, d, e, g
  <2>2. <<a, b, c, d, e, g>> \in Seq(T)
    OBVIOUS
  <2>3. Len(<<a, b, c, d, e, g>>) = 6 /\ DOMAIN <<a, b, c, d, e, g>> = 1..6
    OBVIOUS
  <2> QED BY <2>1, <2>2, <2>3 DEF IsSequence
<1>3. IsSequence(FaultStages(E, f))
  <2>1. \A a, b : <<>> \in Seq({a}) /\ <<a>> \in Seq({a}) /\ <<a, b>> \in Seq({a, b})
    OBVIOUS
  <2>2. \A a, b : IsSequence(<<>>) /\ IsSequence(<<a>>) /\ IsSequence(<<a, b>>)
    BY <2>1 DEF IsSequence
  <2>3. \/ FaultStages(E, f) = <<>>
        \/ \E a : FaultStages(E, f) = <<a>>
        \/ \E a, b : FaultStages(E, f) = <<a, b>>
    BY DEF FaultStages
  <2> QED BY <2>2, <2>3
<1> DEFINE six == Judged6(E)
           more == FaultStages(E, f)
           all == Stages(E, f)
<1>4. /\ all = six \o more /\ IsSequence(six) /\ Len(six) = 6 /\ DOMAIN six = 1..6 /\ IsSequence(more)
  BY <1>1, <1>2, <1>3
<1> HIDE DEF six, more, all
<1>5. Len(more) \in Nat /\ DOMAIN more = 1..Len(more)
  BY <1>4, Lengths
<1>6. /\ DOMAIN all = 1..6 + Len(more)
      /\ \A n \in 1..6 : all[n] = six[n]
      /\ \A k \in DOMAIN more : 6 + k \in DOMAIN all /\ all[6 + k] = more[k]
      /\ \A n \in DOMAIN all :
           n \in 1..6 \/ (n - 6 \in DOMAIN more /\ all[n] = more[n - 6])
  <2>0. IsSequence(six) /\ IsSequence(more)
    BY <1>4
  <2>1. DOMAIN (six \o more) = 1..Len(six) + Len(more)
    BY <2>0, Appending
  <2>2. \A n \in DOMAIN six : (six \o more)[n] = six[n]
    BY <2>0, Appending
  <2>3. \A k \in DOMAIN more :
          Len(six) + k \in DOMAIN (six \o more) /\ (six \o more)[Len(six) + k] = more[k]
    BY <2>0, Appending
  <2>4. \A n \in DOMAIN (six \o more) :
          \/ n \in DOMAIN six
          \/ n > Len(six) /\ n - Len(six) \in DOMAIN more /\ (six \o more)[n] = more[n - Len(six)]
    BY <2>0, Appending
  <2> QED BY <1>4, <1>5, <2>1, <2>2, <2>3, <2>4
<1>7. (\E N \in Nat : DOMAIN all = 1..N) /\ 1..6 \subseteq DOMAIN all
  BY <1>5, <1>6
<1>8. \A k \in DOMAIN all : k \in 1..6 \/ \E j \in DOMAIN more : all[k] = more[j]
  BY <1>6
<1> QED BY <1>6, <1>7, <1>8 DEF six, more, all

\* A stage of its own account is passed, failed or short of evidence.
LEMMA StagesConclude ==
  ASSUME NEW E, NEW f
  PROVE  \A k \in DOMAIN Stages(E, f) : Stages(E, f)[k] \in {"passed", "failed", "not_enough_evidence"}
<1> DEFINE Conclusions == {"passed", "failed", "not_enough_evidence"}
<1>1. \A P : When(P) \in Conclusions
  BY DEF When
<1>2. \A stage : \A s \in Conclusions : Downgraded(E, stage, s) \in Conclusions
  BY DEF Downgraded
<1>3. ResponseMismatch(E) \in Conclusions \cup {Nothing}
  BY Zenon DEF ResponseMismatch, Mismatch
<1>4. AcceptedStage(E) \in Conclusions /\ ClaimedStage(E) \in Conclusions /\ ReceivedStage(E) \in Conclusions
  BY <1>1 DEF AcceptedStage, ClaimedStage, ReceivedStage
<1>5. ProcessedStage(E) \in Conclusions
  BY <1>1 DEF ProcessedStage
<1>6. ResponseStage(E) \in Conclusions
  BY <1>1, <1>3 DEF ResponseStage
<1>7. CorrectStage(E) \in Conclusions
  BY <1>1 DEF CorrectStage
<1>8. \A j \in DOMAIN FaultStages(E, f) : FaultStages(E, f)[j] \in Conclusions
  <2>1. AmnesiaStage(E) \in Conclusions
    BY <1>1 DEF AmnesiaStage
  <2>2. /\ RecoveredStage(E) \in Conclusions /\ StaleFenceStage(E) \in Conclusions
        /\ DuplicateStage(E) \in Conclusions /\ WakeupStage(E) \in Conclusions
        /\ LostAckStage(E) \in Conclusions /\ \A flag : NotedStage(E, flag) \in Conclusions
    BY <1>1 DEF RecoveredStage, StaleFenceStage, DuplicateStage, WakeupStage, LostAckStage, NotedStage
  <2> HIDE DEF Conclusions
  <2>3. \/ FaultStages(E, f) = <<>>
        \/ \E a \in Conclusions : FaultStages(E, f) = <<a>>
        \/ \E a, b \in Conclusions : FaultStages(E, f) = <<a, b>>
    BY <2>1, <2>2, Zenon DEF FaultStages
  <2>4. \A a, b \in Conclusions :
          /\ \A j \in DOMAIN <<>> : <<>>[j] \in Conclusions
          /\ \A j \in DOMAIN <<a>> : <<a>>[j] \in Conclusions
          /\ \A j \in DOMAIN <<a, b>> : <<a, b>>[j] \in Conclusions
    OBVIOUS
  <2> QED BY <2>3, <2>4
<1> HIDE DEF Conclusions
<1>9. ASSUME NEW k \in 1..6 PROVE Stages(E, f)[k] \in Conclusions
  <2> DEFINE a == AcceptedStage(E)
             b == Downgraded(E, "claimed", ClaimedStage(E))
             c == Downgraded(E, "received", ReceivedStage(E))
             d == Downgraded(E, "processed", ProcessedStage(E))
             e == Downgraded(E, "response", ResponseStage(E))
             g == CorrectStage(E)
  <2>1. Stages(E, f)[k] = <<a, b, c, d, e, g>>[k]
    BY StagesAre DEF Judged6
  <2>2. {a, b, c, d, e, g} \subseteq Conclusions
    BY <1>2, <1>4, <1>5, <1>6, <1>7
  <2> HIDE DEF a, b, c, d, e, g
  <2> QED BY <2>1, <2>2
<1> QED BY <1>8, <1>9, StagesAre DEF Conclusions

\* A verdict is what its stages are.
LEMMA VerdictIs ==
  ASSUME NEW E, NEW f
  PROVE  /\ Verdict(E, f) = "passed" => \A k \in DOMAIN Stages(E, f) : Stages(E, f)[k] = "passed"
         /\ (\A k \in DOMAIN Stages(E, f) : Stages(E, f)[k] = "passed") => Verdict(E, f) = "passed"
         /\ Verdict(E, f) = "failed" => \E k \in DOMAIN Stages(E, f) : Stages(E, f)[k] = "failed"
<1> DEFINE all == Stages(E, f)
           told == Cascaded(all)
           said == {told[k] : k \in DOMAIN told} \ {"not_tested"}
<1>1. Verdict(E, f) = IF "error" \in said THEN "error"
                      ELSE IF "failed" \in said THEN "failed"
                      ELSE IF said = {"passed"} THEN "passed" ELSE "incomplete"
  BY DEF Verdict, StageVerdict
<1>2. /\ DOMAIN told = DOMAIN all
      /\ \A k \in DOMAIN all :
           told[k] = IF all[k] = "not_enough_evidence" /\ \E j \in 1..k - 1 : all[j] \in {"failed", "error"}
                     THEN "not_tested" ELSE all[k]
  BY DEF Cascaded
<1>3. PICK N \in Nat : DOMAIN all = 1..N
  BY StagesAre
<1>4. 1 \in DOMAIN all
  BY StagesAre
<1> HIDE DEF all, told
<1>5. ASSUME Verdict(E, f) = "passed" PROVE \A k \in DOMAIN all : all[k] = "passed"
  <2>1. said = {"passed"}
    BY <1>1, <1>5
  <2>2. \A k \in DOMAIN all : told[k] \in {"passed", "not_tested"}
    BY <1>2, <2>1
  <2>3. \A k \in DOMAIN all : all[k] \notin {"failed", "error"}
    BY <1>2, <2>2
  <2>4. \A k \in DOMAIN all : \A j \in 1..k - 1 : j \in DOMAIN all
    BY <1>3
  <2>5. \A k \in DOMAIN all : told[k] = all[k]
    BY <1>2, <2>3, <2>4
  <2>6. \A k \in DOMAIN all : all[k] # "not_tested"
    BY StagesConclude DEF all
  <2> QED BY <2>2, <2>5, <2>6
<1>6. ASSUME \A k \in DOMAIN all : all[k] = "passed" PROVE Verdict(E, f) = "passed"
  <2>1. \A k \in DOMAIN told : told[k] = "passed"
    BY <1>2, <1>6
  <2>2. said = {"passed"}
    BY <1>2, <1>4, <2>1
  <2> QED BY <1>1, <2>2
<1>7. ASSUME Verdict(E, f) = "failed" PROVE \E k \in DOMAIN all : all[k] = "failed"
  <2>1. "failed" \in said
    BY <1>1, <1>7
  <2>2. PICK k \in DOMAIN told : told[k] = "failed"
    BY <2>1
  <2> QED BY <1>2, <2>2
<1> QED BY <1>5, <1>6, <1>7 DEF all

-----------------------------------------------------------------------------
(* What the stages look for, position by position.                         *)

\* Accepted messages, deliveries, acknowledgements, in so many words.
LEMMA Looking ==
  ASSUME NEW E
  PROVE  /\ \A content : Accepted(E, content) =
              {n \in DOMAIN E : E[n].kind = "message_accepted" /\ E[n].content = content}
         /\ \A id : Claims(E, id) = {n \in DOMAIN E : E[n].kind = "message_claimed" /\ E[n].subject = id}
         /\ \A who, id : AcksBy(E, who, id) =
              {n \in DOMAIN E : E[n].kind = "ack_recorded" /\ E[n].who = who /\ E[n].subject = id}
         /\ \A kind : OfRequest(E, kind) =
              {n \in DOMAIN E : Requests(E) # {} /\ E[n].kind = kind /\ E[n].subject = RequestId(E)}
         /\ \A kind : Find(E, kind, AnyEvent) = {n \in DOMAIN E : E[n].kind = kind}
<1>1. \A content : Accepted(E, content) =
        {n \in DOMAIN E : E[n].kind = "message_accepted" /\ E[n].content = content}
  BY DEF Accepted, Find
<1>2. \A id : Claims(E, id) = {n \in DOMAIN E : E[n].kind = "message_claimed" /\ E[n].subject = id}
  BY DEF Claims, Find
<1>3. \A who, id : AcksBy(E, who, id) =
        {n \in DOMAIN E : E[n].kind = "ack_recorded" /\ E[n].who = who /\ E[n].subject = id}
  BY DEF AcksBy, Find
<1>4. \A kind : OfRequest(E, kind) =
        {n \in DOMAIN E : Requests(E) # {} /\ E[n].kind = kind /\ E[n].subject = RequestId(E)}
  BY DEF OfRequest, Find
<1>5. \A kind : Find(E, kind, AnyEvent) = {n \in DOMAIN E : E[n].kind = kind}
  BY DEF Find, AnyEvent
<1> QED BY <1>1, <1>2, <1>3, <1>4, <1>5

\* What the stages count on are positions of the record.
LEMMA Positions ==
  ASSUME NEW E
  PROVE  /\ Requests(E) \subseteq DOMAIN E /\ Responses(E) \subseteq DOMAIN E
         /\ Applied(E) \subseteq DOMAIN E /\ BuyerAcks(E) \subseteq DOMAIN E
         /\ Verdicts(E) \subseteq DOMAIN E
<1>1. Requests(E) \subseteq DOMAIN E /\ Responses(E) \subseteq DOMAIN E
  BY Looking DEF Requests, Responses
<1>2. \A who, id : AcksBy(E, who, id) \subseteq DOMAIN E
  BY Looking
<1>3. Applied(E) \subseteq DOMAIN E
  BY <1>2 DEF Applied, Processed, SellerAcks, Asserting, WithStatus
<1>4. BuyerAcks(E) \subseteq DOMAIN E
  BY <1>2 DEF BuyerAcks
<1> QED BY <1>1, <1>3, <1>4 DEF Verdicts

-----------------------------------------------------------------------------
(* A pass and a failure, read back.                                        *)

\* What holds of a record that is passed.
Complete(E) ==
  /\ Requests(E) # {} /\ Claims(E, RequestId(E)) # {}
  /\ Cardinality(Applied(E)) = 1
  /\ Cardinality(Responses(E)) = 1 /\ ResponseMismatch(E) = Nothing
  /\ Cardinality(Requests(E)) > 1 => \A n \in Requests(E) : Answered(E, E[n].subject)
  /\ Verdicts(E) # {} /\ Asserting(E, Verdicts(E), "wrong") = {}
  /\ Asserting(E, Verdicts(E), "right") # {}

\* Why a record fails.
Failing(E) ==
  \/ Cardinality(Applied(E)) > 1
  \/ Cardinality(Responses(E)) > 1
  \/ ResponseMismatch(E) = "failed"
  \/ ResponseMismatch(E) # "failed" /\ Asserting(E, Verdicts(E), "wrong") # {}

\* A passed run has one request answered by the one response, applied once, and
\* a buyer that nowhere settled the response asserting it wrong.
THEOREM PassMeans ==
  ASSUME NEW E, IsSequence(E), NEW f, Verdict(E, f) = "passed"
  PROVE  /\ Complete(E)
         /\ \A k \in DOMAIN FaultStages(E, f) : FaultStages(E, f)[k] = "passed"
<1>1. \A k \in DOMAIN Stages(E, f) : Stages(E, f)[k] = "passed"
  BY VerdictIs
<1>2. \A k \in DOMAIN FaultStages(E, f) : FaultStages(E, f)[k] = "passed"
  BY <1>1, StagesAre
<1>3. \A k \in 1..6 : Judged6(E)[k] = "passed"
  BY <1>1, StagesAre
<1>4. /\ AcceptedStage(E) = "passed"
      /\ Downgraded(E, "claimed", ClaimedStage(E)) = "passed"
      /\ Downgraded(E, "processed", ProcessedStage(E)) = "passed"
      /\ Downgraded(E, "response", ResponseStage(E)) = "passed"
      /\ CorrectStage(E) = "passed"
  <2> DEFINE a == AcceptedStage(E)
             b == Downgraded(E, "claimed", ClaimedStage(E))
             c == Downgraded(E, "received", ReceivedStage(E))
             d == Downgraded(E, "processed", ProcessedStage(E))
             e == Downgraded(E, "response", ResponseStage(E))
             g == CorrectStage(E)
  <2>1. \A k \in 1..6 : <<a, b, c, d, e, g>>[k] = "passed"
    BY <1>3 DEF Judged6
  <2> HIDE DEF a, b, c, d, e, g
  <2>2. a = "passed" /\ b = "passed" /\ d = "passed" /\ e = "passed" /\ g = "passed"
    BY <2>1
  <2> QED BY <2>2 DEF a, b, d, e, g
<1>5. \A stage, s : Downgraded(E, stage, s) = "passed" =>
        /\ s = "passed"
        /\ Cardinality(Requests(E)) > 1 => \A n \in Requests(E) : Reached(E, n, stage)
  BY DEF Downgraded
<1>6. \A P : When(P) = "passed" => P
  BY DEF When
<1>7. Requests(E) # {} /\ Claims(E, RequestId(E)) # {}
  <2>1. When(Requests(E) # {} /\ Claims(E, RequestId(E)) # {}) = "passed"
    BY <1>4, <1>5 DEF ClaimedStage
  <2> QED BY <2>1 DEF When
<1>8. Cardinality(Applied(E)) = 1
  <2>1. ProcessedStage(E) = "passed"
    BY <1>4, <1>5
  <2>2. ~(Cardinality(Applied(E)) > 1) /\ Applied(E) # {}
    BY <1>6, <2>1 DEF ProcessedStage
  <2> QED BY <2>2, Several, Positions
<1>9. Cardinality(Responses(E)) = 1 /\ ResponseMismatch(E) = Nothing
  <2>1. ResponseStage(E) = "passed"
    BY <1>4, <1>5
  <2>2. ResponseMismatch(E) = Nothing \/ ResponseMismatch(E) = "passed"
    BY <2>1 DEF ResponseStage
  <2>3. ResponseMismatch(E) \in {Nothing, "failed", "not_enough_evidence"}
    BY Zenon DEF ResponseMismatch, Mismatch
  <2>4. ResponseMismatch(E) = Nothing
    BY <2>2, <2>3
  <2>5. Responses(E) # {}
    BY <1>6, <2>1, <2>4 DEF ResponseStage
  <2>6. ~(Cardinality(Responses(E)) > 1)
    BY <2>4 DEF ResponseMismatch, Mismatch, Nothing
  <2> QED BY <2>4, <2>5, <2>6, Several, Positions
<1>10. Cardinality(Requests(E)) > 1 => \A n \in Requests(E) : Answered(E, E[n].subject)
  <2>1. Cardinality(Requests(E)) > 1 => \A n \in Requests(E) : Reached(E, n, "response")
    BY <1>4, <1>5
  <2>2. \A n : Reached(E, n, "response") => Answered(E, E[n].subject)
    BY DEF Reached
  <2> QED BY <2>1, <2>2
<1>11. Verdicts(E) # {} /\ Asserting(E, Verdicts(E), "wrong") = {}
       /\ Asserting(E, Verdicts(E), "right") # {}
  <2>1. Verdicts(E) # {} /\ ~Conflicting(E) /\ ~("wrong" \in E[Earliest(Verdicts(E))].note)
    BY <1>4, Zenon DEF CorrectStage
  <2>2. Earliest(Verdicts(E)) \in Verdicts(E)
    BY <2>1, EarliestOf, Positions
  <2>3. "right" \in E[Earliest(Verdicts(E))].note
    BY <2>1, <2>2 DEF Verdicts
  <2>4. Asserting(E, Verdicts(E), "right") # {}
    BY <2>2, <2>3 DEF Asserting
  <2>5. ResponseMismatch(E) # "failed"
    BY <1>9 DEF Nothing
  <2> QED BY <2>1, <2>4, <2>5 DEF Conflicting
<1> QED BY <1>2, <1>7, <1>8, <1>9, <1>10, <1>11 DEF Complete

\* A failed run was applied twice, answered twice or for another request, or its
\* buyer settled the response asserting it wrong.
THEOREM FailMeans ==
  ASSUME NEW E, IsSequence(E), NEW f, Verdict(E, f) = "failed"
  PROVE  Failing(E)
<1>1. PICK k \in DOMAIN Stages(E, f) : Stages(E, f)[k] = "failed"
  BY VerdictIs
<1>2. \A P : When(P) # "failed"
  BY DEF When
<1>3. \A stage, s : Downgraded(E, stage, s) = "failed" => s = "failed"
  BY DEF Downgraded
<1>4. CASE k \in 1..6
  <2> DEFINE a == AcceptedStage(E)
             b == Downgraded(E, "claimed", ClaimedStage(E))
             c == Downgraded(E, "received", ReceivedStage(E))
             d == Downgraded(E, "processed", ProcessedStage(E))
             e == Downgraded(E, "response", ResponseStage(E))
             g == CorrectStage(E)
  <2>1. <<a, b, c, d, e, g>>[k] = "failed"
    BY <1>1, <1>4, StagesAre DEF Judged6
  <2>2. a # "failed" /\ b # "failed" /\ c # "failed"
    BY <1>2, <1>3 DEF AcceptedStage, ClaimedStage, ReceivedStage
  <2>3. d = "failed" => Cardinality(Applied(E)) > 1
    BY <1>2, <1>3 DEF ProcessedStage
  <2>4. e = "failed" => ResponseMismatch(E) = "failed"
    BY <1>2, <1>3 DEF ResponseStage
  <2>5. g = "failed" => Failing(E)
    <3>1. ASSUME g = "failed", ResponseMismatch(E) # "failed"
          PROVE  Verdicts(E) # {} /\ "wrong" \in E[Earliest(Verdicts(E))].note
      BY <1>2, <3>1 DEF CorrectStage
    <3>2. Verdicts(E) # {} => Earliest(Verdicts(E)) \in Verdicts(E)
      BY EarliestOf, Positions
    <3> QED BY <3>1, <3>2 DEF Failing, Asserting
  <2> HIDE DEF a, b, c, d, e, g
  <2>6. d = "failed" \/ e = "failed" \/ g = "failed"
    BY <1>4, <2>1, <2>2
  <2> QED BY <2>3, <2>4, <2>5, <2>6 DEF Failing
<1>5. CASE k \notin 1..6
  <2>1. PICK j \in DOMAIN FaultStages(E, f) : FaultStages(E, f)[j] = "failed"
    BY <1>1, <1>5, StagesAre
  <2>2. \/ FaultStages(E, f) = <<>>
        \/ FaultStages(E, f) = <<RecoveredStage(E), StaleFenceStage(E)>>
        \/ FaultStages(E, f) = <<AmnesiaStage(E)>>
        \/ FaultStages(E, f) = <<DuplicateStage(E)>>
        \/ FaultStages(E, f) = <<WakeupStage(E)>>
        \/ FaultStages(E, f) = <<LostAckStage(E)>>
        \/ \E flag : FaultStages(E, f) = <<NotedStage(E, flag)>>
    BY Zenon DEF FaultStages
  <2>3. /\ RecoveredStage(E) # "failed" /\ StaleFenceStage(E) # "failed"
        /\ DuplicateStage(E) # "failed" /\ WakeupStage(E) # "failed"
        /\ LostAckStage(E) # "failed" /\ \A flag : NotedStage(E, flag) # "failed"
    BY <1>2 DEF RecoveredStage, StaleFenceStage, DuplicateStage, WakeupStage, LostAckStage, NotedStage
  <2>4. AmnesiaStage(E) = "failed" => Cardinality(Responses(E)) > 1
    BY <1>2 DEF AmnesiaStage
  <2>5. \A x, y : /\ DOMAIN <<>> = {}
                  /\ \A i \in DOMAIN <<x>> : <<x>>[i] = x
                  /\ \A i \in DOMAIN <<x, y>> : <<x, y>>[i] \in {x, y}
    OBVIOUS
  <2>6. AmnesiaStage(E) = "failed"
    BY <2>1, <2>2, <2>3, <2>5
  <2> QED BY <2>4, <2>6 DEF Failing
<1> QED BY <1>4, <1>5

-----------------------------------------------------------------------------
(* A record that grows.                                                    *)

\* F holds E's events where E has them, and others after them.
Extends(E, F) ==
  /\ IsSequence(E) /\ IsSequence(F)
  /\ DOMAIN E \subseteq DOMAIN F /\ \A n \in DOMAIN E : F[n] = E[n]
  /\ \A n \in DOMAIN F \ DOMAIN E : \A m \in DOMAIN E : m < n

\* The earliest event of a kind stays the earliest.
LEMMA EarliestStays ==
  ASSUME NEW E, NEW F, Extends(E, F),
         NEW S, NEW T \in SUBSET DOMAIN F, S = T \cap DOMAIN E, S # {}
  PROVE  Earliest(T) = Earliest(S)
<1>1. Earliest(S) \in S /\ \A n \in S : Earliest(S) <= n
  BY EarliestOf DEF Extends
<1>2. Earliest(T) \in T /\ \A n \in T : Earliest(T) <= n
  BY EarliestOf DEF Extends
<1>3. Earliest(T) <= Earliest(S)
  BY <1>1, <1>2
<1>4. DOMAIN F \subseteq Nat
  <2>1. Len(F) \in Nat /\ DOMAIN F = 1..Len(F)
    BY Lengths DEF Extends
  <2> QED BY <2>1
<1>5. Earliest(T) \in DOMAIN E
  <2> SUFFICES ASSUME Earliest(T) \notin DOMAIN E PROVE FALSE
    OBVIOUS
  <2>1. Earliest(S) < Earliest(T)
    BY <1>1, <1>2 DEF Extends
  <2> QED BY <1>1, <1>2, <1>3, <1>4, <2>1
<1> QED BY <1>1, <1>2, <1>3, <1>4, <1>5

\* What is found in a record is found in the longer one, at the same positions.
LEMMA FoundStays ==
  ASSUME NEW E, NEW F, Extends(E, F)
  PROVE  /\ Requests(E) = Requests(F) \cap DOMAIN E /\ Responses(E) = Responses(F) \cap DOMAIN E
         /\ \A who, id : AcksBy(E, who, id) = AcksBy(F, who, id) \cap DOMAIN E
         /\ Requests(E) # {} => RequestId(F) = RequestId(E) /\ Earliest(Requests(F)) = Earliest(Requests(E))
         /\ Responses(E) # {} => ResponseId(F) = ResponseId(E) /\ Earliest(Responses(F)) = Earliest(Responses(E))
<1>1. \A content : Accepted(E, content) = Accepted(F, content) \cap DOMAIN E
  BY Looking DEF Extends
<1>2. Requests(E) = Requests(F) \cap DOMAIN E /\ Responses(E) = Responses(F) \cap DOMAIN E
  BY <1>1 DEF Requests, Responses
<1>3. \A who, id : AcksBy(E, who, id) = AcksBy(F, who, id) \cap DOMAIN E
  BY Looking DEF Extends
<1>4. ASSUME Requests(E) # {}
      PROVE  RequestId(F) = RequestId(E) /\ Earliest(Requests(F)) = Earliest(Requests(E))
  <2>1. Earliest(Requests(F)) = Earliest(Requests(E))
    BY <1>2, <1>4, EarliestStays, Positions
  <2>2. Earliest(Requests(E)) \in DOMAIN E
    BY <1>4, EarliestOf, Positions DEF Extends
  <2>3. Requests(F) # {}
    BY <1>2, <1>4
  <2> QED BY <1>4, <2>1, <2>2, <2>3 DEF RequestId, FirstSubject, Extends
<1>5. ASSUME Responses(E) # {}
      PROVE  ResponseId(F) = ResponseId(E) /\ Earliest(Responses(F)) = Earliest(Responses(E))
  <2>1. Earliest(Responses(F)) = Earliest(Responses(E))
    BY <1>2, <1>5, EarliestStays, Positions
  <2>2. Earliest(Responses(E)) \in DOMAIN E
    BY <1>5, EarliestOf, Positions DEF Extends
  <2>3. Responses(F) # {}
    BY <1>2, <1>5
  <2> QED BY <1>5, <2>1, <2>2, <2>3 DEF ResponseId, FirstSubject, Extends
<1> QED BY <1>2, <1>3, <1>4, <1>5

\* Why responses and requests do not match, case by case.
LEMMA MismatchIs ==
  ASSUME NEW E
  PROVE  LET named == E[Earliest(Responses(E))].names
             asked == E[Earliest(Requests(E))].subject
             some == Responses(E) # {} /\ Requests(E) # {}
         IN /\ ResponseMismatch(E) = "failed" <=>
                 \/ Cardinality(Responses(E)) > 1
                 \/ some /\ named # asked /\ named # Nothing
            /\ ResponseMismatch(E) = Nothing <=>
                 ~(Cardinality(Responses(E)) > 1) /\ (some => named = asked)
BY Zenon DEF ResponseMismatch, Mismatch, Nothing

\* Nothing recorded later makes a failing record complete.
THEOREM FailureStays ==
  ASSUME NEW E, NEW F, Extends(E, F), Failing(E),
         \A n \in DOMAIN E : E[n].kind = "ack_recorded" => E[n].subject # Nothing
  PROVE  ~Complete(F)
<1> SUFFICES ASSUME Complete(F) PROVE FALSE
  OBVIOUS
<1>1. Cardinality(Responses(F)) = 1 /\ ~(Cardinality(Responses(F)) > 1)
  BY DEF Complete
<1>2. ~(Cardinality(Responses(E)) > 1)
  <2>1. ~ \E n, m \in Responses(F) : n # m
    BY <1>1, Several, Positions DEF Extends
  <2>2. ~ \E n, m \in Responses(E) : n # m
    BY <2>1, FoundStays
  <2> QED BY <2>2, Several, Positions DEF Extends
<1>3. CASE Cardinality(Applied(E)) > 1
  <2>1. PICK n \in Applied(E), m \in Applied(E) : n # m
    BY <1>3, Several, Positions DEF Extends
  <2>2. Applied(E) \subseteq Applied(F)
    <3>1. Requests(E) # {}
      <4>1. n \in DOMAIN E /\ E[n].kind = "ack_recorded" /\ E[n].subject = RequestId(E)
        BY Looking DEF Applied, Processed, SellerAcks, Asserting, WithStatus
      <4> QED BY <4>1 DEF RequestId, FirstSubject
    <3>2. SellerAcks(E) \subseteq SellerAcks(F) \cap DOMAIN E
      BY <3>1, FoundStays DEF SellerAcks
    <3> QED BY <3>2 DEF Applied, Processed, Asserting, WithStatus, Extends
  <2>3. Cardinality(Applied(F)) > 1
    BY <2>1, <2>2, Several, Positions DEF Extends
  <2> QED BY <2>3 DEF Complete
<1>4. CASE ResponseMismatch(E) = "failed"
  <2> DEFINE named == E[Earliest(Responses(E))].names
             asked == E[Earliest(Requests(E))].subject
  <2>1. Responses(E) # {} /\ Requests(E) # {} /\ named # asked
    BY <1>2, <1>4, MismatchIs, Zenon
  <2>2. Earliest(Responses(E)) \in Responses(E) /\ Earliest(Requests(E)) \in Requests(E)
    BY <2>1, EarliestOf, Positions DEF Extends
  <2>3. /\ F[Earliest(Responses(F))].names = named /\ F[Earliest(Requests(F))].subject = asked
        /\ Responses(F) # {} /\ Requests(F) # {}
    BY <2>1, <2>2, FoundStays, Positions DEF Extends
  <2>4. ResponseMismatch(F) # Nothing
    BY <2>1, <2>3, MismatchIs, Zenon
  <2> QED BY <2>4 DEF Complete
<1>5. CASE ResponseMismatch(E) # "failed" /\ Asserting(E, Verdicts(E), "wrong") # {}
  <2>1. PICK n \in Verdicts(E) : "wrong" \in E[n].note
    BY <1>5 DEF Asserting
  <2>2. ResponseMismatch(F) = Nothing
    BY DEF Complete
  <2>3. ResponseMismatch(E) = Nothing
    <3> SUFFICES ASSUME ResponseMismatch(E) # Nothing PROVE FALSE
      OBVIOUS
    <3> DEFINE named == E[Earliest(Responses(E))].names
               asked == E[Earliest(Requests(E))].subject
    <3>1. Responses(E) # {} /\ Requests(E) # {} /\ named # asked
      BY <1>2, MismatchIs, Zenon
    <3>2. Earliest(Responses(E)) \in Responses(E) /\ Earliest(Requests(E)) \in Requests(E)
      BY <3>1, EarliestOf, Positions DEF Extends
    <3>3. /\ F[Earliest(Responses(F))].names = named /\ F[Earliest(Requests(F))].subject = asked
          /\ Responses(F) # {} /\ Requests(F) # {}
      BY <3>1, <3>2, FoundStays, Positions DEF Extends
    <3> QED BY <2>2, <3>1, <3>3, MismatchIs, Zenon
  <2>4. n \in AcksBy(E, "buyer", ResponseId(E)) /\ Responses(E) # {}
    BY <2>1, <2>3 DEF Verdicts, BuyerAcks
  <2>5. n \in AcksBy(F, "buyer", ResponseId(F)) /\ Responses(F) # {} /\ F[n] = E[n]
    BY <2>4, FoundStays DEF Extends
  <2>6. n \in BuyerAcks(F)
    BY <2>2, <2>5 DEF BuyerAcks
  <2>7. n \in Asserting(F, Verdicts(F), "wrong")
    BY <2>1, <2>5, <2>6 DEF Verdicts, Asserting
  <2> QED BY <2>7 DEF Complete
<1> QED BY <1>2, <1>3, <1>4, <1>5 DEF Failing
=============================================================================
