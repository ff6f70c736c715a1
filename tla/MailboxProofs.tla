--------------------------- MODULE MailboxProofs ---------------------------
(* Theorems about Mailbox, for every number of participants, messages,     *)
(* contents and statuses, every lease and every value of the bounds.       *)
EXTENDS Mailbox, TLAPS, SequenceTheorems

-----------------------------------------------------------------------------
(* What the shared helpers yield.                                          *)

\* The sweep keeps every row of both tables, and only ever ends claims and
\* turns "claimed" back into "accepted".
LEMMA ExpiryTypes ==
  ASSUME TypeOK, NEW now \in Nat
  PROVE  /\ MessagesAfterExpiry(now) \in [DOMAIN messages -> Message]
         /\ ClaimsAfterExpiry(now) \in Seq(Claim)
         /\ Len(ClaimsAfterExpiry(now)) = Len(claims)
         /\ DOMAIN ClaimsAfterExpiry(now) = Fences
<1>1. Fences = 1..Len(claims) /\ Len(claims) \in Nat
  BY DEF TypeOK, Fences
<1>2. ASSUME NEW f \in Fences
      PROVE  [claims[f] EXCEPT !.active = @ /\ ~Lapsed(f, now)] \in Claim
  <2>1. claims[f] \in Claim
    BY DEF TypeOK, Fences
  <2>2. (claims[f].active /\ ~Lapsed(f, now)) \in BOOLEAN
    OBVIOUS
  <2> QED BY <2>1, <2>2 DEF Claim
<1>3. ASSUME NEW i \in DOMAIN messages
      PROVE  MessagesAfterExpiry(now)[i] \in Message
  <2>1. messages[i] \in Message
    BY DEF TypeOK
  <2> QED BY <2>1 DEF MessagesAfterExpiry, Message
<1>4. ClaimsAfterExpiry(now) \in [1..Len(claims) -> Claim]
  BY <1>1, <1>2 DEF ClaimsAfterExpiry
<1>5. ClaimsAfterExpiry(now) \in Seq(Claim)
  BY <1>1, <1>4, SeqDef
<1> QED BY <1>1, <1>3, <1>4, <1>5 DEF MessagesAfterExpiry

\* Field by field, what the sweep leaves in a row.
LEMMA ExpiryFields ==
  ASSUME TypeOK, NEW now \in Nat
  PROVE  /\ \A f \in Fences :
              /\ ClaimsAfterExpiry(now)[f].message = claims[f].message
              /\ ClaimsAfterExpiry(now)[f].claimant = claims[f].claimant
              /\ ClaimsAfterExpiry(now)[f].active <=> claims[f].active /\ ~Lapsed(f, now)
         /\ \A i \in DOMAIN messages :
              /\ MessagesAfterExpiry(now)[i].to = messages[i].to
              /\ MessagesAfterExpiry(now)[i].attempts = messages[i].attempts
              /\ MessagesAfterExpiry(now)[i].status =
                   IF messages[i].status = "claimed" /\ LapsedOn(i, now)
                   THEN "accepted" ELSE messages[i].status
<1>1. ASSUME NEW f \in Fences
      PROVE  /\ ClaimsAfterExpiry(now)[f].message = claims[f].message
             /\ ClaimsAfterExpiry(now)[f].claimant = claims[f].claimant
             /\ ClaimsAfterExpiry(now)[f].active <=> claims[f].active /\ ~Lapsed(f, now)
  <2>1. claims[f] \in Claim
    BY DEF TypeOK, Fences
  <2> QED BY <2>1 DEF ClaimsAfterExpiry, Claim
<1>2. ASSUME NEW i \in DOMAIN messages
      PROVE  /\ MessagesAfterExpiry(now)[i].to = messages[i].to
             /\ MessagesAfterExpiry(now)[i].attempts = messages[i].attempts
             /\ MessagesAfterExpiry(now)[i].status =
                  IF messages[i].status = "claimed" /\ LapsedOn(i, now)
                  THEN "accepted" ELSE messages[i].status
  <2>1. messages[i] \in Message
    BY DEF TypeOK
  <2> QED BY <2>1 DEF MessagesAfterExpiry, Message
<1> QED BY <1>1, <1>2

-----------------------------------------------------------------------------
(* Type correctness.                                                       *)

\* Ending one claim leaves a well-formed claims table.
LEMMA EndedClaims ==
  ASSUME TypeOK, NEW f \in Fences
  PROVE  /\ [claims EXCEPT ![f].active = FALSE] \in Seq(Claim)
         /\ DOMAIN [claims EXCEPT ![f].active = FALSE] = Fences
<1> DEFINE row == [claims[f] EXCEPT !.active = FALSE]
<1>1. claims[f] \in Claim
  BY DEF TypeOK, Fences
<1>2. row \in Claim
  BY <1>1 DEF Claim
<1>3. [claims EXCEPT ![f].active = FALSE] = [claims EXCEPT ![f] = row]
  OBVIOUS
<1> HIDE DEF row
<1>4. [claims EXCEPT ![f] = row] \in Seq(Claim)
  BY <1>2 DEF TypeOK, Fences
<1>5. DOMAIN [claims EXCEPT ![f] = row] = DOMAIN claims
  OBVIOUS
<1> QED BY <1>3, <1>4, <1>5 DEF Fences

\* A new claim is a well-formed row of the claims table.
LEMMA NewClaimType ==
  ASSUME TypeOK, NEW p \in Participants, NEW i \in DOMAIN messages, NEW now \in Nat
  PROVE  NewClaim(p, i, now) \in Claim
BY LeaseAssumption DEF TypeOK, NewClaim, Claim, Message

\* create_run leaves well-formed, empty tables.
LEMMA TypeInit == Init => TypeOK
BY DEF Init, TypeOK

\* A duplicate offer leaves well-formed tables, however old its sample of the clock.
LEMMA TypeReoffer ==
  ASSUME TypeOK, NEW p \in Participants, NEW i \in DOMAIN messages, NEW now \in Nat,
         Reoffer(p, i, now)
  PROVE  TypeOK'
<1>1. messages' \in [DOMAIN messages -> Message]
  <2> DEFINE row == [messages[i] EXCEPT !.attempts = @ + 1]
  <2>1. row \in Message
    <3>1. messages[i] \in Message
      BY DEF TypeOK
    <3>2. messages[i].attempts + 1 \in Nat
      BY <3>1 DEF Message
    <3> QED BY <3>1, <3>2 DEF Message
  <2>2. messages' = [messages EXCEPT ![i] = row]
    BY DEF Reoffer
  <2> HIDE DEF row
  <2> QED BY <2>1, <2>2 DEF TypeOK
<1>2. claims' \in Seq(Claim)
  BY NewClaimType DEF TypeOK, Reoffer
<1>3. DOMAIN offered' \subseteq DOMAIN messages /\ offered' \in [DOMAIN offered' -> Nat]
  <2>1. Len(claims) + 1 \in Nat
    BY DEF TypeOK
  <2> QED BY <2>1 DEF TypeOK, Reoffer
<1> QED BY <1>1, <1>2, <1>3 DEF TypeOK, Reoffer

\* Every operation of TownDB leaves well-formed tables.
LEMMA TypeStep ==
  ASSUME TypeOK, [Next]_vars
  PROVE  TypeOK'
<1>1. ASSUME NEW p \in Participants, NEW id \in MessageIds, NEW to \in Participants,
             NEW c \in Contents, NEW s \in BOOLEAN, NEW now \in Nat,
             AcceptMessage(p, id, to, c, s, now)
      PROVE  TypeOK'
  <2>1. NewMessage(p, to, c, now) \in Message
    BY <1>1 DEF NewMessage, Message
  <2>2. DOMAIN messages' = DOMAIN messages \cup {id}
    BY <1>1 DEF AcceptMessage
  <2>3. messages' \in [DOMAIN messages' -> Message]
    BY <1>1, <2>1, <2>2 DEF TypeOK, AcceptMessage, IsNew
  <2>4. notifications' \in [DOMAIN messages' -> {"pending", "suppressed", "consumed"}]
    BY <1>1, <2>2 DEF TypeOK, AcceptMessage, IsNew
  <2> QED BY <1>1, <2>2, <2>3, <2>4 DEF TypeOK, AcceptMessage
<1>2. ASSUME NEW p \in Participants, PopNotify(p)
      PROVE  TypeOK'
  BY <1>2 DEF TypeOK, PopNotify
<1>3. ASSUME NEW p \in Participants, NEW now \in Nat, ClaimNext(p, now)
      PROVE  TypeOK'
  <2>1. PICK i \in Oldest(Waiting(p, now)) :
          /\ messages' = [MessagesAfterExpiry(now) EXCEPT
                            ![i].status = "claimed", ![i].attempts = @ + 1]
          /\ claims' = Append(ClaimsAfterExpiry(now), NewClaim(p, i, now))
    BY <1>3 DEF ClaimNext
  <2>2. i \in DOMAIN messages
    BY DEF Oldest, Waiting
  <2>3. MessagesAfterExpiry(now)[i] \in Message
    BY <2>2, ExpiryTypes
  <2> DEFINE row == [MessagesAfterExpiry(now)[i] EXCEPT !.status = "claimed", !.attempts = @ + 1]
  <2>4. row \in Message
    <3>1. MessagesAfterExpiry(now)[i].attempts + 1 \in Nat
      BY <2>3 DEF Message
    <3> QED BY <2>3, <3>1 DEF Message
  <2>5. messages' = [MessagesAfterExpiry(now) EXCEPT ![i] = row]
    BY <2>1, <2>2, <2>3, ExpiryTypes DEF Message
  <2>6. messages' \in [DOMAIN messages -> Message]
    <3> HIDE DEF row
    <3> QED BY <2>4, <2>5, ExpiryTypes
  <2>7. claims' \in Seq(Claim)
    BY <2>1, <2>2, ExpiryTypes, NewClaimType
  <2> QED BY <1>3, <2>6, <2>7 DEF TypeOK, ClaimNext
<1>4. ASSUME NEW p \in Participants, NEW now \in Nat, ClaimNothing(p, now)
      PROVE  TypeOK'
  BY <1>4, ExpiryTypes DEF TypeOK, ClaimNothing
<1>5. ASSUME NEW p \in Participants, NEW i \in DOMAIN messages, NEW now \in Nat,
             Reoffer(p, i, now)
      PROVE  TypeOK'
  BY <1>5, TypeReoffer
<1>6. ASSUME NEW p \in Participants, NEW i \in DOMAIN messages, NEW f \in Fences,
             NEW st \in AckStatuses, NEW note \in Notes, NEW now \in Nat,
             Ack(p, i, f, st, note, now)
      PROVE  TypeOK'
  <2>1. claims' \in Seq(Claim)
    BY <1>6, EndedClaims DEF Ack
  <2>2. messages' \in [DOMAIN messages -> Message]
    <3> DEFINE row == [messages[i] EXCEPT !.status = StatusAfterAck(st),
                                          !.done = IF st = "retryable" THEN "null" ELSE st]
    <3>1. row \in Message
      BY DEF TypeOK, Message, StatusAfterAck
    <3>2. messages' = [messages EXCEPT ![i] = row] \/ messages' = messages
      BY <1>6 DEF Ack
    <3> HIDE DEF row
    <3> QED BY <3>1, <3>2 DEF TypeOK
  <2>3. acks' \in Seq(AckRow)
    <3>1. f \in Nat
      BY DEF TypeOK, Fences
    <3> QED BY <1>6, <3>1 DEF TypeOK, Ack, AckRow
  <2> QED BY <1>6, <2>1, <2>2, <2>3 DEF TypeOK, Ack
<1>7. ASSUME NEW p \in Participants, NEW i \in DOMAIN messages, NEW f \in Fences,
             NEW now \in Nat, AckLapsed(p, i, f, now)
      PROVE  TypeOK'
  <2>1. claims' \in Seq(Claim)
    BY <1>7, EndedClaims DEF AckLapsed
  <2>2. messages' \in [DOMAIN messages -> Message]
    <3> DEFINE row == [messages[i] EXCEPT !.status = IF @ = "claimed" THEN "accepted" ELSE @]
    <3>1. row \in Message
      BY DEF TypeOK, Message
    <3>2. messages' = [messages EXCEPT ![i] = row]
      BY <1>7 DEF AckLapsed
    <3> HIDE DEF row
    <3> QED BY <3>1, <3>2 DEF TypeOK
  <2> QED BY <1>7, <2>1, <2>2 DEF TypeOK, AckLapsed
<1>8. CASE FinishRun
  BY <1>8 DEF TypeOK, FinishRun
<1>9. CASE Tick
  BY <1>9 DEF TypeOK, Tick, tables
<1>10. CASE UNCHANGED vars
  BY <1>10 DEF TypeOK, vars
<1>11. Sampled \subseteq Nat
  BY DEF Sampled
<1> QED
  BY <1>1, <1>2, <1>3, <1>4, <1>5, <1>6, <1>7, <1>8, <1>9, <1>10, <1>11 DEF Next, Request

\* Every table keeps its type through every operation: no request, however
\* late its sample of the clock, writes a row of another shape.
THEOREM TypeCorrect == Spec => []TypeOK
BY TypeInit, TypeStep, PTL DEF Spec

-----------------------------------------------------------------------------
(* Fencing.  One lemma per operation that touches messages, claims, acks   *)
(* or offers; FencingInv is the inductive invariant.                       *)

\* The fencing invariant holds of the empty tables.
LEMMA FencingInit == Init => FencingInv
BY TypeInit DEF Init, FencingInv, RowsRefer, OneHolder, HolderMatchesStatus, SettledIsDone,
   SettlesOnce, Fences

\* A new message has no claim, acknowledgement or offer yet.
LEMMA FencingAccept ==
  ASSUME FencingInv, TypeOK', NEW p, NEW id, NEW to, NEW c, NEW s, NEW now,
         AcceptMessage(p, id, to, c, s, now)
  PROVE  FencingInv'
<1>1. /\ DOMAIN messages' = DOMAIN messages \cup {id}
      /\ id \notin DOMAIN messages
      /\ \A i \in DOMAIN messages : messages'[i] = messages[i]
      /\ messages'[id].status = "accepted"
      /\ UNCHANGED <<claims, acks, offered>>
  BY DEF AcceptMessage, IsNew, NewMessage
<1>2. Fences' = Fences /\ \A i : ActiveOn(i)' = ActiveOn(i)
  BY <1>1 DEF Fences, ActiveOn
<1>3. RowsRefer'
  BY <1>1, <1>2 DEF FencingInv, RowsRefer, IsAnswered
<1>4. OneHolder'
  BY <1>1, <1>2 DEF FencingInv, RowsRefer, OneHolder
<1>5. HolderMatchesStatus'
  <2>1. ActiveOn(id) = {}
    BY <1>1 DEF FencingInv, RowsRefer, ActiveOn
  <2> QED BY <1>1, <1>2, <2>1 DEF FencingInv, HolderMatchesStatus
<1>6. SettledIsDone'
  BY <1>1, <1>2 DEF FencingInv, RowsRefer, IsAnswered, SettledIsDone, SettledForGood, Settling
<1>7. SettlesOnce'
  BY <1>1 DEF FencingInv, SettlesOnce, Settling
<1> QED BY <1>3, <1>4, <1>5, <1>6, <1>7 DEF FencingInv

\* After the sweep the tables still agree: the only active claim of a claimed
\* message is the one that lapsed with it.
LEMMA SweptAgree ==
  ASSUME FencingInv, NEW now \in Nat, NEW i \in DOMAIN messages
  PROVE  /\ MessagesAfterExpiry(now)[i].status = "accepted" =>
              \A f \in Fences : claims[f].message = i => ~ClaimsAfterExpiry(now)[f].active
         /\ MessagesAfterExpiry(now)[i].status = "claimed" =>
              \E f \in Fences : claims[f].message = i /\ ClaimsAfterExpiry(now)[f].active
<1>1. TypeOK
  BY DEF FencingInv
<1>2. /\ \A f \in Fences : ClaimsAfterExpiry(now)[f].active <=> claims[f].active /\ ~Lapsed(f, now)
      /\ MessagesAfterExpiry(now)[i].status =
           IF messages[i].status = "claimed" /\ LapsedOn(i, now)
           THEN "accepted" ELSE messages[i].status
  BY <1>1, ExpiryFields
<1>3. CASE messages[i].status = "claimed" /\ LapsedOn(i, now)
  <2>1. PICK f \in Fences : Lapsed(f, now) /\ claims[f].message = i
    BY <1>3 DEF LapsedOn
  <2>2. \A g \in Fences : claims[g].message = i /\ g # f => ~claims[g].active
    BY <2>1 DEF FencingInv, OneHolder, Lapsed
  <2> QED BY <1>2, <1>3, <2>1, <2>2
<1>4. CASE messages[i].status = "claimed" /\ ~LapsedOn(i, now)
  <2>1. PICK f \in Fences : claims[f].message = i /\ claims[f].active
    BY <1>4 DEF FencingInv, HolderMatchesStatus, ActiveOn
  <2>2. ~Lapsed(f, now)
    BY <1>4, <2>1 DEF LapsedOn
  <2> QED BY <1>2, <1>4, <2>1, <2>2
<1>5. CASE messages[i].status # "claimed"
  <2>1. messages[i].status = "accepted" => \A f \in Fences : claims[f].message = i => ~claims[f].active
    BY DEF FencingInv, HolderMatchesStatus, ActiveOn
  <2> QED BY <1>2, <1>5, <2>1
<1> QED BY <1>3, <1>4, <1>5

\* A sweep alone keeps the two tables in agreement.
LEMMA FencingClaimNothing ==
  ASSUME FencingInv, TypeOK', NEW p, NEW now \in Nat, ClaimNothing(p, now)
  PROVE  FencingInv'
<1>1. TypeOK
  BY DEF FencingInv
<1>2. /\ messages' = MessagesAfterExpiry(now)
      /\ claims' = ClaimsAfterExpiry(now)
      /\ UNCHANGED <<acks, offered>>
  BY DEF ClaimNothing
<1>3. Fences' = Fences /\ DOMAIN messages' = DOMAIN messages
  BY <1>1, <1>2, ExpiryTypes DEF Fences
<1>4. \A f \in Fences : /\ claims'[f].message = claims[f].message
                        /\ claims'[f].claimant = claims[f].claimant
                        /\ claims'[f].active => claims[f].active
  BY <1>1, <1>2, ExpiryFields
<1>5. \A i \in DOMAIN messages : /\ messages'[i].to = messages[i].to
                                 /\ messages[i].status = "done" => messages'[i].status = "done"
  BY <1>1, <1>2, ExpiryFields
<1>6. RowsRefer'
  BY <1>2, <1>3, <1>4, <1>5 DEF FencingInv, RowsRefer, IsAnswered
<1>7. OneHolder'
  BY <1>3, <1>4, <1>5 DEF FencingInv, OneHolder, RowsRefer
<1>8. HolderMatchesStatus'
  BY <1>2, <1>3, <1>4, SweptAgree DEF HolderMatchesStatus, ActiveOn
<1>9. SettledIsDone'
  BY <1>2, <1>3, <1>4, <1>5
  DEF FencingInv, RowsRefer, IsAnswered, SettledIsDone, SettledForGood, Settling, ActiveOn
<1>10. SettlesOnce'
  BY <1>2 DEF FencingInv, SettlesOnce, Settling
<1> QED BY <1>6, <1>7, <1>8, <1>9, <1>10 DEF FencingInv

\* The new fence is the newest of its message, and no other is active on it.
LEMMA FencingClaimNext ==
  ASSUME FencingInv, TypeOK', NEW p \in Participants, NEW now \in Nat, ClaimNext(p, now)
  PROVE  FencingInv'
<1> DEFINE n == Len(claims) + 1
<1>1. TypeOK
  BY DEF FencingInv
<1>2. PICK i \in Oldest(Waiting(p, now)) :
        /\ messages' = [MessagesAfterExpiry(now) EXCEPT
                          ![i].status = "claimed", ![i].attempts = @ + 1]
        /\ claims' = Append(ClaimsAfterExpiry(now), NewClaim(p, i, now))
  BY DEF ClaimNext
<1>3. /\ i \in DOMAIN messages
      /\ messages[i].to = p
      /\ MessagesAfterExpiry(now)[i].status = "accepted"
  BY DEF Oldest, Waiting
<1>4. UNCHANGED <<acks, offered>>
  BY DEF ClaimNext
<1>5. Len(claims) \in Nat /\ Fences = 1..Len(claims) /\ Fences' = 1..n
  BY <1>1, <1>2, <1>3, ExpiryTypes, NewClaimType DEF Fences, TypeOK
<1>6. \A f \in Fences : /\ f # n
                        /\ claims'[f].message = claims[f].message
                        /\ claims'[f].claimant = claims[f].claimant
                        /\ claims'[f].active <=> ClaimsAfterExpiry(now)[f].active
                        /\ claims'[f].active => claims[f].active
  <2>1. \A f \in Fences : f # n /\ claims'[f] = ClaimsAfterExpiry(now)[f]
    BY <1>1, <1>2, <1>3, <1>5, ExpiryTypes, NewClaimType
  <2> QED BY <1>1, <2>1, ExpiryFields
<1>7. claims'[n].message = i /\ claims'[n].claimant = p /\ claims'[n].active
  <2>1. claims'[n] = NewClaim(p, i, now)
    BY <1>1, <1>2, <1>3, <1>5, ExpiryTypes, NewClaimType
  <2> QED BY <2>1 DEF NewClaim
<1>8. /\ DOMAIN messages' = DOMAIN messages
      /\ messages'[i].status = "claimed"
      /\ \A j \in DOMAIN messages :
           /\ messages'[j].to = messages[j].to
           /\ j # i => messages'[j].status = MessagesAfterExpiry(now)[j].status
  <2>1. \A j \in DOMAIN messages : MessagesAfterExpiry(now)[j] \in Message
    BY <1>1, ExpiryTypes
  <2>2. /\ DOMAIN messages' = DOMAIN messages
        /\ \A j \in DOMAIN messages : j # i => messages'[j] = MessagesAfterExpiry(now)[j]
        /\ messages'[i] = [MessagesAfterExpiry(now)[i] EXCEPT !.status = "claimed", !.attempts = @ + 1]
    BY <1>1, <1>2, <1>3, <2>1, ExpiryTypes DEF Message
  <2>3. messages'[i].status = "claimed" /\ messages'[i].to = MessagesAfterExpiry(now)[i].to
    BY <1>3, <2>1, <2>2 DEF Message
  <2>4. \A j \in DOMAIN messages : MessagesAfterExpiry(now)[j].to = messages[j].to
    BY <1>1, ExpiryFields
  <2>5. \A j \in DOMAIN messages : messages'[j].to = messages[j].to
    BY <1>3, <2>2, <2>3, <2>4
  <2> QED BY <2>2, <2>3, <2>5
<1>9. messages[i].status # "done" /\ \A j \in DOMAIN messages :
        messages[j].status = "done" => messages'[j].status = "done"
  BY <1>1, <1>3, <1>8, ExpiryFields
<1>10. \A f \in Fences : claims[f].message = i => ~claims'[f].active
  BY <1>3, <1>6, SweptAgree
<1> HIDE DEF n
<1>11. RowsRefer'
  <2>1. \A f \in Fences : f \in Fences'
    BY <1>5 DEF n
  <2>2. n \in Fences' /\ \A f \in Fences' : f \in Fences \/ f = n
    BY <1>5 DEF n
  <2> QED BY <1>3, <1>4, <1>6, <1>7, <1>8, <2>1, <2>2 DEF FencingInv, RowsRefer, IsAnswered
<1>12. OneHolder'
  <2> SUFFICES ASSUME NEW f \in Fences', NEW g \in Fences',
                      claims'[f].message = claims'[g].message, claims'[f].active
               PROVE  /\ claims'[f].claimant = messages'[claims'[f].message].to
                      /\ g # f => ~claims'[g].active /\ g < f
    BY DEF OneHolder
  <2>1. CASE f = n
    <3>1. g # f => g \in Fences /\ g < f
      BY <1>5, <2>1 DEF n
    <3> QED BY <1>3, <1>6, <1>7, <1>8, <1>10, <2>1, <3>1
  <2>2. CASE f # n
    <3>1. f \in Fences
      BY <1>5, <2>2 DEF n
    <3>2. claims[f].active /\ claims[f].message # i
      BY <1>6, <1>10, <2>2, <3>1
    <3>3. g # n /\ g \in Fences
      BY <1>5, <1>6, <1>7, <3>1, <3>2 DEF n
    <3> QED BY <1>6, <1>8, <3>1, <3>2, <3>3 DEF FencingInv, OneHolder, RowsRefer
  <2> QED BY <2>1, <2>2
<1>13. HolderMatchesStatus'
  <2> SUFFICES ASSUME NEW j \in DOMAIN messages
               PROVE  /\ messages'[j].status = "claimed" => ActiveOn(j)' # {}
                      /\ messages'[j].status = "accepted" => ActiveOn(j)' = {}
    BY <1>8 DEF HolderMatchesStatus
  <2>1. \A f \in Fences' : f \in Fences \/ f = n
    BY <1>5 DEF n
  <2>2. n \in Fences' /\ Fences \subseteq Fences'
    BY <1>5 DEF n
  <2>3. CASE j = i
    BY <1>7, <1>8, <2>2, <2>3 DEF ActiveOn
  <2>4. CASE j # i
    BY <1>6, <1>7, <1>8, <2>1, <2>2, <2>4, SweptAgree DEF ActiveOn
  <2> QED BY <2>3, <2>4
<1>14. SettledIsDone'
  <2> SUFFICES ASSUME NEW a \in DOMAIN acks, NEW j \in DOMAIN messages,
                      SettledForGood(a), acks[a].message = j
               PROVE  messages'[j].status = "done" /\ ActiveOn(j)' = {}
    BY <1>4, <1>8 DEF SettledIsDone, SettledForGood, Settling
  <2>1. messages[j].status = "done" /\ ActiveOn(j) = {}
    BY DEF FencingInv, SettledIsDone
  <2>2. messages'[j].status = "done" /\ j # i
    BY <1>9, <2>1
  <2>3. \A f \in Fences' : f \in Fences \/ f = n
    BY <1>5 DEF n
  <2>4. ActiveOn(j)' = {}
    BY <1>6, <1>7, <2>1, <2>2, <2>3 DEF ActiveOn
  <2> QED BY <2>2, <2>4
<1>15. SettlesOnce'
  BY <1>4 DEF FencingInv, SettlesOnce, Settling
<1> QED BY <1>11, <1>12, <1>13, <1>14, <1>15 DEF FencingInv

\* The offer is the newest fence of a message that nobody held.  It is younger
\* than every acknowledgement of the message so far.
LEMMA FencingReoffer ==
  ASSUME FencingInv, TypeOK', NEW p \in Participants, NEW i \in DOMAIN messages,
         NEW now \in Nat, Reoffer(p, i, now)
  PROVE  FencingInv'
<1> DEFINE n == Len(claims) + 1
<1>1. TypeOK
  BY DEF FencingInv
<1>2. /\ messages[i].to = p
      /\ messages[i].status = "done"
      /\ ActiveOn(i) = {}
      /\ i \notin DOMAIN offered
      /\ claims' = Append(claims, NewClaim(p, i, now))
      /\ UNCHANGED acks
  BY DEF Reoffer, Reofferable
<1>3. Len(claims) \in Nat /\ Fences = 1..Len(claims) /\ Fences' = 1..n
  BY <1>1, <1>2, NewClaimType DEF Fences, TypeOK
<1>4. \A f \in Fences : f # n /\ claims'[f] = claims[f]
  BY <1>1, <1>2, <1>3, NewClaimType DEF TypeOK
<1>5. claims'[n].message = i /\ claims'[n].claimant = p /\ claims'[n].active
  <2>1. claims'[n] = NewClaim(p, i, now)
    BY <1>1, <1>2, <1>3, NewClaimType DEF TypeOK
  <2> QED BY <2>1 DEF NewClaim
<1>6. /\ DOMAIN messages' = DOMAIN messages
      /\ \A j \in DOMAIN messages : /\ messages'[j].to = messages[j].to
                                    /\ messages'[j].status = messages[j].status
  <2>1. \A j \in DOMAIN messages : messages[j] \in Message
    BY <1>1 DEF TypeOK
  <2>2. /\ DOMAIN messages' = DOMAIN messages
        /\ \A j \in DOMAIN messages : j # i => messages'[j] = messages[j]
        /\ messages'[i] = [messages[i] EXCEPT !.attempts = @ + 1]
    BY DEF Reoffer
  <2>3. messages'[i].to = messages[i].to /\ messages'[i].status = messages[i].status
    BY <2>1, <2>2 DEF Message
  <2> QED BY <2>2, <2>3
<1>7. /\ DOMAIN offered' = DOMAIN offered \cup {i}
      /\ offered'[i] = n
      /\ \A j \in DOMAIN offered : j # i /\ offered'[j] = offered[j]
  BY <1>2 DEF Reoffer
<1>8. Fences \subseteq Fences' /\ n \in Fences' /\ \A f \in Fences' : f \in Fences \/ f = n
  BY <1>3 DEF n
<1>9. \A f \in Fences : f < n
  BY <1>3 DEF n
<1> HIDE DEF n
<1>10. RowsRefer'
  <2>1. \A f \in Fences' : /\ claims'[f].message \in DOMAIN messages
                           /\ claims'[f].claimant = messages'[claims'[f].message].to
    <3>1. \A f \in Fences : /\ claims'[f].message \in DOMAIN messages
                            /\ claims'[f].claimant = messages'[claims'[f].message].to
      BY <1>4, <1>6 DEF FencingInv, RowsRefer
    <3>2. /\ claims'[n].message \in DOMAIN messages
          /\ claims'[n].claimant = messages'[claims'[n].message].to
      BY <1>2, <1>5, <1>6
    <3> QED BY <1>8, <3>1, <3>2
  <2>2. \A a \in DOMAIN acks : IsAnswered(acks[a].message, acks[a].fence)'
    BY <1>2, <1>4, <1>8 DEF FencingInv, RowsRefer, IsAnswered
  <2>3. \A j \in DOMAIN offered' : offered'[j] \in Fences' /\ claims'[offered'[j]].message = j
    BY <1>4, <1>5, <1>7, <1>8 DEF FencingInv, RowsRefer
  <2> QED BY <1>2, <1>6, <2>1, <2>2, <2>3 DEF RowsRefer
<1>11. OneHolder'
  <2> SUFFICES ASSUME NEW f \in Fences', NEW g \in Fences',
                      claims'[f].message = claims'[g].message, claims'[f].active
               PROVE  /\ claims'[f].claimant = messages'[claims'[f].message].to
                      /\ g # f => ~claims'[g].active /\ g < f
    BY DEF OneHolder
  <2>1. CASE f = n
    BY <1>2, <1>4, <1>5, <1>6, <1>8, <1>9, <2>1 DEF ActiveOn
  <2>2. CASE f # n
    <3>1. f \in Fences /\ claims[f].active /\ claims[f].message # i
      BY <1>2, <1>4, <1>8, <2>2 DEF ActiveOn
    <3>2. g \in Fences
      BY <1>4, <1>5, <1>8, <3>1
    <3> QED BY <1>4, <1>6, <3>1, <3>2 DEF FencingInv, OneHolder, RowsRefer
  <2> QED BY <2>1, <2>2
<1>12. HolderMatchesStatus'
  <2> SUFFICES ASSUME NEW j \in DOMAIN messages
               PROVE  /\ messages'[j].status = "claimed" => ActiveOn(j)' # {}
                      /\ messages'[j].status = "accepted" => ActiveOn(j)' = {}
    BY <1>6 DEF HolderMatchesStatus
  <2>1. CASE j = i
    BY <1>2, <1>6, <2>1
  <2>2. CASE j # i
    <3>1. ActiveOn(j)' = ActiveOn(j)
      BY <1>4, <1>5, <1>8, <2>2 DEF ActiveOn
    <3> QED BY <1>6, <3>1 DEF FencingInv, HolderMatchesStatus
  <2> QED BY <2>1, <2>2
<1>13. ASSUME NEW a \in DOMAIN acks, SettledForGood(a)'
       PROVE  SettledForGood(a) /\ acks[a].message # i
  <2>1. acks[a].fence \in Fences
    BY DEF FencingInv, RowsRefer, IsAnswered
  <2>2. acks[a].fence < n /\ acks[a].fence \in Nat /\ n \in Nat
    BY <1>3, <1>9, <2>1 DEF n
  <2>3. ~(n <= acks[a].fence)
    BY <2>2
  <2> QED BY <1>2, <1>7, <1>13, <2>3 DEF SettledForGood, Settling
<1>14. SettledIsDone'
  <2> SUFFICES ASSUME NEW a \in DOMAIN acks, NEW j \in DOMAIN messages,
                      SettledForGood(a)', acks[a].message = j
               PROVE  messages'[j].status = "done" /\ ActiveOn(j)' = {}
    BY <1>2, <1>6 DEF SettledIsDone
  <2>1. SettledForGood(a) /\ j # i
    BY <1>13
  <2>2. messages[j].status = "done" /\ ActiveOn(j) = {}
    BY <2>1 DEF FencingInv, SettledIsDone
  <2>3. ActiveOn(j)' = {}
    BY <1>4, <1>5, <1>8, <2>1, <2>2 DEF ActiveOn
  <2> QED BY <1>6, <2>2, <2>3



<1>15. SettlesOnce'
  <2> SUFFICES ASSUME NEW a \in DOMAIN acks, NEW b \in DOMAIN acks, a < b,
                      acks[a].message = acks[b].message, Settling(a), Settling(b)
               PROVE  /\ acks[b].message \in DOMAIN offered'
                      /\ acks[a].fence < offered'[acks[b].message]
                      /\ offered'[acks[b].message] <= acks[b].fence
    BY <1>2 DEF SettlesOnce, Settling
  <2>1. /\ acks[b].message \in DOMAIN offered
        /\ acks[a].fence < offered[acks[b].message]
        /\ offered[acks[b].message] <= acks[b].fence
    BY DEF FencingInv, SettlesOnce
  <2> QED BY <1>7, <2>1
<1> QED BY <1>10, <1>11, <1>12, <1>14, <1>15 DEF FencingInv

\* A current fence is the newest of its message: its message was not settled
\* for good before, and an earlier settlement is older than the offer.
LEMMA FencingAck ==
  ASSUME FencingInv, TypeOK', NEW p, NEW i \in DOMAIN messages, NEW f \in Fences,
         NEW st \in AckStatuses, NEW note \in Notes, NEW now, Ack(p, i, f, st, note, now)
  PROVE  FencingInv'
<1> DEFINE b == Len(acks) + 1
<1>1. TypeOK
  BY DEF FencingInv
<1>2. /\ claims[f].message = i
      /\ claims[f].active
      /\ claims' = [claims EXCEPT ![f].active = FALSE]
      /\ acks' = Append(acks, [message |-> i, fence |-> f, status |-> st, note |-> note])
      /\ UNCHANGED offered
  BY DEF Ack, IsClaim, Current
<1>3. /\ Fences' = Fences
      /\ \A g \in Fences : /\ claims'[g].message = claims[g].message
                           /\ claims'[g].claimant = claims[g].claimant
                           /\ claims'[g].active <=> claims[g].active /\ g # f
  <2>1. \A g \in Fences : claims[g] \in Claim
    BY <1>1 DEF TypeOK, Fences
  <2>2. Fences' = Fences
    BY <1>1, <1>2, EndedClaims DEF Fences
  <2> QED BY <1>2, <2>1, <2>2 DEF Claim, Fences
<1>4. \A g \in Fences : claims[g].message = i /\ g # f => ~claims[g].active /\ g < f
  BY <1>2 DEF FencingInv, OneHolder
<1>5. /\ DOMAIN messages' = DOMAIN messages
      /\ \A j \in DOMAIN messages : /\ messages'[j].to = messages[j].to
                                    /\ j # i => messages'[j].status = messages[j].status
      /\ messages'[i].status = StatusAfterAck(st)
  <2>1. \A j \in DOMAIN messages : messages[j] \in Message
    BY <1>1 DEF TypeOK
  <2>2. messages[i].status \in {"claimed", "done"}
    <3>1. messages[i].status # "accepted"
      BY <1>2 DEF FencingInv, HolderMatchesStatus, ActiveOn
    <3> QED BY <2>1, <3>1 DEF Message
  <2>3. /\ DOMAIN messages' = DOMAIN messages
        /\ \A j \in DOMAIN messages : j # i => messages'[j] = messages[j]
        /\ messages'[i] = [messages[i] EXCEPT !.status = StatusAfterAck(st),
                              !.done = IF st = "retryable" THEN "null" ELSE st]
    BY <2>2 DEF Ack
  <2>4. messages'[i].status = StatusAfterAck(st) /\ messages'[i].to = messages[i].to
    BY <2>1, <2>3 DEF Message
  <2> QED BY <2>3, <2>4
<1>6. /\ DOMAIN acks' = DOMAIN acks \cup {b}
      /\ b \in Nat /\ \A a \in DOMAIN acks : a \in Nat /\ a < b /\ acks'[a] = acks[a]
      /\ acks'[b] = [message |-> i, fence |-> f, status |-> st, note |-> note]
  <2>1. [message |-> i, fence |-> f, status |-> st, note |-> note] \in AckRow
    BY <1>1 DEF TypeOK, AckRow, Fences
  <2> QED BY <1>1, <1>2, <2>1 DEF TypeOK
<1> HIDE DEF b
<1>7. ActiveOn(i)' = {} /\ \A j : j # i => ActiveOn(j)' = ActiveOn(j)
  BY <1>2, <1>3, <1>4 DEF ActiveOn
<1>8. RowsRefer'
  <2>1. \A g \in Fences' : /\ claims'[g].message \in DOMAIN messages
                           /\ claims'[g].claimant = messages'[claims'[g].message].to
    BY <1>3, <1>5 DEF FencingInv, RowsRefer
  <2>2. \A a \in DOMAIN acks : IsAnswered(acks[a].message, acks[a].fence)'
    BY <1>3, <1>6 DEF FencingInv, RowsRefer, IsAnswered
  <2>3. IsAnswered(i, f)'
    BY <1>2, <1>3 DEF IsAnswered
  <2>4. \A j \in DOMAIN offered : offered[j] \in Fences' /\ claims'[offered[j]].message = j
    BY <1>3 DEF FencingInv, RowsRefer
  <2>5. \A a \in DOMAIN acks' : IsAnswered(acks[a].message, acks[a].fence)'
    BY <1>6, <2>2, <2>3 DEF IsAnswered
  <2> QED BY <1>2, <1>5, <2>1, <2>4, <2>5 DEF RowsRefer
<1>9. OneHolder'
  BY <1>3, <1>5 DEF FencingInv, OneHolder, RowsRefer
<1>10. HolderMatchesStatus'
  BY <1>5, <1>7 DEF FencingInv, HolderMatchesStatus, StatusAfterAck
<1>11. ASSUME NEW a \in DOMAIN acks, acks[a].message = i, Settling(a)
       PROVE  i \in DOMAIN offered /\ acks[a].fence < offered[i] /\ offered[i] <= f
  <2>1. ~SettledForGood(a)
    BY <1>2, <1>11 DEF FencingInv, SettledIsDone, ActiveOn
  <2>2. i \in DOMAIN offered /\ ~(offered[i] <= acks[a].fence)
    BY <1>11, <2>1 DEF SettledForGood
  <2>3. acks[a].fence \in Nat /\ offered[i] \in Nat
    <3>1. acks[a] \in AckRow
      BY <1>1 DEF TypeOK
    <3> QED BY <1>1, <2>2, <3>1 DEF TypeOK, AckRow
  <2>4. offered[i] \in Fences /\ claims[offered[i]].message = i
    BY <2>2 DEF FencingInv, RowsRefer
  <2>5. offered[i] <= f
    <3>1. f \in Nat
      BY <1>1 DEF TypeOK, Fences
    <3> QED BY <1>4, <2>3, <2>4, <3>1
  <2> QED BY <2>2, <2>3, <2>5
<1>12. SettledIsDone'
  <2> SUFFICES ASSUME NEW a \in DOMAIN acks', NEW j \in DOMAIN messages,
                      SettledForGood(a)', acks'[a].message = j
               PROVE  messages'[j].status = "done" /\ ActiveOn(j)' = {}
    BY <1>5 DEF SettledIsDone
  <2>1. CASE a = b
    <3>1. j = i /\ StatusAfterAck(st) = "done"
      BY <1>6, <2>1 DEF SettledForGood, Settling, StatusAfterAck
    <3> QED BY <1>5, <1>7, <3>1
  <2>2. CASE a # b
    <3>1. a \in DOMAIN acks /\ acks[a].message = j /\ SettledForGood(a)
      BY <1>2, <1>6, <2>2 DEF SettledForGood, Settling
    <3>2. messages[j].status = "done" /\ ActiveOn(j) = {}
      BY <3>1 DEF FencingInv, SettledIsDone
    <3>3. j # i
      BY <1>2, <3>2 DEF ActiveOn
    <3> QED BY <1>5, <1>7, <3>2, <3>3
  <2> QED BY <2>1, <2>2
<1>13. SettlesOnce'
  <2> SUFFICES ASSUME NEW a \in DOMAIN acks', NEW c \in DOMAIN acks', a < c,
                      acks'[a].message = acks'[c].message, Settling(a)', Settling(c)'
               PROVE  /\ acks'[c].message \in DOMAIN offered
                      /\ acks'[a].fence < offered[acks'[c].message]
                      /\ offered[acks'[c].message] <= acks'[c].fence
    BY <1>2 DEF SettlesOnce
  <2>1. a \in DOMAIN acks /\ acks'[a] = acks[a] /\ Settling(a)
    BY <1>6 DEF Settling
  <2>2. CASE c = b
    BY <1>6, <1>11, <2>1, <2>2
  <2>3. CASE c # b
    BY <1>6, <2>1, <2>3 DEF FencingInv, SettlesOnce, Settling
  <2> QED BY <2>2, <2>3
<1> QED BY <1>8, <1>9, <1>10, <1>12, <1>13 DEF FencingInv

\* A refused acknowledgement ends one lapsed claim and frees what it held.
LEMMA FencingAckLapsed ==
  ASSUME FencingInv, TypeOK', NEW p, NEW i \in DOMAIN messages, NEW f \in Fences,
         NEW now, AckLapsed(p, i, f, now)
  PROVE  FencingInv'
<1>1. TypeOK
  BY DEF FencingInv
<1>2. /\ claims[f].message = i
      /\ claims[f].active
      /\ claims' = [claims EXCEPT ![f].active = FALSE]
      /\ UNCHANGED <<acks, offered>>
  BY DEF AckLapsed, IsClaim, Lapsed
<1>3. /\ Fences' = Fences
      /\ \A g \in Fences : /\ claims'[g].message = claims[g].message
                           /\ claims'[g].claimant = claims[g].claimant
                           /\ claims'[g].active <=> claims[g].active /\ g # f
  <2>1. \A g \in Fences : claims[g] \in Claim
    BY <1>1 DEF TypeOK, Fences
  <2>2. Fences' = Fences
    BY <1>1, <1>2, EndedClaims DEF Fences
  <2> QED BY <1>2, <2>1, <2>2 DEF Claim, Fences
<1>4. ActiveOn(i)' = {} /\ \A j : j # i => ActiveOn(j)' = ActiveOn(j)
  BY <1>2, <1>3 DEF FencingInv, OneHolder, ActiveOn
<1>5. /\ DOMAIN messages' = DOMAIN messages
      /\ \A j \in DOMAIN messages : /\ messages'[j].to = messages[j].to
                                    /\ j # i => messages'[j].status = messages[j].status
      /\ messages'[i].status =
           IF messages[i].status = "claimed" THEN "accepted" ELSE messages[i].status
  <2>1. \A j \in DOMAIN messages : messages[j] \in Message
    BY <1>1 DEF TypeOK
  <2>2. /\ DOMAIN messages' = DOMAIN messages
        /\ \A j \in DOMAIN messages : j # i => messages'[j] = messages[j]
        /\ messages'[i] = [messages[i] EXCEPT !.status = IF @ = "claimed" THEN "accepted" ELSE @]
    BY DEF AckLapsed
  <2>3. /\ messages'[i].status =
             IF messages[i].status = "claimed" THEN "accepted" ELSE messages[i].status
        /\ messages'[i].to = messages[i].to
    BY <2>1, <2>2 DEF Message
  <2> QED BY <2>2, <2>3
<1>6. RowsRefer'
  BY <1>2, <1>3, <1>5 DEF FencingInv, RowsRefer, IsAnswered
<1>7. OneHolder'
  BY <1>3, <1>5 DEF FencingInv, OneHolder, RowsRefer
<1>8. HolderMatchesStatus'
  BY <1>4, <1>5 DEF FencingInv, HolderMatchesStatus
<1>9. SettledIsDone'
  <2> SUFFICES ASSUME NEW a \in DOMAIN acks, NEW j \in DOMAIN messages,
                      SettledForGood(a), acks[a].message = j
               PROVE  messages'[j].status = "done" /\ ActiveOn(j)' = {}
    BY <1>2, <1>5 DEF SettledIsDone, SettledForGood, Settling
  <2>1. messages[j].status = "done" /\ ActiveOn(j) = {}
    BY DEF FencingInv, SettledIsDone
  <2>2. j # i
    BY <1>2, <2>1 DEF ActiveOn
  <2> QED BY <1>4, <1>5, <2>1, <2>2
<1>10. SettlesOnce'
  BY <1>2 DEF FencingInv, SettlesOnce, Settling
<1> QED BY <1>6, <1>7, <1>8, <1>9, <1>10 DEF FencingInv

\* Hints, the end of the run, the clock, and stuttering leave these tables alone.
LEMMA FencingElse ==
  ASSUME FencingInv, TypeOK', UNCHANGED <<messages, claims, acks, offered>>
  PROVE  FencingInv'
BY DEF FencingInv, RowsRefer, IsAnswered, OneHolder, HolderMatchesStatus, SettledIsDone,
       SettledForGood, Settling, SettlesOnce, ActiveOn, Fences

\* Every step of the mailbox preserves the fencing invariant.
LEMMA FencingStep ==
  ASSUME FencingInv, [Next]_vars
  PROVE  FencingInv'
<1>1. TypeOK'
  BY TypeStep DEF FencingInv
<1>2. Sampled \subseteq Nat
  BY DEF Sampled
<1>3. ASSUME NEW p \in Participants, NEW now \in Sampled, Request(p, now)
      PROVE  FencingInv'
  <2>1. CASE \E id \in MessageIds, to \in Participants, c \in Contents, s \in BOOLEAN :
               AcceptMessage(p, id, to, c, s, now)
    BY <1>1, <2>1, FencingAccept
  <2>2. CASE PopNotify(p)
    BY <1>1, <2>2, FencingElse DEF PopNotify
  <2>3. CASE ClaimNext(p, now)
    BY <1>1, <1>2, <2>3, FencingClaimNext
  <2>4. CASE ClaimNothing(p, now)
    BY <1>1, <1>2, <2>4, FencingClaimNothing
  <2>5. CASE \E i \in DOMAIN messages : Reoffer(p, i, now)
    BY <1>1, <1>2, <2>5, FencingReoffer
  <2>6. CASE \E i \in DOMAIN messages, f \in Fences : AckLapsed(p, i, f, now)
    BY <1>1, <2>6, FencingAckLapsed
  <2>7. CASE \E i \in DOMAIN messages, f \in Fences, st \in AckStatuses, note \in Notes :
               Ack(p, i, f, st, note, now)
    BY <1>1, <2>7, FencingAck
  <2> QED BY <1>3, <2>1, <2>2, <2>3, <2>4, <2>5, <2>6, <2>7 DEF Request
<1>4. CASE FinishRun
  BY <1>1, <1>4, FencingElse DEF FinishRun
<1>5. CASE Tick
  BY <1>1, <1>5, FencingElse DEF Tick, tables
<1>6. CASE UNCHANGED vars
  BY <1>1, <1>6, FencingElse DEF vars
<1> QED BY <1>3, <1>4, <1>5, <1>6 DEF Next

\* The fencing invariant holds in every reachable state.
THEOREM Fencing == Spec => []FencingInv
BY FencingInit, FencingStep, PTL DEF Spec

\* Two claims of one message are never active together, whatever the schedule.
THEOREM FencingOneHolder == Spec => []OneHolder
<1>1. FencingInv => OneHolder
  BY DEF FencingInv
<1> QED BY <1>1, Fencing, PTL

\* The messages and claims tables always agree on who holds what.
THEOREM TablesAgree == Spec => []HolderMatchesStatus
<1>1. FencingInv => HolderMatchesStatus
  BY DEF FencingInv
<1> QED BY <1>1, Fencing, PTL

\* A message is settled once, and a second time only through its one offer.
THEOREM SettledOnce == Spec => []SettlesOnce
<1>1. FencingInv => SettlesOnce
  BY DEF FencingInv
<1> QED BY <1>1, Fencing, PTL

-----------------------------------------------------------------------------
(* Leases and late acknowledgements.                                       *)

\* The row ack inserts.
LEMMA NewAck ==
  ASSUME TypeOK, NEW p, NEW i, NEW f, NEW st, NEW note, NEW now, Ack(p, i, f, st, note, now)
  PROVE  /\ DOMAIN acks' \ DOMAIN acks = {Len(acks) + 1}
         /\ acks'[Len(acks) + 1].message = i
         /\ acks'[Len(acks) + 1].fence = f
<1>1. acks' = Append(acks, [message |-> i, fence |-> f, status |-> st, note |-> note])
  BY DEF Ack
<1>2. acks \in Seq(AckRow)
  BY DEF TypeOK
<1> QED BY <1>1, <1>2

\* What is acknowledged is held, and the holder has the newest fence.
LEMMA NewestStep ==
  ASSUME FencingInv, [Next]_vars
  PROVE  AckedByNewest
<1>1. CASE UNCHANGED acks
  BY <1>1 DEF AckedByNewest
<1>2. ASSUME NEW p, NEW i, NEW f \in Fences, NEW st, NEW note, NEW now, Ack(p, i, f, st, note, now)
      PROVE  AckedByNewest
  <2>1. claims[f].message = i /\ claims[f].active
    BY <1>2 DEF Ack, IsClaim, Current
  <2>2. \A g \in Fences : claims[g].message = i => g = f \/ g < f
    BY <2>1 DEF FencingInv, OneHolder
  <2>3. f \in Nat
    BY DEF FencingInv, TypeOK, Fences
  <2>4. /\ DOMAIN acks' \ DOMAIN acks = {Len(acks) + 1}
        /\ acks'[Len(acks) + 1].message = i
        /\ acks'[Len(acks) + 1].fence = f
    BY <1>2, NewAck DEF FencingInv
  <2>5. Fences \subseteq Nat
    BY DEF FencingInv, TypeOK, Fences
  <2> QED BY <2>2, <2>3, <2>4, <2>5 DEF AckedByNewest
<1>3. CASE \E p \in Participants, now \in Sampled : Request(p, now)
  <2>1. PICK p \in Participants, now \in Sampled : Request(p, now)
    BY <1>3
  <2>2. CASE \E i \in DOMAIN messages, f \in Fences, st \in AckStatuses, note \in Notes :
               Ack(p, i, f, st, note, now)
    BY <1>2, <2>2
  <2> QED BY <1>1, <2>1, <2>2 DEF Request, AcceptMessage, PopNotify, ClaimNext, ClaimNothing,
                                  Reoffer, AckLapsed
<1> QED BY <1>1, <1>3 DEF Next, FinishRun, Tick, tables, vars

\* No stale fence acknowledges.
THEOREM NewestAcknowledges == Spec => NewestFenceAcks
<1>1. FencingInv /\ [Next]_vars => [AckedByNewest]_vars
  BY NewestStep
<1> QED BY <1>1, Fencing, PTL DEF Spec, NewestFenceAcks

\* A hold ends by the sweep, with a sample that is not ahead of the clock, or by
\* an acknowledgement under its own fence.
LEMMA LeaseStep ==
  ASSUME TypeOK, [Next]_vars
  PROVE  LeaseKept
<1>1. clock \in Nat /\ \A f \in Fences : claims[f] \in Claim /\ claims[f].expiresAt \in Nat
  <2>1. clock \in Nat /\ \A f \in Fences : claims[f] \in Claim
    BY DEF TypeOK, Fences
  <2> QED BY <2>1 DEF Claim
<1>2. \A f \in Fences, now \in Sampled : Lapsed(f, now) => claims[f].expiresAt < clock
  BY <1>1 DEF Lapsed, Sampled
<1>3. CASE UNCHANGED claims
  BY <1>3 DEF LeaseKept
<1>4. ASSUME NEW p \in Participants, NEW now \in Sampled, Request(p, now)
      PROVE  LeaseKept
  <2>1. now \in Nat
    BY DEF Sampled
  <2>2. CASE \E id \in MessageIds, to \in Participants, c \in Contents, s \in BOOLEAN :
               AcceptMessage(p, id, to, c, s, now)
    BY <1>3, <2>2 DEF AcceptMessage
  <2>3. CASE PopNotify(p)
    BY <1>3, <2>3 DEF PopNotify
  <2>4. CASE ClaimNext(p, now)
    <3>1. PICK i \in Oldest(Waiting(p, now)) :
            claims' = Append(ClaimsAfterExpiry(now), NewClaim(p, i, now))
      BY <2>4 DEF ClaimNext
    <3>2. \A f \in Fences : claims'[f] = ClaimsAfterExpiry(now)[f]
      BY <2>1, <3>1, ExpiryTypes DEF Fences, TypeOK
    <3> QED BY <1>2, <2>1, <3>2, ExpiryFields DEF LeaseKept
  <2>5. CASE ClaimNothing(p, now)
    BY <1>2, <2>1, <2>5, ExpiryFields DEF ClaimNothing, LeaseKept
  <2>6. CASE \E i \in DOMAIN messages : Reoffer(p, i, now)
    <3>1. PICK i \in DOMAIN messages : claims' = Append(claims, NewClaim(p, i, now))
      BY <2>6 DEF Reoffer
    <3>2. \A f \in Fences : claims'[f] = claims[f]
      BY <3>1 DEF Fences, TypeOK
    <3> QED BY <3>2 DEF LeaseKept
  <2>7. ASSUME NEW i \in DOMAIN messages, NEW f \in Fences, AckLapsed(p, i, f, now)
        PROVE  LeaseKept
    <3>1. Lapsed(f, now) /\ claims' = [claims EXCEPT ![f].active = FALSE]
      BY <2>7 DEF AckLapsed
    <3>2. \A g \in Fences : g # f => claims'[g] = claims[g]
      BY <3>1 DEF Fences, TypeOK
    <3> QED BY <1>2, <3>1, <3>2 DEF LeaseKept
  <2>8. ASSUME NEW i \in DOMAIN messages, NEW f \in Fences, NEW st \in AckStatuses,
               NEW note \in Notes, Ack(p, i, f, st, note, now)
        PROVE  LeaseKept
    <3>1. claims' = [claims EXCEPT ![f].active = FALSE]
      BY <2>8 DEF Ack
    <3>2. \A g \in Fences : g # f => claims'[g] = claims[g]
      BY <3>1 DEF Fences, TypeOK
    <3> QED BY <2>8, <3>2, NewAck DEF LeaseKept
  <2> QED BY <1>4, <2>2, <2>3, <2>4, <2>5, <2>6, <2>7, <2>8 DEF Request
<1> QED BY <1>3, <1>4 DEF Next, FinishRun, Tick, tables, vars

\* A lease is honoured to its end, for any delay of the requests that sweep.
THEOREM LeasesAreHonoured == Spec => LeaseRespected
<1>1. TypeOK /\ [Next]_vars => [LeaseKept]_vars
  BY LeaseStep
<1> QED BY <1>1, TypeCorrect, PTL DEF Spec, LeaseRespected

-----------------------------------------------------------------------------
(* What is never undone.                                                   *)

\* The sweep writes nothing of a message but its status.
LEMMA SweptEnvelopes ==
  ASSUME TypeOK, NEW now, NEW i \in DOMAIN messages
  PROVE  /\ DOMAIN MessagesAfterExpiry(now) = DOMAIN messages
         /\ MessagesAfterExpiry(now)[i] \in Message
         /\ \A field \in {"sender", "to", "content", "acceptedAt", "attempts", "done"} :
              MessagesAfterExpiry(now)[i][field] = messages[i][field]
<1>1. messages[i] \in Message
  BY DEF TypeOK
<1> QED BY <1>1 DEF MessagesAfterExpiry, Message

\* No operation of TownDB writes an envelope a second time.
LEMMA EnvelopesStep ==
  ASSUME TypeOK, [Next]_vars
  PROVE  EnvelopesKept
<1>1. \A i \in DOMAIN messages : messages[i] \in Message /\ messages[i].attempts \in Nat
  BY DEF TypeOK, Message
<1>2. CASE UNCHANGED messages
  BY <1>1, <1>2 DEF EnvelopesKept
<1>3. ASSUME NEW p \in Participants, NEW now \in Sampled, Request(p, now)
      PROVE  EnvelopesKept
  <2>1. CASE \E id \in MessageIds, to \in Participants, c \in Contents, s \in BOOLEAN :
               AcceptMessage(p, id, to, c, s, now)
    BY <1>1, <2>1 DEF AcceptMessage, IsNew, EnvelopesKept
  <2>2. CASE PopNotify(p)
    BY <1>2, <2>2 DEF PopNotify
  <2>3. CASE ClaimNext(p, now)
    <3>1. PICK i \in Oldest(Waiting(p, now)) :
            messages' = [MessagesAfterExpiry(now) EXCEPT
                           ![i].status = "claimed", ![i].attempts = @ + 1]
      BY <2>3 DEF ClaimNext
    <3>2. ASSUME NEW j \in DOMAIN messages
          PROVE  /\ j \in DOMAIN messages'
                 /\ \A field \in {"sender", "to", "content", "acceptedAt"} :
                      messages'[j][field] = MessagesAfterExpiry(now)[j][field]
                 /\ messages'[j].attempts >= MessagesAfterExpiry(now)[j].attempts
      BY <3>1, <3>2, SweptEnvelopes DEF Message
    <3> QED BY <3>2, SweptEnvelopes DEF EnvelopesKept
  <2>4. CASE ClaimNothing(p, now)
    BY <1>1, <2>4, SweptEnvelopes DEF ClaimNothing, EnvelopesKept
  <2>5. CASE \E i \in DOMAIN messages : Reoffer(p, i, now)
    BY <1>1, <2>5 DEF Reoffer, EnvelopesKept, Message
  <2>6. CASE \E i \in DOMAIN messages, f \in Fences : AckLapsed(p, i, f, now)
    BY <1>1, <2>6 DEF AckLapsed, EnvelopesKept, Message
  <2>7. CASE \E i \in DOMAIN messages, f \in Fences, st \in AckStatuses, note \in Notes :
               Ack(p, i, f, st, note, now)
    BY <1>1, <2>7 DEF Ack, EnvelopesKept, Message
  <2> QED BY <1>3, <2>1, <2>2, <2>3, <2>4, <2>5, <2>6, <2>7 DEF Request
<1> QED BY <1>2, <1>3 DEF Next, FinishRun, Tick, tables, vars

\* An acceptance is final, whatever is sent again under its identity.
THEOREM AcceptedForEver == Spec => AcceptanceIsFinal
<1>1. TypeOK /\ [Next]_vars => [EnvelopesKept]_vars
  BY EnvelopesStep
<1> QED BY <1>1, TypeCorrect, PTL DEF Spec, AcceptanceIsFinal

\* What DoneIsUndoneOnlyByOffer needs: whoever holds completed work holds it
\* under its duplicate offer.
DoneHeldByOffer ==
  \A f \in Fences :
    claims[f].active /\ messages[claims[f].message].status = "done" =>
      claims[f].message \in DOMAIN offered /\ offered[claims[f].message] = f

\* A claim makes no work done and no fence active but its own, on work it claims.
LEMMA DoneAfterClaimNext ==
  ASSUME FencingInv, DoneHeldByOffer, NEW p \in Participants, NEW now \in Nat, ClaimNext(p, now)
  PROVE  DoneHeldByOffer' /\ UndoneByOffer
<1>1. TypeOK
  BY DEF FencingInv
<1>2. PICK i \in Oldest(Waiting(p, now)) :
        /\ messages' = [MessagesAfterExpiry(now) EXCEPT
                          ![i].status = "claimed", ![i].attempts = @ + 1]
        /\ claims' = Append(ClaimsAfterExpiry(now), NewClaim(p, i, now))
  BY DEF ClaimNext
<1>3. i \in DOMAIN messages /\ MessagesAfterExpiry(now)[i].status = "accepted"
  BY DEF Oldest, Waiting
<1>4. \A j \in DOMAIN messages : j \in DOMAIN messages' /\ (j # i => messages'[j] = MessagesAfterExpiry(now)[j])
  BY <1>1, <1>2, SweptEnvelopes
<1>5. messages'[i].status = "claimed"
  BY <1>1, <1>2, <1>3, SweptEnvelopes DEF Message
<1>6. \A j \in DOMAIN messages : messages'[j].status = "done" <=> messages[j].status = "done"
  BY <1>1, <1>3, <1>4, <1>5, ExpiryFields
<1>7. \A f \in Fences' : claims'[f].active =>
        \/ claims'[f].message = i
        \/ f \in Fences /\ claims[f].active /\ claims'[f].message = claims[f].message
  <2>1. ClaimsAfterExpiry(now) \in Seq(Claim) /\ NewClaim(p, i, now) \in Claim
    BY <1>1, <1>3, ExpiryTypes, NewClaimType
  <2>2. ASSUME NEW f \in Fences'
        PROVE  \/ claims'[f] = NewClaim(p, i, now)
               \/ f \in Fences /\ claims'[f] = ClaimsAfterExpiry(now)[f]
    BY <1>1, <1>2, <2>1, ExpiryTypes DEF Fences
  <2> QED BY <1>1, <2>2, ExpiryFields DEF NewClaim
<1>8. \A f \in Fences : claims[f].message \in DOMAIN messages
  BY DEF FencingInv, RowsRefer
<1>9. UNCHANGED offered
  BY DEF ClaimNext
<1> QED BY <1>5, <1>6, <1>7, <1>8, <1>9 DEF DoneHeldByOffer, UndoneByOffer

\* An offer is made of work nobody holds, and its own fence is the offered one.
LEMMA DoneAfterReoffer ==
  ASSUME FencingInv, DoneHeldByOffer, NEW p \in Participants, NEW i \in DOMAIN messages,
         NEW now \in Nat, Reoffer(p, i, now)
  PROVE  DoneHeldByOffer' /\ UndoneByOffer
<1>1. TypeOK /\ Len(claims) \in Nat
  BY DEF FencingInv, TypeOK
<1>2. \A j \in DOMAIN messages : messages'[j].status = messages[j].status
  BY <1>1 DEF Reoffer, TypeOK, Message
<1>3. \A f \in Fences' : \/ f = Len(claims) + 1 /\ claims'[f].message = i
                         \/ f \in Fences /\ claims'[f] = claims[f]
  <2>1. claims' = Append(claims, NewClaim(p, i, now)) /\ NewClaim(p, i, now) \in Claim
    BY <1>1, NewClaimType DEF Reoffer
  <2> QED BY <1>1, <2>1 DEF Fences, TypeOK, NewClaim
<1>4. \A f \in Fences : claims[f].active => claims[f].message # i
  BY DEF Reoffer, Reofferable, ActiveOn
<1>5. offered' = [j \in DOMAIN offered \cup {i} |->
                    IF j = i THEN Len(claims) + 1 ELSE offered[j]]
  BY DEF Reoffer
<1>6. \A f \in Fences : claims[f].message \in DOMAIN messages
  BY DEF FencingInv, RowsRefer
<1> QED BY <1>2, <1>3, <1>4, <1>5, <1>6 DEF DoneHeldByOffer, UndoneByOffer

\* Only the holder's own acknowledgement undoes, and it holds the offer.
LEMMA DoneAfterAck ==
  ASSUME FencingInv, DoneHeldByOffer, NEW p, NEW i \in DOMAIN messages, NEW f \in Fences,
         NEW st \in AckStatuses, NEW note \in Notes, NEW now, Ack(p, i, f, st, note, now)
  PROVE  DoneHeldByOffer' /\ UndoneByOffer
<1>1. TypeOK
  BY DEF FencingInv
<1>2. claims[f].message = i /\ claims[f].active
  BY DEF Ack, IsClaim, Current
<1>3. /\ Fences' = Fences
      /\ \A g \in Fences : /\ claims'[g].message = claims[g].message
                           /\ claims'[g].active => claims[g].active /\ g # f
  <2>1. claims' = [claims EXCEPT ![f].active = FALSE]
    BY DEF Ack
  <2>2. \A g \in Fences : claims[g] \in Claim
    BY <1>1 DEF TypeOK, Fences
  <2>3. Fences' = Fences
    BY <1>1, <2>1, EndedClaims DEF Fences
  <2> QED BY <2>1, <2>2, <2>3 DEF Claim, Fences
<1>4. \A g \in Fences : claims[g].message = i /\ g # f => ~claims[g].active
  BY <1>2 DEF FencingInv, OneHolder
<1>5. \A j \in DOMAIN messages : j # i => messages'[j] = messages[j]
  BY DEF Ack
<1>6. UNCHANGED offered
  BY DEF Ack
<1>7. \A g \in Fences : claims[g].message \in DOMAIN messages
  BY DEF FencingInv, RowsRefer
<1>8. DoneHeldByOffer'
  BY <1>3, <1>4, <1>5, <1>6, <1>7 DEF DoneHeldByOffer
<1>9. ASSUME messages[i].status = "done", messages'[i].status # "done"
      PROVE  \E a \in DOMAIN acks' \ DOMAIN acks :
               /\ i \in DOMAIN offered
               /\ acks'[a].fence = offered[i]
               /\ acks'[a].status = "retryable"
  <2>1. st = "retryable"
    <3>1. messages'[i].status = StatusAfterAck(st)
      BY <1>1, <1>9 DEF Ack, TypeOK, Message
    <3> QED BY <1>9, <3>1 DEF StatusAfterAck
  <2>2. i \in DOMAIN offered /\ offered[i] = f
    BY <1>2, <1>9 DEF DoneHeldByOffer
  <2>3. /\ Len(acks) + 1 \in DOMAIN acks' \ DOMAIN acks
        /\ acks'[Len(acks) + 1] = [message |-> i, fence |-> f, status |-> st, note |-> note]
    BY <1>1 DEF Ack, TypeOK
  <2> QED BY <2>1, <2>2, <2>3
<1> QED BY <1>5, <1>8, <1>9 DEF UndoneByOffer

\* A step that only ends claims and returns claimed work leaves done work alone.
LEMMA DoneKept ==
  ASSUME FencingInv, DoneHeldByOffer, UNCHANGED offered,
         \A j \in DOMAIN messages : messages'[j].status = "done" <=> messages[j].status = "done",
         Fences' = Fences,
         \A g \in Fences : /\ claims'[g].message = claims[g].message
                           /\ claims'[g].active => claims[g].active
  PROVE  DoneHeldByOffer' /\ UndoneByOffer
<1>1. \A g \in Fences : claims[g].message \in DOMAIN messages
  BY DEF FencingInv, RowsRefer
<1>2. UndoneByOffer
  BY DEF UndoneByOffer
<1>3. ASSUME NEW g \in Fences', claims'[g].active, messages'[claims'[g].message].status = "done"
      PROVE  claims'[g].message \in DOMAIN offered' /\ offered'[claims'[g].message] = g
  <2>1. /\ g \in Fences
        /\ claims'[g].message = claims[g].message
        /\ claims[g].active
    BY <1>3
  <2>2. messages[claims[g].message].status = "done"
    BY <1>1, <1>3, <2>1
  <2> QED BY <2>1, <2>2 DEF DoneHeldByOffer
<1> QED BY <1>2, <1>3 DEF DoneHeldByOffer

\* Every step keeps it, and undoes completed work only through the offer.
LEMMA DoneStep ==
  ASSUME FencingInv, DoneHeldByOffer, [Next]_vars
  PROVE  DoneHeldByOffer' /\ UndoneByOffer
<1>1. TypeOK /\ Sampled \subseteq Nat
  BY DEF FencingInv, Sampled
<1>2. CASE UNCHANGED <<messages, claims, offered>>
  BY <1>2, DoneKept DEF Fences
<1>3. ASSUME NEW p \in Participants, NEW now \in Sampled, Request(p, now)
      PROVE  DoneHeldByOffer' /\ UndoneByOffer
  <2>1. CASE \E id \in MessageIds, to \in Participants, c \in Contents, s \in BOOLEAN :
               AcceptMessage(p, id, to, c, s, now)
    BY <2>1, DoneKept DEF AcceptMessage, IsNew, Fences
  <2>2. CASE PopNotify(p)
    BY <1>2, <2>2 DEF PopNotify
  <2>3. CASE ClaimNext(p, now)
    BY <1>1, <2>3, DoneAfterClaimNext
  <2>4. CASE ClaimNothing(p, now)
    <3>1. \A j \in DOMAIN messages : messages'[j].status = "done" <=> messages[j].status = "done"
      BY <1>1, <2>4, ExpiryFields DEF ClaimNothing
    <3>2. Fences' = Fences
      BY <1>1, <2>4, ExpiryTypes DEF ClaimNothing, Fences
    <3>3. \A g \in Fences : /\ claims'[g].message = claims[g].message
                            /\ claims'[g].active => claims[g].active
      BY <1>1, <2>4, ExpiryFields DEF ClaimNothing
    <3> QED BY <2>4, <3>1, <3>2, <3>3, DoneKept DEF ClaimNothing
  <2>5. CASE \E i \in DOMAIN messages : Reoffer(p, i, now)
    BY <1>1, <2>5, DoneAfterReoffer
  <2>6. ASSUME NEW i \in DOMAIN messages, NEW f \in Fences, AckLapsed(p, i, f, now)
        PROVE  DoneHeldByOffer' /\ UndoneByOffer
    <3>1. \A j \in DOMAIN messages : messages'[j].status = "done" <=> messages[j].status = "done"
      BY <1>1, <2>6 DEF AckLapsed, TypeOK, Message
    <3>2. Fences' = Fences
      BY <1>1, <2>6, EndedClaims DEF AckLapsed, Fences
    <3>3. \A g \in Fences : claims[g] \in Claim
      BY <1>1 DEF TypeOK, Fences
    <3>4. \A g \in Fences : /\ claims'[g].message = claims[g].message
                            /\ claims'[g].active => claims[g].active
      BY <2>6, <3>3 DEF AckLapsed, Claim, Fences
    <3> QED BY <2>6, <3>1, <3>2, <3>4, DoneKept DEF AckLapsed
  <2>7. CASE \E i \in DOMAIN messages, f \in Fences, st \in AckStatuses, note \in Notes :
               Ack(p, i, f, st, note, now)
    BY <2>7, DoneAfterAck
  <2> QED BY <1>3, <2>1, <2>2, <2>3, <2>4, <2>5, <2>6, <2>7 DEF Request
<1> QED BY <1>2, <1>3 DEF Next, FinishRun, Tick, tables, vars

\* Completed work is undone only by the holder of its one duplicate offer.
THEOREM UndoneOnlyByOffer == Spec => DoneIsUndoneOnlyByOffer
<1>1. Init => DoneHeldByOffer
  BY DEF Init, DoneHeldByOffer, Fences
<1>2. FencingInv /\ DoneHeldByOffer /\ [Next]_vars => DoneHeldByOffer' /\ [UndoneByOffer]_vars
  BY DoneStep
<1>3. Spec => []DoneHeldByOffer
  BY <1>1, <1>2, Fencing, PTL DEF Spec
<1> QED BY <1>2, <1>3, Fencing, PTL DEF Spec, DoneIsUndoneOnlyByOffer

-----------------------------------------------------------------------------
(* The mailbox implements the work queue of WorkQueue, for every value of  *)
(* the constants.  Each operation of TownDB is mapped to the step of the   *)
(* queue it is, or to none; FencingInv says what the rows can be, so that  *)
(* the holder read off the claims table is the queue's.                    *)

-----------------------------------------------------------------------------
(* The queue that the rows show.                                           *)

\* How the holder of a message follows from its active claims.
LEMMA HolderCases ==
  ASSUME NEW i
  PROVE  /\ ActiveOn(i) = {} => Holder(i) = 0
         /\ \A f : ActiveOn(i) = {f} => Holder(i) = f
         /\ ActiveOn(i)' = {} => Holder(i)' = 0
         /\ \A f : ActiveOn(i)' = {f} => Holder(i)' = f
         /\ ActiveOn(i)' = ActiveOn(i) => Holder(i)' = Holder(i)
<1>1. ActiveOn(i) = {} => Holder(i) = 0
  BY DEF Holder
<1>2. \A f : ActiveOn(i) = {f} => Holder(i) = f
  BY DEF Holder
<1>3. ActiveOn(i)' = {} => Holder(i)' = 0
  BY DEF Holder
<1>4. \A f : ActiveOn(i)' = {f} => Holder(i)' = f
  BY DEF Holder
<1>5. ActiveOn(i)' = ActiveOn(i) => Holder(i)' = Holder(i)
  BY DEF Holder
<1> QED BY <1>1, <1>2, <1>3, <1>4, <1>5

\* The holder of a message is the fence of its one active claim.
LEMMA ActiveOne ==
  ASSUME FencingInv, NEW i, NEW f \in ActiveOn(i)
  PROVE  ActiveOn(i) = {f} /\ Holder(i) = f /\ f \in Nat /\ f # 0
<1>1. f \in 1..Len(claims) /\ Len(claims) \in Nat
  BY DEF FencingInv, TypeOK, Fences, ActiveOn
<1>2. ActiveOn(i) = {f}
  BY DEF FencingInv, OneHolder, ActiveOn
<1>3. Holder(i) = f
  BY <1>2 DEF Holder
<1>4. f \in Nat /\ f # 0
  BY <1>1
<1> QED BY <1>2, <1>3, <1>4

\* What the sweep does to the queue: the holds that lapsed are given up together.
LEMMA SweepLapses ==
  ASSUME FencingInv, NEW now \in Nat
  PROVE  /\ \A i : LapsedOn(i, now) => i \in DOMAIN messages /\ Holder(i) # 0
         /\ \A i : \A f \in Fences :
              ClaimsAfterExpiry(now)[f].message = i /\ ClaimsAfterExpiry(now)[f].active <=>
                f \in ActiveOn(i) /\ ~LapsedOn(i, now)
<1>1. TypeOK
  BY DEF FencingInv
<1>2. \A i : LapsedOn(i, now) => i \in DOMAIN messages /\ Holder(i) # 0
  BY ActiveOne DEF LapsedOn, Lapsed, ActiveOn, FencingInv, RowsRefer
<1>3. ASSUME NEW i, NEW f \in Fences
      PROVE  ClaimsAfterExpiry(now)[f].message = i /\ ClaimsAfterExpiry(now)[f].active <=>
               f \in ActiveOn(i) /\ ~LapsedOn(i, now)
  <2>1. /\ ClaimsAfterExpiry(now)[f].message = claims[f].message
        /\ ClaimsAfterExpiry(now)[f].active <=> claims[f].active /\ ~Lapsed(f, now)
    BY <1>1, ExpiryFields
  <2>2. \A g \in Fences : g \in ActiveOn(i) /\ f \in ActiveOn(i) => g = f
    BY ActiveOne
  <2> QED BY <2>1, <2>2 DEF LapsedOn, Lapsed, ActiveOn
<1> QED BY <1>2, <1>3

\* What the rows after a step say of the queue after it.
LEMMA QueueAfter ==
  ASSUME NEW i
  PROVE  /\ Stage(i)' = IF i \notin DOMAIN messages' THEN "absent"
                        ELSE CASE messages'[i].status = "accepted" -> "waiting"
                               [] messages'[i].status = "claimed" -> "held"
                               [] messages'[i].status = "done" -> "settled"
         /\ ActiveOn(i)' = {f \in DOMAIN claims' : claims'[f].message = i /\ claims'[f].active}
BY DEF Stage, ActiveOn, Fences

\* The stage of a message is that of its status.
LEMMA StageCases ==
  ASSUME TypeOK, TypeOK', NEW i
  PROVE  /\ (i \in DOMAIN messages <=> i \in DOMAIN messages') /\
            (i \in DOMAIN messages => messages'[i].status = messages[i].status) =>
              Stage(i)' = Stage(i)
         /\ Stage(i) = "held" <=> i \in DOMAIN messages /\ messages[i].status = "claimed"
         /\ Stage(i) = "waiting" <=> i \in DOMAIN messages /\ messages[i].status = "accepted"
         /\ Stage(i) = "settled" <=> i \in DOMAIN messages /\ messages[i].status = "done"
<1>1. i \in DOMAIN messages => messages[i].status \in {"accepted", "claimed", "done"}
  BY DEF TypeOK, Message
<1>2. i \in DOMAIN messages' => messages'[i].status \in {"accepted", "claimed", "done"}
  BY DEF TypeOK, Message
<1> QED BY <1>1, <1>2 DEF Stage

WorkStages == [i \in MessageIds |-> Stage(i)]
Holders == [i \in MessageIds |-> Holder(i)]

\* An accepted message is work submitted.
LEMMA AcceptSubmits ==
  ASSUME FencingInv, TypeOK', NEW p, NEW id \in MessageIds, NEW to, NEW c, NEW s, NEW now,
         AcceptMessage(p, id, to, c, s, now)
  PROVE  Queue!Submit(id)
<1>1. /\ DOMAIN messages' = DOMAIN messages \cup {id} /\ id \notin DOMAIN messages
      /\ \A i \in DOMAIN messages : messages'[i] = messages[i]
      /\ messages'[id].status = "accepted"
  BY DEF AcceptMessage, IsNew, NewMessage
<1>2. UNCHANGED <<claims, offered, runStatus>> /\ Open
  BY DEF AcceptMessage
<1>3. WorkStages' = [WorkStages EXCEPT ![id] = "waiting"] /\ Stage(id) = "absent"
  <2>1. Stage(id) = "absent" /\ Stage(id)' = "waiting"
    BY <1>1, QueueAfter DEF Stage
  <2>2. \A i \in MessageIds : i # id => Stage(i)' = Stage(i)
    BY <1>1, StageCases DEF FencingInv
  <2> QED BY <2>1, <2>2 DEF WorkStages
<1>4. UNCHANGED Holders
  BY <1>2 DEF Holders, Holder, ActiveOn, Fences
<1> QED BY <1>2, <1>3, <1>4 DEF Queue!Submit, WorkStages, Holders, Open

-----------------------------------------------------------------------------
(* Sweeping and claiming.                                                  *)

LapsedWork(now) == {i \in MessageIds : LapsedOn(i, now)}

\* The status the sweep leaves is the stage the lapse leaves.
LEMMA SweptStage ==
  ASSUME FencingInv, NEW now \in Nat, NEW i \in DOMAIN messages
  PROVE  /\ i \in MessageIds
         /\ LET to == Queue!StagesWithout(LapsedWork(now))[i]
                status == MessagesAfterExpiry(now)[i].status
            IN \/ status = "accepted" /\ to = "waiting"
               \/ status = "claimed" /\ to = "held"
               \/ status = "done" /\ to = "settled"
<1>1. TypeOK /\ i \in MessageIds /\ messages[i].status \in {"accepted", "claimed", "done"}
  BY DEF FencingInv, TypeOK, Message
<1>2. MessagesAfterExpiry(now)[i].status =
        IF messages[i].status = "claimed" /\ i \in LapsedWork(now) THEN "accepted"
        ELSE messages[i].status
  BY <1>1, ExpiryFields DEF LapsedWork
<1>3. Queue!StagesWithout(LapsedWork(now))[i] =
        IF i \in LapsedWork(now) /\ Stage(i) = "held" THEN "waiting" ELSE Stage(i)
  BY <1>1 DEF Queue!StagesWithout
<1> QED BY <1>1, <1>2, <1>3 DEF Stage

\* The sweep accepts nothing.
LEMMA SweptAbsent ==
  ASSUME NEW now, NEW i \in MessageIds, i \notin DOMAIN messages
  PROVE  Queue!StagesWithout(LapsedWork(now))[i] = "absent"
<1>1. Stage(i) = "absent"
  BY DEF Stage
<1> QED BY <1>1 DEF Queue!StagesWithout

\* A sweep with nothing to claim is a lapse.
LEMMA NothingLapses ==
  ASSUME FencingInv, TypeOK', NEW p, NEW now \in Nat, ClaimNothing(p, now)
  PROVE  Queue!Lapse(LapsedWork(now))
<1> DEFINE S == LapsedWork(now)
<1>1. /\ messages' = MessagesAfterExpiry(now) /\ claims' = ClaimsAfterExpiry(now)
      /\ UNCHANGED <<offered, runStatus>> /\ Open
  BY DEF ClaimNothing
<1>2. /\ TypeOK /\ DOMAIN claims' = Fences /\ Len(claims') = Len(claims)
      /\ DOMAIN messages' = DOMAIN messages
  BY <1>1, ExpiryTypes DEF FencingInv, MessagesAfterExpiry
<1>3. \A i \in S : Holder(i) # 0
  BY SweepLapses DEF LapsedWork
<1>4. \A i \in MessageIds : Holder(i)' = IF i \in S THEN 0 ELSE Holder(i)
  <2> TAKE i \in MessageIds
  <2>1. ActiveOn(i)' = {f \in Fences : claims'[f].message = i /\ claims'[f].active}
    BY <1>2, QueueAfter
  <2>2. \A f \in Fences :
          claims'[f].message = i /\ claims'[f].active <=> f \in ActiveOn(i) /\ ~LapsedOn(i, now)
    BY <1>1, SweepLapses
  <2>3. CASE i \in S
    <3>1. ActiveOn(i)' = {}
      BY <2>1, <2>2, <2>3 DEF LapsedWork
    <3> QED BY <2>3, <3>1, HolderCases
  <2>4. CASE i \notin S
    <3>1. ActiveOn(i)' = ActiveOn(i)
      BY <2>1, <2>2, <2>4 DEF ActiveOn, LapsedWork
    <3> QED BY <2>4, <3>1, HolderCases
  <2> QED BY <2>3, <2>4
<1>5. \A i \in MessageIds : Stage(i)' = Queue!StagesWithout(S)[i]
  <2> TAKE i \in MessageIds
  <2>1. CASE i \notin DOMAIN messages
    BY <1>2, <2>1, SweptAbsent, QueueAfter
  <2>2. CASE i \in DOMAIN messages
    <3>1. i \in DOMAIN messages' /\ messages'[i].status = MessagesAfterExpiry(now)[i].status
      BY <1>1, <1>2, <2>2
    <3> QED BY <2>2, <3>1, SweptStage, QueueAfter
  <2> QED BY <2>1, <2>2
<1>6. [i \in MessageIds |-> Stage(i)'] = Queue!StagesWithout(S)
  BY <1>5 DEF Queue!StagesWithout
<1>7. [i \in MessageIds |-> Holder(i)'] = Queue!HoldersWithout(S)
  BY <1>4 DEF Queue!HoldersWithout
<1> QED BY <1>1, <1>2, <1>3, <1>6, <1>7 DEF Queue!Lapse, Open, LapsedWork

\* A sweep and a claim of i after it are a delivery of i.
LEMMA ClaimDelivers ==
  ASSUME FencingInv, TypeOK', NEW p \in Participants, NEW now \in Nat, ClaimNext(p, now)
  PROVE  \E i \in MessageIds : Queue!Deliver(LapsedWork(now), i)
<1> DEFINE S == LapsedWork(now)
           n == Len(claims) + 1
<1>1. TypeOK
  BY DEF FencingInv
<1>2. PICK i \in Oldest(Waiting(p, now)) :
        /\ messages' = [MessagesAfterExpiry(now) EXCEPT
                          ![i].status = "claimed", ![i].attempts = @ + 1]
        /\ claims' = Append(ClaimsAfterExpiry(now), NewClaim(p, i, now))
  BY DEF ClaimNext
<1>3. i \in DOMAIN messages /\ MessagesAfterExpiry(now)[i].status = "accepted"
  BY DEF Oldest, Waiting
<1>4. UNCHANGED <<offered, runStatus>> /\ Open
  BY DEF ClaimNext
<1>5. /\ Len(claims) \in Nat /\ Fences = 1..Len(claims) /\ DOMAIN claims' = 1..n
      /\ Len(claims') = n
  BY <1>1, <1>2, <1>3, ExpiryTypes, NewClaimType DEF Fences, TypeOK
<1>6. \A f \in Fences : f # n /\ claims'[f] = ClaimsAfterExpiry(now)[f]
  BY <1>1, <1>2, <1>3, <1>5, ExpiryTypes, NewClaimType
<1>7. claims'[n].message = i /\ claims'[n].active
  <2>1. claims'[n] = NewClaim(p, i, now)
    BY <1>1, <1>2, <1>3, <1>5, ExpiryTypes, NewClaimType
  <2> QED BY <2>1 DEF NewClaim
<1>8. /\ DOMAIN messages' = DOMAIN messages
      /\ messages'[i].status = "claimed"
      /\ \A j \in DOMAIN messages :
           j # i => messages'[j].status = MessagesAfterExpiry(now)[j].status
  <2>1. \A j \in DOMAIN messages : MessagesAfterExpiry(now)[j] \in Message
    BY <1>1, ExpiryTypes
  <2>2. /\ DOMAIN messages' = DOMAIN messages
        /\ \A j \in DOMAIN messages : j # i => messages'[j] = MessagesAfterExpiry(now)[j]
        /\ messages'[i] = [MessagesAfterExpiry(now)[i] EXCEPT !.status = "claimed", !.attempts = @ + 1]
    BY <1>1, <1>2, <1>3, <2>1, ExpiryTypes DEF Message
  <2> QED BY <1>3, <2>1, <2>2 DEF Message
<1>9. i \in MessageIds /\ Queue!StagesWithout(S)[i] = "waiting"
  BY <1>3, SweptStage
<1>10. n \in 1..n /\ \A f \in 1..n : f \in Fences \/ f = n
  BY <1>5
<1> HIDE DEF n
<1>11. \A j \in MessageIds : Holder(j)' = IF j = i THEN n ELSE IF j \in S THEN 0 ELSE Holder(j)
  <2> TAKE j \in MessageIds
  <2>1. ActiveOn(j)' = {f \in 1..n : claims'[f].message = j /\ claims'[f].active}
    BY <1>5, QueueAfter
  <2>2. \A f \in Fences :
          claims'[f].message = j /\ claims'[f].active <=> f \in ActiveOn(j) /\ ~LapsedOn(j, now)
    BY <1>6, SweepLapses
  <2>3. CASE j = i
    <3>1. \A f \in Fences : claims[f].message = i => ~ClaimsAfterExpiry(now)[f].active
      BY <1>3, SweptAgree
    <3>2. \A f \in Fences : ~(claims'[f].message = i /\ claims'[f].active)
      BY <1>1, <1>6, <3>1, ExpiryFields
    <3>3. ActiveOn(j)' = {n}
      BY <1>7, <1>10, <2>1, <2>3, <3>2
    <3> QED BY <2>3, <3>3, HolderCases
  <2>4. CASE j # i /\ j \in S
    <3>1. ActiveOn(j)' = {}
      BY <1>7, <1>10, <2>1, <2>2, <2>4 DEF LapsedWork
    <3> QED BY <2>4, <3>1, HolderCases
  <2>5. CASE j # i /\ j \notin S
    <3>1. \A f \in Fences : f \in 1..n
      BY <1>5 DEF n
    <3>2. ActiveOn(j)' = ActiveOn(j)
      BY <1>7, <1>10, <2>1, <2>2, <2>5, <3>1 DEF ActiveOn, LapsedWork
    <3> QED BY <2>5, <3>2, HolderCases
  <2> QED BY <2>3, <2>4, <2>5
<1>12. \A j \in MessageIds :
         Stage(j)' = IF j = i THEN "held" ELSE Queue!StagesWithout(S)[j]
  <2> TAKE j \in MessageIds
  <2>1. CASE j \notin DOMAIN messages
    BY <1>3, <1>8, <2>1, SweptAbsent, QueueAfter
  <2>2. CASE j = i
    BY <1>3, <1>8, <2>2, QueueAfter
  <2>3. CASE j \in DOMAIN messages /\ j # i
    <3>1. j \in DOMAIN messages' /\ messages'[j].status = MessagesAfterExpiry(now)[j].status
      BY <1>8, <2>3
    <3> QED BY <2>3, <3>1, SweptStage, QueueAfter
  <2> QED BY <2>1, <2>2, <2>3
<1>13. [j \in MessageIds |-> Stage(j)'] = [Queue!StagesWithout(S) EXCEPT ![i] = "held"]
  BY <1>9, <1>12 DEF Queue!StagesWithout
<1>14. [j \in MessageIds |-> Holder(j)'] = [Queue!HoldersWithout(S) EXCEPT ![i] = n]
  BY <1>9, <1>11 DEF Queue!HoldersWithout
<1>15. \A j \in S : Holder(j) # 0
  BY SweepLapses DEF LapsedWork
<1> QED
  BY <1>4, <1>5, <1>9, <1>13, <1>14, <1>15 DEF n, Queue!Deliver, Open, LapsedWork

\* The duplicate offer is the one redelivery.
LEMMA ReofferRedelivers ==
  ASSUME FencingInv, TypeOK', NEW p \in Participants, NEW i \in DOMAIN messages,
         NEW now \in Nat, Reoffer(p, i, now)
  PROVE  i \in MessageIds /\ Queue!Redeliver(i)
<1> DEFINE n == Len(claims) + 1
<1>1. TypeOK
  BY DEF FencingInv
<1>2. /\ messages[i].status = "done" /\ ActiveOn(i) = {} /\ i \notin DOMAIN offered
      /\ claims' = Append(claims, NewClaim(p, i, now))
      /\ DOMAIN offered' = DOMAIN offered \cup {i}
      /\ UNCHANGED runStatus /\ Open
  BY DEF Reoffer, Reofferable
<1>3. /\ Len(claims) \in Nat /\ Fences = 1..Len(claims) /\ DOMAIN claims' = 1..n
      /\ Len(claims') = n
  BY <1>1, <1>2, NewClaimType DEF Fences, TypeOK
<1>4. \A f \in Fences : f # n /\ claims'[f] = claims[f]
  BY <1>1, <1>2, <1>3, NewClaimType DEF TypeOK
<1>5. claims'[n].message = i /\ claims'[n].active
  <2>1. claims'[n] = NewClaim(p, i, now)
    BY <1>1, <1>2, <1>3, NewClaimType DEF TypeOK
  <2> QED BY <2>1 DEF NewClaim
<1>6. /\ DOMAIN messages' = DOMAIN messages
      /\ \A j \in DOMAIN messages : messages'[j].status = messages[j].status
  <2>1. \A j \in DOMAIN messages : messages[j] \in Message
    BY <1>1 DEF TypeOK
  <2>2. /\ DOMAIN messages' = DOMAIN messages
        /\ \A j \in DOMAIN messages : j # i => messages'[j] = messages[j]
        /\ messages'[i] = [messages[i] EXCEPT !.attempts = @ + 1]
    BY DEF Reoffer
  <2> QED BY <2>1, <2>2 DEF Message
<1>7. i \in MessageIds /\ Stage(i) = "settled" /\ Holder(i) = 0
  BY <1>1, <1>2, HolderCases DEF TypeOK, Stage
<1>8. \A j \in MessageIds : Stage(j)' = Stage(j)
  BY <1>1, <1>6, StageCases
<1>9. \A f \in 1..n : f \in Fences \/ f = n
  BY <1>3
<1>10. n \in 1..n /\ \A f \in Fences : f \in 1..n
  BY <1>3
<1> HIDE DEF n
<1>11. \A j \in MessageIds : Holder(j)' = IF j = i THEN n ELSE Holder(j)
  <2> TAKE j \in MessageIds
  <2>1. ActiveOn(j)' = {f \in 1..n : claims'[f].message = j /\ claims'[f].active}
    BY <1>3, QueueAfter
  <2>2. CASE j = i
    <3>1. ActiveOn(j)' = {n}
      BY <1>2, <1>4, <1>5, <1>9, <1>10, <2>1, <2>2 DEF ActiveOn
    <3> QED BY <2>2, <3>1, HolderCases
  <2>3. CASE j # i
    <3>1. ActiveOn(j)' = ActiveOn(j)
      BY <1>4, <1>5, <1>9, <1>10, <2>1, <2>3 DEF ActiveOn
    <3> QED BY <2>3, <3>1, HolderCases
  <2> QED BY <2>2, <2>3
<1>12. [j \in MessageIds |-> Holder(j)'] = [Holders EXCEPT ![i] = n]
  BY <1>7, <1>11 DEF Holders
<1>13. [j \in MessageIds |-> Stage(j)'] = WorkStages
  BY <1>8 DEF WorkStages
<1> QED BY <1>2, <1>3, <1>7, <1>12, <1>13 DEF n, Holders, WorkStages, Queue!Redeliver, Open

-----------------------------------------------------------------------------
(* Acknowledging, and the whole.                                           *)

\* Ending the one active claim of a message frees it and no other.
LEMMA HoldEnds ==
  ASSUME FencingInv, NEW i \in DOMAIN messages, NEW f \in Fences,
         claims[f].message = i, claims[f].active, claims' = [claims EXCEPT ![f].active = FALSE]
  PROVE  /\ Holder(i) # 0 /\ Holders' = [Holders EXCEPT ![i] = 0]
         /\ Len(claims') = Len(claims) /\ i \in MessageIds
         /\ messages[i].status \in {"claimed", "done"}
<1>1. TypeOK /\ f \in ActiveOn(i)
  BY DEF FencingInv, ActiveOn
<1>2. ActiveOn(i) = {f} /\ Holder(i) # 0
  BY <1>1, ActiveOne
<1>3. /\ DOMAIN claims' = Fences /\ Len(claims') = Len(claims)
      /\ \A g \in Fences : /\ claims'[g].message = claims[g].message
                           /\ claims'[g].active <=> claims[g].active /\ g # f
  <2>1. \A g \in Fences : claims[g] \in Claim
    BY <1>1 DEF TypeOK, Fences
  <2>2. DOMAIN claims' = Fences /\ Len(claims') = Len(claims)
    BY <1>1, EndedClaims DEF Fences, TypeOK
  <2> QED BY <2>1, <2>2 DEF Claim, Fences
<1>4. \A j : ActiveOn(j)' = {g \in Fences : claims'[g].message = j /\ claims'[g].active}
  BY <1>3, QueueAfter
<1>5. ActiveOn(i)' = {} /\ \A j : j # i => ActiveOn(j)' = ActiveOn(j)
  <2>1. \A g \in Fences : claims'[g].message = i /\ claims'[g].active => g \in ActiveOn(i) /\ g # f
    BY <1>3 DEF ActiveOn
  <2>2. ActiveOn(i)' = {}
    BY <1>2, <1>4, <2>1
  <2>3. ASSUME NEW j, j # i
        PROVE  ActiveOn(j)' = ActiveOn(j)
    <3>1. \A g \in Fences : claims'[g].message = j /\ claims'[g].active <=>
                             claims[g].message = j /\ claims[g].active
      BY <1>3, <2>3
    <3> QED BY <1>4, <3>1 DEF ActiveOn
  <2> QED BY <2>2, <2>3
<1>6. \A j \in MessageIds : Holder(j)' = IF j = i THEN 0 ELSE Holder(j)
  BY <1>5, HolderCases
<1>7. i \in MessageIds /\ messages[i].status \in {"claimed", "done"}
  BY <1>1 DEF FencingInv, HolderMatchesStatus, TypeOK, Message
<1>8. Holders' = [Holders EXCEPT ![i] = 0]
  BY <1>6, <1>7 DEF Holders
<1> QED BY <1>2, <1>3, <1>7, <1>8

\* An acknowledgement under a current fence is the holder's answer.
LEMMA AckAnswers ==
  ASSUME FencingInv, TypeOK', NEW p, NEW i \in DOMAIN messages, NEW f \in Fences,
         NEW st \in AckStatuses, NEW note, NEW now, Ack(p, i, f, st, note, now)
  PROVE  i \in MessageIds /\ (Queue!Answer(i, "settled") \/ Queue!Answer(i, "waiting"))
<1>1. TypeOK
  BY DEF FencingInv
<1>2. /\ claims[f].message = i /\ claims[f].active
      /\ claims' = [claims EXCEPT ![f].active = FALSE]
      /\ UNCHANGED <<offered, runStatus>> /\ Open
  BY DEF Ack, IsClaim, Current
<1>3. /\ Holder(i) # 0 /\ Holders' = [Holders EXCEPT ![i] = 0]
      /\ Len(claims') = Len(claims) /\ i \in MessageIds
      /\ messages[i].status \in {"claimed", "done"}
  BY <1>2, HoldEnds
<1>4. /\ DOMAIN messages' = DOMAIN messages
      /\ \A j \in DOMAIN messages : j # i => messages'[j] = messages[j]
      /\ messages'[i].status = StatusAfterAck(st)
  <2>1. messages[i] \in Message
    BY <1>1 DEF TypeOK
  <2>2. /\ DOMAIN messages' = DOMAIN messages
        /\ \A j \in DOMAIN messages : j # i => messages'[j] = messages[j]
        /\ messages'[i] = [messages[i] EXCEPT !.status = StatusAfterAck(st),
                              !.done = IF st = "retryable" THEN "null" ELSE st]
    BY <1>3 DEF Ack
  <2> QED BY <2>1, <2>2 DEF Message
<1>5. \A j \in MessageIds : j # i => Stage(j)' = Stage(j)
  BY <1>1, <1>4, StageCases
<1>6. \E to \in {"settled", "waiting"} : Stage(i)' = to
  BY <1>4, QueueAfter DEF StatusAfterAck
<1>7. \E to \in {"settled", "waiting"} : WorkStages' = [WorkStages EXCEPT ![i] = to]
  BY <1>3, <1>5, <1>6 DEF WorkStages
<1> QED BY <1>2, <1>3, <1>7 DEF Holders, WorkStages, Queue!Answer, Open

\* The refusal that releases a claim whose lease ran out is a lapse of it alone.
LEMMA AckLapsedLapses ==
  ASSUME FencingInv, TypeOK', NEW p, NEW i \in DOMAIN messages, NEW f \in Fences,
         NEW now, AckLapsed(p, i, f, now)
  PROVE  i \in MessageIds /\ Queue!Lapse({i})
<1>1. TypeOK
  BY DEF FencingInv
<1>2. /\ claims[f].message = i /\ claims[f].active
      /\ claims' = [claims EXCEPT ![f].active = FALSE]
      /\ UNCHANGED <<offered, runStatus>> /\ Open
  BY DEF AckLapsed, IsClaim, Lapsed
<1>3. /\ Holder(i) # 0 /\ Holders' = [Holders EXCEPT ![i] = 0]
      /\ Len(claims') = Len(claims) /\ i \in MessageIds
      /\ messages[i].status \in {"claimed", "done"}
  BY <1>2, HoldEnds
<1>4. /\ DOMAIN messages' = DOMAIN messages
      /\ \A j \in DOMAIN messages : j # i => messages'[j] = messages[j]
      /\ messages'[i].status =
           IF messages[i].status = "claimed" THEN "accepted" ELSE messages[i].status
  <2>1. messages[i] \in Message
    BY <1>1 DEF TypeOK
  <2>2. /\ DOMAIN messages' = DOMAIN messages
        /\ \A j \in DOMAIN messages : j # i => messages'[j] = messages[j]
        /\ messages'[i] = [messages[i] EXCEPT !.status = IF @ = "claimed" THEN "accepted" ELSE @]
    BY DEF AckLapsed
  <2> QED BY <2>1, <2>2 DEF Message
<1>5. \A j \in MessageIds : j # i => Stage(j)' = Stage(j)
  BY <1>1, <1>4, StageCases
<1>6. Stage(i)' = IF Stage(i) = "held" THEN "waiting" ELSE Stage(i)
  BY <1>3, <1>4, QueueAfter DEF Stage
<1>7. [j \in MessageIds |-> Stage(j)'] = Queue!StagesWithout({i})
  BY <1>5, <1>6 DEF Queue!StagesWithout
<1>8. [j \in MessageIds |-> Holder(j)'] = Queue!HoldersWithout({i})
  BY <1>3 DEF Holders, Queue!HoldersWithout
<1> QED BY <1>2, <1>3, <1>7, <1>8 DEF Queue!Lapse, Open

\* What touches neither the messages nor the claims nor the run is no step of the queue.
LEMMA QueueStutters ==
  ASSUME UNCHANGED <<messages, claims, offered, runStatus>>
  PROVE  UNCHANGED Queue!queue
<1>1. \A i : ActiveOn(i)' = ActiveOn(i) /\ Stage(i)' = Stage(i)
  BY DEF ActiveOn, Fences, Stage
<1>2. \A i : Holder(i)' = Holder(i)
  BY <1>1, HolderCases
<1> QED BY <1>1, <1>2 DEF Queue!queue, Open

\* Every step of the mailbox is a step of the queue or leaves it as it is.
LEMMA QueueStep ==
  ASSUME FencingInv, [Next]_vars
  PROVE  [Queue!Next]_(Queue!queue)
<1>1. TypeOK'
  BY TypeStep DEF FencingInv
<1>2. Sampled \subseteq Nat
  BY DEF Sampled
<1>3. ASSUME NEW p \in Participants, NEW now \in Sampled, Request(p, now)
      PROVE  [Queue!Next]_(Queue!queue)
  <2>0. LapsedWork(now) \in SUBSET MessageIds /\ now \in Nat
    BY <1>2 DEF LapsedWork
  <2>1. CASE \E id \in MessageIds, to \in Participants, c \in Contents, s \in BOOLEAN :
               AcceptMessage(p, id, to, c, s, now)
    BY <1>1, <2>1, AcceptSubmits DEF Queue!Next
  <2>2. CASE PopNotify(p)
    BY <2>2, QueueStutters DEF PopNotify
  <2>3. CASE ClaimNext(p, now)
    BY <1>1, <2>0, <2>3, ClaimDelivers DEF Queue!Next
  <2>4. CASE ClaimNothing(p, now)
    BY <1>1, <2>0, <2>4, NothingLapses DEF Queue!Next
  <2>5. CASE \E i \in DOMAIN messages : Reoffer(p, i, now)
    BY <1>1, <2>0, <2>5, ReofferRedelivers DEF Queue!Next
  <2>6. ASSUME NEW i \in DOMAIN messages, NEW f \in Fences, AckLapsed(p, i, f, now)
        PROVE  Queue!Next
    <3>1. i \in MessageIds /\ Queue!Lapse({i}) /\ {i} \in SUBSET MessageIds
      BY <1>1, <2>6, AckLapsedLapses
    <3> QED BY <3>1 DEF Queue!Next
  <2>7. CASE \E i \in DOMAIN messages, f \in Fences, st \in AckStatuses, note \in Notes :
               Ack(p, i, f, st, note, now)
    BY <1>1, <2>7, AckAnswers DEF Queue!Next
  <2> QED BY <1>3, <2>1, <2>2, <2>3, <2>4, <2>5, <2>6, <2>7 DEF Request
<1>4. CASE FinishRun
  <2>1. UNCHANGED <<WorkStages, Holders>>
    BY <1>4, QueueStutters DEF FinishRun, WorkStages, Holders, Stage, Holder, ActiveOn, Fences
  <2>2. Queue!Close
    BY <1>4, <2>1 DEF FinishRun, Queue!Close, WorkStages, Holders, Open
  <2> QED BY <2>2 DEF Queue!Next
<1>5. CASE Tick \/ UNCHANGED vars
  BY <1>5, QueueStutters DEF Tick, tables, vars
<1> QED BY <1>3, <1>4, <1>5 DEF Next

\* The empty tables are the empty queue.
LEMMA QueueInit == Init => Queue!Init
<1> SUFFICES ASSUME Init PROVE Queue!Init
  OBVIOUS
<1>1. \A i : ActiveOn(i) = {} /\ Stage(i) = "absent"
  BY DEF Init, ActiveOn, Fences, Stage
<1>2. \A i : Holder(i) = 0
  BY <1>1, HolderCases
<1>3. Len(claims) = 0 /\ DOMAIN offered = {} /\ Open
  BY DEF Init, Open
<1> QED BY <1>1, <1>2, <1>3 DEF Queue!Init

\* db.py keeps what it promises of accepted work: every behaviour of the tables
\* is, seen through their rows, a behaviour of the work queue.
THEOREM MailboxImplementsQueue == Spec => ImplementsWorkQueue
<1>1. FencingInv /\ [Next]_vars => [Queue!Next]_(Queue!queue)
  BY QueueStep
<1> QED BY <1>1, QueueInit, Fencing, PTL DEF Spec, ImplementsWorkQueue, Queue!Spec
=============================================================================
