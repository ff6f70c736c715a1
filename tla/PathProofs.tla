------------------------------ MODULE PathProofs ------------------------------
(* Theorems about the Path test, for any targets, subjects and replies. *)
EXTENDS Path, FiniteSetTheorems, TLAPS

-----------------------------------------------------------------------------
(* What the state of a test looks like.                                    *)

IsSequence(E) == \E S : E \in Seq(S)
Places == {"resolving", "fetching", "sending", "waiting", "recording", "judged"}

\* The record, the answers and their outputs are sequences, and the rest is well-formed.
Sequenced ==
  /\ IsSequence(events) /\ IsSequence(told)
  /\ \A n \in DOMAIN told : IsSequence(told[n].outputs)
PathTypeOK ==
  /\ profile \in PathProfiles
  /\ target \in [usable : BOOLEAN, pin : {Nothing, "card"}]
  /\ driver.at \in Places /\ driver.path \in {1, 2} /\ driver.attempt \in {1, 2}
  /\ driver = [at |-> driver.at, path |-> driver.path, attempt |-> driver.attempt, reply |-> driver.reply]
  /\ wire = Call(wire.what, wire.body)
  /\ quotes \in Nat

\* What the driver asks in an attempt.
AskedIn(attempt) ==
  IF attempt = 2 /\ profile.condition = "conflicting_retry" THEN "changed" ELSE "original"

\* The driver, the call in flight and what the subject has answered so far.
InStep ==
  /\ driver.at = "resolving" => wire.what = "quiet" /\ events = <<>>
  /\ driver.at \in {"resolving", "fetching"} => driver.attempt = 1 /\ told = <<>>
  /\ driver.at = "fetching" => wire.what \in {"quiet", "card?", "card", "failure"}
  /\ driver.at \in {"sending", "recording", "judged"} => wire.what = "quiet"
  /\ driver.at = "sending" => Len(told) = driver.attempt - 1
  /\ driver.at = "waiting" =>
       /\ wire.what \in {"order?", "task", "failure"}
       /\ wire.what = "order?" => Len(told) = driver.attempt - 1 /\ wire.body = AskedIn(driver.attempt)
       /\ wire.what = "task" => Len(told) = driver.attempt /\ wire.body = told[driver.attempt]
  /\ driver.at = "recording" => Len(told) = driver.attempt /\ driver.reply = told[driver.attempt]
  /\ Len(told) <= driver.attempt
  /\ wire.what = "failure" => faults # {}

\* What an exchange and a quote on the record say of the reply they are of.
StateRead(reply) == IF reply.state = "malformed" THEN "absent" ELSE reply.state
ExchangeOf(p, reply) ==
  [ok |-> TRUE, task |-> Echoed(reply.task), state |-> Echoed(StateRead(reply)),
   count |-> IF p.strict THEN Len(Texts(reply)) ELSE 0]
QuoteOf(text) ==
  [total |-> Echoed(text.total), id |-> Echoed(text.id), item |-> text.item, digest |-> text]

\* An event that makes nothing up, of the answers to a test of a profile and a pin.
Attested(p, pin, answers, e) ==
  /\ e.kind = "protocol_exchange" /\ e.detail.ok =>
       e.attempt \in 1..Len(answers) /\ e.detail = ExchangeOf(p, answers[e.attempt])
  /\ e.kind = "fulfillment_observed" =>
       /\ e.attempt \in 1..Len(answers) /\ Texts(answers[e.attempt]) # <<>>
       /\ Texts(answers[e.attempt])[1].form = "quote"
       /\ e.detail = QuoteOf(Texts(answers[e.attempt])[1])
  /\ e.kind = "descriptor_expected" => e.detail = pin
Truthful ==
  /\ \A n \in DOMAIN events : Attested(profile, target.pin, told, events[n])
  /\ target.pin # Nothing /\ Has(events, "card_retrieved") => Has(events, "descriptor_expected")

-----------------------------------------------------------------------------
(* What is on the record of a test in which nothing went wrong.            *)

\* A reply that the driver can go on after, or, at last, the refusal it hopes for.
Plain(p, attempt, reply) ==
  /\ reply.task = "task"
  /\ \/ reply.state = "completed" /\ Len(Texts(reply)) = 1 /\ Texts(reply)[1].form = "quote"
     \/ attempt = 2 /\ p.condition = "conflicting_retry" /\ reply.state = "rejected"
Smooth == faults = {} /\ \A a \in DOMAIN told : Plain(profile, a, told[a])

\* A request that left nothing on the record, an exchange, and an exchange with its quote.
Only(E, S, detail) == \E n \in DOMAIN E : S = {n} /\ E[n].detail = detail
Blank(E, attempt) ==
  Of(E, "protocol_exchange", attempt) = {} /\ Outcomes(E, attempt) = {}
Exchanged(p, E, attempt, reply) ==
  Only(E, Of(E, "protocol_exchange", attempt), ExchangeOf(p, reply))
Recorded(p, E, attempt, reply) ==
  /\ Exchanged(p, E, attempt, reply)
  /\ Of(E, "fulfillment_unparseable", attempt) = {}
  /\ IF reply.state = "completed" THEN Only(E, Good(E, attempt), QuoteOf(Texts(reply)[1]))
     ELSE Good(E, attempt) = {}

\* The agent was found, and its card, and its card is the pinned one.
Found(E) ==
  /\ Has(E, "resolution_hop") /\ ~Has(E, "resolution_failed")
  /\ ~Has(E, "card_fetch_failed") /\ ~Has(E, "town_driver_error")
CardOf(s) == IF s = "card_drift" THEN "drifted" ELSE "card"
Carded(pin, s, E) ==
  /\ Found(E) /\ Has(E, "card_retrieved")
  /\ s # Stranger => \A n \in DOMAIN E : E[n].kind = "card_retrieved" => E[n].detail = CardOf(s)
  /\ pin = Nothing => ~Has(E, "descriptor_expected")
Pinned(pin, E) ==
  pin # Nothing => \A n \in DOMAIN E : E[n].kind = "card_retrieved" => E[n].detail = pin

\* So far, so good: what is on the record at every place of the driver.
OnRecord(p, pin, s, E, answers, place, attempt) ==
  /\ place = "fetching" =>
       Found(E) /\ ~Has(E, "card_retrieved") /\ ~Has(E, "descriptor_expected") /\ Blank(E, 1) /\ Blank(E, 2)
  /\ place \in {"sending", "waiting", "recording"} \/ (place = "judged" /\ answers # <<>>) =>
       Carded(pin, s, E) /\ Pinned(pin, E)
  /\ place \in {"sending", "waiting"} => Blank(E, 2) /\ (attempt = 1 => Blank(E, 1))
  /\ place \in {"sending", "waiting", "recording"} /\ attempt = 2 =>
       Recorded(p, E, 1, answers[1]) /\ answers[1].state = "completed"
  /\ place = "recording" =>
       /\ attempt = 1 => Blank(E, 2)
       /\ Exchanged(p, E, attempt, answers[attempt]) /\ Outcomes(E, attempt) = {}
  /\ place = "judged" /\ answers # <<>> =>
       /\ Len(answers) = 2 /\ answers[1].state = "completed"
       /\ Recorded(p, E, 1, answers[1]) /\ Recorded(p, E, 2, answers[2])
Complete ==
  Smooth =>
    /\ OnRecord(profile, target.pin, subject, events, told, driver.at, driver.attempt)
    /\ driver.at = "judged" /\ told = <<>> /\ subject # Stranger /\ target.usable =>
         /\ Carded(target.pin, subject, events) /\ Blank(events, 1) /\ Blank(events, 2)
         /\ subject = "card_drift" /\ target.pin # Nothing

\* The reference agent, in the order of its two requests.
FirstQuote ==
  Quote(Priced("original"), "order",
        IF subject = "wrong_item" THEN "other" ELSE IF profile.intent THEN "asked" ELSE "absent", 0)
Reference ==
  subject # Stranger =>
    /\ told = <<>> => terms = Nothing /\ quotes = 0
    /\ wire.what = "card" => wire.body = IF subject = "card_drift" THEN "drifted" ELSE "card"
    /\ Len(told) = 1 =>
         /\ terms = IF Binds THEN "original" ELSE Nothing
         /\ quotes = IF subject = "duplicate_fulfillment" THEN 1 ELSE 0
    /\ told # <<>> => told[1] = Task("completed", <<FirstQuote>>)
    /\ Len(told) = 2 =>
         IF profile.condition = "conflicting_retry" /\ Binds
         THEN told[2] = Task("rejected", <<Quote("absent", "order", "absent", 0)>>)
         ELSE IF profile.condition = "conflicting_retry" THEN told[2] = Task("completed", <<Quoted("changed")>>)
         ELSE IF subject = "duplicate_fulfillment"
         THEN told[2] = Task("completed", <<Quote(Priced("original"), "order", "absent", 2)>>)
         ELSE told[2] = told[1]

PathInv == Sequenced /\ PathTypeOK /\ InStep /\ Truthful /\ Complete /\ Reference

-----------------------------------------------------------------------------
(* Events at the end of the record.                                        *)

\* What is left of a sequence when something is added at its end: every element, in its
\* place, and the new one after them.
LEMMA Appending ==
  ASSUME NEW E, IsSequence(E), NEW e
  PROVE  /\ IsSequence(E \o <<e>>) /\ Append(E, e) = E \o <<e>>
         /\ Len(E) \in Nat /\ Len(E \o <<e>>) = Len(E) + 1
         /\ DOMAIN E = 1..Len(E) /\ DOMAIN (E \o <<e>>) = 1..Len(E) + 1
         /\ \A n \in 1..Len(E) : (E \o <<e>>)[n] = E[n]
         /\ (E \o <<e>>)[Len(E) + 1] = e
<1>1. PICK S : E \in Seq(S)
  BY DEF IsSequence
<1> DEFINE T == S \cup {e}
<1>2. E \in Seq(T) /\ e \in T
  BY <1>1
<1> HIDE DEF T
<1>3. E \o <<e>> \in Seq(T)
  BY <1>2
<1>4. /\ Append(E, e) = E \o <<e>>
      /\ Len(E) \in Nat /\ Len(E \o <<e>>) = Len(E) + 1
      /\ DOMAIN E = 1..Len(E) /\ DOMAIN (E \o <<e>>) = 1..Len(E) + 1
      /\ \A n \in 1..Len(E) : (E \o <<e>>)[n] = E[n]
      /\ (E \o <<e>>)[Len(E) + 1] = e
  BY <1>2
<1> QED
  BY <1>3, <1>4 DEF IsSequence

\* Two events emitted at once are emitted one after the other.
LEMMA Two ==
  ASSUME NEW E, IsSequence(E), NEW d, NEW e
  PROVE  E \o (<<d>> \o <<e>>) = (E \o <<d>>) \o <<e>>
<1>1. PICK S : E \in Seq(S)
  BY DEF IsSequence
<1> DEFINE T == S \cup {d, e}
<1>2. E \in Seq(T) /\ d \in T /\ e \in T
  BY <1>1
<1> HIDE DEF T
<1> QED
  BY <1>2

\* Nothing more emitted.
LEMMA NothingMore ==
  ASSUME NEW E, IsSequence(E), NEW d
  PROVE  E \o (<<d>> \o <<>>) = E \o <<d>>
<1>1. <<d>> \o <<>> = <<d>>
  OBVIOUS
<1> QED
  BY <1>1

\* A sequence of known length.
LEMMA Lengths ==
  ASSUME NEW E, IsSequence(E)
  PROVE  /\ Len(E) \in Nat /\ DOMAIN E = 1..Len(E)
         /\ E = <<>> <=> Len(E) = 0
         /\ Len(E) = 1 => E = <<E[1]>>
<1>1. PICK S : E \in Seq(S)
  BY DEF IsSequence
<1> QED
  BY <1>1

\* The kinds on the record after an event, and the positions of a kind and attempt.
LEMMA Emitted ==
  ASSUME NEW E, IsSequence(E), NEW e, NEW kind, NEW attempt
  PROVE  /\ Has(E \o <<e>>, kind) <=> Has(E, kind) \/ e.kind = kind
         /\ Of(E \o <<e>>, kind, attempt) =
              Of(E, kind, attempt) \cup
                (IF e.kind = kind /\ e.attempt = attempt THEN {Len(E) + 1} ELSE {})
         /\ Of(E, kind, attempt) \subseteq 1..Len(E)
<1> DEFINE F == E \o <<e>>
<1>1. /\ Len(E) \in Nat /\ DOMAIN E = 1..Len(E) /\ DOMAIN F = 1..Len(E) + 1
      /\ \A n \in 1..Len(E) : F[n] = E[n]
      /\ F[Len(E) + 1] = e
  BY Appending
<1> HIDE DEF F
<1>2. Has(F, kind) <=> Has(E, kind) \/ e.kind = kind
  BY <1>1 DEF Has
<1>3. Of(F, kind, attempt) =
        Of(E, kind, attempt) \cup
          (IF e.kind = kind /\ e.attempt = attempt THEN {Len(E) + 1} ELSE {})
  BY <1>1 DEF Of
<1>4. Of(E, kind, attempt) \subseteq 1..Len(E)
  BY <1>1 DEF Of
<1> QED
  BY <1>2, <1>3, <1>4 DEF F

\* The outputs that are read of a reply.
LEMMA TextsSequence ==
  ASSUME NEW reply, IsSequence(reply.outputs)
  PROVE  IsSequence(Texts(reply))
<1>1. IsSequence(<<>>)
  <2>1. <<>> \in Seq({})
    OBVIOUS
  <2> QED
    BY <2>1 DEF IsSequence
<1> QED
  BY <1>1 DEF Texts

-----------------------------------------------------------------------------
(* The steps: types, and the driver in step with the call in flight.       *)

\* The driver after GoTo and after NextAttempt.
LEMMA DriverMoves ==
  ASSUME PathTypeOK, NEW place
  PROVE  /\ GoTo(place) => driver' = [at |-> place, path |-> driver.path, attempt |-> driver.attempt, reply |-> driver.reply]
         /\ NextAttempt =>
              driver' = [at |-> IF driver.attempt = 1 THEN "sending" ELSE "judged", path |-> driver.path,
                         attempt |-> 2, reply |-> driver.reply]
<1>1. driver = [at |-> driver.at, path |-> driver.path, attempt |-> driver.attempt, reply |-> driver.reply]
      /\ driver.attempt \in {1, 2}
  BY DEF PathTypeOK
<1>2. GoTo(place) => driver' = [at |-> place, path |-> driver.path, attempt |-> driver.attempt, reply |-> driver.reply]
  BY <1>1 DEF GoTo
<1>3. NextAttempt =>
        driver' = [at |-> IF driver.attempt = 1 THEN "sending" ELSE "judged", path |-> driver.path,
                   attempt |-> 2, reply |-> driver.reply]
  BY <1>1 DEF NextAttempt
<1> QED
  BY <1>2, <1>3

\* What RecordOutput makes of a reply.
LEMMA Recordings ==
  ASSUME RecordOutput, NEW texts, texts = Texts(driver.reply)
  PROVE  \/ /\ events' = events /\ End
            /\ profile.strict /\ ~(driver.reply.task = "task" /\ driver.reply.state = "completed")
         \/ /\ Emit(<<Unparseable>>) /\ (End \/ NextAttempt)
            /\ ~(Len(texts) = 1 /\ texts # <<>> /\ texts[1].form = "quote")
         \/ /\ Emit(<<Observed(texts[1])>>) /\ NextAttempt
            /\ texts # <<>> /\ texts[1].form = "quote"
         \/ /\ Emit(<<DriverError>>) /\ End
            /\ ~(texts # <<>> /\ texts[1].form = "quote")
         \/ /\ Emit(<<NoExchange>>) /\ End
            /\ ~(texts # <<>> /\ texts[1].form = "quote")
<1> DEFINE text == IF texts = <<>> THEN Output("garbage") ELSE texts[1]
<1>1. Output("garbage").form = "garbage"
  BY DEF Output, Quote
<1>2. text.form = "quote" => texts # <<>> /\ text = texts[1]
  BY <1>1
<1>3. texts # <<>> => text = texts[1]
  OBVIOUS
<1>4. CASE profile.strict
  BY <1>2, <1>3, <1>4 DEF RecordOutput
<1>5. CASE ~profile.strict
  <2>1. driver.reply.broken => texts = <<>>
    BY DEF Texts
  <2>2. Output("garbage").form # "deep" /\ Output("garbage").form # "long"
    BY <1>1
  <2>3. CASE driver.reply.broken \/ text.form = "deep"
    BY <1>2, <1>3, <1>5, <2>1, <2>3 DEF RecordOutput
  <2>4. CASE ~driver.reply.broken /\ text.form # "deep"
    BY <1>2, <1>3, <1>5, <2>1, <2>4 DEF RecordOutput
  <2> QED
    BY <2>3, <2>4
<1> QED
  BY <1>4, <1>5

\* Every step leaves sequences.
LEMMA SequencedStep ==
  ASSUME Sequenced, PathNext
  PROVE  Sequenced'
<1>1. IsSequence(events) /\ IsSequence(told) /\ \A n \in DOMAIN told : IsSequence(told[n].outputs)
  BY DEF Sequenced
<1>2. \A e : IsSequence(events \o <<e>>)
  BY <1>1, Appending
<1>3. \A d, e : IsSequence(events \o (<<d>> \o <<e>>))
  <2> TAKE d, e
  <2>1. IsSequence(events \o <<d>>)
    BY <1>2
  <2>2. IsSequence((events \o <<d>>) \o <<e>>)
    BY <2>1, Appending
  <2>3. events \o (<<d>> \o <<e>>) = (events \o <<d>>) \o <<e>>
    BY <1>1, Two
  <2> QED
    BY <2>2, <2>3
<1>4. ASSUME NEW reply, Answer(reply), IsSequence(reply.outputs), events' = events
      PROVE  Sequenced'
  <2>1. told' = told \o <<reply>>
    BY <1>1, <1>4, Appending DEF Answer
  <2>2. /\ IsSequence(told')
        /\ \A n \in DOMAIN told' : IsSequence(told'[n].outputs)
    <3>1. /\ Len(told) \in Nat /\ DOMAIN told = 1..Len(told) /\ DOMAIN told' = 1..Len(told) + 1
          /\ \A n \in 1..Len(told) : told'[n] = told[n]
          /\ told'[Len(told) + 1] = reply /\ IsSequence(told')
      BY <1>1, <2>1, Appending
    <3> QED
      BY <1>1, <1>4, <3>1
  <2> QED
    BY <1>1, <1>4, <2>2 DEF Sequenced
<1>5. ASSUME told' = told, IsSequence(events')
      PROVE  Sequenced'
  BY <1>1, <1>5 DEF Sequenced
<1>6. ASSUME NEW e, told' = told, Emit(<<e>>)
      PROVE  Sequenced'
  BY <1>2, <1>5, <1>6 DEF Emit
<1>7. CASE Resolve
  BY <1>6, <1>7 DEF Resolve
<1>8. CASE FetchCard \/ ReadCardElsewhere \/ SendOrder \/ ServeCard \/ LoseCall
  BY <1>1, <1>5, <1>8 DEF FetchCard, ReadCardElsewhere, SendOrder, ServeCard, LoseCall
<1>9. CASE CardFails
  BY <1>6, <1>9 DEF CardFails
<1>10. CASE ReadCard
  <2> DEFINE d == Event("card_retrieved", 0, wire.body)
             e == Event("descriptor_expected", 0, target.pin)
  <2>1. events' = events \o (<<d>> \o (IF target.pin = Nothing THEN <<>> ELSE <<e>>)) /\ told' = told
    BY <1>10 DEF ReadCard, Emit
  <2> HIDE DEF d, e
  <2>2. CASE target.pin = Nothing
    <3>1. events' = events \o <<d>>
      BY <1>1, <2>1, <2>2, NothingMore
    <3> QED
      BY <1>2, <1>5, <2>1, <3>1
  <2>3. CASE target.pin # Nothing
    BY <1>3, <1>5, <2>1, <2>3
  <2> QED
    BY <2>2, <2>3
<1>11. CASE ExchangeFails
  BY <1>6, <1>11 DEF ExchangeFails
<1>12. CASE ReadReply
  BY <1>6, <1>12 DEF ReadReply
<1>13. CASE RecordOutput
  <2>1. told' = told
    BY <1>13 DEF RecordOutput
  <2> QED
    BY <1>1, <1>5, <1>6, <1>13, <2>1, Recordings
<1>14. CASE Malfunction
  BY <1>6, <1>14 DEF Malfunction
<1>15. CASE HandleOrder
  <2>1. PICK reply : Answer(reply) /\ IsSequence(reply.outputs) /\ events' = events
    <3>1. IsSequence(Task("rejected", <<Quote("absent", "order", "absent", 0)>>).outputs)
      <4>1. <<Quote("absent", "order", "absent", 0)>> \in Seq({Quote("absent", "order", "absent", 0)})
        OBVIOUS
      <4> QED
        BY <4>1 DEF Task, IsSequence
    <3>2. IsSequence(Task("completed", <<Quoted(wire.body)>>).outputs)
      <4>1. <<Quoted(wire.body)>> \in Seq({Quoted(wire.body)})
        OBVIOUS
      <4> QED
        BY <4>1 DEF Task, IsSequence
    <3> QED
      BY <1>15, <3>1, <3>2 DEF HandleOrder
  <2> QED
    BY <1>4, <2>1
<1>16. CASE StrangerAnswers
  <2>1. PICK reply \in Replies : Answer(reply) /\ events' = events
    BY <1>16 DEF StrangerAnswers
  <2>2. reply.outputs \in Seq(Outputs)
    BY <2>1, PathAssumption
  <2> QED
    BY <1>4, <2>1, <2>2 DEF IsSequence
<1> QED
  BY <1>7, <1>8, <1>9, <1>10, <1>11, <1>12, <1>13, <1>14, <1>15, <1>16 DEF PathNext

\* Every step keeps the types and keeps the driver in step with the call in flight.
LEMMA InStepStep ==
  ASSUME Sequenced, PathTypeOK, InStep, PathNext
  PROVE  PathTypeOK' /\ InStep'
<1>1. /\ profile \in PathProfiles
      /\ target \in [usable : BOOLEAN, pin : {Nothing, "card"}]
      /\ driver.at \in Places /\ driver.path \in {1, 2} /\ driver.attempt \in {1, 2}
      /\ driver = [at |-> driver.at, path |-> driver.path, attempt |-> driver.attempt, reply |-> driver.reply]
      /\ wire = Call(wire.what, wire.body)
      /\ quotes \in Nat
  BY DEF PathTypeOK
<1>2. IsSequence(told) /\ Len(told) \in Nat /\ (told = <<>> <=> Len(told) = 0)
  BY Lengths DEF Sequenced
<1>3. \A reply : Answer(reply) =>
        /\ Len(told') = Len(told) + 1 /\ told' # <<>> /\ wire' = Call("task", reply)
        /\ \A n \in 1..Len(told) : told'[n] = told[n]
        /\ told'[Len(told) + 1] = reply
  <2> SUFFICES ASSUME NEW reply, Answer(reply)
               PROVE  /\ Len(told') = Len(told) + 1 /\ told' # <<>> /\ wire' = Call("task", reply)
                      /\ \A n \in 1..Len(told) : told'[n] = told[n]
                      /\ told'[Len(told) + 1] = reply
    OBVIOUS
  <2>1. told' = told \o <<reply>> /\ wire' = Call("task", reply)
    BY <1>2, Appending DEF Answer
  <2>2. /\ Len(told') = Len(told) + 1 /\ IsSequence(told')
        /\ \A n \in 1..Len(told) : told'[n] = told[n]
        /\ told'[Len(told) + 1] = reply
    BY <1>2, <2>1, Appending
  <2>3. Len(told') # 0
    BY <1>2, <2>2
  <2> QED
    BY <2>1, <2>2, <2>3, Lengths
<1>4. \A what, body : Call(what, body) = [what |-> what, body |-> body]
  BY DEF Call
<1>5. /\ driver.at = "resolving" => wire.what = "quiet" /\ events = <<>>
      /\ driver.at \in {"resolving", "fetching"} => driver.attempt = 1 /\ told = <<>>
      /\ driver.at = "fetching" => wire.what \in {"quiet", "card?", "card", "failure"}
      /\ driver.at \in {"sending", "recording", "judged"} => wire.what = "quiet"
      /\ driver.at = "sending" => Len(told) = driver.attempt - 1
      /\ driver.at = "waiting" => wire.what \in {"order?", "task", "failure"}
      /\ driver.at = "waiting" /\ wire.what = "order?" =>
           Len(told) = driver.attempt - 1 /\ wire.body = AskedIn(driver.attempt)
      /\ driver.at = "waiting" /\ wire.what = "task" =>
           Len(told) = driver.attempt /\ wire.body = told[driver.attempt]
      /\ driver.at = "recording" => Len(told) = driver.attempt /\ driver.reply = told[driver.attempt]
      /\ Len(told) <= driver.attempt
      /\ wire.what = "failure" => faults # {}
  BY DEF InStep
<1>6. ASSUME UNCHANGED test, UNCHANGED quotes, NEW place \in Places, GoTo(place), UNCHANGED told,
             wire' \in {wire, Quiet}, wire'.what = "quiet",
             place # "resolving", place # "recording", place # "waiting",
             place = "fetching" => driver.at = "resolving",
             place = "sending" => driver.at = "fetching"
      PROVE  PathTypeOK' /\ InStep'
  <2>1. driver' = [at |-> place, path |-> driver.path, attempt |-> driver.attempt, reply |-> driver.reply]
    BY <1>6, DriverMoves
  <2>2. wire'.what = "quiet" /\ wire' = Call(wire'.what, wire'.body)
    BY <1>1, <1>4, <1>6 DEF Quiet
  <2>3. PathTypeOK'
    BY <1>1, <1>4, <1>6, <2>1, <2>2 DEF PathTypeOK, test
  <2>4. /\ driver'.at = place /\ driver'.attempt = driver.attempt /\ driver'.reply = driver.reply
        /\ wire'.what = "quiet"
    BY <2>1, <2>2
  <2>5. place = "sending" => Len(told') = driver'.attempt - 1
    BY <1>2, <1>5, <1>6, <2>4
  <2>6. InStep'
    BY <1>2, <1>5, <1>6, <2>4, <2>5 DEF InStep
  <2> QED
    BY <2>3, <2>6
<1>7. ASSUME UNCHANGED <<test, driver, told, quotes>>, NEW call, wire' = call,
             call = Call(call.what, call.body),
             faults' = faults \/ faults' # {},
             call.what = "failure" => faults' # {},
             \/ driver.at = "fetching" /\ call.what \in {"quiet", "card?", "card", "failure"}
             \/ driver.at = "waiting" /\ call.what = "failure"
      PROVE  PathTypeOK' /\ InStep'
  <2>1. PathTypeOK'
    BY <1>1, <1>7 DEF PathTypeOK, test
  <2>2. InStep'
    BY <1>1, <1>2, <1>5, <1>7 DEF InStep, AskedIn, test
  <2> QED
    BY <2>1, <2>2
<1>8. Quiet = Call("quiet", Nothing) /\ Quiet.what = "quiet" /\ Quiet.body = Nothing
  BY <1>4 DEF Quiet
<1>9. \A place : place \in {"fetching", "sending", "judged"} => place \in Places
  BY DEF Places
<1>10. CASE Resolve
  <2>1. driver.at = "resolving" /\ (GoTo("fetching") \/ GoTo("judged"))
    BY <1>10 DEF Resolve, End
  <2>2. UNCHANGED test /\ UNCHANGED quotes /\ UNCHANGED told /\ wire' = wire
    BY <1>10 DEF Resolve
  <2>3. wire'.what = "quiet"
    BY <1>5, <2>1, <2>2
  <2> QED
    BY <1>6, <1>9, <2>1, <2>2, <2>3
<1>11. CASE FetchCard
  BY <1>4, <1>7, <1>11 DEF FetchCard
<1>12. CASE ReadCardElsewhere
  <2>1. driver.at = "fetching" /\ driver' = [driver EXCEPT !.path = 2] /\ wire' = Quiet
        /\ UNCHANGED <<test, terms, quotes, told, events, faults>>
    BY <1>12 DEF ReadCardElsewhere
  <2>2. driver' = [at |-> "fetching", path |-> 2, attempt |-> driver.attempt, reply |-> driver.reply]
    BY <1>1, <2>1
  <2>3. PathTypeOK'
    BY <1>1, <1>4, <1>8, <2>1, <2>2 DEF PathTypeOK, test
  <2>4. InStep'
    BY <1>2, <1>5, <1>8, <2>1, <2>2 DEF InStep
  <2> QED
    BY <2>3, <2>4
<1>13. CASE CardFails
  BY <1>6, <1>8, <1>9, <1>13 DEF CardFails, End
<1>14. CASE ReadCard
  BY <1>6, <1>8, <1>9, <1>14 DEF ReadCard, End
<1>15. CASE SendOrder
  <2>1. driver.at = "sending" /\ GoTo("waiting") /\ wire' = Call("order?", Terms)
        /\ UNCHANGED <<test, terms, quotes, told, events, faults>>
    BY <1>15 DEF SendOrder
  <2>2. driver' = [at |-> "waiting", path |-> driver.path, attempt |-> driver.attempt, reply |-> driver.reply]
    BY <2>1, DriverMoves
  <2>3. Terms = AskedIn(driver.attempt)
    BY DEF Terms, AskedIn
  <2>4. PathTypeOK'
    BY <1>1, <1>4, <2>1, <2>2 DEF PathTypeOK, test, Places
  <2>5. wire'.what = "order?" /\ wire'.body = AskedIn(driver.attempt)
    BY <1>4, <2>1, <2>3
  <2>6. AskedIn(driver.attempt)' = AskedIn(driver.attempt)
    BY <2>1, <2>2 DEF AskedIn, test
  <2>7. InStep'
    BY <1>2, <1>5, <2>1, <2>2, <2>5, <2>6 DEF InStep
  <2> QED
    BY <2>4, <2>7
<1>16. CASE ExchangeFails
  BY <1>6, <1>8, <1>9, <1>16 DEF ExchangeFails, End
<1>17. CASE ReadReply
  <2>1. driver.at = "waiting" /\ wire.what = "task" /\ wire' = Quiet
        /\ UNCHANGED <<test, terms, quotes, told, faults>>
    BY <1>17 DEF ReadReply
  <2>2. \/ GoTo("judged") \/ driver' = [driver EXCEPT !.at = "recording", !.reply = wire.body]
    BY <1>17 DEF ReadReply, End
  <2>3. CASE GoTo("judged")
    BY <1>6, <1>8, <1>9, <2>1, <2>3
  <2>4. CASE driver' = [driver EXCEPT !.at = "recording", !.reply = wire.body]
    <3>1. driver' = [at |-> "recording", path |-> driver.path, attempt |-> driver.attempt, reply |-> wire.body]
      BY <1>1, <2>4
    <3>2. PathTypeOK'
      BY <1>1, <1>4, <1>8, <2>1, <3>1 DEF PathTypeOK, test, Places
    <3>3. InStep'
      BY <1>2, <1>5, <1>8, <2>1, <3>1 DEF InStep
    <3> QED
      BY <3>2, <3>3
  <2> QED
    BY <2>2, <2>3, <2>4
<1>18. CASE RecordOutput
  <2>1. driver.at = "recording" /\ UNCHANGED <<test, wire, terms, quotes, told, faults>>
    BY <1>18 DEF RecordOutput
  <2>2. GoTo("judged") \/ NextAttempt
    BY <1>18, Recordings DEF End
  <2>3. wire'.what = "quiet"
    BY <1>5, <2>1
  <2>4. CASE GoTo("judged")
    BY <1>6, <1>9, <2>1, <2>3, <2>4
  <2>5. CASE NextAttempt
    <3>1. driver' = [at |-> IF driver.attempt = 1 THEN "sending" ELSE "judged", path |-> driver.path,
                     attempt |-> 2, reply |-> driver.reply]
      BY <2>5, DriverMoves
    <3>2. PathTypeOK'
      BY <1>1, <1>4, <2>1, <3>1 DEF PathTypeOK, test, Places
    <3>3. InStep'
      BY <1>1, <1>2, <1>5, <2>1, <2>3, <3>1 DEF InStep
    <3> QED
      BY <3>2, <3>3
  <2> QED
    BY <2>2, <2>4, <2>5
<1>19. CASE Malfunction
  BY <1>6, <1>8, <1>9, <1>19 DEF Malfunction, End
<1>20. CASE ServeCard
  <2>1. PICK card : wire' = Call("card", card)
    BY <1>20 DEF ServeCard
  <2>2. wire.what = "card?" /\ UNCHANGED <<test, driver, told, quotes, faults>>
    BY <1>20 DEF ServeCard
  <2>3. driver.at = "fetching"
    BY <1>1, <1>5, <2>2 DEF Places
  <2> QED
    BY <1>4, <1>7, <2>1, <2>2, <2>3
<1>21. ASSUME wire.what = "order?", NEW reply, Answer(reply), UNCHANGED <<test, driver, faults>>, quotes' \in Nat
       PROVE  PathTypeOK' /\ InStep'
  <2>1. driver.at = "waiting"
    BY <1>1, <1>5, <1>21 DEF Places
  <2>2. /\ Len(told') = Len(told) + 1 /\ told' # <<>> /\ wire' = Call("task", reply)
        /\ told'[Len(told) + 1] = reply
    BY <1>3, <1>21
  <2>3. Len(told) = driver.attempt - 1
    BY <1>5, <1>21, <2>1
  <2>4. wire'.what = "task" /\ wire'.body = reply
    BY <1>4, <2>2
  <2>5. PathTypeOK'
    BY <1>1, <1>4, <1>21, <2>2 DEF PathTypeOK, test
  <2>6. Len(told') = driver'.attempt /\ wire'.body = told'[driver'.attempt]
    BY <1>1, <1>2, <1>21, <2>2, <2>3, <2>4
  <2>7. InStep'
    BY <1>1, <1>5, <1>21, <2>1, <2>2, <2>4, <2>6 DEF InStep
  <2> QED
    BY <2>5, <2>7
<1>22. CASE HandleOrder
  <2>1. wire.what = "order?" /\ UNCHANGED <<test, driver, faults>>
    BY <1>22 DEF HandleOrder
  <2>2. \E reply : Answer(reply)
    BY <1>22 DEF HandleOrder
  <2>3. quotes' \in Nat
    BY <1>1, <1>22 DEF HandleOrder
  <2> QED
    BY <1>21, <2>1, <2>2, <2>3
<1>23. CASE StrangerAnswers
  <2>1. wire.what = "order?" /\ UNCHANGED <<test, driver, faults>> /\ quotes' \in Nat
    BY <1>1, <1>23 DEF StrangerAnswers
  <2>2. \E reply : Answer(reply)
    BY <1>23 DEF StrangerAnswers
  <2> QED
    BY <1>21, <2>1, <2>2
<1>24. CASE LoseCall
  <2>1. /\ wire.what \in {"card?", "card", "order?", "task"}
        /\ wire' = Call("failure", Nothing)
        /\ faults' = faults \cup {"loss"}
        /\ UNCHANGED <<test, driver, terms, quotes, told, events>>
    BY <1>24 DEF LoseCall
  <2>2. faults' # {}
    BY <2>1
  <2>3. driver.at \in {"fetching", "waiting"}
    BY <1>1, <1>5, <2>1 DEF Places
  <2> QED
    BY <1>4, <1>7, <2>1, <2>2, <2>3
<1> QED
  BY <1>10, <1>11, <1>12, <1>13, <1>14, <1>15, <1>16, <1>17, <1>18, <1>19, <1>20, <1>22, <1>23, <1>24 DEF PathNext

-----------------------------------------------------------------------------
(* The steps: the record is truthful.                                      *)

\* What was true stays true when the subject answers again.
LEMMA AttestedLater ==
  ASSUME NEW p, NEW pin, NEW answers, IsSequence(answers), NEW reply, NEW e, Attested(p, pin, answers, e)
  PROVE  Attested(p, pin, answers \o <<reply>>, e)
<1>1. /\ Len(answers) \in Nat /\ Len(answers \o <<reply>>) = Len(answers) + 1
      /\ \A n \in 1..Len(answers) : (answers \o <<reply>>)[n] = answers[n]
  BY Appending
<1> DEFINE longer == answers \o <<reply>>
<1>2. Len(longer) = Len(answers) + 1 /\ \A n \in 1..Len(answers) : longer[n] = answers[n]
  BY <1>1
<1> HIDE DEF longer
<1>3. \A n \in 1..Len(answers) : n \in 1..Len(longer)
  BY <1>1, <1>2
<1>4. Attested(p, pin, longer, e)
  BY <1>2, <1>3 DEF Attested
<1> QED
  BY <1>4 DEF longer

\* Every step leaves a truthful record.
LEMMA TruthfulStep ==
  ASSUME Sequenced, PathTypeOK, InStep, Truthful, PathNext
  PROVE  Truthful'
<1>1. /\ IsSequence(events) /\ IsSequence(told)
      /\ DOMAIN events = 1..Len(events) /\ Len(events) \in Nat /\ Len(told) \in Nat
  BY Lengths DEF Sequenced
<1>2. /\ \A n \in DOMAIN events : Attested(profile, target.pin, told, events[n])
      /\ target.pin # Nothing /\ Has(events, "card_retrieved") => Has(events, "descriptor_expected")
  BY DEF Truthful
<1>3. UNCHANGED test
  BY DEF PathNext, Resolve, FetchCard, ReadCardElsewhere, CardFails, ReadCard, SendOrder,
         ExchangeFails, ReadReply, RecordOutput, Malfunction, ServeCard, HandleOrder, StrangerAnswers, LoseCall
<1>4. profile' = profile /\ target' = target
  BY <1>3 DEF test
<1>5. ASSUME UNCHANGED <<events, told>>
      PROVE  Truthful'
  BY <1>2, <1>4, <1>5 DEF Truthful
<1>6. ASSUME NEW reply, Answer(reply), UNCHANGED events
      PROVE  Truthful'
  <2>1. told' = told \o <<reply>>
    BY <1>1, <1>6, Appending DEF Answer
  <2>2. \A n \in DOMAIN events : Attested(profile, target.pin, told \o <<reply>>, events[n])
    BY <1>1, <1>2, AttestedLater
  <2> QED
    BY <1>2, <1>4, <1>6, <2>1, <2>2 DEF Truthful
<1>7. ASSUME NEW E, IsSequence(E), NEW e, \A n \in DOMAIN E : Attested(profile, target.pin, told, E[n]),
             Attested(profile, target.pin, told, e)
      PROVE  \A n \in DOMAIN (E \o <<e>>) : Attested(profile, target.pin, told, (E \o <<e>>)[n])
  <2>1. /\ DOMAIN E = 1..Len(E) /\ DOMAIN (E \o <<e>>) = 1..Len(E) + 1 /\ Len(E) \in Nat
        /\ \A n \in 1..Len(E) : (E \o <<e>>)[n] = E[n]
        /\ (E \o <<e>>)[Len(E) + 1] = e
    BY <1>7, Appending
  <2> DEFINE F == E \o <<e>>
  <2>2. /\ DOMAIN E = 1..Len(E) /\ DOMAIN F = 1..Len(E) + 1 /\ Len(E) \in Nat
        /\ \A n \in 1..Len(E) : F[n] = E[n]
        /\ F[Len(E) + 1] = e
    BY <2>1
  <2> HIDE DEF F
  <2>3. ASSUME NEW n \in DOMAIN F
        PROVE  Attested(profile, target.pin, told, F[n])
    <3>1. CASE n \in 1..Len(E)
      BY <1>7, <2>2, <3>1
    <3>2. CASE n = Len(E) + 1
      BY <1>7, <2>2, <3>2
    <3> QED
      BY <2>2, <3>1, <3>2
  <2> QED
    BY <2>3 DEF F
<1>8. ASSUME NEW e, Emit(<<e>>), UNCHANGED told, Attested(profile, target.pin, told, e), e.kind # "card_retrieved"
      PROVE  Truthful'
  <2>1. events' = events \o <<e>>
    BY <1>8 DEF Emit
  <2>2. \A n \in DOMAIN (events \o <<e>>) : Attested(profile, target.pin, told, (events \o <<e>>)[n])
    BY <1>1, <1>2, <1>7, <1>8
  <2>3. \A kind : Has(events \o <<e>>, kind) <=> Has(events, kind) \/ e.kind = kind
    BY <1>1, Emitted
  <2>4. target.pin # Nothing /\ Has(events \o <<e>>, "card_retrieved") => Has(events \o <<e>>, "descriptor_expected")
    BY <1>2, <1>8, <2>3
  <2> QED
    BY <1>4, <1>8, <2>1, <2>2, <2>4 DEF Truthful
\* Notes of the driver speak of no answer.
<1>9. ASSUME NEW kind, NEW attempt, NEW detail,
             kind \notin {"protocol_exchange", "fulfillment_observed", "descriptor_expected"}
      PROVE  Attested(profile, target.pin, told, Event(kind, attempt, detail)) /\ Event(kind, attempt, detail).kind = kind
  BY <1>9 DEF Attested, Event
<1>10. Attested(profile, target.pin, told, NoExchange) /\ NoExchange.kind = "protocol_exchange"
  <2>1. NoExchange.detail.ok = FALSE /\ NoExchange.kind = "protocol_exchange"
    BY DEF NoExchange, Exchange, Event
  <2> QED
    BY <2>1 DEF Attested
<1>11. CASE Resolve
  BY <1>8, <1>9, <1>11 DEF Resolve
<1>12. CASE FetchCard \/ ReadCardElsewhere \/ SendOrder \/ ServeCard \/ LoseCall
  BY <1>5, <1>12 DEF FetchCard, ReadCardElsewhere, SendOrder, ServeCard, LoseCall
<1>13. CASE CardFails
  BY <1>8, <1>9, <1>13 DEF CardFails
<1>14. CASE ReadCard
  <2> DEFINE d == Event("card_retrieved", 0, wire.body)
             e == Event("descriptor_expected", 0, target.pin)
  <2>1. events' = events \o (<<d>> \o (IF target.pin = Nothing THEN <<>> ELSE <<e>>)) /\ told' = told
    BY <1>14 DEF ReadCard, Emit
  <2>2. Attested(profile, target.pin, told, d)
    BY <1>9
  <2>3. Attested(profile, target.pin, told, e)
    BY DEF Attested, Event
  <2>4. e.kind = "descriptor_expected"
    BY DEF Event
  <2> HIDE DEF d, e
  <2>5. IsSequence(events \o <<d>>)
        /\ \A n \in DOMAIN (events \o <<d>>) : Attested(profile, target.pin, told, (events \o <<d>>)[n])
    BY <1>1, <1>2, <1>7, <2>2, Appending
  <2>6. CASE target.pin = Nothing
    <3>1. events' = events \o <<d>>
      BY <1>1, <2>1, <2>6, NothingMore
    <3> QED
      BY <1>4, <2>1, <2>5, <2>6, <3>1 DEF Truthful
  <2>7. CASE target.pin # Nothing
    <3>1. events' = (events \o <<d>>) \o <<e>>
      BY <1>1, <2>1, <2>7, Two
    <3>2. \A n \in DOMAIN ((events \o <<d>>) \o <<e>>) :
            Attested(profile, target.pin, told, ((events \o <<d>>) \o <<e>>)[n])
      BY <1>7, <2>3, <2>5
    <3>3. Has((events \o <<d>>) \o <<e>>, "descriptor_expected")
      BY <2>4, <2>5, Emitted
    <3> QED
      BY <1>4, <2>1, <3>1, <3>2, <3>3 DEF Truthful
  <2> QED
    BY <2>6, <2>7
<1>15. CASE ExchangeFails
  <2>1. NoExchange.kind # "card_retrieved"
    BY <1>10
  <2> QED
    BY <1>8, <1>10, <1>15, <2>1 DEF ExchangeFails
<1>16. DriverError.kind # "card_retrieved" /\ Attested(profile, target.pin, told, DriverError)
  BY <1>9 DEF DriverError
<1>17. CASE ReadReply
  <2> DEFINE e == Exchange(TRUE, Echoed(wire.body.task), Echoed(StateRead(wire.body)),
                           IF profile.strict THEN Len(Texts(wire.body)) ELSE 0)
  <2>1. told' = told /\ (Emit(<<DriverError>>) \/ Emit(<<e>>))
    BY <1>17 DEF ReadReply, StateRead
  <2>2. driver.attempt \in 1..Len(told) /\ wire.body = told[driver.attempt]
    BY <1>1, <1>17 DEF ReadReply, InStep, PathTypeOK
  <2>3. e.kind = "protocol_exchange" /\ e.attempt = driver.attempt /\ e.detail = ExchangeOf(profile, wire.body)
    BY DEF Exchange, Event, ExchangeOf
  <2> HIDE DEF e
  <2>4. Attested(profile, target.pin, told, e)
    BY <2>2, <2>3 DEF Attested
  <2>5. e.kind # "card_retrieved"
    BY <2>3
  <2> QED
    BY <1>8, <1>16, <2>1, <2>4, <2>5
<1>18. CASE RecordOutput
  <2> DEFINE texts == Texts(driver.reply)
             e == Observed(texts[1])
  <2>1. told' = told
    BY <1>18 DEF RecordOutput
  <2>2. driver.attempt \in 1..Len(told) /\ driver.reply = told[driver.attempt]
    BY <1>1, <1>18 DEF RecordOutput, InStep, PathTypeOK
  <2>3. e.kind = "fulfillment_observed" /\ e.attempt = driver.attempt /\ e.detail = QuoteOf(texts[1])
    BY DEF Observed, Event, QuoteOf
  <2>4. Attested(profile, target.pin, told, Unparseable) /\ Unparseable.kind # "card_retrieved"
    BY <1>9 DEF Unparseable
  <2>5. \/ events' = events
        \/ Emit(<<Unparseable>>) \/ Emit(<<DriverError>>) \/ Emit(<<NoExchange>>)
        \/ Emit(<<e>>) /\ texts # <<>> /\ texts[1].form = "quote"
    BY <1>18, Recordings
  <2> HIDE DEF e
  <2>6. texts # <<>> /\ texts[1].form = "quote" => Attested(profile, target.pin, told, e)
    BY <2>2, <2>3 DEF Attested
  <2>7. e.kind # "card_retrieved" /\ NoExchange.kind # "card_retrieved"
    BY <1>10, <2>3
  <2> QED
    BY <1>5, <1>8, <1>10, <1>16, <2>1, <2>4, <2>5, <2>6, <2>7
<1>19. CASE Malfunction
  <2>1. NoExchange.kind # "card_retrieved"
    BY <1>10
  <2>2. told' = told /\ (Emit(<<NoExchange>>) \/ Emit(<<DriverError>>))
    BY <1>19 DEF Malfunction
  <2> QED
    BY <1>8, <1>10, <1>16, <2>1, <2>2
<1>20. CASE HandleOrder
  <2>1. (\E reply : Answer(reply)) /\ UNCHANGED events
    BY <1>20 DEF HandleOrder
  <2> QED
    BY <1>6, <2>1
<1>21. CASE StrangerAnswers
  <2>1. (\E reply : Answer(reply)) /\ UNCHANGED events
    BY <1>21 DEF StrangerAnswers
  <2> QED
    BY <1>6, <2>1
<1> QED
  BY <1>11, <1>12, <1>13, <1>14, <1>15, <1>17, <1>18, <1>19, <1>20, <1>21 DEF PathNext

-----------------------------------------------------------------------------
(* Judging: what the stages read of the record.                            *)

\* The one event of a kind and attempt, if there is one.
LEMMA TheOnly ==
  ASSUME NEW E, NEW n \in Nat
  PROVE  Once({n}) /\ Cardinality({n}) = 1 /\ Leading(E, {n}) = E[n].detail
<1>1. Cardinality({n}) = 1
  BY FS_Singleton
<1>2. \E m \in {n} : \A k \in {n} : m <= k
  OBVIOUS
<1>3. Judge!Earliest({n}) = n
  BY <1>2 DEF Judge!Earliest
<1> QED
  BY <1>1, <1>3 DEF Once, Leading

\* Positions that are not several are none or one.
LEMMA NotSeveral ==
  ASSUME NEW E, IsSequence(E), NEW kind, NEW attempt,
         NEW S, S = Of(E, kind, attempt) \/ S = Outcomes(E, attempt)
  PROVE  /\ Once(S) => \E n \in DOMAIN E : S = {n}
         /\ S # {} => Cardinality(S) > 1 \/ Once(S)
<1>1. DOMAIN E = 1..Len(E) /\ Len(E) \in Nat
  BY Lengths
<1>2. S \subseteq 1..Len(E)
  BY <1>1 DEF Of, Outcomes, Good
<1>3. IsFiniteSet(S)
  <2>1. IsFiniteSet(1..Len(E))
    BY <1>1, FS_Interval
  <2> QED
    BY <1>2, <2>1, FS_Subset
<1>4. Cardinality(S) \in Nat
  BY <1>3, FS_CardinalityType
<1>5. Cardinality(S) = 0 <=> S = {}
  BY <1>3, FS_EmptySet
<1>6. Cardinality(S) = 1 => \E n : S = {n}
  BY <1>3, FS_Singleton
<1>7. Once(S) => \E n \in DOMAIN E : S = {n}
  BY <1>1, <1>2, <1>6 DEF Once
<1>8. S # {} => Cardinality(S) > 1 \/ Once(S)
  BY <1>4, <1>5 DEF Once
<1> QED
  BY <1>7, <1>8

\* The first event of a kind on a record that has one.
LEMMA TheFirst ==
  ASSUME NEW E, NEW kind, Has(E, kind)
  PROVE  \E n \in DOMAIN E : E[n].kind = kind /\ First(E, kind) = E[n].detail
BY DEF Has, First

\* A passed verdict has no stage that did not pass or was not tested.
LEMMA AllPassed ==
  ASSUME NEW stages, DOMAIN stages = 1..6,
         Judge!StageVerdict(Judge!Cascaded(stages)) = "passed", NEW k \in 1..6
  PROVE  stages[k] \in {"passed", "not_tested"}
<1> DEFINE cascaded == Judge!Cascaded(stages)
<1>1. {cascaded[j] : j \in DOMAIN cascaded} \ {"not_tested"} = {"passed"}
  BY DEF Judge!StageVerdict
<1>2. DOMAIN cascaded = 1..6
  BY DEF Judge!Cascaded
<1>3. \A j \in 1..6 : cascaded[j] =
        IF stages[j] = "not_enough_evidence" /\ \E i \in 1..j - 1 : stages[i] \in {"failed", "error"}
        THEN "not_tested" ELSE stages[j]
  BY DEF Judge!Cascaded
<1> HIDE DEF cascaded
<1>4. \A j \in 1..6 : cascaded[j] \in {"passed", "not_tested"}
  BY <1>1, <1>2
<1>5. \A j \in 1..6 : stages[j] \notin {"failed", "error"}
  BY <1>3, <1>4
<1>6. \A i \in 1..k - 1 : i \in 1..6
  OBVIOUS
<1>7. cascaded[k] = stages[k]
  BY <1>3, <1>5, <1>6
<1> QED
  BY <1>4, <1>7

\* The six stages, before the cascade.
SixStages(p, E) ==
  <<ResolutionStage(E), CardStage(E), DescriptorStage(E), InvocationStage(p, E), SemanticStage(p, E),
    IF p.condition = "conflicting_retry" THEN RefusalStage(E) ELSE DuplicateStage(p, E)>>

\* What a strict pass shows on the record.
LEMMA StrictPass ==
  ASSUME NEW p, NEW E, IsSequence(E), p.strict, Verdict(p, E) = "passed"
  PROVE  /\ Has(E, "card_retrieved")
         /\ Has(E, "descriptor_expected") => First(E, "descriptor_expected") = First(E, "card_retrieved")
         /\ \E n \in Of(E, "protocol_exchange", 1), m \in Good(E, 1) :
              /\ Completed(E[n].detail) /\ E[n].detail.count = 1 /\ RightQuote(p, E[m].detail)
              /\ IF p.condition = "conflicting_retry"
                 THEN \E k \in Of(E, "protocol_exchange", 2) :
                        E[k].detail.ok /\ E[k].detail.task = "task" /\ E[k].detail.state = "rejected"
                 ELSE \E k \in Of(E, "protocol_exchange", 2), l \in Good(E, 2) :
                        /\ Completed(E[k].detail) /\ E[k].detail.count = 1
                        /\ E[l].detail.digest = E[m].detail.digest
<1> DEFINE six == SixStages(p, E)
<1>1. DOMAIN six = 1..6
  BY DEF SixStages
<1>2. Judge!StageVerdict(Judge!Cascaded(six)) = "passed"
  BY DEF Verdict, Stages, SixStages
<1>3. /\ six[2] = CardStage(E) /\ six[3] = DescriptorStage(E)
      /\ six[4] = InvocationStage(p, E) /\ six[5] = SemanticStage(p, E)
      /\ six[6] = IF p.condition = "conflicting_retry" THEN RefusalStage(E) ELSE DuplicateStage(p, E)
  BY DEF SixStages
<1> HIDE DEF six
<1>4. /\ CardStage(E) \in {"passed", "not_tested"} /\ DescriptorStage(E) \in {"passed", "not_tested"}
      /\ InvocationStage(p, E) \in {"passed", "not_tested"} /\ SemanticStage(p, E) \in {"passed", "not_tested"}
      /\ p.condition = "conflicting_retry" => RefusalStage(E) \in {"passed", "not_tested"}
      /\ p.condition # "conflicting_retry" => DuplicateStage(p, E) \in {"passed", "not_tested"}
  BY <1>1, <1>2, <1>3, AllPassed
<1>5. Has(E, "card_retrieved")
  BY <1>4 DEF CardStage, MustHold, NotEnough
<1>6. Has(E, "descriptor_expected") => First(E, "descriptor_expected") = First(E, "card_retrieved")
  BY <1>4, <1>5 DEF DescriptorStage, PassIf
<1>7. \A n \in DOMAIN E : n \in Nat
  BY Lengths
<1>8. \A n \in DOMAIN E : Leading(E, {n}) = E[n].detail
  BY <1>7, TheOnly
<1> DEFINE x == Of(E, "protocol_exchange", 1)
           y == Of(E, "protocol_exchange", 2)
<1>9. Once(x) /\ Completed(Leading(E, x))
  BY <1>4 DEF InvocationStage, PassIf, NotEnough
<1>10. PICK n \in DOMAIN E : x = {n}
  BY <1>9, NotSeveral
<1>11. Completed(E[n].detail)
  BY <1>8, <1>9, <1>10
<1>12. Leading(E, x).count = 1 /\ Once(Outcomes(E, 1)) /\ Good(E, 1) # {} /\ RightQuote(p, FirstGood(E, 1))
  BY <1>4, <1>9 DEF SemanticStage, PassIf, NotEnough
<1>13. PICK m \in DOMAIN E : Outcomes(E, 1) = {m}
  BY <1>12, NotSeveral
<1>14. Good(E, 1) = {m}
  BY <1>12, <1>13 DEF Outcomes
<1>15. RightQuote(p, E[m].detail) /\ E[n].detail.count = 1 /\ FirstGood(E, 1) = E[m].detail
  BY <1>8, <1>10, <1>12, <1>14 DEF FirstGood
<1>16. CASE p.condition = "conflicting_retry"
  <2>1. /\ y # {} /\ ~(Cardinality(y) > 1)
        /\ Leading(E, y).ok /\ Leading(E, y).task = "task" /\ Leading(E, y).state = "rejected"
    BY <1>4, <1>16 DEF RefusalStage, PassIf, NotEnough
  <2>2. PICK k \in DOMAIN E : y = {k}
    <3>1. Once(y)
      BY <2>1, NotSeveral
    <3> QED
      BY <3>1, NotSeveral
  <2>3. E[k].detail.ok /\ E[k].detail.task = "task" /\ E[k].detail.state = "rejected"
    BY <1>8, <2>1, <2>2
  <2> QED
    BY <1>5, <1>6, <1>10, <1>11, <1>14, <1>15, <1>16, <2>2, <2>3
<1>17. CASE p.condition # "conflicting_retry"
  <2>1. /\ Once(y) /\ Completed(Leading(E, y)) /\ Leading(E, y).count = 1
        /\ Once(Outcomes(E, 2)) /\ Good(E, 2) # {} /\ SameContent(E)
    BY <1>4, <1>17 DEF DuplicateStage, PassIf, NotEnough
  <2>2. PICK k \in DOMAIN E : y = {k}
    BY <2>1, NotSeveral
  <2>3. PICK l \in DOMAIN E : Outcomes(E, 2) = {l}
    BY <2>1, NotSeveral
  <2>4. Good(E, 2) = {l}
    BY <2>1, <2>3 DEF Outcomes
  <2>5. E[l].detail.digest = E[m].detail.digest
    BY <1>8, <1>15, <2>1, <2>4 DEF SameContent, FirstGood
  <2>6. Completed(E[k].detail) /\ E[k].detail.count = 1
    BY <1>8, <2>1, <2>2
  <2> QED
    BY <1>5, <1>6, <1>10, <1>11, <1>14, <1>15, <1>17, <2>2, <2>4, <2>5, <2>6
<1> QED
  BY <1>16, <1>17

\* What a marker stands for is nothing the profile expects.
LEMMA Unmarked ==
  ASSUME NEW value
  PROVE  /\ Echoed(value) \in {"task", "completed", "rejected", "order", "original", "under"} => value = Echoed(value)
BY DEF Echoed

\* A truthful record of a strict pass is one of a subject that did everything.
LEMMA TruthIsEarned ==
  ASSUME Sequenced, PathTypeOK, InStep, Truthful, profile.strict, verdict = "passed"
  PROVE  Kept /\ target.pin \in {Nothing, First(events, "card_retrieved")}
<1>1. /\ IsSequence(events) /\ IsSequence(told) /\ \A n \in DOMAIN told : IsSequence(told[n].outputs)
      /\ Len(told) \in Nat /\ DOMAIN told = 1..Len(told) /\ DOMAIN events = 1..Len(events)
  BY Lengths DEF Sequenced
<1>2. /\ \A n \in DOMAIN events : Attested(profile, target.pin, told, events[n])
      /\ target.pin # Nothing /\ Has(events, "card_retrieved") => Has(events, "descriptor_expected")
  BY DEF Truthful
<1>3. /\ Has(events, "card_retrieved")
      /\ Has(events, "descriptor_expected") => First(events, "descriptor_expected") = First(events, "card_retrieved")
  BY <1>1, StrictPass DEF verdict
<1>4. PICK n \in Of(events, "protocol_exchange", 1), m \in Good(events, 1) :
        /\ Completed(events[n].detail) /\ events[n].detail.count = 1 /\ RightQuote(profile, events[m].detail)
        /\ IF profile.condition = "conflicting_retry"
           THEN \E k \in Of(events, "protocol_exchange", 2) :
                  events[k].detail.ok /\ events[k].detail.task = "task" /\ events[k].detail.state = "rejected"
           ELSE \E k \in Of(events, "protocol_exchange", 2), l \in Good(events, 2) :
                  /\ Completed(events[k].detail) /\ events[k].detail.count = 1
                  /\ events[l].detail.digest = events[m].detail.digest
  BY <1>1, StrictPass DEF verdict
<1>5. ASSUME NEW a, NEW k \in Of(events, "protocol_exchange", a), events[k].detail.ok
      PROVE  /\ a \in 1..Len(told)
             /\ events[k].detail.task = "task" => told[a].task = "task"
             /\ events[k].detail.state = "completed" => told[a].state = "completed"
             /\ events[k].detail.state = "rejected" => told[a].state = "rejected"
             /\ events[k].detail.count = 1 => Len(Texts(told[a])) = 1
  <2>1. a \in 1..Len(told) /\ events[k].detail = ExchangeOf(profile, told[a])
    BY <1>2, <1>5 DEF Of, Attested
  <2>2. /\ events[k].detail.task = Echoed(told[a].task)
        /\ events[k].detail.state = Echoed(StateRead(told[a]))
        /\ events[k].detail.count = Len(Texts(told[a]))
    BY <2>1 DEF ExchangeOf
  <2>3. StateRead(told[a]) \in {"completed", "rejected"} => StateRead(told[a]) = told[a].state
    BY DEF StateRead
  <2>4. /\ Echoed(told[a].task) = "task" => told[a].task = "task"
        /\ Echoed(StateRead(told[a])) = "completed" => StateRead(told[a]) = "completed"
        /\ Echoed(StateRead(told[a])) = "rejected" => StateRead(told[a]) = "rejected"
    BY DEF Echoed
  <2> QED
    BY <2>1, <2>2, <2>3, <2>4
<1>6. ASSUME NEW a, NEW k \in Good(events, a)
      PROVE  /\ Texts(told[a])[1].form = "quote"
             /\ RightQuote(profile, events[k].detail) => RightQuote(profile, Texts(told[a])[1])
             /\ events[k].detail.digest = Texts(told[a])[1]
  <2> DEFINE text == Texts(told[a])[1]
  <2>1. text.form = "quote" /\ events[k].detail = QuoteOf(text)
    BY <1>2, <1>6 DEF Good, Of, Attested
  <2> HIDE DEF text
  <2>2. /\ events[k].detail.total = Echoed(text.total) /\ events[k].detail.id = Echoed(text.id)
        /\ events[k].detail.item = text.item /\ events[k].detail.digest = text
    BY <2>1 DEF QuoteOf
  <2>3. /\ Echoed(text.total) = "original" => text.total = "original"
        /\ Echoed(text.total) = "under" => text.total = "under"
        /\ Echoed(text.id) = "order" => text.id = "order"
    BY DEF Echoed
  <2>4. RightQuote(profile, events[k].detail) => RightQuote(profile, text)
    BY <2>2, <2>3 DEF RightQuote
  <2> QED
    BY <2>1, <2>2, <2>4 DEF text
<1>7. Fulfils(told[1])
  BY <1>4, <1>5, <1>6 DEF Fulfils, Completed
<1>8. Len(told) <= 2
  BY <1>1 DEF InStep, PathTypeOK
<1>9. Kept
  <2>1. CASE profile.condition = "conflicting_retry"
    <3>1. PICK k \in Of(events, "protocol_exchange", 2) :
            events[k].detail.ok /\ events[k].detail.task = "task" /\ events[k].detail.state = "rejected"
      BY <1>4, <2>1
    <3>2. 2 \in 1..Len(told) /\ told[2].task = "task" /\ told[2].state = "rejected"
      BY <1>5, <3>1
    <3>3. Len(told) = 2
      BY <1>1, <1>8, <3>2
    <3> QED
      BY <1>7, <2>1, <3>2, <3>3 DEF Kept
  <2>2. CASE profile.condition # "conflicting_retry"
    <3>1. PICK k \in Of(events, "protocol_exchange", 2), l \in Good(events, 2) :
                  /\ Completed(events[k].detail) /\ events[k].detail.count = 1
                  /\ events[l].detail.digest = events[m].detail.digest
      BY <1>4, <2>2
    <3>2. /\ 2 \in 1..Len(told) /\ told[2].task = "task" /\ told[2].state = "completed"
          /\ Len(Texts(told[2])) = 1
      BY <1>5, <3>1 DEF Completed
    <3>3. Texts(told[2])[1].form = "quote" /\ Texts(told[2])[1] = Texts(told[1])[1]
      BY <1>4, <1>6, <3>1
    <3>4. RightQuote(profile, Texts(told[2])[1])
      BY <1>7, <3>3 DEF Fulfils
    <3>5. Len(told) = 2 /\ 1 \in DOMAIN told /\ 2 \in DOMAIN told
      BY <1>1, <1>8, <3>2
    <3>6. IsSequence(Texts(told[1])) /\ IsSequence(Texts(told[2]))
      BY <1>1, <3>5, TextsSequence
    <3>7. Texts(told[1]) = <<Texts(told[1])[1]>> /\ Texts(told[2]) = <<Texts(told[2])[1]>>
      BY <1>7, <3>2, <3>6, Lengths DEF Fulfils
    <3>8. Fulfils(told[2]) /\ Texts(told[1]) = Texts(told[2])
      BY <3>2, <3>3, <3>4, <3>7 DEF Fulfils
    <3> QED
      BY <1>7, <2>2, <3>5, <3>8 DEF Kept
  <2> QED
    BY <2>1, <2>2
<1>10. target.pin \in {Nothing, First(events, "card_retrieved")}
  <2>1. CASE target.pin # Nothing
    <3>1. Has(events, "descriptor_expected")
      BY <1>2, <1>3, <2>1
    <3>2. First(events, "descriptor_expected") = target.pin
      BY <1>2, <3>1, TheFirst DEF Attested
    <3> QED
      BY <1>3, <3>1, <3>2
  <2> QED
    BY <2>1
<1> QED
  BY <1>9, <1>10

-----------------------------------------------------------------------------
(* The steps: the reference agent.                                         *)

\* The reference agent's second answer.
SecondAnswer ==
  IF profile.condition = "conflicting_retry" /\ Binds
  THEN Task("rejected", <<Quote("absent", "order", "absent", 0)>>)
  ELSE IF profile.condition = "conflicting_retry" THEN Task("completed", <<Quoted("changed")>>)
  ELSE IF subject = "duplicate_fulfillment"
  THEN Task("completed", <<Quote(Priced("original"), "order", "absent", 2)>>)
  ELSE Task("completed", <<FirstQuote>>)

\* What the reference agent does with each of the two orders.
LEMMA ReferenceAnswers ==
  ASSUME Sequenced, PathTypeOK, InStep, Reference, HandleOrder
  PROVE  /\ told = <<>> =>
              /\ Answer(Task("completed", <<FirstQuote>>))
              /\ terms' = IF Binds THEN "original" ELSE Nothing
              /\ quotes' = IF subject = "duplicate_fulfillment" THEN 1 ELSE 0
         /\ Len(told) = 1 => Answer(SecondAnswer)
         /\ Len(told) \in {0, 1} /\ (Len(told) = 0 <=> told = <<>>)
<1>1. Len(told) \in Nat /\ (told = <<>> <=> Len(told) = 0)
  BY Lengths DEF Sequenced
<1>2. driver.at = "waiting" /\ wire.what = "order?" /\ subject # Stranger
  BY DEF InStep, HandleOrder, PathTypeOK, Places
<1>3. Len(told) = driver.attempt - 1 /\ wire.body = AskedIn(driver.attempt) /\ driver.attempt \in {1, 2}
  BY <1>2 DEF InStep, PathTypeOK
<1>4. ASSUME told = <<>>
      PROVE  /\ Answer(Task("completed", <<FirstQuote>>))
             /\ terms' = IF Binds THEN "original" ELSE Nothing
             /\ quotes' = IF subject = "duplicate_fulfillment" THEN 1 ELSE 0
  <2>1. terms = Nothing /\ quotes = 0 /\ wire.body = "original"
    BY <1>1, <1>2, <1>3, <1>4 DEF Reference, AskedIn
  <2>2. ~Refuses(wire.body)
    BY <2>1 DEF Refuses
  <2>3. Quoted(wire.body) = FirstQuote
    BY <2>1 DEF Quoted, FirstQuote
  <2> QED
    BY <2>1, <2>2, <2>3 DEF HandleOrder
<1>5. ASSUME Len(told) = 1
      PROVE  Answer(SecondAnswer)
  <2>1. /\ driver.attempt = 2 /\ terms = IF Binds THEN "original" ELSE Nothing
        /\ quotes = IF subject = "duplicate_fulfillment" THEN 1 ELSE 0
    BY <1>2, <1>3, <1>5 DEF Reference
  <2>2. "original" # "changed" /\ "original" # Nothing
    BY DEF Nothing
  <2>3. CASE profile.condition = "conflicting_retry"
    <3>1. wire.body = "changed"
      BY <1>3, <2>1, <2>3 DEF AskedIn
    <3>2. Refuses(wire.body) <=> Binds
      BY <2>1, <2>2, <3>1 DEF Refuses
    <3> QED
      BY <2>3, <3>1, <3>2 DEF HandleOrder, SecondAnswer
  <2>4. CASE profile.condition # "conflicting_retry"
    <3>1. wire.body = "original"
      BY <1>3, <2>4 DEF AskedIn
    <3>2. ~Refuses(wire.body)
      BY <2>1, <2>2, <3>1 DEF Refuses
    <3>3. Quoted(wire.body) = IF subject = "duplicate_fulfillment"
                              THEN Quote(Priced("original"), "order", "absent", 2) ELSE FirstQuote
      BY <2>1, <3>1 DEF Quoted, FirstQuote
    <3> QED
      BY <2>4, <3>2, <3>3 DEF HandleOrder, SecondAnswer
  <2> QED
    BY <2>3, <2>4
<1> QED
  BY <1>1, <1>3, <1>4, <1>5

\* Every step leaves the reference agent as described.
LEMMA ReferenceStep ==
  ASSUME Sequenced, PathTypeOK, InStep, Reference, PathNext
  PROVE  Reference'
<1>1. IsSequence(told) /\ Len(told) \in Nat /\ (told = <<>> <=> Len(told) = 0)
  BY Lengths DEF Sequenced
<1>2. UNCHANGED test
  BY DEF PathNext, Resolve, FetchCard, ReadCardElsewhere, CardFails, ReadCard, SendOrder,
         ExchangeFails, ReadReply, RecordOutput, Malfunction, ServeCard, HandleOrder, StrangerAnswers, LoseCall
<1>3. /\ profile' = profile /\ subject' = subject
      /\ FirstQuote' = FirstQuote /\ Binds' = Binds
      /\ Priced("original")' = Priced("original")
      /\ subject # "duplicate_fulfillment" => Quoted("changed")' = Quoted("changed")
  BY <1>2 DEF test, FirstQuote, Binds, Priced, Quoted
<1>4. CASE subject = Stranger
  BY <1>3, <1>4 DEF Reference
<1>5. ASSUME subject # Stranger, UNCHANGED <<terms, quotes, told>>,
             wire'.what = "card" => wire' = wire \/ wire'.body = CardOf(subject)
      PROVE  Reference'
  <2>1. ~Binds => subject # "duplicate_fulfillment"
    BY DEF Binds
  <2> QED
    BY <1>3, <1>5, <2>1 DEF Reference, CardOf
<1>6. \A what, body : Call(what, body).what = what /\ Call(what, body).body = body
  BY DEF Call
<1>7. Quiet.what = "quiet"
  BY <1>6 DEF Quiet
<1>8. CASE HandleOrder
  <2>1. PICK reply : Answer(reply) /\ (told = <<>> => reply = Task("completed", <<FirstQuote>>))
                       /\ (Len(told) = 1 => reply = SecondAnswer)
    <3>1. Answer(Task("completed", <<FirstQuote>>)) \/ Len(told) = 1
      BY ReferenceAnswers, <1>8
    <3> QED
      BY ReferenceAnswers, <1>8, <3>1
  <2>2. told' = told \o <<reply>> /\ wire' = Call("task", reply)
    BY <1>1, <2>1, Appending DEF Answer
  <2>3. /\ Len(told') = Len(told) + 1 /\ told' # <<>>
        /\ \A n \in 1..Len(told) : told'[n] = told[n]
        /\ told'[Len(told) + 1] = reply
    <3>1. /\ Len(told') = Len(told) + 1
          /\ \A n \in 1..Len(told) : told'[n] = told[n]
          /\ told'[Len(told) + 1] = reply
      BY <1>1, <2>2, Appending
    <3>2. Len(told') # 0
      BY <1>1, <3>1
    <3>3. Len(<<>>) = 0
      OBVIOUS
    <3>4. told' # <<>>
      BY <3>2, <3>3
    <3> QED
      BY <3>1, <3>4
  <2>4. wire'.what # "card" /\ subject # Stranger
    BY <1>6, <1>8, <2>2 DEF HandleOrder
  <2>5. CASE told = <<>>
    <3>1. Len(told') = 1 /\ told'[1] = Task("completed", <<FirstQuote>>)
      BY <1>1, <2>1, <2>3, <2>5
    <3>2. /\ terms' = IF Binds THEN "original" ELSE Nothing
          /\ quotes' = IF subject = "duplicate_fulfillment" THEN 1 ELSE 0
      BY ReferenceAnswers, <1>8, <2>5
    <3>3. Len(told') # 2 /\ told' # <<>>
      BY <2>3, <3>1
    <3> QED
      BY <1>3, <2>4, <3>1, <3>2, <3>3 DEF Reference
  <2>6. CASE Len(told) = 1
    <3>1. Len(told') = 2 /\ told'[1] = told[1] /\ told'[2] = SecondAnswer
      BY <2>1, <2>3, <2>6
    <3>2. told[1] = Task("completed", <<FirstQuote>>)
      BY <1>1, <2>4, <2>6 DEF Reference
    <3>3. ~Binds => subject # "duplicate_fulfillment"
      BY DEF Binds
    <3> QED
      BY <1>3, <2>3, <2>4, <3>1, <3>2, <3>3 DEF Reference, SecondAnswer
  <2> QED
    BY ReferenceAnswers, <1>8, <2>5, <2>6
<1>9. CASE subject # Stranger /\ ServeCard
  <2>1. wire' = Call("card", CardOf(subject)) /\ UNCHANGED <<terms, quotes, told>>
    BY <1>9 DEF ServeCard, CardOf
  <2> QED
    BY <1>5, <1>6, <1>9, <2>1
<1>10. CASE subject # Stranger /\ (Resolve \/ RecordOutput)
  BY <1>5, <1>10 DEF Resolve, RecordOutput
<1>11. CASE subject # Stranger /\ (FetchCard \/ ReadCardElsewhere \/ CardFails \/ ReadCard \/ SendOrder
                                   \/ ExchangeFails \/ ReadReply \/ Malfunction \/ LoseCall)
  <2>1. wire'.what # "card" /\ UNCHANGED <<terms, quotes, told>>
    BY <1>6, <1>7, <1>11 DEF FetchCard, ReadCardElsewhere, CardFails, ReadCard, SendOrder,
         ExchangeFails, ReadReply, Malfunction, LoseCall
  <2> QED
    BY <1>5, <1>11, <2>1
<1> QED
  BY <1>4, <1>8, <1>9, <1>10, <1>11 DEF PathNext, StrangerAnswers

-----------------------------------------------------------------------------
(* The steps: what is on the record when nothing went wrong.               *)

\* An order's event does not touch what is known of the agent's card.
LEMMA CardedLater ==
  ASSUME NEW E, IsSequence(E), NEW pin, NEW s, Carded(pin, s, E), Pinned(pin, E),
         NEW e, e.kind \in {"protocol_exchange", "fulfillment_observed"}
  PROVE  Carded(pin, s, E \o <<e>>) /\ Pinned(pin, E \o <<e>>)
<1>1. \A kind : Has(E \o <<e>>, kind) <=> Has(E, kind) \/ e.kind = kind
  BY Emitted
<1>2. /\ DOMAIN E = 1..Len(E) /\ DOMAIN (E \o <<e>>) = 1..Len(E) + 1 /\ Len(E) \in Nat
      /\ \A n \in 1..Len(E) : (E \o <<e>>)[n] = E[n]
      /\ (E \o <<e>>)[Len(E) + 1] = e
  BY Appending
<1> DEFINE F == E \o <<e>>
<1>3. \A kind : Has(F, kind) <=> Has(E, kind) \/ e.kind = kind
  BY <1>1
<1>4. \A n \in DOMAIN F : F[n].kind = "card_retrieved" => n \in DOMAIN E /\ F[n] = E[n]
  BY <1>2
<1> HIDE DEF F
<1>5. Found(F)
  BY <1>3 DEF Carded, Found
<1>6. Has(F, "card_retrieved") /\ (pin = Nothing => ~Has(F, "descriptor_expected"))
  BY <1>3 DEF Carded
<1>7. s # Stranger => \A n \in DOMAIN F : F[n].kind = "card_retrieved" => F[n].detail = CardOf(s)
  BY <1>4 DEF Carded
<1>8. Pinned(pin, F)
  BY <1>4 DEF Pinned
<1> QED
  BY <1>5, <1>6, <1>7, <1>8 DEF Carded, F

\* One event of a kind and attempt stays the one, and the first one is the one.
LEMMA OnlyLater ==
  ASSUME NEW E, IsSequence(E), NEW e, NEW kind, NEW attempt, NEW detail
  PROVE  /\ Only(E, Of(E, kind, attempt), detail) /\ ~(e.kind = kind /\ e.attempt = attempt)
              => Only(E \o <<e>>, Of(E \o <<e>>, kind, attempt), detail)
         /\ Of(E, kind, attempt) = {} /\ e.kind = kind /\ e.attempt = attempt /\ e.detail = detail
              => Only(E \o <<e>>, Of(E \o <<e>>, kind, attempt), detail)
         /\ Of(E, kind, attempt) = {} /\ ~(e.kind = kind /\ e.attempt = attempt)
              => Of(E \o <<e>>, kind, attempt) = {}
<1>1. /\ DOMAIN E = 1..Len(E) /\ DOMAIN (E \o <<e>>) = 1..Len(E) + 1 /\ Len(E) \in Nat
      /\ \A n \in 1..Len(E) : (E \o <<e>>)[n] = E[n]
      /\ (E \o <<e>>)[Len(E) + 1] = e
  BY Appending
<1>2. Of(E \o <<e>>, kind, attempt) =
        Of(E, kind, attempt) \cup
          (IF e.kind = kind /\ e.attempt = attempt THEN {Len(E) + 1} ELSE {})
  BY Emitted
<1> DEFINE F == E \o <<e>>
           S == Of(F, kind, attempt)
           R == Of(E, kind, attempt)
<1>3. /\ DOMAIN E = 1..Len(E) /\ DOMAIN F = 1..Len(E) + 1 /\ Len(E) \in Nat
      /\ \A n \in 1..Len(E) : F[n] = E[n]
      /\ F[Len(E) + 1] = e
  BY <1>1
<1>4. S = R \cup (IF e.kind = kind /\ e.attempt = attempt THEN {Len(E) + 1} ELSE {})
  BY <1>2
<1> HIDE DEF F, S, R
<1>5. Only(E, R, detail) /\ ~(e.kind = kind /\ e.attempt = attempt) => Only(F, S, detail)
  BY <1>3, <1>4 DEF Only
<1>6. R = {} /\ e.kind = kind /\ e.attempt = attempt /\ e.detail = detail => Only(F, S, detail)
  <2>1. Len(E) + 1 \in DOMAIN F
    BY <1>3
  <2> QED
    BY <1>3, <1>4, <2>1 DEF Only
<1>7. R = {} /\ ~(e.kind = kind /\ e.attempt = attempt) => S = {}
  BY <1>4
<1> QED
  BY <1>5, <1>6, <1>7 DEF F, S, R

\* An event of one attempt leaves the other attempt as it was.
LEMMA Elsewhere ==
  ASSUME NEW p, NEW E, IsSequence(E), NEW e, NEW attempt, e.attempt # attempt
  PROVE  /\ Blank(E, attempt) => Blank(E \o <<e>>, attempt)
         /\ \A reply : Recorded(p, E, attempt, reply) => Recorded(p, E \o <<e>>, attempt, reply)
<1>1. \A kind, detail :
        /\ Only(E, Of(E, kind, attempt), detail) => Only(E \o <<e>>, Of(E \o <<e>>, kind, attempt), detail)
        /\ Of(E, kind, attempt) = {} => Of(E \o <<e>>, kind, attempt) = {}
  BY OnlyLater
<1>2. Blank(E, attempt) => Blank(E \o <<e>>, attempt)
  BY <1>1 DEF Blank, Outcomes, Good
<1>3. ASSUME NEW reply, Recorded(p, E, attempt, reply)
      PROVE  Recorded(p, E \o <<e>>, attempt, reply)
  BY <1>1, <1>3 DEF Recorded, Exchanged, Good
<1> QED
  BY <1>2, <1>3

\* The events of one attempt, in their order.
LEMMA ThisAttempt ==
  ASSUME NEW p, NEW E, IsSequence(E), NEW e, NEW attempt, e.attempt = attempt, NEW reply
  PROVE  /\ Blank(E, attempt) /\ e.kind = "protocol_exchange" /\ e.detail = ExchangeOf(p, reply)
              => Exchanged(p, E \o <<e>>, attempt, reply) /\ Outcomes(E \o <<e>>, attempt) = {}
         /\ Exchanged(p, E, attempt, reply) /\ Outcomes(E, attempt) = {} /\ reply.state = "completed"
              /\ e.kind = "fulfillment_observed" /\ e.detail = QuoteOf(Texts(reply)[1])
              => Recorded(p, E \o <<e>>, attempt, reply)
<1>1. \A kind, detail :
        /\ Only(E, Of(E, kind, attempt), detail) /\ e.kind # kind => Only(E \o <<e>>, Of(E \o <<e>>, kind, attempt), detail)
        /\ Of(E, kind, attempt) = {} /\ e.kind = kind /\ e.detail = detail
             => Only(E \o <<e>>, Of(E \o <<e>>, kind, attempt), detail)
        /\ Of(E, kind, attempt) = {} /\ e.kind # kind => Of(E \o <<e>>, kind, attempt) = {}
  BY OnlyLater
<1>2. ASSUME Blank(E, attempt), e.kind = "protocol_exchange", e.detail = ExchangeOf(p, reply)
      PROVE  Exchanged(p, E \o <<e>>, attempt, reply) /\ Outcomes(E \o <<e>>, attempt) = {}
  BY <1>1, <1>2 DEF Blank, Exchanged, Outcomes, Good
<1>3. ASSUME Exchanged(p, E, attempt, reply), Outcomes(E, attempt) = {}, reply.state = "completed",
             e.kind = "fulfillment_observed", e.detail = QuoteOf(Texts(reply)[1])
      PROVE  Recorded(p, E \o <<e>>, attempt, reply)
  BY <1>1, <1>3 DEF Recorded, Exchanged, Outcomes, Good
<1> QED
  BY <1>2, <1>3

\* The profile that asks for a refusal has only the strict evaluator.
LEMMA RefusalsAreStrict ==
  ASSUME NEW p \in PathProfiles
  PROVE  /\ p.condition = "conflicting_retry" => p.strict
         /\ p.condition \in {"duplicate_request", "conflicting_retry"}
<1>1. /\ Fulfillment.strict = TRUE /\ Fulfillment.intent = FALSE
      /\ Fulfillment.condition = "duplicate_request"
  BY DEF Fulfillment
<1>2. /\ QuoteIntent.strict = TRUE /\ QuoteIntent.intent = TRUE
      /\ QuoteIntent.condition = "duplicate_request"
  BY DEF QuoteIntent, Fulfillment
<1>3. OrderConflict.strict = TRUE /\ OrderConflict.condition = "conflicting_retry"
  BY DEF OrderConflict, Fulfillment
<1>4. /\ Legacy(Fulfillment).strict = FALSE /\ Legacy(Fulfillment).intent = FALSE
      /\ Legacy(Fulfillment).condition = "duplicate_request"
  BY DEF Legacy, Fulfillment
<1>5. /\ Legacy(QuoteIntent).strict = FALSE /\ Legacy(QuoteIntent).intent = TRUE
      /\ Legacy(QuoteIntent).condition = "duplicate_request"
  BY DEF Legacy, QuoteIntent, Fulfillment
<1> QED
  BY <1>1, <1>2, <1>3, <1>4, <1>5 DEF PathProfiles

\* Every step of a test in which nothing goes wrong leaves what should be on the record.
LEMMA CompleteStep ==
  ASSUME Sequenced, PathTypeOK, InStep, Reference, Complete, PathNext
  PROVE  Complete'
<1>1. /\ IsSequence(told) /\ IsSequence(events) /\ Len(told) \in Nat /\ (told = <<>> <=> Len(told) = 0)
      /\ DOMAIN told = 1..Len(told) /\ driver.attempt \in {1, 2} /\ driver.at \in Places
  BY Lengths DEF Sequenced, PathTypeOK
<1>2. UNCHANGED test /\ (faults' = faults \/ faults' # {}) /\ (told' = told \/ \E reply : Answer(reply))
  <2>1. CASE Malfunction
    <3>1. faults' # {}
      BY <2>1 DEF Malfunction
    <3> QED
      BY <2>1, <3>1 DEF Malfunction
  <2>2. CASE LoseCall
    <3>1. faults' # {}
      BY <2>2 DEF LoseCall
    <3> QED
      BY <2>2, <3>1 DEF LoseCall
  <2>3. CASE HandleOrder \/ StrangerAnswers
    BY <2>3 DEF HandleOrder, StrangerAnswers
  <2>4. CASE Resolve \/ FetchCard \/ ReadCardElsewhere \/ CardFails \/ ReadCard \/ SendOrder
             \/ ExchangeFails \/ ReadReply \/ RecordOutput \/ ServeCard
    BY <2>4 DEF Resolve, FetchCard, ReadCardElsewhere, CardFails, ReadCard, SendOrder,
         ExchangeFails, ReadReply, RecordOutput, ServeCard
  <2> QED
    BY <2>1, <2>2, <2>3, <2>4 DEF PathNext
<1>3. profile' = profile /\ target' = target /\ subject' = subject
  BY <1>2 DEF test
<1>4. SUFFICES ASSUME Smooth'
               PROVE  /\ OnRecord(profile, target.pin, subject, events', told', driver'.at, driver'.attempt)
                      /\ driver'.at = "judged" /\ told' = <<>> /\ subject # Stranger /\ target.usable =>
                           /\ Carded(target.pin, subject, events') /\ Blank(events', 1) /\ Blank(events', 2)
                           /\ subject = "card_drift" /\ target.pin # Nothing
  BY <1>3 DEF Complete
<1>5. \A reply : Answer(reply) =>
        /\ Len(told') = Len(told) + 1 /\ DOMAIN told' = 1..Len(told) + 1
        /\ \A n \in 1..Len(told) : told'[n] = told[n]
  BY <1>1, Appending DEF Answer
<1>6. Smooth /\ faults = {} /\ faults' = {}
  <2>1. faults = {} /\ faults' = {}
    BY <1>2, <1>4 DEF Smooth
  <2>2. \A a \in DOMAIN told : a \in DOMAIN told' /\ told'[a] = told[a]
    BY <1>1, <1>2, <1>5
  <2>3. \A a \in DOMAIN told' : Plain(profile, a, told'[a])
    BY <1>3, <1>4 DEF Smooth
  <2> QED
    BY <2>1, <2>2, <2>3 DEF Smooth
<1>7. /\ OnRecord(profile, target.pin, subject, events, told, driver.at, driver.attempt)
      /\ \A a \in DOMAIN told : Plain(profile, a, told[a])
  BY <1>6 DEF Complete, Smooth
<1> DEFINE p == profile
           pin == target.pin
           s == subject
<1>8. /\ driver.at = "fetching" =>
           Found(events) /\ ~Has(events, "card_retrieved") /\ ~Has(events, "descriptor_expected")
           /\ Blank(events, 1) /\ Blank(events, 2)
      /\ driver.at \in {"sending", "waiting", "recording"} => Carded(pin, s, events) /\ Pinned(pin, events)
      /\ driver.at \in {"sending", "waiting"} =>
           Blank(events, 2) /\ (driver.attempt = 1 => Blank(events, 1))
      /\ driver.at \in {"sending", "waiting", "recording"} /\ driver.attempt = 2 =>
           Recorded(p, events, 1, told[1]) /\ told[1].state = "completed"
      /\ driver.at = "recording" => (driver.attempt = 1 => Blank(events, 2))
      /\ driver.at = "recording" =>
           Exchanged(p, events, driver.attempt, told[driver.attempt]) /\ Outcomes(events, driver.attempt) = {}
  BY <1>7 DEF OnRecord
<1>9. \A place : GoTo(place) => driver'.at = place /\ driver'.attempt = driver.attempt
  BY DriverMoves
<1>10. driver.at \in {"resolving", "fetching"} => driver.attempt = 1 /\ told = <<>>
  BY DEF InStep
\* A test that ends before any order, at an agent that is not the reference or not usable.
<1>11. ASSUME UNCHANGED told, told = <<>>, GoTo("judged"), subject = Stranger \/ ~target.usable
       PROVE  OnRecord(p, pin, s, events', told', driver'.at, driver'.attempt) /\ driver'.at = "judged"
  BY <1>9, <1>11 DEF OnRecord
<1>12. CASE Resolve
  <2>1. driver.at = "resolving" /\ told = <<>> /\ told' = <<>> /\ events = <<>>
    BY <1>10, <1>12 DEF Resolve, InStep
  <2>2. CASE ~target.usable
    BY <1>11, <1>12, <2>1, <2>2 DEF Resolve, End
  <2>3. CASE target.usable
    <3> DEFINE hop == Event("resolution_hop", 0, Nothing)
    <3>1. events' = events \o <<hop>> /\ GoTo("fetching")
      BY <1>12, <2>3 DEF Resolve, Emit
    <3>2. hop.kind = "resolution_hop" /\ hop.attempt = 0
      BY DEF Event
    <3> HIDE DEF hop
    <3>3. DOMAIN events = {}
      BY <2>1
    <3>4. \A kind, attempt : ~Has(events, kind) /\ Of(events, kind, attempt) = {}
      BY <3>3 DEF Has, Of
    <3>5. Blank(events, 1) /\ Blank(events, 2)
      BY <3>4 DEF Blank, Outcomes, Good
    <3>6. Blank(events', 1) /\ Blank(events', 2)
      <4>1. hop.attempt # 1 /\ hop.attempt # 2
        BY <3>2
      <4> QED
        BY <1>1, <3>1, <3>5, <4>1, Elsewhere
    <3>7. \A kind : Has(events', kind) <=> hop.kind = kind
      BY <1>1, <3>1, <3>4, Emitted
    <3>8. Found(events') /\ ~Has(events', "card_retrieved") /\ ~Has(events', "descriptor_expected")
      BY <3>2, <3>7 DEF Found
    <3>9. driver'.at = "fetching"
      BY <1>9, <3>1
    <3> QED
      BY <3>6, <3>8, <3>9 DEF OnRecord
  <2> QED
    BY <2>2, <2>3
<1>13. CASE FetchCard \/ ReadCardElsewhere \/ ServeCard
  <2>1. UNCHANGED <<events, told>> /\ driver'.at = driver.at /\ driver'.attempt = driver.attempt
        /\ driver.at # "judged"
    <3>1. CASE FetchCard
      BY <3>1 DEF FetchCard
    <3>2. CASE ReadCardElsewhere
      <4>1. driver = [at |-> driver.at, path |-> driver.path, attempt |-> driver.attempt, reply |-> driver.reply]
        BY DEF PathTypeOK
      <4>2. driver' = [at |-> driver.at, path |-> 2, attempt |-> driver.attempt, reply |-> driver.reply]
        BY <3>2, <4>1 DEF ReadCardElsewhere
      <4> QED
        BY <3>2, <4>2 DEF ReadCardElsewhere
    <3>3. CASE ServeCard
      BY <3>3 DEF ServeCard, InStep
    <3> QED
      BY <1>13, <3>1, <3>2, <3>3
  <2> QED
    BY <1>7, <2>1
<1>14. CASE CardFails
  <2>1. driver.at = "fetching" /\ told' = told /\ told = <<>> /\ GoTo("judged")
    BY <1>10, <1>14 DEF CardFails, End
  <2>2. wire.what # "failure"
    BY <1>6 DEF InStep
  <2>3. wire.what = "card" /\ wire.body \in {"absent", "unusable"}
    BY <1>14, <2>2 DEF CardFails
  <2>4. subject = Stranger
    BY <2>3 DEF Reference
  <2> QED
    BY <1>11, <2>1, <2>4
<1>15. CASE ReadCard
  <2> DEFINE d == Event("card_retrieved", 0, wire.body)
             e == Event("descriptor_expected", 0, target.pin)
             E == events \o <<d>>
  <2>1. /\ events' = events \o (<<d>> \o (IF target.pin = Nothing THEN <<>> ELSE <<e>>)) /\ told' = told
        /\ driver.at = "fetching" /\ wire.what = "card"
        /\ IF target.pin \in {Nothing, wire.body} THEN GoTo("sending") ELSE GoTo("judged")
    BY <1>15 DEF ReadCard, Emit, End
  <2>2. d.kind = "card_retrieved" /\ d.attempt = 0 /\ d.detail = wire.body
    BY DEF Event
  <2>3. e.kind = "descriptor_expected" /\ e.attempt = 0
    BY DEF Event
  <2> HIDE DEF d, e
  <2>4. IsSequence(E) /\ (\A kind : Has(E, kind) <=> Has(events, kind) \/ d.kind = kind)
    BY <1>1, Emitted, Appending
  <2>5. \A n \in DOMAIN E : E[n].kind = "card_retrieved" => E[n].detail = wire.body
    <3>1. /\ DOMAIN events = 1..Len(events) /\ DOMAIN E = 1..Len(events) + 1 /\ Len(events) \in Nat
          /\ \A n \in 1..Len(events) : E[n] = events[n]
          /\ E[Len(events) + 1] = d
      BY <1>1, Appending
    <3>2. \A n \in DOMAIN events : events[n].kind # "card_retrieved"
      BY <1>8, <2>1 DEF Has
    <3> HIDE DEF E
    <3> QED
      BY <2>2, <3>1, <3>2
  <2>6. Blank(E, 1) /\ Blank(E, 2)
    <3>1. d.attempt # 1 /\ d.attempt # 2
      BY <2>2
    <3> QED
      BY <1>1, <1>8, <2>1, <3>1, Elsewhere
  <2> HIDE DEF E
  <2>7. Found(E) /\ Has(E, "card_retrieved") /\ ~Has(E, "descriptor_expected")
    BY <1>8, <2>1, <2>2, <2>4 DEF Found
  <2>8. subject # Stranger => wire.body = CardOf(subject)
    BY <2>1 DEF Reference, CardOf
  <2>9. /\ Carded(pin, s, events') /\ Blank(events', 1) /\ Blank(events', 2)
        /\ \A n \in DOMAIN events' : events'[n].kind = "card_retrieved" => events'[n].detail = wire.body
    <3>1. CASE target.pin = Nothing
      <4>1. events' = E
        BY <1>1, <2>1, <3>1, NothingMore DEF E
      <4> QED
        BY <2>5, <2>6, <2>7, <2>8, <4>1 DEF Carded
    <3>2. CASE target.pin # Nothing
      <4> DEFINE F == E \o <<e>>
      <4>1. events' = F
        BY <1>1, <2>1, <3>2, Two DEF E
      <4>2. /\ DOMAIN E = 1..Len(E) /\ DOMAIN F = 1..Len(E) + 1 /\ Len(E) \in Nat
            /\ \A n \in 1..Len(E) : F[n] = E[n]
            /\ F[Len(E) + 1] = e
        BY <2>4, Appending
      <4>3. \A kind : Has(F, kind) <=> Has(E, kind) \/ e.kind = kind
        BY <2>4, Emitted
      <4>4. Blank(F, 1) /\ Blank(F, 2)
        BY <2>3, <2>4, <2>6, Elsewhere
      <4> HIDE DEF F
      <4>5. \A n \in DOMAIN F : F[n].kind = "card_retrieved" => F[n].detail = wire.body
        BY <2>3, <2>5, <4>2
      <4>6. Found(F) /\ Has(F, "card_retrieved")
        BY <2>3, <2>7, <4>3 DEF Found
      <4> QED
        BY <2>8, <3>2, <4>1, <4>4, <4>5, <4>6 DEF Carded
    <3> QED
      BY <3>1, <3>2
  <2>10. CASE target.pin \in {Nothing, wire.body}
    <3>1. driver'.at = "sending" /\ driver'.attempt = 1
      BY <1>9, <1>10, <2>1, <2>10
    <3>2. Pinned(pin, events')
      BY <2>9, <2>10 DEF Pinned
    <3> QED
      BY <2>9, <3>1, <3>2 DEF OnRecord
  <2>11. CASE target.pin \notin {Nothing, wire.body}
    <3>1. driver'.at = "judged" /\ told' = <<>>
      BY <1>9, <1>10, <2>1, <2>11
    <3>2. subject # Stranger => subject = "card_drift"
      BY <2>8, <2>11 DEF CardOf, PathTypeOK
    <3> QED
      BY <2>9, <2>11, <3>1, <3>2 DEF OnRecord
  <2> QED
    BY <2>10, <2>11
<1>16. CASE SendOrder
  <2>1. driver.at = "sending" /\ driver'.at = "waiting" /\ driver'.attempt = driver.attempt /\ UNCHANGED <<events, told>>
    BY <1>9, <1>16 DEF SendOrder
  <2> QED
    BY <1>8, <2>1 DEF OnRecord
<1>17. CASE ExchangeFails
  BY <1>6, <1>17 DEF ExchangeFails, InStep
<1>18. CASE HandleOrder \/ StrangerAnswers
  <2>1. wire.what = "order?" /\ UNCHANGED <<driver, events>> /\ (\E reply : Answer(reply))
    BY <1>18 DEF HandleOrder, StrangerAnswers
  <2>2. driver.at = "waiting" /\ Len(told) = driver.attempt - 1
    BY <1>1, <2>1 DEF InStep, Places
  <2>3. driver.attempt = 2 => told'[1] = told[1]
    BY <1>1, <1>5, <2>1, <2>2
  <2> QED
    BY <1>8, <2>1, <2>2, <2>3 DEF OnRecord
<1>19. CASE ReadReply
  <2>1. driver.at = "waiting" /\ wire.what = "task" /\ told' = told
    BY <1>19 DEF ReadReply
  <2>2. Len(told) = driver.attempt /\ wire.body = told[driver.attempt]
    BY <2>1 DEF InStep
  <2>3. Plain(profile, driver.attempt, wire.body)
    BY <1>1, <1>7, <2>2
  <2>4. wire.body.state # "malformed"
    BY <2>3 DEF Plain
  <2> DEFINE e == Exchange(TRUE, Echoed(wire.body.task), Echoed(StateRead(wire.body)),
                           IF profile.strict THEN Len(Texts(wire.body)) ELSE 0)
  <2>5. events' = events \o <<e>> /\ driver' = [driver EXCEPT !.at = "recording", !.reply = wire.body]
    BY <1>19, <2>4 DEF ReadReply, StateRead, Emit
  <2>6. driver'.at = "recording" /\ driver'.attempt = driver.attempt
    <3>1. driver = [at |-> driver.at, path |-> driver.path, attempt |-> driver.attempt, reply |-> driver.reply]
      BY DEF PathTypeOK
    <3>2. driver' = [at |-> "recording", path |-> driver.path, attempt |-> driver.attempt, reply |-> wire.body]
      BY <2>5, <3>1
    <3> QED
      BY <3>2
  <2>7. e.kind = "protocol_exchange" /\ e.attempt = driver.attempt /\ e.detail = ExchangeOf(profile, told[driver.attempt])
    BY <2>2 DEF Exchange, Event, ExchangeOf
  <2> HIDE DEF e
  <2>8. Blank(events, driver.attempt)
    BY <1>1, <1>8, <2>1
  <2>9. Exchanged(p, events', driver.attempt, told[driver.attempt]) /\ Outcomes(events', driver.attempt) = {}
    BY <1>1, <2>5, <2>7, <2>8, ThisAttempt
  <2>10. Carded(pin, s, events') /\ Pinned(pin, events')
    BY <1>1, <1>8, <2>1, <2>5, <2>7, CardedLater
  <2>11. /\ driver.attempt = 1 => e.attempt # 2
         /\ driver.attempt = 2 => e.attempt # 1
    BY <2>7
  <2>12. driver.attempt = 1 => Blank(events', 2)
    BY <1>1, <1>8, <2>1, <2>5, <2>11, Elsewhere
  <2>13. driver.attempt = 2 => Recorded(p, events', 1, told[1]) /\ told[1].state = "completed"
    BY <1>1, <1>8, <2>1, <2>5, <2>11, Elsewhere
  <2> QED
    BY <2>1, <2>6, <2>9, <2>10, <2>12, <2>13 DEF OnRecord
<1>20. CASE RecordOutput
  <2> DEFINE reply == told[driver.attempt]
             texts == Texts(reply)
             e == Observed(texts[1])
  <2>1. driver.at = "recording" /\ UNCHANGED told /\ driver.reply = reply /\ Len(told) = driver.attempt
    BY <1>20 DEF RecordOutput, InStep
  <2>2. Plain(profile, driver.attempt, reply)
    BY <1>1, <1>7, <2>1
  <2>3. /\ Carded(pin, s, events) /\ Pinned(pin, events)
        /\ driver.attempt = 1 => Blank(events, 2)
        /\ driver.attempt = 2 => Recorded(p, events, 1, told[1]) /\ told[1].state = "completed"
        /\ Exchanged(p, events, driver.attempt, reply) /\ Outcomes(events, driver.attempt) = {}
    BY <1>8, <2>1
  <2>4. CASE reply.state = "completed"
    <3>1. /\ reply.task = "task" /\ Len(texts) = 1 /\ texts[1].form = "quote"
      BY <2>2, <2>4 DEF Plain
    <3>2. texts # <<>>
      <4>1. Len(<<>>) = 0
        OBVIOUS
      <4> QED
        BY <3>1, <4>1
    <3>3. Emit(<<e>>) /\ NextAttempt
      BY <1>20, <2>1, <2>4, <3>1, <3>2, Recordings
    <3>4. e.kind = "fulfillment_observed" /\ e.attempt = driver.attempt /\ e.detail = QuoteOf(texts[1])
      BY DEF Observed, Event, QuoteOf
    <3> HIDE DEF e
    <3>5. events' = events \o <<e>>
      BY <3>3 DEF Emit
    <3>6. driver'.at = (IF driver.attempt = 1 THEN "sending" ELSE "judged") /\ driver'.attempt = 2
      BY <3>3, DriverMoves
    <3>7. Recorded(p, events', driver.attempt, reply)
      BY <1>1, <2>3, <2>4, <3>4, <3>5, ThisAttempt
    <3>8. Carded(pin, s, events') /\ Pinned(pin, events')
      BY <1>1, <2>3, <3>4, <3>5, CardedLater
    <3>9. CASE driver.attempt = 1
      <4>1. Blank(events', 2)
        <5>1. e.attempt # 2
          BY <3>4, <3>9
        <5> QED
          BY <1>1, <2>3, <3>5, <3>9, <5>1, Elsewhere
      <4> QED
        BY <2>1, <2>4, <3>6, <3>7, <3>8, <3>9, <4>1 DEF OnRecord
    <3>10. CASE driver.attempt = 2
      <4>1. Recorded(p, events', 1, told[1])
        <5>1. e.attempt # 1
          BY <3>4, <3>10
        <5> QED
          BY <1>1, <2>3, <3>5, <3>10, <5>1, Elsewhere
      <4>2. told' # <<>>
        BY <1>1, <2>1, <3>10
      <4> QED
        BY <2>1, <2>3, <3>6, <3>7, <3>8, <3>10, <4>1, <4>2 DEF OnRecord
    <3> QED
      BY <1>1, <3>9, <3>10
  <2>5. CASE reply.state # "completed"
    <3>1. driver.attempt = 2 /\ profile.condition = "conflicting_retry"
      BY <2>2, <2>5 DEF Plain
    <3>2. profile.strict
      BY <3>1, RefusalsAreStrict DEF PathTypeOK
    <3>3. events' = events /\ GoTo("judged")
      BY <1>20, <2>1, <2>5, <3>2 DEF RecordOutput, End
    <3>4. driver'.at = "judged" /\ told' # <<>>
      BY <1>1, <1>9, <2>1, <3>1, <3>3
    <3>5. Recorded(p, events, 2, told[2])
      BY <2>3, <2>5, <3>1 DEF Recorded, Outcomes
    <3> QED
      BY <2>1, <2>3, <3>1, <3>3, <3>4, <3>5 DEF OnRecord
  <2> QED
    BY <2>4, <2>5
<1>21. CASE Malfunction
  <2>1. faults' # {}
    BY <1>21 DEF Malfunction
  <2> QED
    BY <1>6, <2>1
<1>22. CASE LoseCall
  <2>1. faults' # {}
    BY <1>22 DEF LoseCall
  <2> QED
    BY <1>6, <2>1
<1> QED
  BY <1>12, <1>13, <1>14, <1>15, <1>16, <1>17, <1>18, <1>19, <1>20, <1>21, <1>22 DEF PathNext

-----------------------------------------------------------------------------
(* Judging a record on which nothing is missing.                           *)

\* Six stages of which none is broken.
LEMMA NoneBroken ==
  ASSUME NEW six, DOMAIN six = 1..6, six[1] = "passed", \A k \in 1..6 : six[k] \in {"passed", "not_tested"}
  PROVE  /\ Judge!StageVerdict(Judge!Cascaded(six)) = "passed"
         /\ {k \in DOMAIN Judge!Cascaded(six) : Judge!Cascaded(six)[k] = "failed"} = {}
<1> DEFINE cascaded == Judge!Cascaded(six)
           applicable == {cascaded[k] : k \in DOMAIN cascaded} \ {"not_tested"}
<1>1. DOMAIN cascaded = 1..6 /\ \A k \in 1..6 : cascaded[k] = six[k]
  BY DEF Judge!Cascaded
<1>2. Judge!StageVerdict(cascaded) =
        IF "error" \in applicable THEN "error"
        ELSE IF "failed" \in applicable THEN "failed"
        ELSE IF applicable = {"passed"} THEN "passed" ELSE "incomplete"
  BY DEF Judge!StageVerdict
<1> HIDE DEF cascaded
<1>3. applicable = {"passed"}
  <2>1. 1 \in DOMAIN cascaded /\ cascaded[1] = "passed"
    BY <1>1
  <2>2. \A k \in DOMAIN cascaded : cascaded[k] \in {"passed", "not_tested"}
    BY <1>1
  <2> QED
    BY <2>1, <2>2
<1>4. {k \in DOMAIN cascaded : cascaded[k] = "failed"} = {}
  BY <1>1
<1>5. Judge!StageVerdict(cascaded) = "passed"
  <2> HIDE DEF applicable
  <2> QED
    BY <1>2, <1>3
<1> QED
  BY <1>4, <1>5 DEF cascaded

\* Six stages with a first broken one: inconclusive stages after it do not change that.
LEMMA FirstIsBroken ==
  ASSUME NEW six, DOMAIN six = 1..6, NEW j \in 1..6, six[j] = "failed",
         \A k \in 1..j - 1 : six[k] \in {"passed", "not_tested"}, \A k \in 1..6 : six[k] # "error"
  PROVE  /\ Judge!StageVerdict(Judge!Cascaded(six)) = "failed"
         /\ j \in {k \in DOMAIN Judge!Cascaded(six) : Judge!Cascaded(six)[k] = "failed"}
         /\ \A k \in {k \in DOMAIN Judge!Cascaded(six) : Judge!Cascaded(six)[k] = "failed"} : j <= k
<1> DEFINE cascaded == Judge!Cascaded(six)
           applicable == {cascaded[k] : k \in DOMAIN cascaded} \ {"not_tested"}
           broken == {k \in DOMAIN cascaded : cascaded[k] = "failed"}
<1>1. DOMAIN cascaded = 1..6 /\ (\A k \in 1..6 : cascaded[k] \in {six[k], "not_tested"}) /\ cascaded[j] = "failed"
  BY DEF Judge!Cascaded
<1>2. Judge!StageVerdict(cascaded) =
        IF "error" \in applicable THEN "error"
        ELSE IF "failed" \in applicable THEN "failed"
        ELSE IF applicable = {"passed"} THEN "passed" ELSE "incomplete"
  BY DEF Judge!StageVerdict
<1> HIDE DEF cascaded
<1>3. "error" \notin applicable
  BY <1>1
<1>4. "failed" \in applicable
  BY <1>1
<1>5. j \in broken
  BY <1>1
<1>6. \A k \in broken : j <= k
  <2> SUFFICES ASSUME NEW k \in 1..6, cascaded[k] = "failed", k < j
               PROVE  FALSE
    BY <1>1
  <2>1. k \in 1..j - 1
    OBVIOUS
  <2> QED
    BY <1>1, <2>1
<1>7. Judge!StageVerdict(cascaded) = "failed"
  <2> HIDE DEF applicable
  <2> QED
    BY <1>2, <1>3, <1>4
<1> QED
  BY <1>5, <1>6, <1>7 DEF cascaded

\* The stages of the agent and its card.
LEMMA CardStages ==
  ASSUME NEW pin, NEW s, NEW E, Carded(pin, s, E),
         pin # Nothing => Has(E, "descriptor_expected")
                          /\ \A n \in DOMAIN E : E[n].kind = "descriptor_expected" => E[n].detail = pin
  PROVE  /\ ResolutionStage(E) = "passed" /\ CardStage(E) = "passed"
         /\ Pinned(pin, E) => DescriptorStage(E) \in {"passed", "not_tested"}
         /\ pin = "card" /\ s = "card_drift" => DescriptorStage(E) = "failed"
<1>1. ResolutionStage(E) = "passed" /\ CardStage(E) = "passed"
  BY DEF Carded, Found, ResolutionStage, CardStage, MustHold
<1>2. PICK n \in DOMAIN E : E[n].kind = "card_retrieved" /\ First(E, "card_retrieved") = E[n].detail
  BY TheFirst DEF Carded
<1>3. pin # Nothing => First(E, "descriptor_expected") = pin
  BY TheFirst
<1>4. Has(E, "card_retrieved") /\ (pin = Nothing => ~Has(E, "descriptor_expected"))
  BY DEF Carded
<1>5. Pinned(pin, E) => DescriptorStage(E) \in {"passed", "not_tested"}
  BY <1>2, <1>3, <1>4 DEF Pinned, DescriptorStage, PassIf
<1>6. ASSUME pin = "card", s = "card_drift"
      PROVE  DescriptorStage(E) = "failed"
  <2>1. First(E, "card_retrieved") = "drifted"
    BY <1>2, <1>6 DEF Carded, CardOf, Stranger
  <2> QED
    BY <1>3, <1>4, <1>6, <2>1 DEF DescriptorStage, PassIf, Nothing
<1> QED
  BY <1>1, <1>5, <1>6

\* Reading the one event of a kind and attempt.
LEMMA ReadOnly ==
  ASSUME NEW E, IsSequence(E), NEW S, NEW detail, Only(E, S, detail)
  PROVE  S # {} /\ Once(S) /\ ~(Cardinality(S) > 1) /\ Leading(E, S) = detail
<1>1. PICK n \in DOMAIN E : S = {n} /\ E[n].detail = detail
  BY DEF Only
<1>2. n \in Nat
  BY <1>1, Lengths
<1>3. Once(S) /\ Cardinality(S) = 1 /\ Leading(E, S) = detail
  BY <1>1, <1>2, TheOnly
<1> QED
  BY <1>1, <1>3

\* A completed task with one quote, as the record tells it.
Quoting(reply) ==
  /\ reply.task = "task" /\ reply.state = "completed" /\ Len(Texts(reply)) = 1
  /\ Texts(reply)[1].form = "quote"

\* The stages of the first order.
LEMMA FirstStages ==
  ASSUME NEW p, NEW E, IsSequence(E), NEW reply, Recorded(p, E, 1, reply), Quoting(reply),
         ~Has(E, "town_driver_error")
  PROVE  /\ InvocationStage(p, E) = "passed"
         /\ SemanticStage(p, E) = PassIf(RightQuote(p, Texts(reply)[1]))
         /\ Once(Good(E, 1)) /\ Good(E, 1) # {} /\ FirstGood(E, 1).digest = Texts(reply)[1]
<1> DEFINE x == Of(E, "protocol_exchange", 1)
           text == Texts(reply)[1]
<1>1. x # {} /\ Once(x) /\ Leading(E, x) = ExchangeOf(p, reply)
  BY ReadOnly DEF Recorded, Exchanged
<1>2. /\ Leading(E, x).ok = TRUE /\ Leading(E, x).task = "task" /\ Leading(E, x).state = "completed"
      /\ p.strict => Leading(E, x).count = 1
  <2>1. /\ ExchangeOf(p, reply).ok = TRUE /\ ExchangeOf(p, reply).task = Echoed(reply.task)
        /\ ExchangeOf(p, reply).state = Echoed(StateRead(reply))
        /\ p.strict => ExchangeOf(p, reply).count = Len(Texts(reply))
    BY DEF ExchangeOf
  <2>2. Echoed(reply.task) = "task" /\ Echoed(StateRead(reply)) = "completed"
    BY DEF Echoed, StateRead, Quoting
  <2> QED
    BY <1>1, <2>1, <2>2 DEF Quoting
<1>3. Good(E, 1) # {} /\ Once(Good(E, 1)) /\ FirstGood(E, 1) = QuoteOf(text)
  BY ReadOnly DEF Recorded, Quoting, FirstGood
<1>4. Outcomes(E, 1) = Good(E, 1)
  BY DEF Outcomes, Recorded
<1>5. RightQuote(p, QuoteOf(text)) <=> RightQuote(p, text)
  <2>1. /\ QuoteOf(text).total = Echoed(text.total) /\ QuoteOf(text).id = Echoed(text.id)
        /\ QuoteOf(text).item = text.item
    BY DEF QuoteOf
  <2>2. /\ Echoed(text.total) = "original" <=> text.total = "original"
        /\ Echoed(text.total) = "under" <=> text.total = "under"
        /\ Echoed(text.id) = "order" <=> text.id = "order"
    BY DEF Echoed
  <2> HIDE DEF text
  <2>3. /\ QuoteOf(text).total = "original" <=> text.total = "original"
        /\ QuoteOf(text).total \in {"original", "under"} <=> text.total \in {"original", "under"}
        /\ QuoteOf(text).id = "order" <=> text.id = "order"
        /\ QuoteOf(text).item = "asked" <=> text.item = "asked"
    BY <2>1, <2>2
  <2> QED
    BY <2>3 DEF RightQuote
<1>6. FirstGood(E, 1).digest = text
  BY <1>3 DEF QuoteOf
<1>7. InvocationStage(p, E) = "passed"
  BY <1>1, <1>2 DEF InvocationStage, Completed, PassIf
<1>8. SemanticStage(p, E) = PassIf(RightQuote(p, text))
  <2>1. RightQuote(p, FirstGood(E, 1)) <=> RightQuote(p, text)
    BY <1>3, <1>5
  <2>2. ~(p.strict /\ ~(Once(x) /\ Completed(Leading(E, x)))) /\ Outcomes(E, 1) # {}
    BY <1>1, <1>2, <1>3, <1>4 DEF Completed
  <2>3. (p.strict => Leading(E, x).count = 1 /\ Once(Outcomes(E, 1))) /\ Good(E, 1) # {}
    BY <1>2, <1>3, <1>4
  <2> QED
    BY <2>1, <2>2, <2>3 DEF SemanticStage, PassIf
<1> QED
  BY <1>3, <1>6, <1>7, <1>8

\* The stage of the second order.
LEMMA SecondStages ==
  ASSUME NEW p, NEW E, IsSequence(E), NEW first, NEW second, Recorded(p, E, 1, first), Quoting(first),
         Recorded(p, E, 2, second), ~Has(E, "town_driver_error"), second.task = "task"
  PROVE  /\ Quoting(second) => DuplicateStage(p, E) = PassIf(Texts(first)[1] = Texts(second)[1])
         /\ second.state = "rejected" => RefusalStage(E) = "passed"
         /\ second.state = "completed" => RefusalStage(E) = "failed"
<1> DEFINE y == Of(E, "protocol_exchange", 2)
<1>1. y # {} /\ Once(y) /\ ~(Cardinality(y) > 1) /\ Leading(E, y) = ExchangeOf(p, second)
  BY ReadOnly DEF Recorded, Exchanged
<1>2. /\ Leading(E, y).ok = TRUE /\ Leading(E, y).task = "task"
      /\ second.state \in {"completed", "rejected"} => Leading(E, y).state = second.state
      /\ p.strict => Leading(E, y).count = Len(Texts(second))
  <2>1. /\ ExchangeOf(p, second).ok = TRUE /\ ExchangeOf(p, second).task = Echoed(second.task)
        /\ ExchangeOf(p, second).state = Echoed(StateRead(second))
        /\ p.strict => ExchangeOf(p, second).count = Len(Texts(second))
    BY DEF ExchangeOf
  <2>2. /\ Echoed(second.task) = "task"
        /\ second.state \in {"completed", "rejected"} => Echoed(StateRead(second)) = second.state
    BY DEF Echoed, StateRead
  <2> QED
    BY <1>1, <2>1, <2>2
<1>3. Once(Good(E, 1)) /\ Good(E, 1) # {} /\ FirstGood(E, 1).digest = Texts(first)[1]
  BY FirstStages
<1>4. Outcomes(E, 2) = Good(E, 2)
  BY DEF Outcomes, Recorded
<1>5. ASSUME Quoting(second)
      PROVE  DuplicateStage(p, E) = PassIf(Texts(first)[1] = Texts(second)[1])
  <2>1. Good(E, 2) # {} /\ Once(Good(E, 2)) /\ FirstGood(E, 2) = QuoteOf(Texts(second)[1])
    BY <1>5, ReadOnly DEF Recorded, Quoting, FirstGood
  <2>2. SameContent(E) <=> Texts(first)[1] = Texts(second)[1]
    BY <1>3, <2>1 DEF SameContent, QuoteOf
  <2>3. Completed(Leading(E, y)) /\ (p.strict => Leading(E, y).count = 1)
    BY <1>2, <1>5 DEF Completed, Quoting
  <2> QED
    BY <1>1, <1>3, <1>4, <2>1, <2>2, <2>3 DEF DuplicateStage, PassIf
<1>6. ASSUME second.state = "rejected"
      PROVE  RefusalStage(E) = "passed"
  <2>1. Good(E, 2) = {}
    BY <1>6 DEF Recorded
  <2> QED
    BY <1>1, <1>2, <1>3, <1>4, <1>6, <2>1 DEF RefusalStage, PassIf
<1>7. ASSUME second.state = "completed"
      PROVE  RefusalStage(E) = "failed"
  BY <1>1, <1>2, <1>3, <1>7 DEF RefusalStage, PassIf
<1> QED
  BY <1>5, <1>6, <1>7

\* The stages of a test, one by one.
LEMMA SixAre ==
  ASSUME NEW p, NEW E
  PROVE  /\ DOMAIN SixStages(p, E) = 1..6
         /\ Stages(p, E) = Judge!Cascaded(SixStages(p, E))
         /\ Verdict(p, E) = Judge!StageVerdict(Judge!Cascaded(SixStages(p, E)))
         /\ SixStages(p, E)[1] = ResolutionStage(E) /\ SixStages(p, E)[2] = CardStage(E)
         /\ SixStages(p, E)[3] = DescriptorStage(E) /\ SixStages(p, E)[4] = InvocationStage(p, E)
         /\ SixStages(p, E)[5] = SemanticStage(p, E)
         /\ SixStages(p, E)[6] = IF p.condition = "conflicting_retry" THEN RefusalStage(E) ELSE DuplicateStage(p, E)
<1>1. DOMAIN SixStages(p, E) = 1..6
  BY DEF SixStages
<1>2. /\ SixStages(p, E)[1] = ResolutionStage(E) /\ SixStages(p, E)[2] = CardStage(E)
      /\ SixStages(p, E)[3] = DescriptorStage(E) /\ SixStages(p, E)[4] = InvocationStage(p, E)
      /\ SixStages(p, E)[5] = SemanticStage(p, E)
      /\ SixStages(p, E)[6] = IF p.condition = "conflicting_retry" THEN RefusalStage(E) ELSE DuplicateStage(p, E)
  BY DEF SixStages
<1>3. /\ Stages(p, E) = Judge!Cascaded(SixStages(p, E))
      /\ Verdict(p, E) = Judge!StageVerdict(Judge!Cascaded(SixStages(p, E)))
  BY DEF Stages, SixStages, Verdict
<1> QED
  BY <1>1, <1>2, <1>3

\* What the record says of a pinned card.
LEMMA PinOnRecord ==
  ASSUME Truthful, NEW s, Carded(target.pin, s, events)
  PROVE  target.pin # Nothing =>
           /\ Has(events, "descriptor_expected")
           /\ \A n \in DOMAIN events : events[n].kind = "descriptor_expected" => events[n].detail = target.pin
BY DEF Truthful, Attested, Carded

\* Nothing is missing on the record of a test that was judged after an order, when all went well.
LEMMA WholeRecord ==
  ASSUME Sequenced, PathTypeOK, Truthful, Complete, Smooth, Judged, told # <<>>
  PROVE  /\ Len(told) = 2 /\ Quoting(told[1]) /\ told[2].task = "task"
         /\ Recorded(profile, events, 1, told[1]) /\ Recorded(profile, events, 2, told[2])
         /\ ~Has(events, "town_driver_error")
         /\ Quoting(told[2]) \/ (profile.condition = "conflicting_retry" /\ told[2].state = "rejected")
         /\ \A k \in 1..4 : SixStages(profile, events)[k] \in {"passed", "not_tested"}
         /\ SixStages(profile, events)[1] = "passed"
         /\ SixStages(profile, events)[5] = PassIf(RightQuote(profile, Texts(told[1])[1]))
<1>1. /\ Len(told) = 2 /\ told[1].state = "completed"
      /\ Carded(target.pin, subject, events) /\ Pinned(target.pin, events)
      /\ Recorded(profile, events, 1, told[1]) /\ Recorded(profile, events, 2, told[2])
  BY DEF Complete, OnRecord, Judged
<1>2. IsSequence(events) /\ DOMAIN told = 1..2
  BY <1>1, Lengths DEF Sequenced
<1>3. Plain(profile, 1, told[1]) /\ Plain(profile, 2, told[2])
  BY <1>2 DEF Smooth
<1>4. Quoting(told[1]) /\ told[2].task = "task"
      /\ (Quoting(told[2]) \/ (profile.condition = "conflicting_retry" /\ told[2].state = "rejected"))
  BY <1>1, <1>3 DEF Plain, Quoting
<1>5. ~Has(events, "town_driver_error")
  BY <1>1 DEF Carded, Found
<1>6. /\ ResolutionStage(events) = "passed" /\ CardStage(events) = "passed"
      /\ DescriptorStage(events) \in {"passed", "not_tested"}
  BY <1>1, PinOnRecord, CardStages
<1>7. /\ InvocationStage(profile, events) = "passed"
      /\ SemanticStage(profile, events) = PassIf(RightQuote(profile, Texts(told[1])[1]))
  BY <1>1, <1>2, <1>4, <1>5, FirstStages
<1>8. \A k \in 1..4 : SixStages(profile, events)[k] \in {"passed", "not_tested"}
  <2> SUFFICES ASSUME NEW k \in 1..4
               PROVE  SixStages(profile, events)[k] \in {"passed", "not_tested"}
    OBVIOUS
  <2>1. k = 1 \/ k = 2 \/ k = 3 \/ k = 4
    OBVIOUS
  <2> QED
    BY <1>6, <1>7, <2>1, SixAre
<1>9. SixStages(profile, events)[1] = "passed"
      /\ SixStages(profile, events)[5] = PassIf(RightQuote(profile, Texts(told[1])[1]))
  BY <1>6, <1>7, SixAre
<1> QED
  BY <1>1, <1>4, <1>5, <1>8, <1>9

\* Six stages of which the first four stood, and the last two did.
LEMMA AllSix ==
  ASSUME NEW six, \A k \in 1..4 : six[k] \in {"passed", "not_tested"}, six[5] = "passed", six[6] = "passed"
  PROVE  \A k \in 1..6 : six[k] \in {"passed", "not_tested"}
<1> SUFFICES ASSUME NEW k \in 1..6
             PROVE  six[k] \in {"passed", "not_tested"}
  OBVIOUS
<1>1. k \in 1..4 \/ k = 5 \/ k = 6
  OBVIOUS
<1> QED
  BY <1>1

\* A subject that did everything passes.
LEMMA AllIsKept ==
  ASSUME Sequenced, PathTypeOK, Truthful, Complete, Judged, faults = {}, Kept
  PROVE  verdict = "passed"
<1>1. IsSequence(told) /\ IsSequence(events) /\ Len(told) = 2 /\ DOMAIN told = 1..2
  BY Lengths DEF Sequenced, Kept
<1>2. told # <<>>
  <2>1. Len(<<>>) = 0
    OBVIOUS
  <2> QED
    BY <1>1, <2>1
<1>3. Smooth
  <2>1. Plain(profile, 1, told[1]) /\ Plain(profile, 2, told[2])
    BY DEF Kept, Fulfils, Plain
  <2>2. \A a \in DOMAIN told : a = 1 \/ a = 2
    BY <1>1
  <2> QED
    BY <2>1, <2>2 DEF Smooth
<1> DEFINE six == SixStages(profile, events)
<1>4. six[5] = "passed"
  <2>1. RightQuote(profile, Texts(told[1])[1])
    BY DEF Kept, Fulfils
  <2> QED
    BY <1>2, <1>3, <2>1, WholeRecord DEF PassIf
<1>5. six[6] = "passed"
  <2>1. CASE profile.condition = "conflicting_retry"
    <3>1. RefusalStage(events) = "passed"
      <4>1. told[2].state = "rejected"
        BY <2>1 DEF Kept
      <4>2. /\ Quoting(told[1]) /\ told[2].task = "task" /\ ~Has(events, "town_driver_error")
            /\ Recorded(profile, events, 1, told[1]) /\ Recorded(profile, events, 2, told[2])
        BY <1>2, <1>3, WholeRecord
      <4> QED
        BY <1>1, <4>1, <4>2, SecondStages
    <3> QED
      BY <2>1, <3>1, SixAre
  <2>2. CASE profile.condition # "conflicting_retry"
    <3>1. Quoting(told[2]) /\ Texts(told[1])[1] = Texts(told[2])[1]
      BY <2>2 DEF Kept, Fulfils, Quoting
    <3>2. DuplicateStage(profile, events) = "passed"
      BY <1>1, <1>2, <1>3, <3>1, WholeRecord, SecondStages DEF PassIf
    <3> QED
      BY <2>2, <3>2, SixAre
  <2> QED
    BY <2>1, <2>2
<1>6. \A k \in 1..6 : six[k] \in {"passed", "not_tested"}
  BY <1>2, <1>3, <1>4, <1>5, WholeRecord, AllSix
<1>7. Judge!StageVerdict(Judge!Cascaded(six)) = "passed"
  BY <1>2, <1>3, <1>6, WholeRecord, SixAre, NoneBroken
<1> QED
  BY <1>7, SixAre DEF verdict

\* The reference agent only ever answers plainly.
LEMMA ReferenceIsPlain ==
  ASSUME Sequenced, PathTypeOK, InStep, Reference, faults = {}, subject # Stranger
  PROVE  Smooth /\ (told # <<>> => told[1] = Task("completed", <<FirstQuote>>))
         /\ (Len(told) = 2 => told[2] = SecondAnswer)
<1>1. /\ Len(told) \in Nat /\ DOMAIN told = 1..Len(told) /\ (told = <<>> <=> Len(told) = 0)
      /\ Len(told) <= 2
  BY Lengths DEF Sequenced, PathTypeOK, InStep
<1>2. told # <<>> => told[1] = Task("completed", <<FirstQuote>>)
  BY DEF Reference
<1>3. Len(told) = 2 => told[2] = SecondAnswer
  <2>1. Len(told) = 2 => told # <<>>
    BY <1>1
  <2> QED
    BY <1>2, <2>1 DEF Reference, SecondAnswer
\* A completed task with one quote.
<1>4. ASSUME NEW quote, NEW a, quote.form = "quote"
      PROVE  Plain(profile, a, Task("completed", <<quote>>))
  <2>1. Texts(Task("completed", <<quote>>)) = <<quote>>
    BY DEF Texts, Task
  <2>2. Len(<<quote>>) = 1 /\ <<quote>>[1] = quote
    OBVIOUS
  <2>3. Task("completed", <<quote>>).task = "task" /\ Task("completed", <<quote>>).state = "completed"
    BY DEF Task
  <2> QED
    BY <1>4, <2>1, <2>2, <2>3 DEF Plain
<1>5. \A total, id, item, number : Quote(total, id, item, number).form = "quote"
  BY DEF Quote
<1>6. FirstQuote.form = "quote" /\ Quoted("changed").form = "quote"
  BY <1>5 DEF FirstQuote, Quoted
<1>7. told # <<>> => Plain(profile, 1, told[1])
  BY <1>2, <1>4, <1>6
<1>8. Plain(profile, 2, SecondAnswer)
  <2>1. profile.condition = "conflicting_retry" =>
          Plain(profile, 2, Task("rejected", <<Quote("absent", "order", "absent", 0)>>))
    BY DEF Plain, Task
  <2> QED
    BY <1>4, <1>5, <1>6, <2>1 DEF SecondAnswer
<1>9. \A a \in DOMAIN told : a = 1 \/ (a = 2 /\ Len(told) = 2)
  BY <1>1
<1>10. \A a \in DOMAIN told : told # <<>>
  BY <1>1
<1>11. \A a \in DOMAIN told : Plain(profile, a, told[a])
  BY <1>3, <1>7, <1>8, <1>9, <1>10
<1> QED
  BY <1>2, <1>3, <1>11 DEF Smooth

\* Which stage is the first broken one, and the verdict, from the six stages.
LEMMA Broken ==
  ASSUME NEW j \in 1..6, LET six == SixStages(profile, events) IN
           six[j] = "failed" /\ (\A k \in 1..j - 1 : six[k] \in {"passed", "not_tested"})
           /\ \A k \in 1..6 : six[k] # "error"
  PROVE  FirstBroken = StageNames(profile)[j] /\ verdict = "failed"
<1> DEFINE six == SixStages(profile, events)
           stages == Stages(profile, events)
           broken == {k \in DOMAIN stages : stages[k] = "failed"}
<1>1. /\ Judge!StageVerdict(Judge!Cascaded(six)) = "failed"
      /\ j \in broken /\ \A k \in broken : j <= k
  <2>1. stages = Judge!Cascaded(six) /\ DOMAIN six = 1..6
    BY SixAre
  <2>2. six[j] = "failed" /\ (\A k \in 1..j - 1 : six[k] \in {"passed", "not_tested"})
        /\ \A k \in 1..6 : six[k] # "error"
    OBVIOUS
  <2> HIDE DEF six
  <2>3. /\ Judge!StageVerdict(Judge!Cascaded(six)) = "failed"
        /\ j \in {k \in DOMAIN Judge!Cascaded(six) : Judge!Cascaded(six)[k] = "failed"}
        /\ \A k \in {k \in DOMAIN Judge!Cascaded(six) : Judge!Cascaded(six)[k] = "failed"} : j <= k
    BY <2>1, <2>2, FirstIsBroken
  <2> QED
    BY <2>1, <2>3
<1>2. verdict = "failed"
  BY <1>1, SixAre DEF verdict
<1>3. broken \subseteq 1..6
  <2>1. stages = Judge!Cascaded(six) /\ DOMAIN six = 1..6
    BY SixAre
  <2> HIDE DEF six, stages
  <2>2. DOMAIN stages = 1..6
    BY <2>1 DEF Judge!Cascaded
  <2> QED
    BY <2>2
<1>4. FirstBroken = IF broken = {} THEN Nothing
                    ELSE StageNames(profile)[CHOOSE k \in broken : \A i \in broken : k <= i]
  BY DEF FirstBroken
<1> HIDE DEF broken
<1>5. (CHOOSE k \in broken : \A i \in broken : k <= i) = j
  <2>1. \A k \in broken : (\A i \in broken : k <= i) => k = j
    BY <1>1, <1>3
  <2> QED
    BY <1>1, <2>1
<1>6. FirstBroken = StageNames(profile)[j]
  BY <1>1, <1>4, <1>5
<1> QED
  BY <1>2, <1>6

\* None is broken.
LEMMA NothingBroken ==
  ASSUME SixStages(profile, events)[1] = "passed",
         \A k \in 1..6 : SixStages(profile, events)[k] \in {"passed", "not_tested"}
  PROVE  FirstBroken = Nothing /\ verdict = "passed"
<1> DEFINE six == SixStages(profile, events)
<1>1. /\ Judge!StageVerdict(Judge!Cascaded(six)) = "passed"
      /\ {k \in DOMAIN Judge!Cascaded(six) : Judge!Cascaded(six)[k] = "failed"} = {}
  BY SixAre, NoneBroken
<1> HIDE DEF six
<1>2. Stages(profile, events) = Judge!Cascaded(six) /\ verdict = Judge!StageVerdict(Judge!Cascaded(six))
  BY SixAre DEF verdict, six
<1> QED
  BY <1>1, <1>2 DEF FirstBroken

\* The reference agent's first quote is right unless its defect is in the quote.
LEMMA RightUnlessWrong ==
  ASSUME PathTypeOK
  PROVE  RightQuote(profile, FirstQuote) <=> subject \notin {"wrong_total", "wrong_item"}
<1>1. /\ FirstQuote.id = "order" /\ FirstQuote.total = Priced("original")
      /\ FirstQuote.item = IF subject = "wrong_item" THEN "other" ELSE IF profile.intent THEN "asked" ELSE "absent"
  BY DEF FirstQuote, Quote
<1>2. CASE subject = "wrong_total"
  <2>1. Priced("original") = "over"
    BY <1>2 DEF Priced
  <2> QED
    BY <1>1, <1>2, <2>1 DEF RightQuote
<1>3. CASE subject = "wrong_item"
  <2>1. Priced("original") = "under"
    BY <1>3 DEF Priced
  <2> QED
    BY <1>1, <1>3, <2>1 DEF RightQuote
<1>4. CASE subject \notin {"wrong_total", "wrong_item"}
  <2>1. Priced("original") = "original"
    BY <1>4 DEF Priced
  <2> QED
    BY <1>1, <1>4, <2>1 DEF RightQuote
<1> QED
  BY <1>2, <1>3, <1>4

\* A planted defect of the card: no order was sent, and the card's stage is the first broken one.
LEMMA DriftIsCaught ==
  ASSUME Sequenced, PathTypeOK, Truthful, Carded(target.pin, subject, events), Blank(events, 1), Blank(events, 2),
         subject = "card_drift", target.pin # Nothing
  PROVE  FirstBroken = "descriptor_consistency" /\ verdict = "failed"
<1>1. target.pin = "card"
  BY DEF PathTypeOK
<1>2. /\ ResolutionStage(events) = "passed" /\ CardStage(events) = "passed" /\ DescriptorStage(events) = "failed"
  BY <1>1, PinOnRecord, CardStages
<1>3. ~Once({})
  BY FS_EmptySet DEF Once
<1>4. /\ Of(events, "protocol_exchange", 1) = {} /\ Good(events, 1) = {} /\ Outcomes(events, 1) = {}
      /\ ~Has(events, "town_driver_error")
  BY DEF Blank, Outcomes, Carded, Found
<1>5. InvocationStage(profile, events) = NotEnough /\ SemanticStage(profile, events) = NotEnough
  BY <1>3, <1>4 DEF InvocationStage, SemanticStage
<1>6. DuplicateStage(profile, events) = NotEnough /\ RefusalStage(events) = NotEnough
  BY <1>3, <1>4 DEF DuplicateStage, RefusalStage
<1> DEFINE six == SixStages(profile, events)
<1>7. /\ six[1] = "passed" /\ six[2] = "passed" /\ six[3] = "failed"
      /\ six[4] = "not_enough_evidence" /\ six[5] = "not_enough_evidence" /\ six[6] = "not_enough_evidence"
  BY <1>2, <1>5, <1>6, SixAre DEF NotEnough
<1> HIDE DEF six
<1>8. \A k \in 1..6 : k = 1 \/ k = 2 \/ k = 3 \/ k = 4 \/ k = 5 \/ k = 6
  OBVIOUS
<1>9. \A k \in 1..6 : six[k] # "error"
  BY <1>7, <1>8
<1>10. \A k \in 1..3 - 1 : six[k] \in {"passed", "not_tested"}
  <2>1. \A k \in 1..3 - 1 : k = 1 \/ k = 2
    OBVIOUS
  <2> QED
    BY <1>7, <2>1
<1>11. StageNames(profile)[3] = "descriptor_consistency"
  BY DEF StageNames
<1> QED
  BY <1>7, <1>9, <1>10, <1>11, Broken DEF six

\* The last stage is never Town's error.
LEMMA LastStage ==
  ASSUME NEW p, NEW E
  PROVE  DuplicateStage(p, E) # "error" /\ RefusalStage(E) # "error"
BY DEF DuplicateStage, RefusalStage, PassIf, NotEnough

\* Every planted defect that matters under the profile is caught, at its own stage.
LEMMA EachIsCaught ==
  ASSUME PathInv, Judged, faults = {}, subject # Stranger, target.usable
  PROVE  FirstBroken = DefectStage /\ verdict = (IF DefectStage = Nothing THEN "passed" ELSE "failed")
<1>1. Sequenced /\ PathTypeOK /\ InStep /\ Truthful /\ Complete /\ Reference
  BY DEF PathInv
<1>2. Smooth /\ (told # <<>> => told[1] = Task("completed", <<FirstQuote>>))
      /\ (Len(told) = 2 => told[2] = SecondAnswer)
  BY <1>1, ReferenceIsPlain
<1>3. CASE told = <<>>
  <2>1. /\ Carded(target.pin, subject, events) /\ Blank(events, 1) /\ Blank(events, 2)
        /\ subject = "card_drift" /\ target.pin # Nothing
    BY <1>1, <1>2, <1>3 DEF Complete, Judged
  <2>2. DefectStage = "descriptor_consistency"
    BY <2>1 DEF DefectStage
  <2>3. DefectStage # Nothing
    BY <2>2 DEF Nothing
  <2> QED
    BY <1>1, <2>1, <2>2, <2>3, DriftIsCaught
<1>4. CASE told # <<>>
  <2> DEFINE six == SixStages(profile, events)
  <2>1. /\ Len(told) = 2 /\ Quoting(told[1]) /\ told[2].task = "task"
        /\ Recorded(profile, events, 1, told[1]) /\ Recorded(profile, events, 2, told[2])
        /\ ~Has(events, "town_driver_error")
        /\ \A k \in 1..4 : six[k] \in {"passed", "not_tested"}
        /\ six[1] = "passed"
        /\ six[5] = PassIf(RightQuote(profile, Texts(told[1])[1]))
        /\ Quoting(told[2]) \/ (profile.condition = "conflicting_retry" /\ told[2].state = "rejected")
    BY <1>1, <1>2, <1>4, WholeRecord
  <2>2. IsSequence(events)
    BY <1>1 DEF Sequenced
  <2>3. /\ Quoting(told[2]) => DuplicateStage(profile, events) = PassIf(Texts(told[1])[1] = Texts(told[2])[1])
        /\ told[2].state = "rejected" => RefusalStage(events) = "passed"
        /\ told[2].state = "completed" => RefusalStage(events) = "failed"
    BY <2>1, <2>2, SecondStages
  <2>4. six[6] = IF profile.condition = "conflicting_retry" THEN RefusalStage(events) ELSE DuplicateStage(profile, events)
    BY SixAre
  <2>5. \A quote : Texts(Task("completed", <<quote>>))[1] = quote
    BY DEF Texts, Task
  <2>6. Texts(told[1])[1] = FirstQuote /\ told[2] = SecondAnswer
    BY <1>2, <1>4, <2>1, <2>5
  <2>7. ~(subject = "card_drift" /\ target.pin # Nothing)
    <3>1. Carded(target.pin, subject, events) /\ Pinned(target.pin, events)
      BY <1>1, <1>2, <1>4 DEF Complete, OnRecord, Judged
    <3>2. PICK n \in DOMAIN events : events[n].kind = "card_retrieved"
      BY <3>1 DEF Carded, Has
    <3>3. subject # Stranger => events[n].detail = CardOf(subject)
      BY <3>1, <3>2 DEF Carded
    <3>4. target.pin # Nothing => events[n].detail = "card"
      BY <1>1, <3>1, <3>2 DEF Pinned, PathTypeOK
    <3> QED
      BY <3>3, <3>4 DEF CardOf
  <2>8. six[6] # "error"
    BY <2>4, LastStage
  <2>9. \A k \in 1..6 : k \in 1..4 \/ k = 5 \/ k = 6
    OBVIOUS
  <2>10. six[5] = IF subject \in {"wrong_total", "wrong_item"} THEN "failed" ELSE "passed"
    BY <1>1, <2>1, <2>6, RightUnlessWrong DEF PassIf
  <2>11. \A k \in 1..6 : six[k] # "error"
    BY <2>1, <2>8, <2>9, <2>10
  <2>12. /\ StageNames(profile)[5] = "semantic_result" /\ StageNames(profile)[6] = profile.condition
    BY DEF StageNames
  <2>13. CASE subject \in {"wrong_total", "wrong_item"}
    <3>1. \A k \in 1..5 - 1 : six[k] \in {"passed", "not_tested"}
      BY <2>1
    <3>2. FirstBroken = "semantic_result" /\ verdict = "failed"
      BY <2>10, <2>11, <2>12, <2>13, <3>1, Broken
    <3>3. DefectStage = "semantic_result"
      BY <2>13 DEF DefectStage
    <3> QED
      BY <3>2, <3>3 DEF Nothing
  <2>14. CASE subject \notin {"wrong_total", "wrong_item"}
    <3>1. six[5] = "passed"
      BY <2>10, <2>14
    <3>2. \A k \in 1..6 - 1 : six[k] \in {"passed", "not_tested"}
      <4>1. \A k \in 1..6 - 1 : k \in 1..4 \/ k = 5
        OBVIOUS
      <4> QED
        BY <2>1, <3>1, <4>1
    <3>3. six[6] = "failed" => FirstBroken = profile.condition /\ verdict = "failed"
      BY <2>11, <2>12, <3>2, Broken
    <3>4. six[6] = "passed" => FirstBroken = Nothing /\ verdict = "passed"
      BY <2>1, <3>1, AllSix, NothingBroken
    <3>5. profile.condition \in {"duplicate_request", "conflicting_retry"}
      BY <1>1, RefusalsAreStrict DEF PathTypeOK
    <3>6. CASE profile.condition = "conflicting_retry" /\ Binds
      <4>1. told[2].state = "rejected"
        BY <2>6, <3>6 DEF SecondAnswer, Task
      <4>2. DefectStage = Nothing
        BY <2>7, <2>14, <3>6 DEF DefectStage, Binds
      <4> QED
        BY <2>3, <2>4, <3>4, <3>6, <4>1, <4>2
    <3>7. CASE profile.condition = "conflicting_retry" /\ ~Binds
      <4>1. told[2].state = "completed"
        BY <2>6, <3>7 DEF SecondAnswer, Task
      <4>2. DefectStage = "conflicting_retry"
        BY <3>7 DEF DefectStage, Binds
      <4> QED
        BY <2>3, <2>4, <3>3, <3>7, <4>1, <4>2 DEF Nothing
    <3>8. CASE profile.condition # "conflicting_retry"
      <4>1. Quoting(told[2])
        BY <2>1, <3>8
      <4>2. six[6] = PassIf(FirstQuote = Texts(told[2])[1])
        BY <2>3, <2>4, <2>6, <3>8, <4>1
      <4>3. CASE subject = "duplicate_fulfillment"
        <5>1. Texts(told[2])[1] = Quote(Priced("original"), "order", "absent", 2)
          BY <2>5, <2>6, <3>8, <4>3 DEF SecondAnswer
        <5>2. FirstQuote.number = 0 /\ Quote(Priced("original"), "order", "absent", 2).number = 2
          BY DEF FirstQuote, Quote
        <5>3. FirstQuote # Texts(told[2])[1]
          BY <5>1, <5>2
        <5>4. six[6] = "failed"
          BY <4>2, <5>3 DEF PassIf
        <5>5. DefectStage = "duplicate_request"
          BY <3>5, <3>8, <4>3 DEF DefectStage
        <5> QED
          BY <3>3, <3>5, <3>8, <5>4, <5>5 DEF Nothing
      <4>4. CASE subject # "duplicate_fulfillment"
        <5>1. Texts(told[2])[1] = FirstQuote
          BY <2>5, <2>6, <3>8, <4>4 DEF SecondAnswer
        <5>2. six[6] = "passed"
          BY <4>2, <5>1 DEF PassIf
        <5>3. DefectStage = Nothing
          BY <2>7, <2>14, <3>8, <4>4 DEF DefectStage
        <5> QED
          BY <3>4, <5>2, <5>3
      <4> QED
        BY <4>3, <4>4
    <3> QED
      BY <3>6, <3>7, <3>8
  <2> QED
    BY <2>13, <2>14
<1> QED
  BY <1>3, <1>4

-----------------------------------------------------------------------------
(* The theorems.                                                           *)

\* A test begins in step, with nothing on the record.
LEMMA PathInvInit ==
  ASSUME PathInit
  PROVE  PathInv
<1>1. /\ profile \in PathProfiles /\ target \in [usable : BOOLEAN, pin : {Nothing, "card"}]
  BY PathAssumption DEF PathInit
<1>2. /\ driver = [at |-> "resolving", path |-> 1, attempt |-> 1, reply |-> Nothing]
      /\ wire = [what |-> "quiet", body |-> Nothing]
      /\ terms = Nothing /\ quotes = 0 /\ told = <<>> /\ events = <<>> /\ faults = {}
  BY DEF PathInit, Quiet, Call
<1>3. IsSequence(<<>>) /\ Len(<<>>) = 0 /\ DOMAIN <<>> = {}
  <2>1. <<>> \in Seq({}) /\ Len(<<>>) = 0 /\ DOMAIN <<>> = {}
    OBVIOUS
  <2> QED
    BY <2>1 DEF IsSequence
<1>4. Sequenced
  BY <1>2, <1>3 DEF Sequenced
<1>5. PathTypeOK
  BY <1>1, <1>2 DEF PathTypeOK, Places, Call
<1>6. InStep
  BY <1>2, <1>3 DEF InStep
<1>7. Truthful
  BY <1>2, <1>3 DEF Truthful, Has
<1>8. Complete
  BY <1>2 DEF Complete, OnRecord
<1>9. Reference
  BY <1>2, <1>3 DEF Reference
<1> QED
  BY <1>4, <1>5, <1>6, <1>7, <1>8, <1>9 DEF PathInv

\* Every step keeps the invariant.
LEMMA PathInvStep ==
  ASSUME PathInv, [PathNext]_vars
  PROVE  PathInv'
<1>1. Sequenced /\ PathTypeOK /\ InStep /\ Truthful /\ Complete /\ Reference
  BY DEF PathInv
<1>2. CASE PathNext
  <2>1. Sequenced'
    BY <1>1, <1>2, SequencedStep
  <2>2. PathTypeOK' /\ InStep'
    BY <1>1, <1>2, InStepStep
  <2>3. Truthful' /\ Complete' /\ Reference'
    BY <1>1, <1>2, TruthfulStep, CompleteStep, ReferenceStep
  <2> QED
    BY <2>1, <2>2, <2>3 DEF PathInv
<1>3. CASE UNCHANGED vars
  <2>1. /\ profile' = profile /\ target' = target /\ subject' = subject /\ driver' = driver /\ wire' = wire
        /\ terms' = terms /\ quotes' = quotes /\ told' = told /\ events' = events /\ faults' = faults
    BY <1>3 DEF vars
  <2>2. Sequenced' /\ PathTypeOK' /\ Truthful'
    BY <1>1, <2>1 DEF Sequenced, PathTypeOK, Truthful
  <2>3. InStep'
    BY <1>1, <2>1 DEF InStep, AskedIn
  <2>4. Complete'
    BY <1>1, <2>1 DEF Complete, Smooth
  <2>5. Reference'
    BY <1>1, <2>1 DEF Reference, FirstQuote, Binds, Priced, Quoted
  <2> QED
    BY <2>2, <2>3, <2>4, <2>5 DEF PathInv
<1> QED
  BY <1>2, <1>3

\* The record of a test is truthful, and complete while nothing goes wrong.
THEOREM TestStaysInStep == PathSpec => []PathInv
<1>1. PathInit => PathInv
  BY PathInvInit
<1>2. PathInv /\ [PathNext]_vars => PathInv'
  BY PathInvStep
<1> QED
  BY <1>1, <1>2, PTL DEF PathSpec

\* evaluate_path: whatever is lost and however Town's own driver fails, a subject passes a
\* strict profile only if it did everything the profile asks and showed the pinned card.
THEOREM PassesAreEarned == PathSpec => []PassIsEarned
<1>1. PathInv => PassIsEarned
  BY TruthIsEarned DEF PathInv, PassIsEarned
<1> QED
  BY <1>1, TestStaysInStep, PTL

\* evaluate_path: a subject that did everything passes, under the older evaluators too,
\* when nothing was lost and Town did not fail.
THEOREM KeptIsPassed == PathSpec => []KeptPasses
<1>1. PathInv => KeptPasses
  BY AllIsKept DEF PathInv, KeptPasses
<1> QED
  BY <1>1, TestStaysInStep, PTL

\* build_a2a_app, evaluate_path: every planted defect that matters under the profile fails
\* the run, at its own stage first, and no other does.
THEOREM PlantedDefectsFail == PathSpec => []DefectsAreCaught
<1>1. PathInv => DefectsAreCaught
  BY EachIsCaught DEF DefectsAreCaught
<1> QED
  BY <1>1, TestStaysInStep, PTL
=============================================================================
