------------------------------- MODULE Layers -------------------------------
(***************************************************************************)
(* The Lab's engine (sim/engine.py) and protocol layers (layers/) as       *)
(* operators on the state of a town: each takes a town and returns the     *)
(* town after the call.  A call that raises sets "raised"; nothing after   *)
(* it in the same handler, or in the run, takes effect.                    *)
(*                                                                         *)
(* Time counts tenths of the scenario's unit.  A message is its sender,    *)
(* recipient, kind and body; a conversation is known by its first message. *)
(* The identity, communication and privacy layers and the record of        *)
(* intents keep nothing a run or its judgement reads, and are left out.    *)
(***************************************************************************)
EXTENDS Integers, Sequences, FiniteSets, SequencesExt, TLC

CONSTANT Alphabet    \* the names of all agents, in the order str comparison gives them

VARIABLE scenario    \* the ScenarioSpec of the run

Latency == 1
Nobody == "nobody"   \* what recall and award answer when there is nothing

Cfg(a) == scenario.cast[a]
Cast == DOMAIN scenario.cast
WithRole(role) == {a \in Cast : Cfg(a).role = role}
Position(a) == CHOOSE i \in DOMAIN Alphabet : Alphabet[i] = a

Bind(f, k, v) == (k :> v) @@ f
ValueOf(f, k, default) == IF k \in DOMAIN f THEN f[k] ELSE default

\* What follows a call that raised does not happen.
After(w, next) == IF w.raised THEN w ELSE next
Raise(w) == [w EXCEPT !.raised = TRUE]
Refused(w, condition, next) == After(w, IF condition THEN Raise(w) ELSE next)

ForEach(Call(_, _), w, names) == FoldLeft(Call, w, names)

-----------------------------------------------------------------------------
(* Engine *)

Emit(w, by, kind, subject, detail) ==
  After(w, [w EXCEPT !.log = Append(@, [by |-> by, kind |-> kind, subject |-> subject,
                                        detail |-> detail])])

\* The queue is kept in the order of scheduling, which is the order of seq.
Schedule(w, delay, todo) ==
  After(w, [w EXCEPT !.queue = Append(@, [at |-> w.now + delay, since |-> w.now, todo |-> todo])])

Later(w, agent, delay, timer, arg) ==
  Schedule(w, delay, [type |-> "timer", agent |-> agent, timer |-> timer, arg |-> arg])

\* The heap orders by time, then by seq.  Times are sums of binary fractions:
\* equal sums of unequal terms may differ in the last place, in either
\* direction, so only entries of equal terms are sure to keep their order.
Due(w) ==
  {i \in DOMAIN w.queue :
     /\ \A j \in DOMAIN w.queue : w.queue[i].at <= w.queue[j].at
     /\ \A j \in 1..(i - 1) : \/ w.queue[j].at # w.queue[i].at
                              \/ w.queue[j].since # w.queue[i].since}

Taken(w, i) == [w EXCEPT !.queue = RemoveAt(@, i), !.now = w.queue[i].at]

-----------------------------------------------------------------------------
(* Transport: the rules of the scenario, each with its count of matches.   *)
(* A seed decides which of its messages a drop_rate rule loses.            *)

Concerns(rule, kind) == rule.kind \in {"", kind}

Strikes(w, i, kind) ==
  LET rule == scenario.rules[i]
  IN /\ Concerns(rule, kind)
     /\ IF rule.action = "drop_rate" THEN w.matched[i] + 1 \in rule.lost
                                     ELSE w.matched[i] + 1 = rule.nth

Struck(w, kind) == SelectInSeq([i \in DOMAIN scenario.rules |-> Strikes(w, i, kind)],
                               LAMBDA strikes : strikes)

\* A rule after the one that strikes does not see the message.
Matched(w, kind) ==
  [i \in DOMAIN w.matched |->
     IF Concerns(scenario.rules[i], kind) /\ Struck(w, kind) \notin 1..(i - 1)
     THEN w.matched[i] + 1 ELSE w.matched[i]]

Transmit(w, m) ==
  LET i == Struck(w, m.kind)
      action == IF i = 0 THEN "none" ELSE scenario.rules[i].action
      counted == [w EXCEPT !.matched = Matched(w, m.kind)]
      noted(kind) == Emit(counted, "town", kind, m.id, [to |-> m.to, kind |-> m.kind])
      todo == [type |-> "deliver", message |-> m]
  IN CASE action = "none" -> Schedule(counted, Latency, todo)
       [] action \in {"drop", "drop_rate"} -> noted("message_dropped")
       [] action = "duplicate" ->
            Schedule(Schedule(noted("message_duplicated"), Latency, todo), 2 * Latency, todo)
       [] action = "delay" ->
            Schedule(noted("message_delayed"), Latency + scenario.rules[i].delay, todo)

\* TownAPI.send: the body is signed as it is now.
SendIn(w, conversation, from, to, kind, body) ==
  LET id == w.sent + 1
      m == [id |-> id, conversation |-> IF conversation = 0 THEN id ELSE conversation,
            from |-> from, to |-> to, kind |-> kind, body |-> body, signed |-> body]
  IN After(w, Transmit(Emit([w EXCEPT !.sent = id], from, "message_sent", id,
                            [to |-> to, kind |-> kind, conversation |-> m.conversation,
                             body |-> body]), m))

Send(w, from, to, kind, body) == SendIn(w, 0, from, to, kind, body)
Reply(w, m, kind, body) == SendIn(w, m.conversation, m.to, m.from, kind, body)

-----------------------------------------------------------------------------
(* Trust: reputation.v1 sums receipts; reputation.capped.v1 weighs them.   *)

Clamped(n) == IF n > 1 THEN 1 ELSE IF n < -1 THEN -1 ELSE n

\* reports[o] are the net reports of observer o, by subject.
Reporters(w, subject) == {o \in DOMAIN w.reports : subject \in DOMAIN w.reports[o]}

\* Faulty variant: an observer counts without ever having traded.
ScoreOfAll(w, subject) ==
  MapThenSumSet(LAMBDA o : Clamped(w.reports[o][subject]), Reporters(w, subject))

CappedScore(w, subject) ==
  MapThenSumSet(LAMBDA o : Clamped(w.reports[o][subject]), Reporters(w, subject) \cap w.weighted)

Score(w, subject) ==
  IF scenario.trust = "reputation.capped.v1" THEN CappedScore(w, subject)
                                             ELSE ValueOf(w.scores, subject, 0)

InOrder(S) == SetToSortSeq(S, LAMBDA a, b : Position(a) < Position(b))

\* on_event: a settled payment gives its parties weight, and every report they
\* have on file counts from here on.
Enfranchise(w, party) ==
  IF party \in w.weighted THEN w
  ELSE LET weighted == [w EXCEPT !.weighted = @ \cup {party}]
           reported == ValueOf(w.reports, party, <<>>)
       IN ForEach(LAMBDA acc, subject :
                    Emit(acc, party, "reputation_reweighted", subject,
                         [delta |-> Clamped(reported[subject]),
                          score |-> CappedScore(weighted, subject)]),
                  weighted, InOrder(DOMAIN reported))

UpdateCapped(w, observer, subject, outcome, receipt) ==
  LET old == ValueOf(w.reports, observer, <<>>)
      net == ValueOf(old, subject, 0) + (IF outcome = "good" THEN 1 ELSE -1)
      filed == [w EXCEPT !.reports = Bind(@, observer, Bind(old, subject, net))]
  IN Emit(filed, observer, "reputation_updated", subject,
          [outcome |-> outcome, receipt |-> receipt, score |-> CappedScore(filed, subject),
           delta |-> CappedScore(filed, subject) - CappedScore(w, subject)])

UpdateSummed(w, observer, subject, outcome, receipt) ==
  LET delta == IF outcome = "good" THEN 1 ELSE -1
      score == ValueOf(w.scores, subject, 0) + delta
  IN Emit([w EXCEPT !.scores = Bind(@, subject, score)], observer, "reputation_updated", subject,
          [outcome |-> outcome, receipt |-> receipt, score |-> score, delta |-> delta])

\* TownAPI.rate: an attested receipt, then the score it moves.
Rate(w, observer, subject, outcome) ==
  LET receipt == w.facts + 1
      attested == Emit([w EXCEPT !.facts = receipt], observer, "receipt_attested", subject,
                       [record |-> receipt, value |-> outcome])
  IN Refused(w, observer = subject,
             IF scenario.trust = "reputation.capped.v1"
             THEN UpdateCapped(attested, observer, subject, outcome, receipt)
             ELSE UpdateSummed(attested, observer, subject, outcome, receipt))

-----------------------------------------------------------------------------
(* Registry: index.v1 stores what it is given, index.owned.v1 protects a   *)
(* verified listing.  A card is a name, a version and capabilities; its    *)
(* signature is known by whose key made it over this very card.            *)

Verified(name, signer) == scenario.auth = "plain.v1" \/ signer = name

Checked(w, name, signer) ==
  IF Verified(name, signer) THEN w ELSE Emit(w, "town", "signature_invalid", name, [claimed |-> name])

Store(w, publisher, card, signer) ==
  LET verified == Verified(card.name, signer)
      stored == [Checked(w, card.name, signer) EXCEPT
                   !.cards = Bind(@, card.name, [card |-> card, verified |-> verified,
                                                 publisher |-> publisher])]
  IN Emit(stored, "town", IF verified THEN "card_registered" ELSE "card_unverified", card.name,
          [publisher |-> publisher])

Listed(w, name) == name \in DOMAIN w.cards /\ w.cards[name].verified

\* The highest version accepted for a name, also after a withdrawal; the first is 1.
Highest(w, name) == ValueOf(w.versions, name, 0)
Generation(w, name) == ValueOf(w.generations, name, 0)
Changed(w, name) == [w EXCEPT !.generations = Bind(@, name, Generation(w, name) + 1)]

\* Faulty variant: a forged card claims its name's version.
AcceptedFromAnybody(w, card, signer) ==
  Changed([w EXCEPT !.versions = Bind(@, card.name, card.version)], card.name)
Accepted(w, card, signer) ==
  IF Verified(card.name, signer)
  THEN Changed([w EXCEPT !.versions = Bind(@, card.name, card.version)], card.name) ELSE w

Stale(w, card) == card.version <= Highest(w, card.name)

\* Faulty variant: only the owner's stale cards are refused.
RefusesOwnersStale(w, card, signer) == Verified(card.name, signer) /\ Stale(w, card)
Refuses(w, card, signer) ==
  \/ Listed(w, card.name) /\ ~Verified(card.name, signer)
  \/ Stale(w, card)

\* A signature is looked at where a listing is to be updated, and where a card is stored.
StoreOwned(w, publisher, card, signer) ==
  LET seen == IF Listed(w, card.name) THEN Checked(w, card.name, signer) ELSE w
  IN IF Refuses(w, card, signer)
     THEN Emit(seen, "town", "card_publish_refused", card.name, [publisher |-> publisher])
     ELSE Accepted(Store(w, publisher, card, signer), card, signer)

Publish(w, publisher, card, signer) ==
  After(w, IF scenario.registry = "index.owned.v1" THEN StoreOwned(w, publisher, card, signer)
                                                    ELSE Store(w, publisher, card, signer))

\* What an owner signs to withdraw this listing once.
Withdrawal(w, card) == [card |-> card, generation |-> Generation(w, card.name)]

\* Faulty variant: any withdrawal the owner ever signed will do.
SignedByOwner(w, name, request, signer) == Verified(name, signer)
SignedForListing(w, name, request, signer) ==
  \/ scenario.auth = "plain.v1"
  \/ signer = name /\ request = Withdrawal(w, w.cards[name].card)

\* Faulty variant: the version goes with the listing.
ForgottenListing(w, name) ==
  Changed([w EXCEPT !.cards = Restrict(@, DOMAIN @ \ {name}), !.versions = Bind(@, name, 0)], name)
Unlisted(w, name) == Changed([w EXCEPT !.cards = Restrict(@, DOMAIN @ \ {name})], name)

Withdraw(w, requester, name, request, signer) ==
  LET refused(town) == Emit(town, "town", "card_withdraw_refused", name, [requester |-> requester])
  IN After(w, IF ~Listed(w, name) THEN refused(w)
              ELSE IF ~SignedForListing(w, name, request, signer)
              THEN refused(Emit(w, "town", "signature_invalid", name, [claimed |-> name]))
              ELSE Emit(Unlisted(w, name), "town", "card_withdrawn", name, [requester |-> requester]))

\* An agent's own card, which has no version and so is version 1.
Card(name, capabilities) == [name |-> name, version |-> 1, capabilities |-> capabilities]
Register(w, a, capabilities) == Publish(w, a, Card(a, capabilities), a)

Lookup(w, capability) ==
  SetToSortSeq({name \in DOMAIN w.cards : /\ capability \in w.cards[name].card.capabilities
                                          /\ Listed(w, name)},
               LAMBDA a, b : \/ Score(w, a) > Score(w, b)
                             \/ Score(w, a) = Score(w, b) /\ Position(a) < Position(b))

-----------------------------------------------------------------------------
(* Payments: balances and escrow. *)

Settle(w, from, to, memo, cents, via) ==
  LET emitted == Emit(w, "town", "payment_settled", memo,
                      [from |-> from, to |-> to, cents |-> cents, via |-> via])
  IN IF scenario.trust = "reputation.capped.v1"
     THEN Enfranchise(Enfranchise(emitted, from), to) ELSE emitted

Moved(balances, from, to, cents) ==
  [a \in DOMAIN balances |-> balances[a] - (IF a = from THEN cents ELSE 0)
                                         + (IF a = to THEN cents ELSE 0)]

Funded(w, from, cents, ref, next) ==
  IF w.balances[from] < cents
  THEN Raise(Emit(w, "town", "payment_rejected", from, [cents |-> cents, ref |-> ref]))
  ELSE next

Pay(w, from, to, cents, memo) ==
  Refused(w, cents < 1, Funded(w, from, cents, memo,
          Settle([w EXCEPT !.balances = Moved(@, from, to, cents)], from, to, memo, cents, "transfer")))

EscrowHold(w, from, cents, ref) ==
  Refused(w, cents < 1 \/ ref \in DOMAIN w.escrow, Funded(w, from, cents, ref,
          Emit([w EXCEPT !.balances[from] = @ - cents,
                         !.escrow = Bind(@, ref, [from |-> from, cents |-> cents, state |-> "held"])],
               "town", "escrow_held", ref, [from |-> from, cents |-> cents])))

Held(w, ref) == ref \in DOMAIN w.escrow /\ w.escrow[ref].state = "held"

\* Faulty variant: what was released is still held.
StillHeld(w, ref, to) == [w EXCEPT !.balances[to] = @ + w.escrow[ref].cents]
PaidOut(w, ref, to) ==
  [w EXCEPT !.escrow[ref].state = "released", !.balances[to] = @ + w.escrow[ref].cents]

EscrowRelease(w, ref, to) ==
  Refused(w, ~Held(w, ref),
          LET h == w.escrow[ref]
          IN Settle(Emit(PaidOut(w, ref, to), "town", "escrow_released", ref, [to |-> to, cents |-> h.cents]),
                    h.from, to, ref, h.cents, "escrow"))

-----------------------------------------------------------------------------
(* Coordination: contract net. *)

Announce(w, issuer, task, rule) ==
  Emit([w EXCEPT !.tasks = Bind(@, task, [issuer |-> issuer, rule |-> rule, bids |-> <<>>,
                                          state |-> "open", winner |-> Nobody])],
       issuer, "task_announced", task, [rule |-> rule])

Bid(w, task, bidder, cents) ==
  LET t == w.tasks[task]
      refused == t.state # "open" \/ bidder \in DOMAIN t.bids
  IN After(w, IF refused
              THEN Emit(w, "town", "bid_rejected", task, [bidder |-> bidder, cents |-> cents])
              ELSE Emit([w EXCEPT !.tasks[task].bids = Bind(@, bidder, cents)],
                        bidder, "bid_placed", task, [cents |-> cents]))

\* Faulty variant: the lowest bid wins whatever the rule.
Cheaper(t, a, b) == t.bids[a] < t.bids[b] \/ (t.bids[a] = t.bids[b] /\ Position(a) < Position(b))

Better(t, a, b) ==
  \/ IF t.rule = "highest" THEN t.bids[a] > t.bids[b] ELSE t.bids[a] < t.bids[b]
  \/ t.bids[a] = t.bids[b] /\ Position(a) < Position(b)

Best(t) == CHOOSE a \in DOMAIN t.bids : \A b \in DOMAIN t.bids \ {a} : Better(t, a, b)

\* Who the task is awarded to is in the task afterwards.
Award(w, task) ==
  LET closed == [w EXCEPT !.tasks[task].state = "closed"]
      t == w.tasks[task]
  IN After(w, IF DOMAIN t.bids = {} THEN Emit(closed, t.issuer, "task_unfilled", task, <<>>)
              ELSE Emit([closed EXCEPT !.tasks[task].winner = Best(t)],
                        t.issuer, "task_awarded", task,
                        [winner |-> Best(t), cents |-> t.bids[Best(t)], bids |-> t.bids]))

-----------------------------------------------------------------------------
(* Negotiation: alternating offers; a session's id is its index. *)

StartHaggle(w, buyer, seller) ==
  Emit([w EXCEPT !.sessions = Append(@, [buyer |-> buyer, seller |-> seller, turn |-> buyer,
                                         last |-> 0, state |-> "open"])],
       buyer, "negotiation_started", Len(w.sessions) + 1, [seller |-> seller])

OutOfTurn(w, nid, by) == w.sessions[nid].state # "open" \/ w.sessions[nid].turn # by

Offer(w, nid, by, cents) ==
  LET s == w.sessions[nid]
  IN Refused(w, OutOfTurn(w, nid, by),
             Emit([w EXCEPT !.sessions[nid].last = cents,
                            !.sessions[nid].turn = IF by = s.buyer THEN s.seller ELSE s.buyer],
                  by, IF by = s.buyer THEN "offer_made" ELSE "counter_made", nid, [cents |-> cents]))

Accept(w, nid, by) ==
  Refused(w, OutOfTurn(w, nid, by),
          Emit([w EXCEPT !.sessions[nid].state = "agreed"], by, "offer_accepted", nid,
               [cents |-> w.sessions[nid].last]))

Abandon(w, nid, by) ==
  Emit([w EXCEPT !.sessions[nid].state = "abandoned"], by, "negotiation_abandoned", nid, <<>>)

-----------------------------------------------------------------------------
(* Memory *)

Remember(w, a, key, value) ==
  Emit([w EXCEPT !.memory[a] = Bind(@, key, value)], a, "memory_written", a, [key |-> key])

Recall(w, a, key) == ValueOf(w.memory[a], key, Nobody)

\* An agent's own fields.
Own(w, a) == w.agents[a]
Set(w, a, own) == After(w, [w EXCEPT !.agents[a] = own])
=============================================================================
