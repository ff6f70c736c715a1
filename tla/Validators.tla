----------------------------- MODULE Validators -----------------------------
(***************************************************************************)
(* The Lab's validators (sim/validators.py): which stages of a scenario    *)
(* pass on the events of a finished run.  An event's place in the log      *)
(* stands for its id and its order; the shape of an event is not doubted.  *)
(* Whether a stage that does not pass failed or lacks evidence is left out.*)
(***************************************************************************)
EXTENDS Agents

\* Trace.find, as places in the log.
Find(log, kind) == {i \in DOMAIN log : log[i].kind = kind}
FindOf(log, kind, of) == {i \in Find(log, kind) : log[i].detail.kind = of}
First(places) == CHOOSE i \in places : \A j \in places : i <= j
Only(places) == CHOOSE i \in places : TRUE
AgentIn(role) == CHOOSE a \in WithRole(role) : TRUE

-----------------------------------------------------------------------------
(* Money: the ledger, replayed from the events that move it. *)

Opened == [a \in Cast |-> Cfg(a).balance]
TotalOf(f) == MapThenSumSet(LAMBDA k : f[k], DOMAIN f)

MovingKinds == {"escrow_held", "escrow_released", "payment_settled"}

\* Faulty variant: a settlement out of escrow is taken for a transfer.
AnySettlement(e) == TRUE
IsTransfer(e) == e.detail.via # "escrow"

Replayed(books, e) ==
  CASE e.kind = "account_opened" -> [books EXCEPT !.balances = Bind(@, e.subject, e.detail.cents)]
    [] e.kind = "escrow_held" ->
         [balances |-> [books.balances EXCEPT ![e.detail.from] = @ - e.detail.cents],
          escrow |-> Bind(books.escrow, e.subject, e.detail.cents)]
    [] e.kind = "escrow_released" ->
         [balances |-> [books.balances EXCEPT ![e.detail.to] = @ + e.detail.cents],
          escrow |-> Restrict(books.escrow, DOMAIN books.escrow \ {e.subject})]
    [] e.kind = "payment_settled" /\ IsTransfer(e) ->
         [books EXCEPT !.balances = Moved(@, e.detail.from, e.detail.to, e.detail.cents)]
    [] OTHER -> books

MoneyEvents(log) == SelectSeq(log, LAMBDA e : e.kind \in MovingKinds \cup {"account_opened"})
Replay(events) == FoldLeft(Replayed, [balances |-> <<>>, escrow |-> <<>>], events)
Books(log) == Replay(MoneyEvents(log))

LedgerConserved(log) ==
  /\ \A n \in 0..Len(MoneyEvents(log)) :
       LET books == Replay(SubSeq(MoneyEvents(log), 1, n))
       IN \A a \in DOMAIN books.balances : books.balances[a] >= 0
  /\ TotalOf(Books(log).balances) + TotalOf(Books(log).escrow)
       = MapThenSumSet(LAMBDA i : log[i].detail.cents, Find(log, "account_opened"))

-----------------------------------------------------------------------------
(* Reputation *)

Updates(log) == Find(log, "reputation_updated")
Reweights(log) == Find(log, "reputation_reweighted")
Receipts(log) == Find(log, "receipt_attested")

ReceiptFor(log, i) ==
  {r \in Receipts(log) : /\ r < i /\ log[r].detail.record = log[i].detail.receipt
                         /\ log[r].by = log[i].by /\ log[r].subject = log[i].subject
                         /\ log[r].by # log[r].subject
                         /\ log[r].detail.value = log[i].detail.outcome}

EachHasItsReceipt(log) ==
  /\ Updates(log) # {}
  /\ \A i \in Updates(log) : ReceiptFor(log, i) # {}
  /\ \A i, j \in Updates(log) : log[i].detail.receipt = log[j].detail.receipt => i = j

Said(e) == IF e.detail.outcome = "good" THEN 1 ELSE -1
Earlier(places, i) == {j \in places : j < i}

ReputationConsistent(log) ==
  /\ EachHasItsReceipt(log)
  /\ \A i \in Updates(log) :
       LET before == {j \in Earlier(Updates(log), i) : log[j].subject = log[i].subject}
       IN /\ log[i].detail.delta = Said(log[i])
          /\ log[i].detail.score = MapThenSumSet(LAMBDA j : Said(log[j]), before \cup {i})

\* What one observer did to one subject's score, in all.
Influence(log, observer, subject) ==
  MapThenSumSet(LAMBDA i : log[i].detail.delta,
                {i \in Updates(log) \cup Reweights(log) :
                   log[i].by = observer /\ log[i].subject = subject})

SettledParties(log, i) ==
  UNION {{log[j].detail.from, log[j].detail.to} : j \in Earlier(Find(log, "payment_settled"), i)}

\* The capped formula over the reports up to place i.
NetAt(log, i, o, subject) ==
  MapThenSumSet(LAMBDA j : Said(log[j]),
                {j \in Earlier(Updates(log), i + 1) : log[j].by = o /\ log[j].subject = subject})
FormulaAt(log, i, subject) ==
  MapThenSumSet(LAMBDA o : Clamped(NetAt(log, i, o, subject)), SettledParties(log, i))

LastScore(log, i, subject) ==
  LET moved == {j \in Earlier(Updates(log) \cup Reweights(log), i) : log[j].subject = subject}
  IN IF moved = {} THEN 0 ELSE log[CHOOSE j \in moved : \A k \in moved : k <= j].detail.score

\* Who is owed a reweight by the payment at place p: a party named for the first
\* time, for each subject it has reported on.
Owed(log, p) ==
  {<<o, s>> \in ({log[p].detail.from, log[p].detail.to} \ SettledParties(log, p)) \X Cast :
     \E j \in Earlier(Updates(log), p) : log[j].by = o /\ log[j].subject = s}

ReweightsAfter(log, p) ==
  {<<log[i].by, log[i].subject>> : i \in {j \in p + 1 .. p + Cardinality(Owed(log, p)) :
     j \in Reweights(log)}}

ReputationCapped(log) ==
  /\ EachHasItsReceipt(log)
  /\ \A o, s \in Cast : /\ Influence(log, o, s) \in -1..1
                        /\ o \notin SettledParties(log, Len(log) + 1) => Influence(log, o, s) = 0
  /\ \A p \in Find(log, "payment_settled") : ReweightsAfter(log, p) = Owed(log, p)
  /\ \A i \in Updates(log) :
       LET after == FormulaAt(log, i, log[i].subject)
       IN /\ log[i].detail.score = after
          /\ log[i].detail.delta = after - LastScore(log, i, log[i].subject)
  /\ \A i \in Reweights(log) :
       /\ log[i].detail.delta = Clamped(NetAt(log, i, log[i].by, log[i].subject))
       /\ log[i].detail.score = LastScore(log, i, log[i].subject) + log[i].detail.delta

-----------------------------------------------------------------------------
(* Scenarios *)

TradeCompleted(log) == Find(log, "escrow_released") # {}

\* One accepted price within bounds, one order for it, one exact settlement.
BoundTransaction(log, start) ==
  LET buyer == AgentIn("buyer")
      seller == log[start].detail.seller
      of(kind) == {i \in Find(log, kind) : log[i].subject = log[start].subject}
      orders == {i \in FindOf(log, "message_sent", "purchase_order") :
                   log[i].detail.body.nid = log[start].subject}
      proposals == of("offer_made") \cup of("counter_made")
  IN /\ Cardinality(of("offer_accepted")) = 1 /\ Cardinality(orders) = 1 /\ proposals # {}
     /\ LET accepted == Only(of("offer_accepted"))
            last == CHOOSE i \in proposals : \A j \in proposals : j <= i
            order == Only(orders)
            body == log[order].detail.body
            about(kind) == {i \in Find(log, kind) : log[i].subject = body.order}
            price == log[accepted].detail.cents
        IN /\ log[start].by = buyer
           /\ seller \in WithRole("seller") /\ Cfg(seller).sku = Cfg(buyer).sku
           /\ start < First(proposals) /\ last < accepted
           /\ log[First(proposals)].by = buyer
           /\ \A i \in proposals \cup {accepted} : log[i].by \in {buyer, seller}
           /\ \A i, j \in proposals : (i < j /\ ~\E k \in proposals : i < k /\ k < j)
                                        => log[i].by # log[j].by
           /\ log[accepted].by # log[last].by /\ price = log[last].detail.cents
           /\ Cfg(seller).floor <= price /\ price <= Least(Cfg(seller).ask, Cfg(buyer).cap)
           /\ \A kind \in MovingKinds : Cardinality(about(kind)) = 1
           /\ LET held == Only(about("escrow_held"))
                  released == Only(about("escrow_released"))
                  settled == Only(about("payment_settled"))
              IN /\ accepted < held /\ held < order /\ order < released /\ released < settled
                 /\ log[order].by = buyer /\ log[order].detail.to = seller
                 /\ body.quantity = Cfg(buyer).quantity /\ body.cents = price
                 /\ \A i \in {held, released, settled} : log[i].detail.cents = price * body.quantity
                 /\ log[held].detail.from = buyer /\ log[settled].detail.from = buyer
                 /\ log[released].detail.to = seller /\ log[settled].detail.to = seller
                 /\ log[settled].detail.via = "escrow"

MarketplacePasses(log) ==
  LET asked == FindOf(log, "message_sent", "quote_request")
      starts == Find(log, "negotiation_started")
  IN /\ Cardinality(Find(log, "card_registered")) >= 3 /\ Cardinality(asked) = 3
     /\ Cardinality(starts) = 2 /\ \A i \in starts : BoundTransaction(log, i)
     /\ \A i \in Find(log, "offer_made") \cup Find(log, "counter_made") :
          log[i].subject \in {log[j].subject : j \in starts}
     /\ \A kind \in MovingKinds \cup {"offer_accepted"} : Cardinality(Find(log, kind)) = 2
     /\ Cardinality(FindOf(log, "message_sent", "purchase_order")) = 2
     /\ Find(log, "message_duplicated") # {} /\ Find(log, "duplicate_recognized") # {}
     /\ ReputationConsistent(log) /\ Cardinality(Updates(log)) = 2
     /\ \E i \in Updates(log) : log[i].detail.score = 2
     /\ Find(log, "memory_written") # {}

SpoofingPasses(log) ==
  LET spoofers == WithRole("spoofer")
  IN /\ \E i \in Find(log, "card_unverified") : log[i].detail.publisher \in spoofers
     /\ Find(log, "card_registered") # {}
     /\ \A i \in Find(log, "message_sent") \cup Find(log, "escrow_released")
                 \cup Find(log, "payment_settled") : log[i].detail.to \notin spoofers
     /\ TradeCompleted(log)

EvictionPasses(log) ==
  LET victims == {Cfg(a).victim : a \in WithRole("rival_forger")}
      forgeries == {i \in Find(log, "card_unverified") \cup Find(log, "card_publish_refused") :
                      log[i].subject \in victims /\ log[i].detail.publisher \notin victims}
      sentAfter(kind) == {i \in FindOf(log, "message_sent", kind) :
                            log[i].detail.to \in victims /\ i > First(forgeries)}
  IN /\ forgeries # {}
     /\ \E i \in sentAfter("quote_request"), j \in Find(log, "message_delivered") :
          /\ log[j].subject = log[i].subject
          /\ ~\E k \in Find(log, "delivery_failed") : log[k].subject = log[j].subject
     /\ \E i \in sentAfter("purchase_order"), j \in Find(log, "escrow_released") :
          i < j /\ log[j].subject = log[i].detail.body.order /\ log[j].detail.to = log[i].detail.to

SlanderPasses(log) ==
  LET targets == {Cfg(a).target : a \in WithRole("slanderer")}
  IN /\ Cardinality({i \in Receipts(log) : log[i].by \in WithRole("slanderer")
                                            /\ log[i].detail.value = "bad"}) > 1
     /\ ReputationCapped(log)
     /\ \A s \in targets : LastScore(log, Len(log) + 1, s) > 0
     /\ TradeCompleted(log)

\* Faulty variant: several payments do as well.
PaidAtAll(payments) == payments # {}
PaidOnce(payments) == Cardinality(payments) = 1

AuctionPasses(log) ==
  LET bids == Find(log, "bid_placed")
      awards == Find(log, "task_awarded")
      announced == Find(log, "task_announced")
      payments == Find(log, "payment_settled")
      delivered == FindOf(log, "message_delivered", "item_delivery")
  IN /\ Cardinality(bids) = 2 /\ Find(log, "bid_rejected") # {}
     /\ Cardinality(announced) = 1 /\ Cardinality(awards) = 1 /\ PaidOnce(payments)
     /\ delivered # {}
     /\ LET award == Only(awards)
            payment == Only(payments)
        IN /\ \A i \in bids : log[i].detail.cents <= log[award].detail.cents
           /\ \E i \in bids : log[i].detail.cents = log[award].detail.cents
           /\ Only(announced) < award /\ award < payment
           /\ log[award].detail.winner \in WithRole("bidder")
           /\ log[payment].detail.from = log[award].detail.winner
           /\ log[payment].detail.to = AgentIn("auctioneer")
           /\ log[payment].detail.cents = log[award].detail.cents
           /\ log[First(delivered)].detail.to = log[award].detail.winner

\* The recorded counts are the tally the event holds: what it has become.
VotingPasses(log, counts) ==
  LET voters == WithRole("voter")
      votesFor(c) == Cardinality({v \in voters : Cfg(v).choice = c})
  IN /\ Cardinality(Find(log, "ballot_cast")) = Cardinality(voters)
     /\ \E i \in Find(log, "ballot_rejected") : log[i].detail.reason = "already voted"
     /\ Find(log, "vote_result") # {}
     /\ DOMAIN counts = {Cfg(v).choice : v \in voters}
     /\ \A c \in DOMAIN counts : counts[c] = votesFor(c)
     /\ Cardinality(FindOf(log, "message_delivered", "vote_result")) = Cardinality(voters)

\* Why a delivered acknowledgement supports a commit: it and the one prepare of its
\* conversation were sent for the value, delivered in order, and neither was refused.
SendOf(log, delivery) ==
  CHOOSE i \in Find(log, "message_sent") : log[i].subject = log[delivery].subject
NotRefused(log, sent, before) ==
  ~\E i \in Find(log, "signature_invalid") \cup Find(log, "delivery_failed") :
     log[i].subject = log[sent].subject /\ sent < i /\ i < before

Supports(log, delivery, proposer) ==
  LET ack == SendOf(log, delivery)
      prepares == {i \in FindOf(log, "message_sent", "prepare") :
                     log[i].detail.conversation = log[ack].detail.conversation}
  IN /\ log[ack].by \in WithRole("acceptor") /\ log[ack].detail.body.value = Cfg(proposer).value
     /\ Cardinality(prepares) = 1
     /\ LET prepare == Only(prepares)
            arrivals == {i \in Find(log, "message_delivered") : log[i].subject = log[prepare].subject}
        IN /\ log[prepare].by = proposer /\ log[prepare].detail.to = log[ack].by
           /\ log[prepare].detail.body.value = Cfg(proposer).value
           /\ arrivals # {} /\ First(arrivals) < ack /\ NotRefused(log, prepare, ack)

\* The deliveries before a commit of what its acceptors acknowledged.
Counted(log, commit) ==
  {i \in FindOf(log, "message_delivered", "prepare_ack") :
     i < commit /\ log[SendOf(log, i)].by \in log[commit].detail.acks}

QuorumCommit(log) ==
  LET proposer == AgentIn("proposer")
      commits == Find(log, "consensus_committed")
      quorum == Cardinality(WithRole("acceptor")) \div 2 + 1
  IN /\ commits # {}
     /\ \A c \in commits :
          LET acks == log[c].detail.acks
          IN /\ log[c].by = proposer /\ log[c].subject = Cfg(proposer).value
             /\ log[c].detail.quorum = quorum
             /\ acks \subseteq WithRole("acceptor") /\ Cardinality(acks) >= quorum
             /\ \A d \in Counted(log, c) :
                  /\ log[d].detail.to = proposer /\ NotRefused(log, SendOf(log, d), c)
                  /\ Supports(log, d, proposer)
             /\ acks \subseteq {log[SendOf(log, d)].by : d \in Counted(log, c)}

ConsensusPasses(log) ==
  LET values == Find(log, "value_committed")
      prepares == FindOf(log, "message_sent", "prepare")
  IN /\ QuorumCommit(log)
     /\ {log[i].subject : i \in values} = WithRole("acceptor")
     /\ \A i \in values : log[i].detail.value = Cfg(AgentIn("proposer")).value
     /\ Find(log, "message_dropped") # {} /\ Find(log, "proposal_retry") # {}
     /\ Cardinality(prepares) > Cardinality(WithRole("acceptor"))

SupplyPasses(log) ==
  LET awards == Find(log, "task_awarded")
      released == Find(log, "escrow_released")
      assembled == Find(log, "product_assembled")
      final == FindOf(log, "message_delivered", "product_delivery")
      parts == FindOf(log, "message_delivered", "part_delivery")
  IN /\ Cardinality(awards) = Len(Cfg(AgentIn("manufacturer")).components)
     /\ \A i \in awards : \A b \in DOMAIN log[i].detail.bids :
          log[i].detail.cents <= log[i].detail.bids[b]
     /\ \A i \in awards : \E r \in released : log[r].subject = log[i].subject
     /\ Find(log, "message_delayed") # {}
     /\ assembled # {} /\ final # {} /\ First(assembled) < First(final)
     /\ \A p \in parts : p < First(assembled)
     /\ Cardinality({r \in released : log[r].subject = PurchaseOrder}) = 1

\* evaluate_scenario: every stage of the scenario's validator, and conservation.
Passes(w) ==
  LET log == w.log
  IN /\ LedgerConserved(log)
     /\ CASE scenario.validator = "marketplace" -> MarketplacePasses(log)
          [] scenario.validator = "capability_spoofing" -> SpoofingPasses(log)
          [] scenario.validator = "registry_eviction" -> EvictionPasses(log)
          [] scenario.validator = "capped_influence" -> SlanderPasses(log)
          [] scenario.validator = "auction" -> AuctionPasses(log)
          [] scenario.validator = "voting" -> VotingPasses(log, Own(w, AgentIn("ballot_box")).counts)
          [] scenario.validator = "consensus" -> ConsensusPasses(log)
          [] scenario.validator = "supply_chain" -> SupplyPasses(log)
=============================================================================
