------------------------------- MODULE Agents -------------------------------
(***************************************************************************)
(* The Lab's role agents (sim/agents.py): for each role its on_start, its  *)
(* timers and its message handlers, as operators on a town.  An agent a    *)
(* reads its configuration from Cfg(a) and keeps its fields in Own(w, a).  *)
(***************************************************************************)
EXTENDS Layers

Least(x, y) == IF x < y THEN x ELSE y
Most(x, y) == IF x > y THEN x ELSE y

-----------------------------------------------------------------------------
(* Marketplace *)

SellerStarts(w, a) ==
  Set(Register(w, a, {<<"sell", Cfg(a).sku>>}), a, [stock |-> Cfg(a).stock])

SellerQuotes(w, a, m) == Reply(w, m, "quote_response", [cents |-> Cfg(a).ask])

\* An offer at the floor or above is taken, a lower one met half way.
SellerHaggles(w, a, m) ==
  LET nid == m.body.nid
      counter == Most(Cfg(a).floor, (m.body.cents + Cfg(a).ask) \div 2)
  IN IF m.body.cents >= Cfg(a).floor
     THEN Reply(Accept(w, nid, a), m, "nego_accepted",
                [nid |-> nid, cents |-> w.sessions[nid].last])
     ELSE Reply(Offer(w, nid, a, counter), m, "nego_counter", [nid |-> nid, cents |-> counter])

\* Faulty variant: the stock is not looked at.
SellerShipsAlways(w, a, m) ==
  Reply(Set(w, a, [stock |-> Own(w, a).stock - m.body.quantity]), m, "delivery",
        [order |-> m.body.order, quantity |-> m.body.quantity])

SellerShips(w, a, m) ==
  IF Own(w, a).stock < m.body.quantity
  THEN Reply(w, m, "order_rejected", [order |-> m.body.order])
  ELSE Reply(Set(w, a, [stock |-> Own(w, a).stock - m.body.quantity]), m, "delivery",
             [order |-> m.body.order, quantity |-> m.body.quantity])

BuyerStarts(w, a) ==
  Later(Set(Register(w, a, {<<"buy">>}), a,
            [round |-> 0, quotes |-> <<>>, nid |-> 0, seller |-> Nobody, released |-> {}]),
        a, 5, "start_round", 0)

BuyerAsks(w, a) ==
  LET begun == Set(w, a, [Own(w, a) EXCEPT !.round = @ + 1, !.quotes = <<>>])
      preferred == Recall(w, a, "preferred_seller")
      found == Lookup(w, <<"sell", Cfg(a).sku>>)
      targets == IF preferred # Nobody THEN <<preferred>> ELSE SubSeq(found, 1, Least(2, Len(found)))
      asked == ForEach(LAMBDA acc, t : Send(acc, a, t, "quote_request", <<>>), begun, targets)
  IN IF targets = <<>> THEN Emit(begun, a, "buyer_gave_up", a, <<>>)
                       ELSE Later(asked, a, Cfg(a).quotes_wait, "close_quotes", 0)

BuyerNotesQuote(w, a, m) ==
  Set(w, a, [Own(w, a) EXCEPT !.quotes = Bind(@, m.from, m.body.cents)])

BuyerOffers(w, a) ==
  LET quotes == Own(w, a).quotes
      seller == CHOOSE s \in DOMAIN quotes : \A t \in DOMAIN quotes \ {s} :
                  \/ quotes[s] < quotes[t]
                  \/ quotes[s] = quotes[t] /\ Position(s) < Position(t)
      nid == Len(w.sessions) + 1
      first == Least((quotes[seller] * 4) \div 5, Cfg(a).cap)
      offered == Offer(StartHaggle(w, a, seller), nid, a, first)
  IN IF DOMAIN quotes = {} THEN Emit(w, a, "buyer_gave_up", a, <<>>)
     ELSE Send(Set(offered, a, [Own(w, a) EXCEPT !.nid = nid, !.seller = seller]),
               a, seller, "nego_offer", [nid |-> nid, cents |-> first])

\* Faulty variant: all orders of a buyer have one id.
OneOrder(w, a) == <<"order", a, 1>>
OrderOf(w, a) == <<"order", a, Own(w, a).round>>

BuyerPurchases(w, a, cents) ==
  LET own == Own(w, a)
      order == OrderOf(w, a)
      quantity == Cfg(a).quantity
  IN IF cents > Cfg(a).cap THEN Abandon(w, own.nid, a)
     ELSE Send(EscrowHold(w, a, cents * quantity, order), a, own.seller, "purchase_order",
               [nid |-> own.nid, order |-> order, quantity |-> quantity, cents |-> cents])

BuyerWeighs(w, a, m) ==
  IF m.body.cents <= Cfg(a).cap THEN BuyerPurchases(Accept(w, m.body.nid, a), a, m.body.cents)
                                ELSE Abandon(w, m.body.nid, a)

BuyerReceives(w, a, m) ==
  LET order == m.body.order
      noted == Set(w, a, [Own(w, a) EXCEPT !.released = @ \cup {order}])
      rated == Rate(EscrowRelease(noted, order, m.from), a, m.from, "good")
      kept == Remember(rated, a, "preferred_seller", m.from)
  IN IF order \in Own(w, a).released THEN Emit(w, a, "duplicate_recognized", order, <<>>)
     ELSE IF Own(w, a).round < Cfg(a).rounds THEN Later(kept, a, 10, "start_round", 0) ELSE kept

\* A rival publishes the victim's card, as it stands, under the rival's own key.
RivalStarts(w, a) == Later(SellerStarts(w, a), a, Cfg(a).forge_at, "forge", 0)

RivalForges(w, a) ==
  LET victim == Cfg(a).victim
  IN IF victim \in DOMAIN w.cards THEN Publish(w, a, w.cards[victim].card, a)
                                  ELSE Emit(w, a, "forgery_skipped", victim, <<>>)

\* A spoofer signs its own card with a key that is not its own.
SpooferStarts(w, a) == Publish(w, a, Card(a, {<<"sell", Cfg(a).sku>>}), Cfg(a).forge_key_of)
SpooferQuotes(w, a, m) == Reply(w, m, "quote_response", [cents |-> 1])

SlandererStarts(w, a) ==
  Later(Set(Register(w, a, {<<"review">>}), a, [filed |-> 0]), a, Cfg(a).start_after, "file_report", 0)

SlandererFiles(w, a) ==
  LET filed == Own(w, a).filed + 1
      rated == Rate(Set(w, a, [filed |-> filed]), a, Cfg(a).target, "bad")
  IN IF filed < Cfg(a).reports THEN Later(rated, a, Cfg(a).interval, "file_report", 0) ELSE rated

-----------------------------------------------------------------------------
(* Auction *)

Auction == <<"auction">>

AuctioneerStarts(w, a) ==
  Later(Set(Register(w, a, {<<"auction.host">>}), a, [paid |-> FALSE, bidders |-> <<>>]),
        a, 5, "open_auction", 0)

AuctioneerOpens(w, a) ==
  LET bidders == Lookup(w, <<"auction.bid">>)
      announced == Set(Announce(w, a, Auction, "highest"), a, [Own(w, a) EXCEPT !.bidders = bidders])
      opened == ForEach(LAMBDA acc, b : Send(acc, a, b, "auction_open", <<>>), announced, bidders)
  IN Later(opened, a, Cfg(a).close_after, "close", 0)

AuctioneerTakesBid(w, a, m) == Bid(w, Auction, m.from, m.body.cents)

AuctioneerCloses(w, a) ==
  LET awarded == Award(w, Auction)
      t == awarded.tasks[Auction]
      told == Send(awarded, a, t.winner, "auction_won", [cents |-> t.bids[t.winner]])
  IN IF t.winner = Nobody THEN awarded
     ELSE ForEach(LAMBDA acc, b : Send(acc, a, b, "auction_result", [winner |-> t.winner]),
                  told, Own(w, a).bidders)

AuctioneerDelivers(w, a, m) ==
  IF Own(w, a).paid THEN w
  ELSE Send(Set(w, a, [Own(w, a) EXCEPT !.paid = TRUE]), a, m.from, "item_delivery", <<>>)

BidderStarts(w, a) == Set(Register(w, a, {<<"auction.bid">>}), a, <<>>)
BidderWaits(w, a, m) == Later(w, a, Cfg(a).bid_delay, "bid", m.from)
BidderBids(w, a, host) == Send(w, a, host, "auction_bid", [cents |-> Cfg(a).valuation])
BidderPays(w, a, m) ==
  Reply(Pay(w, a, m.from, m.body.cents, Auction), m, "auction_payment", [cents |-> m.body.cents])
BidderIsTold(w, a, m) == Remember(w, a, "auction_result", m.body.winner)
BidderRates(w, a, m) == Rate(w, a, m.from, "good")

-----------------------------------------------------------------------------
(* Voting *)

BallotBoxStarts(w, a) ==
  Later(Set(Register(w, a, {<<"vote.tally">>}), a,
            [voted |-> {}, voters |-> <<>>, counts |-> [c \in Cfg(a).choices |-> 0]]),
        a, 5, "open_vote", 0)

BallotBoxOpens(w, a) ==
  LET voters == Lookup(w, <<"vote.cast">>)
      opened == ForEach(LAMBDA acc, v : Send(acc, a, v, "vote_open", <<>>),
                        Set(w, a, [Own(w, a) EXCEPT !.voters = voters]), voters)
  IN Later(opened, a, Cfg(a).close_after, "tally", 0)

\* Faulty variant: a voter may vote again.
NeverVoted(w, a, voter) == FALSE
HasVoted(w, a, voter) == voter \in Own(w, a).voted

BallotBoxCounts(w, a, m) ==
  LET own == Own(w, a)
      choice == m.body.choice
      refused(reason) == Emit(w, a, "ballot_rejected", m.from, [reason |-> reason])
  IN IF HasVoted(w, a, m.from) THEN refused("already voted")
     ELSE IF choice \notin DOMAIN own.counts THEN refused("unknown choice")
     ELSE Emit(Set(w, a, [own EXCEPT !.voted = @ \cup {m.from}, !.counts[choice] = @ + 1]),
               a, "ballot_cast", m.from, [choice |-> choice])

\* The event and the messages hold the tally itself, which later ballots still
\* change; what it was when it was sent is in the total and in the signatures.
BallotBoxTallies(w, a) ==
  LET counts == Own(w, a).counts
      total == MapThenSumSet(LAMBDA c : counts[c], DOMAIN counts)
  IN ForEach(LAMBDA acc, v : Send(acc, a, v, "vote_result", counts),
             Emit(w, a, "vote_result", "vote", [total |-> total]), Own(w, a).voters)

VoterStarts(w, a) == Set(Register(w, a, {<<"vote.cast">>}), a, <<>>)

VoterVotes(w, a, m) ==
  LET voted == Reply(w, m, "ballot", [choice |-> Cfg(a).choice])
  IN IF Cfg(a).double_vote THEN Later(voted, a, 2, "vote_again", m) ELSE voted
VoterVotesAgain(w, a, m) == Reply(w, m, "ballot", [choice |-> Cfg(a).choice])
VoterIsTold(w, a, counts) == Remember(w, a, "vote_result", counts)

-----------------------------------------------------------------------------
(* Consensus *)

ProposerStarts(w, a) ==
  Later(Set(Register(w, a, {<<"consensus.propose">>}), a,
            [acks |-> {}, committed |-> FALSE, acceptors |-> <<>>]), a, 5, "start_proposal", 0)

Prepare(w, a, targets) ==
  ForEach(LAMBDA acc, t : Send(acc, a, t, "prepare", [value |-> Cfg(a).value]), w, targets)

ProposerProposes(w, a) ==
  LET acceptors == Lookup(w, <<"consensus.accept">>)
  IN Later(Prepare(Set(w, a, [Own(w, a) EXCEPT !.acceptors = acceptors]), a, acceptors),
           a, Cfg(a).retry_after, "check", 0)

\* Faulty variant: half of the acceptors are enough.
HalfOf(own) == Len(own.acceptors) \div 2
Quorum(own) == Len(own.acceptors) \div 2 + 1

ProposerHears(w, a, m) ==
  LET own == [Own(w, a) EXCEPT !.acks = @ \cup {m.from}]
      commits == ~own.committed /\ Cardinality(own.acks) >= Quorum(own)
  IN IF ~commits THEN Set(w, a, own)
     ELSE ForEach(LAMBDA acc, t : Send(acc, a, t, "commit", [value |-> Cfg(a).value]),
                  Emit(Set(w, a, [own EXCEPT !.committed = TRUE]), a, "consensus_committed",
                       Cfg(a).value, [acks |-> own.acks, quorum |-> Quorum(own)]),
                  own.acceptors)

ProposerChecks(w, a) ==
  LET own == Own(w, a)
      missing == SelectSeq(own.acceptors, LAMBDA t : t \notin own.acks)
  IN IF own.committed \/ missing = <<>> THEN w
     ELSE Later(Prepare(Emit(w, a, "proposal_retry", a, [missing |-> missing]), a, missing),
                a, Cfg(a).retry_after, "check", 0)

AcceptorStarts(w, a) == Set(Register(w, a, {<<"consensus.accept">>}), a, <<>>)
AcceptorAnswers(w, a, m) == Reply(w, m, "prepare_ack", [value |-> m.body.value])
AcceptorCommits(w, a, m) ==
  Emit(Remember(w, a, "committed", m.body.value), a, "value_committed", a, [value |-> m.body.value])

-----------------------------------------------------------------------------
(* Supply chain *)

PurchaseOrder == <<"po">>
Supply(component) == <<"supply", component>>

CustomerStarts(w, a) ==
  Later(Set(Register(w, a, {<<"buy">>}), a, [done |-> FALSE]), a, 5, "place_order", 0)

CustomerOrders(w, a) ==
  LET makers == Lookup(w, <<"mfg">>)
  IN IF makers = <<>> THEN Emit(w, a, "buyer_gave_up", a, <<>>)
     ELSE Send(EscrowHold(w, a, Cfg(a).price, PurchaseOrder), a, makers[1], "order", <<>>)

CustomerReceives(w, a, m) ==
  IF Own(w, a).done THEN w
  ELSE Rate(EscrowRelease(Set(w, a, [done |-> TRUE]), PurchaseOrder, m.from), a, m.from, "good")

MakerStarts(w, a) ==
  Set(Register(w, a, {<<"mfg">>}), a, [parts |-> {}, customer |-> Nobody])

MakerProcures(w, a, m) ==
  LET ask(acc, component) ==
        Later(ForEach(LAMBDA inner, s : Send(inner, a, s, "supply_request", [task |-> Supply(component)]),
                      Announce(acc, a, Supply(component), "lowest"),
                      Lookup(acc, Supply(component))),
              a, Cfg(a).bid_wait, "award_task", Supply(component))
  IN ForEach(ask, Set(w, a, [Own(w, a) EXCEPT !.customer = m.from]), Cfg(a).components)

MakerAwards(w, a, task) ==
  LET awarded == Award(w, task)
      t == awarded.tasks[task]
      cents == t.bids[t.winner]
  IN IF t.winner = Nobody THEN awarded
     ELSE Send(EscrowHold(awarded, a, cents, task), a, t.winner, "part_order", [task |-> task])

MakerReceives(w, a, m) ==
  LET task == m.body.task
      parts == Own(w, a).parts \cup {task}
      noted == Set(w, a, [Own(w, a) EXCEPT !.parts = parts])
      rated == Rate(EscrowRelease(noted, task, m.from), a, m.from, "good")
  IN IF task \in Own(w, a).parts THEN w
     ELSE IF Cardinality(parts) = Len(Cfg(a).components)
     THEN Later(rated, a, Cfg(a).assembly_delay, "assemble", 0) ELSE rated

MakerAssembles(w, a) ==
  Send(Emit(w, a, "product_assembled", PurchaseOrder, [parts |-> Own(w, a).parts]),
       a, Own(w, a).customer, "product_delivery", <<>>)

SupplierStarts(w, a) == Set(Register(w, a, {Supply(Cfg(a).component)}), a, <<>>)
SupplierBids(w, a, m) == Bid(w, m.body.task, a, Cfg(a).price)
SupplierDelivers(w, a, m) == Reply(w, m, "part_delivery", [task |-> m.body.task])
=============================================================================
