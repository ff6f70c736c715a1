-------------------------------- MODULE Lab --------------------------------
(***************************************************************************)
(* A Lab run (sim/engine.py, sim/runner.py): the agents start one after    *)
(* the other, then the engine runs one queued call at a time, a timer or a *)
(* delivery, until the queue is empty, the time is over or a call raises.  *)
(* The scenario, with the faults of its transport, is any of Scenarios.    *)
(***************************************************************************)
EXTENDS Validators

CONSTANT Scenarios

VARIABLES phase,     \* "starting", "running", "finished", or "raised"
          started,   \* how many agents have started
          town

lab == <<scenario, phase, started, town>>

EmptyTown ==
  [now |-> 0, queue |-> <<>>, sent |-> 0, matched |-> [i \in DOMAIN scenario.rules |-> 0],
   log |-> [i \in DOMAIN scenario.order |->
             [by |-> "town", kind |-> "account_opened", subject |-> scenario.order[i],
              detail |-> [cents |-> Cfg(scenario.order[i]).balance]]],
   facts |-> 0, raised |-> FALSE,
   cards |-> <<>>, versions |-> <<>>, generations |-> <<>>,
   scores |-> <<>>, reports |-> <<>>, weighted |-> {},
   balances |-> Opened, escrow |-> <<>>, tasks |-> <<>>, sessions |-> <<>>,
   memory |-> [a \in Cast |-> <<>>], agents |-> [a \in Cast |-> <<>>]]

\* build_engine: the agents in place and their accounts opened.
Init ==
  /\ scenario \in Scenarios
  /\ phase = "starting" /\ started = 0
  /\ town = EmptyTown

Starts(w, a) ==
  CASE Cfg(a).role = "seller" -> SellerStarts(w, a)
    [] Cfg(a).role = "buyer" -> BuyerStarts(w, a)
    [] Cfg(a).role = "rival_forger" -> RivalStarts(w, a)
    [] Cfg(a).role = "spoofer" -> SpooferStarts(w, a)
    [] Cfg(a).role = "slanderer" -> SlandererStarts(w, a)
    [] Cfg(a).role = "auctioneer" -> AuctioneerStarts(w, a)
    [] Cfg(a).role = "bidder" -> BidderStarts(w, a)
    [] Cfg(a).role = "ballot_box" -> BallotBoxStarts(w, a)
    [] Cfg(a).role = "voter" -> VoterStarts(w, a)
    [] Cfg(a).role = "proposer" -> ProposerStarts(w, a)
    [] Cfg(a).role = "acceptor" -> AcceptorStarts(w, a)
    [] Cfg(a).role = "customer" -> CustomerStarts(w, a)
    [] Cfg(a).role = "manufacturer" -> MakerStarts(w, a)
    [] Cfg(a).role = "supplier" -> SupplierStarts(w, a)

StartAgent ==
  /\ phase = "starting"
  /\ LET a == scenario.order[started + 1]
         created == IF started = 0 THEN Emit(town, "town", "run_created", "run", <<>>) ELSE town
     IN town' = Starts(Emit(created, "town", "participant_joined", a, [role |-> Cfg(a).role]), a)
  /\ started' = started + 1
  /\ phase' = IF started' = Len(scenario.order) THEN "running" ELSE "starting"
  /\ UNCHANGED scenario

-----------------------------------------------------------------------------
(* Timers *)

Fired(w, a, timer, arg) ==
  CASE timer = "start_round" -> BuyerAsks(w, a)
    [] timer = "close_quotes" -> BuyerOffers(w, a)
    [] timer = "forge" -> RivalForges(w, a)
    [] timer = "file_report" -> SlandererFiles(w, a)
    [] timer = "open_auction" -> AuctioneerOpens(w, a)
    [] timer = "close" -> AuctioneerCloses(w, a)
    [] timer = "bid" -> BidderBids(w, a, arg)
    [] timer = "open_vote" -> BallotBoxOpens(w, a)
    [] timer = "tally" -> BallotBoxTallies(w, a)
    [] timer = "vote_again" -> VoterVotesAgain(w, a, arg)
    [] timer = "start_proposal" -> ProposerProposes(w, a)
    [] timer = "check" -> ProposerChecks(w, a)
    [] timer = "place_order" -> CustomerOrders(w, a)
    [] timer = "award_task" -> MakerAwards(w, a, arg)
    [] timer = "assemble" -> MakerAssembles(w, a)

-----------------------------------------------------------------------------
(* Messages: on_message calls handle_<kind>, and notes a kind without one.  *)

Sells(role) == role \in {"seller", "rival_forger"}

Handled(w, a, m) ==
  LET role == Cfg(a).role
      is(r, kind) == role = r /\ m.kind = kind
  IN CASE Sells(role) /\ m.kind = "quote_request" -> SellerQuotes(w, a, m)
       [] Sells(role) /\ m.kind = "nego_offer" -> SellerHaggles(w, a, m)
       [] Sells(role) /\ m.kind = "purchase_order" -> SellerShips(w, a, m)
       [] is("spoofer", "quote_request") -> SpooferQuotes(w, a, m)
       [] is("buyer", "quote_response") -> BuyerNotesQuote(w, a, m)
       [] is("buyer", "nego_counter") -> BuyerWeighs(w, a, m)
       [] is("buyer", "nego_accepted") -> BuyerPurchases(w, a, m.body.cents)
       [] is("buyer", "delivery") -> BuyerReceives(w, a, m)
       [] is("auctioneer", "auction_bid") -> AuctioneerTakesBid(w, a, m)
       [] is("auctioneer", "auction_payment") -> AuctioneerDelivers(w, a, m)
       [] is("bidder", "auction_open") -> BidderWaits(w, a, m)
       [] is("bidder", "auction_won") -> BidderPays(w, a, m)
       [] is("bidder", "auction_result") -> BidderIsTold(w, a, m)
       [] is("bidder", "item_delivery") -> BidderRates(w, a, m)
       [] is("ballot_box", "ballot") -> BallotBoxCounts(w, a, m)
       [] is("voter", "vote_open") -> VoterVotes(w, a, m)
       [] is("voter", "vote_result") -> VoterIsTold(w, a, m.body)
       [] is("proposer", "prepare_ack") -> ProposerHears(w, a, m)
       [] is("acceptor", "prepare") -> AcceptorAnswers(w, a, m)
       [] is("acceptor", "commit") -> AcceptorCommits(w, a, m)
       [] is("manufacturer", "order") -> MakerProcures(w, a, m)
       [] is("manufacturer", "part_delivery") -> MakerReceives(w, a, m)
       [] is("supplier", "supply_request") -> SupplierBids(w, a, m)
       [] is("supplier", "part_order") -> SupplierDelivers(w, a, m)
       [] is("customer", "product_delivery") -> CustomerReceives(w, a, m)
       [] OTHER -> Emit(w, a, "message_unhandled", m.id, [kind |-> m.kind])

SignatureHolds(m) == scenario.auth = "plain.v1" \/ m.body = m.signed

\* A vote_result carries the ballot box's own tally, so its body is what the
\* tally is now, while its signature is over what it was.
Arriving(w, m) ==
  IF m.kind = "vote_result" THEN [m EXCEPT !.body = Own(w, m.from).counts] ELSE m

Delivered(w, m) ==
  LET noted == Emit(w, "town", "message_delivered", m.id, [to |-> m.to, kind |-> m.kind])
      arriving == Arriving(w, m)
  IN IF SignatureHolds(arriving) THEN Handled(noted, m.to, arriving)
     ELSE Emit(Emit(noted, "town", "signature_invalid", m.id, [claimed |-> m.from]),
               "town", "delivery_failed", m.id, [to |-> m.to])

-----------------------------------------------------------------------------
(* The loop *)

MayRun == phase = "running" /\ town.queue # <<>> /\ town.now <= scenario.maxTime

Ran(w) == /\ town' = w
          /\ phase' = IF w.raised THEN "raised" ELSE "running"
          /\ UNCHANGED <<scenario, started>>

TimerFires ==
  /\ MayRun
  /\ \E i \in Due(town) :
       LET todo == town.queue[i].todo
       IN /\ todo.type = "timer"
          /\ Ran(Fired(Taken(town, i), todo.agent, todo.timer, todo.arg))

MessageArrives ==
  /\ MayRun
  /\ \E i \in Due(town) :
       LET todo == town.queue[i].todo
       IN /\ todo.type = "deliver"
          /\ Ran(Delivered(Taken(town, i), todo.message))

\* Faulty variant: the loop waits for the queue to empty, whatever the time.
QueueEmpty == town.queue = <<>>
Over == town.queue = <<>> \/ town.now > scenario.maxTime

Finish ==
  /\ phase = "running" /\ Over
  /\ phase' = "finished"
  /\ town' = Emit(town, "town", "run_finished", "run", [at |-> town.now])
  /\ UNCHANGED <<scenario, started>>

Next == StartAgent \/ TimerFires \/ MessageArrives \/ Finish

Spec == Init /\ [][Next]_lab

\* The loop is one thread that does nothing else: WF_lab(Next), with its ENABLED
\* written out, which TLC would find by running every handler again.
CanStep == phase = "starting" \/ MayRun \/ (phase = "running" /\ Over)
Fairness == []<>~CanStep \/ []<><<Next>>_lab
LabSpec == Spec /\ Fairness

-----------------------------------------------------------------------------
(* Properties.                                                             *)

Holds == [from : Cast, cents : Nat \ {0}, state : {"held", "released"}]
Haggles == [buyer : Cast, seller : Cast, turn : Cast, last : Nat,
            state : {"open", "agreed", "abandoned"}]

\* Every variable keeps its type; no queued call is due in the past and no
\* seller's stock goes below zero.
LabTypeOK ==
  /\ phase \in {"starting", "running", "finished", "raised"}
  /\ started \in 0..Len(scenario.order)
  /\ \A i \in DOMAIN town.queue : town.queue[i].at >= town.now /\ town.queue[i].since <= town.now
  /\ town.balances \in [Cast -> Int]
  /\ \A ref \in DOMAIN town.escrow : town.escrow[ref] \in Holds
  /\ \A nid \in DOMAIN town.sessions : town.sessions[nid] \in Haggles
  /\ \A t \in DOMAIN town.tasks : town.tasks[t].winner \in DOMAIN town.tasks[t].bids \cup {Nobody}
  /\ \A a \in WithRole("seller") : started = Len(scenario.order) => Own(town, a).stock \in Nat

HeldNow == {ref \in DOMAIN town.escrow : Held(town, ref)}

\* No call makes or loses money: balances and held escrow always add up to what
\* the accounts opened with, and nobody is in debt, also when a call raises half
\* way (the ledger's docstring, Ledger.hold, release, transfer).  And the evaluator,
\* which has only the trace, judges conservation of this money: the ledger it replays
\* from the events is at every moment the ledger itself.
MoneyConserved ==
  /\ TotalOf(town.balances) + MapThenSumSet(LAMBDA ref : town.escrow[ref].cents, HeldNow)
       = TotalOf(Opened)
  /\ \A a \in Cast : town.balances[a] >= 0
  /\ Books(town.log) = [balances |-> town.balances,
                        escrow |-> [ref \in HeldNow |-> town.escrow[ref].cents]]

\* What a seller is owed: the agreed price of each of its sessions, for the
\* quantity the buyer orders.
Earned(seller) ==
  MapThenSumSet(LAMBDA nid : town.sessions[nid].last * Cfg(town.sessions[nid].buyer).quantity,
                {nid \in DOMAIN town.sessions : /\ town.sessions[nid].seller = seller
                                                /\ town.sessions[nid].state = "agreed"})

Got(a) == town.balances[a] - Cfg(a).balance
Sellers == WithRole("seller") \cup WithRole("rival_forger")
AwardOf(task) == town.tasks[task].bids[town.tasks[task].winner]

MarketplaceTruth == HeldNow = {} /\ \A s \in Sellers : Got(s) = Earned(s)

AuctionTruth ==
  \A a \in Cast : Got(a) = IF a = AgentIn("auctioneer") THEN AwardOf(Auction)
                            ELSE IF a = town.tasks[Auction].winner THEN -AwardOf(Auction) ELSE 0

ConsensusTruth ==
  \A a \in WithRole("acceptor") : Recall(town, a, "committed") = Cfg(AgentIn("proposer")).value

\* Of the tally as it is when the run is over, late ballots included (BroadcastMatches).
VotingTruth ==
  \A c \in Cfg(AgentIn("ballot_box")).choices :
    Own(town, AgentIn("ballot_box")).counts[c] = Cardinality({v \in WithRole("voter") : Cfg(v).choice = c})

\* Each part's winner has its own price, the maker the rest of the customer's.
SupplyTruth ==
  LET maker == AgentIn("manufacturer")
      tasks == {Supply(c) : c \in Range(Cfg(maker).components)}
  IN /\ HeldNow = {}
     /\ \A t \in tasks : Got(town.tasks[t].winner) = Cfg(town.tasks[t].winner).price
     /\ Got(AgentIn("customer")) = -Cfg(AgentIn("customer")).price
     /\ Got(maker) = Cfg(AgentIn("customer")).price - MapThenSumSet(AwardOf, tasks)

\* A run that passes did what its report says, whatever the transport did to it:
\* each party has been paid exactly what was agreed or bid, every acceptor holds
\* the value, every voter is counted once, a forger has earned nothing and a
\* slandered seller keeps its standing.
PassIsTrue ==
  phase = "finished" /\ Passes(town) =>
    CASE scenario.validator = "marketplace" -> MarketplaceTruth
      [] scenario.validator = "auction" -> AuctionTruth
      [] scenario.validator = "voting" -> VotingTruth
      [] scenario.validator = "consensus" -> ConsensusTruth
      [] scenario.validator = "supply_chain" -> SupplyTruth
      [] scenario.validator = "capability_spoofing" -> \A a \in WithRole("spoofer") : Got(a) = 0
      [] scenario.validator = "registry_eviction" ->
           \A a \in WithRole("rival_forger") : Got(Cfg(a).victim) > 0
      [] scenario.validator = "capped_influence" ->
           \A a \in WithRole("slanderer") : Score(town, Cfg(a).target) > 0

\* Every bundled scenario runs to its end; the eight real ones pass and the three
\* negative controls do not, in whatever order simultaneous calls are run
\* (README.md, Lab scenarios).
CleanRunsPass ==
  scenario.bundled /\ phase \in {"finished", "raised"} =>
    phase = "finished" /\ (Passes(town) <=> ~scenario.control)

\* The acceptors whose prepare and acknowledgement were both delivered, in order.
Acknowledged(proposer) ==
  {a \in WithRole("acceptor") :
     \E prepare, ack \in Find(town.log, "message_sent"), d, e \in Find(town.log, "message_delivered") :
       LET log == town.log IN
       /\ log[prepare].detail.kind = "prepare" /\ log[prepare].by = proposer
       /\ log[ack].detail.kind = "prepare_ack" /\ log[ack].by = a
       /\ log[ack].detail.conversation = log[prepare].detail.conversation
       /\ log[d].subject = log[prepare].subject /\ log[e].subject = log[ack].subject
       /\ d < ack /\ ack < e}

\* A value is committed only once a majority of distinct acceptors have had the
\* prepare and had their acknowledgement delivered, however often either was
\* lost, repeated or late.
CommitHasMajority ==
  \A p \in WithRole("proposer") :
    started = Len(scenario.order) /\ Own(town, p).committed =>
      2 * Cardinality(Acknowledged(p)) > Cardinality(WithRole("acceptor"))

\* What the ballot box sent to a voter, as it signed it.
Announced(voter) ==
  {town.log[i].detail.body : i \in {j \in FindOf(town.log, "message_sent", "vote_result") :
                                      town.log[j].detail.to = voter}}

CountedLate ==
  \E i \in Find(town.log, "ballot_cast"), j \in Find(town.log, "vote_result") : i > j


\* Under capped reputation the trace accounts for every score: what an observer's
\* events add to a subject is its net report, capped, from its first settled
\* payment on, and nothing before, in whatever order it reports and trades.
InfluenceCapped ==
  scenario.trust = "reputation.capped.v1" =>
    \A o, s \in Cast :
      Influence(town.log, o, s) =
        IF o \in town.weighted /\ o \in DOMAIN town.reports /\ s \in DOMAIN town.reports[o]
        THEN Clamped(town.reports[o][s]) ELSE 0

\* Losing or delaying messages never makes a handler raise, which would end the
\* run without a report; only a message that arrives twice or a payer without
\* the money does.
OnlyDuplicatesRaise ==
  phase = "raised" => \/ Find(town.log, "message_duplicated") # {}
                      \/ \E a \in WithRole("bidder") : Cfg(a).balance < Cfg(a).valuation

\* Every run ends, even when nobody's message ever gets through.
RunEnds == <>(phase \in {"finished", "raised"})
=============================================================================
