-------------------------------- MODULE MCLab --------------------------------
(* The bundled scenarios (sim/scenarios/), as they are and under other faults. *)
EXTENDS Lab

CONSTANTS MaxNth,    \* bound: the ordinal of the message a single rule strikes
          PairNth,   \* bound: the same for each of two rules
          Delays     \* delays of a rule, in tenths

Names ==
  <<"acceptor-1", "acceptor-2", "acceptor-3", "auctioneer", "axle-1", "axle-2", "ballot-box",
    "bidder-late", "bidder-x", "bidder-y", "buyer-1", "customer", "maker", "proposer",
    "seller-a", "seller-b", "seller-honest", "seller-rival", "slanderer", "spoofer",
    "voter-1", "voter-2", "voter-3", "voter-double", "wheel-1", "wheel-2">>

Rule(action, kind, nth, delay, lost) ==
  [action |-> action, kind |-> kind, nth |-> nth, delay |-> delay, lost |-> lost]

Base(validator, order, cast, kinds) ==
  [validator |-> validator, order |-> order, cast |-> cast, kinds |-> kinds,
   rules |-> <<>>, auth |-> "hmac.v1", registry |-> "index.v1", trust |-> "reputation.v1",
   maxTime |-> 600, bundled |-> FALSE, control |-> FALSE]

Seller(ask, floor) == [role |-> "seller", sku |-> "widget", ask |-> ask, floor |-> floor,
                       stock |-> 10, balance |-> 0]
Buyer(rounds) == [role |-> "buyer", sku |-> "widget", quantity |-> 2, cap |-> 1900,
                  quotes_wait |-> 10, rounds |-> rounds, balance |-> 10000]
TradeKinds == <<"quote_request", "quote_response", "nego_offer", "nego_counter", "nego_accepted",
                "purchase_order", "delivery">>

Marketplace ==
  Base("marketplace", <<"seller-a", "seller-b", "buyer-1">>,
       "seller-a" :> Seller(2100, 1800) @@ "seller-b" :> Seller(1995, 1700) @@ "buyer-1" :> Buyer(2),
       TradeKinds)

Spoofing ==
  Base("capability_spoofing", <<"seller-honest", "spoofer", "buyer-1">>,
       "seller-honest" :> Seller(1995, 1700) @@ "buyer-1" :> Buyer(1)
       @@ "spoofer" :> [role |-> "spoofer", sku |-> "widget", forge_key_of |-> "shadow", balance |-> 0],
       TradeKinds)

Eviction ==
  Base("registry_eviction", <<"seller-honest", "seller-rival", "buyer-1">>,
       "seller-honest" :> Seller(1995, 1700) @@ "buyer-1" :> Buyer(1)
       @@ "seller-rival" :> [role |-> "rival_forger", sku |-> "widget", ask |-> 2100, floor |-> 1850,
                             stock |-> 10, balance |-> 0, victim |-> "seller-honest", forge_at |-> 1],
       TradeKinds)

Slander ==
  Base("capped_influence", <<"seller-honest", "buyer-1", "slanderer">>,
       "seller-honest" :> Seller(1995, 1700) @@ "buyer-1" :> Buyer(1)
       @@ "slanderer" :> [role |-> "slanderer", target |-> "seller-honest", reports |-> 5,
                          start_after |-> 30, interval |-> 5, balance |-> 0],
       TradeKinds)

Bidder(valuation, delay) == [role |-> "bidder", valuation |-> valuation, bid_delay |-> delay,
                             balance |-> 2000]
AuctionHouse ==
  Base("auction", <<"auctioneer", "bidder-x", "bidder-y", "bidder-late">>,
       "auctioneer" :> [role |-> "auctioneer", close_after |-> 30, balance |-> 0]
       @@ "bidder-x" :> Bidder(700, 10) @@ "bidder-y" :> Bidder(900, 12)
       @@ "bidder-late" :> Bidder(950, 60),
       <<"auction_open", "auction_bid", "auction_won", "auction_result", "auction_payment",
         "item_delivery">>)

Voter(choice, double) == [role |-> "voter", choice |-> choice, double_vote |-> double, balance |-> 0]
Vote ==
  Base("voting", <<"ballot-box", "voter-1", "voter-2", "voter-3", "voter-double">>,
       "ballot-box" :> [role |-> "ballot_box", choices |-> {"apricot", "plum"}, close_after |-> 30,
                        balance |-> 0]
       @@ "voter-1" :> Voter("apricot", FALSE) @@ "voter-2" :> Voter("plum", FALSE)
       @@ "voter-3" :> Voter("apricot", FALSE) @@ "voter-double" :> Voter("plum", TRUE),
       <<"vote_open", "ballot", "vote_result">>)

Acceptor == [role |-> "acceptor", balance |-> 0]
Consensus ==
  Base("consensus", <<"proposer", "acceptor-1", "acceptor-2", "acceptor-3">>,
       "proposer" :> [role |-> "proposer", value |-> "v42", retry_after |-> 15, balance |-> 0]
       @@ "acceptor-1" :> Acceptor @@ "acceptor-2" :> Acceptor @@ "acceptor-3" :> Acceptor,
       <<"prepare", "prepare_ack", "commit">>)

Supplier(component, price) == [role |-> "supplier", component |-> component, price |-> price,
                               balance |-> 0]
SupplyChain ==
  Base("supply_chain", <<"customer", "maker", "axle-1", "axle-2", "wheel-1", "wheel-2">>,
       "customer" :> [role |-> "customer", price |-> 10000, balance |-> 12000]
       @@ "maker" :> [role |-> "manufacturer", components |-> <<"axle", "wheel">>, bid_wait |-> 10,
                      assembly_delay |-> 5, balance |-> 2000]
       @@ "axle-1" :> Supplier("axle", 500) @@ "axle-2" :> Supplier("axle", 450)
       @@ "wheel-1" :> Supplier("wheel", 300) @@ "wheel-2" :> Supplier("wheel", 350),
       <<"order", "supply_request", "part_order", "part_delivery", "product_delivery">>)

Owned == [Eviction EXCEPT !.registry = "index.owned.v1"]
Capped == [Slander EXCEPT !.trust = "reputation.capped.v1"]
With(base, rules) == [base EXCEPT !.rules = rules]

Bundled ==
  {[s EXCEPT !.bundled = TRUE] : s \in
     {With(Marketplace, <<Rule("duplicate", "delivery", 1, 0, {})>>), Spoofing,
      Owned, Capped, AuctionHouse, Vote,
      With(Consensus, <<Rule("drop", "prepare_ack", 1, 0, {}), Rule("drop", "prepare_ack", 2, 0, {})>>),
      With(SupplyChain, <<Rule("delay", "part_delivery", 1, 10, {})>>),
      [Spoofing EXCEPT !.auth = "plain.v1", !.control = TRUE],
      [Eviction EXCEPT !.control = TRUE], [Slander EXCEPT !.control = TRUE]}}

Rules(kind, upTo) ==
  [action : {"drop", "duplicate"}, kind : {kind}, nth : 1..upTo, delay : {0}, lost : {{}}]
  \cup [action : {"delay"}, kind : {kind}, nth : 1..upTo, delay : Delays, lost : {{}}]
  \cup [action : {"drop_rate"}, kind : {kind}, nth : {1}, delay : {0},
        lost : {S \in SUBSET (1..upTo) : Cardinality(S) > 1}]

\* No rule, one, or two; the order of two only matters if they are of one kind.
Faults(kinds) ==
  {<<>>}
  \cup UNION {{<<r>> : r \in Rules(kinds[i], MaxNth)} : i \in DOMAIN kinds}
  \cup UNION {Rules(kinds[p[1]], PairNth) \X Rules(kinds[p[2]], PairNth) :
                p \in {q \in (DOMAIN kinds) \X (DOMAIN kinds) : q[1] <= q[2]}}

\* Under other faults, the rival meets an owned registry, the slanderer capped trust.
Faulty ==
  UNION {{With(base, rules) : rules \in Faults(base.kinds)} :
           base \in {Marketplace, AuctionHouse, Vote, Consensus, SupplyChain, Owned, Capped}}

\* Casts for which the scenarios' rarer branches are taken.
Recast(base, a, config) == [base EXCEPT !.cast[a] = config @@ @]
Odd ==
  {Recast(Marketplace, "seller-b", [stock |-> 2]),
   Recast(Marketplace, "buyer-1", [cap |-> 1650]),
   Recast(Marketplace, "buyer-1", [sku |-> "gadget"]),
   Recast(AuctionHouse, "bidder-y", [balance |-> 100]),
   Recast(Vote, "voter-3", [choice |-> "quince"]),
   Recast(SupplyChain, "maker", [components |-> <<"axle", "gear">>]),
   Recast(Eviction, "seller-rival", [victim |-> "nobody-here"]),
   With([Consensus EXCEPT !.maxTime = 40],
        <<Rule("drop_rate", "prepare_ack", 1, 0, 1..60)>>)}

MCScenarios == Bundled \cup Faulty \cup Odd
=============================================================================
