----------------------------- MODULE OwnedIndex -----------------------------
(***************************************************************************)
(* The registry index.owned.v1 (layers/registry_layer.py, OwnedIndex) by   *)
(* itself, as any caller may use it: owners sign cards and withdrawals,    *)
(* and whoever holds one of them may hand it in, at once, late or again.   *)
(* The Lab's own agents only ever register one card; see Lab.              *)
(***************************************************************************)
EXTENDS Layers

CONSTANTS Names,        \* the names with a key that cards are published for
          Callers,      \* who publishes and withdraws, and whose keys sign
          Offers,       \* what a card may say its agent can do: sets of capabilities
          MaxVersion, MaxCards, MaxWithdrawals    \* bounds on what is signed, per name

VARIABLES
  town,          \* cards, versions and generations; log is what the last call emitted
  cards,         \* the cards signed by the keys of their names
  withdrawals,   \* the withdrawals so signed, each with the listing that then stood
  past           \* the verified listings there once were: history, no part of the registry

indexVars == <<scenario, town, cards, withdrawals, past>>

Cards == [name : Names, version : 1..MaxVersion, capabilities : Offers]
Listing(w, name) == IF Listed(w, name) THEN {w.cards[name].card} ELSE {}

IndexInit ==
  /\ scenario = [registry |-> "index.owned.v1", auth |-> "hmac.v1"]
  /\ town = [cards |-> <<>>, versions |-> <<>>, generations |-> <<>>, log |-> <<>>, raised |-> FALSE]
  /\ cards = {} /\ withdrawals = {} /\ past = {}

OwnerSigns(card) ==
  /\ card \notin cards
  /\ Cardinality({c \in cards : c.name = card.name}) < MaxCards
  /\ cards' = cards \cup {card}
  /\ UNCHANGED <<scenario, town, withdrawals, past>>

\* withdrawal, signed by the name's key: of a listing, or of a card to be one.
OwnerSignsWithdrawal(card) ==
  /\ Cardinality({s \in withdrawals : s.name = card.name}) < MaxWithdrawals
  /\ withdrawals' = withdrawals \cup {[name |-> card.name, request |-> Withdrawal(town, card),
                                       standing |-> Listing(town, card.name)]}
  /\ UNCHANGED <<scenario, town, cards, past>>

\* One call of the registry.
Calls(w) ==
  /\ town' = w
  /\ past' = past \cup UNION {Listing(town, n) \ Listing(w, n) : n \in Names}
  /\ UNCHANGED <<scenario, cards, withdrawals>>
Quiet == [town EXCEPT !.log = <<>>]

Publishes(publisher, card, signer) == Calls(Publish(Quiet, publisher, card, signer))
Withdraws(requester, name, request, signer) == Calls(Withdraw(Quiet, requester, name, request, signer))

\* An owner's signature is one it made; anybody signs anything with a key of his own.
IndexNext ==
  \/ \E card \in Cards : OwnerSigns(card)
  \/ \E card \in cards : OwnerSignsWithdrawal(card)
  \/ \E caller \in Callers, card \in cards : Publishes(caller, card, card.name)
  \/ \E caller \in Callers, card \in Cards, signer \in Callers :
       signer # card.name /\ Publishes(caller, card, signer)
  \/ \E caller \in Callers, s \in withdrawals : Withdraws(caller, s.name, s.request, s.name)
  \/ \E caller \in Callers, card \in cards, signer \in Callers :
       signer # card.name /\ Withdraws(caller, card.name, Withdrawal(town, card), signer)

IndexSpec == IndexInit /\ [][IndexNext]_indexVars

-----------------------------------------------------------------------------
(* Properties.                                                             *)

\* A listing changes only by its owner's hand: it appears or gives way as a card the owner
\* signed, and one never listed before, since "replaying an older one cannot roll an update
\* back or bring a withdrawn listing back" (OwnedIndex); it goes by a withdrawal the owner
\* signed while this very listing stood.  No other's key will do, and no earlier signature.
OnlyOwnersMove ==
  [][\A name \in Names :
       LET old == Listing(town, name)
           new == Listing(town', name)
       IN \/ new = old
          \/ new # {} /\ new \subseteq cards \ past
          \/ new = {} /\ \E s \in withdrawals : s.standing = old]_indexVars

\* "an owner updates or returns by publishing a higher version": a card the owner signed, above
\* all that were listed in its name, is listed when it is published, whatever else was.
Foremost(card) ==
  \A c \in past \cup Listing(town, card.name) : c.name = card.name => c.version < card.version
OwnerNotLockedOut ==
  \A card \in cards : Foremost(card) =>
    Listing(Publish(Quiet, card.name, card, card.name), card.name) = {card}
=============================================================================
