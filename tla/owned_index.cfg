\* An owner, a rival and every signed card and withdrawal replayed: see OwnedIndex.
SPECIFICATION IndexSpec
CONSTANTS
  Alphabet <- InAlphabet
  Names <- OneName
  Callers <- Both
  Offers <- TwoOffers
  MaxVersion = 3
  MaxCards = 4
  MaxWithdrawals = 2
INVARIANT OwnerNotLockedOut
PROPERTY OnlyOwnersMove
