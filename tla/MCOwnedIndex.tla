---------------------------- MODULE MCOwnedIndex ----------------------------
(* An owner and a rival, around one name. *)
EXTENDS OwnedIndex

OneName == {"honest"}
Both == {"honest", "rival"}
InAlphabet == <<"honest", "rival">>
TwoOffers == {{"laundry"}, {"courier"}}
=============================================================================
