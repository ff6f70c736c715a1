----------------------------- MODULE MCMailbox -----------------------------
(* Instances of Mailbox for TLC.                                           *)
EXTENDS Mailbox, TLC

CONSTANTS buyer, seller, request, response, body

\* The buyer is the participant that keeps polling.
BuyerPolls == Spec /\ WF_vars(Tick) /\ WF_vars(Polls(buyer))
=============================================================================
