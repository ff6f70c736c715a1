------------------------------- MODULE MCPath -------------------------------
EXTENDS Path

AnyTarget == [usable : BOOLEAN, pin : {Nothing, "card"}]
Pinned == {[usable |-> TRUE, pin |-> "card"]}
AnySubject ==
  {"no_defect", "wrong_total", "wrong_item", "duplicate_fulfillment", "card_drift",
   "accept_conflicting_retry", Stranger}

\* Outputs that are right for some profile and attempt, wrong in one respect, or unreadable.
Quotes ==
  {Quote(total, "order", item, 0) : total \in {"original", "under", "changed"}, item \in {"asked", "absent"}}
    \cup {Quote("original", "other", "asked", 0), Quote("strange", "order", "asked", 0)}
Texted == Quotes \cup {Output(form) : form \in {"garbage", "list", "deep", "long"}}
Right == Quote("original", "order", "asked", 0)
AnyReply ==
  {Task("completed", <<text>>) : text \in Texted}
    \cup {Task("completed", <<Right, text>>) : text \in {Right, Output("garbage")}}
    \cup {Task(state, outputs) : state \in {"completed", "rejected", "failed", "working", "absent", "strange", "malformed"},
                                 outputs \in {<<>>, <<Right>>}}
    \cup {[Task(state, <<>>) EXCEPT !.broken = TRUE] : state \in {"completed", "rejected"}}
    \cup {[Task(state, <<Right>>) EXCEPT !.task = "message"] : state \in {"completed", "rejected", "absent"}}
=============================================================================
