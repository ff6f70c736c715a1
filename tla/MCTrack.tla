------------------------------ MODULE MCTrack ------------------------------
(* Instances of Track for TLC.                                             *)
EXTENDS ToolLoop

AckNotes == SUBSET Flags

Cast(b, s) == [p \in Participants |-> IF p = "buyer" THEN b ELSE s]
\* The places of an unscripted crash: between two requests, and within one.
Between == {"handling", "sending", "acking", "accepted", "thinking"}
Within == {"suppressing", "dropping", "reoffering"}
Under(faults, cst, mortals) == {[fault |-> f, cast |-> cst, mortal |-> mortals] : f \in faults}

ScriptedFaults ==
  {"drop_wakeup", "duplicate_delivery", "lost_ack", "crash_after_claim", "crash_amnesia",
   "crash_amnesia_fresh_ids"}
StockTown == Cast("stock", "stock")

\* The town's own participants under every scripted fault.
StockScenarios ==
  Under(ScriptedFaults \ {"crash_after_claim", "crash_amnesia"}, StockTown, {})
    \cup Under({"crash_after_claim", "crash_amnesia"}, StockTown, Participants \X (Between \cup Within))

\* One participant from outside beside the town's, who may crash and come back: before its
\* acknowledgement, after it with the mark still to go, or while the coordinator still
\* works on its request.
OutsideScenarios ==
  Under({"duplicate_delivery"}, Cast("stock", "outside"), {"seller"} \X {"accepted", "reoffering"}) \cup
  Under({"none"}, Cast("outside", "stock"), {"buyer"} \X {"acking"}) \cup
  Under({"drop_wakeup"}, Cast("outside", "stock"), {"buyer"} \X {"suppressing"})

\* The model-driven participants of their profiles, and one of them, or a bridge, beside
\* the stock program.
ModelScenarios ==
  Under({"none", "tool_error", "context_truncation"}, Cast("model", "model"), {}) \cup
  Under({"none", "duplicate_delivery", "lost_ack", "drop_wakeup"}, Cast("stock", "model"), {}) \cup
  Under({"none", "duplicate_delivery", "lost_ack", "drop_wakeup"}, Cast("stock", "bridge"), {})
LateModels ==
  Under({"none"}, Cast("model", "stock"), {}) \cup
  Under({"none"}, Cast("stock", "bridge"), {})

AllScenarios == StockScenarios \cup OutsideScenarios \cup LateModels
PromptScenarios == Under(ScriptedFaults \cup {"none"}, StockTown, {}) \cup ModelScenarios
NoFault == Under({"none"}, StockTown, {})
=============================================================================
