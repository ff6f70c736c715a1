------------------------------ MODULE ToolLoop ------------------------------
(***************************************************************************)
(* The model-driven participant (participants/llm.py) on the Track: a      *)
(* harness that owns the town client, the journal and the claim's fence,   *)
(* and a brain that only calls tools.  The brain is MockBrain, which reads *)
(* what is left of the conversation; the profile's fault may truncate it   *)
(* or lose a tool's result.                                                *)
(*                                                                         *)
(* A conversation is its tool calls with their results.  A tool call is    *)
(* the requests of Track's coordinator; the claim it works on (its current *)
(* claim, or the stashed one) is the one in procs.                         *)
(***************************************************************************)
EXTENDS Track

CONSTANTS BuyerPatience,   \* IDLE_LIMIT: empty polls after which a buyer finishes
          SellerPatience,  \* IDLE_LIMIT - 5: the same for a seller
          MaxTurns         \* MAX_TURNS of the loop

ASSUME ToolLoopAssumption ==
  BuyerPatience \in Nat /\ SellerPatience \in Nat /\ MaxTurns \in Nat

Models == {p \in Participants : cast[p] = "model"}

Call(tool) == [tool |-> tool, reply |-> Nothing, note |-> {}, code |-> 0]
Sending(id) == [Call("send_work") EXCEPT !.reply = id]
Acking(note) == [Call("ack_work") EXCEPT !.note = note]
Finishing(code) == [Call("finish") EXCEPT !.code = code]

NoLoop ==
  [history |-> <<>>, call |-> Call("begin"), stashed |-> FALSE,
   tool_errors |-> FALSE, truncations |-> FALSE, turns |-> 0]

-----------------------------------------------------------------------------
(* MockBrain.                                                              *)

Results(h, tool, result) == {n \in DOMAIN h : h[n].call.tool = tool /\ h[n].result = result}
Delivery(h) == Results(h, "claim_work", "work")
LastDelivery(h) == CHOOSE n \in Delivery(h) : \A m \in Delivery(h) : m <= n
SinceDelivery(h, tool, result) == \E n \in Results(h, tool, result) : n > LastDelivery(h)
Idleness(h) == Cardinality(Results(h, "claim_work", "no work"))

SellerBrain(h) ==
  IF Delivery(h) # {} /\ ~SinceDelivery(h, "ack_work", "recorded")
  THEN IF h[LastDelivery(h)].known THEN Acking({"duplicate"})
       ELSE IF ~SinceDelivery(h, "send_work", "accepted") THEN Sending(QuoteResponse)
       ELSE Acking({"applied"})
  ELSE IF Idleness(h) >= SellerPatience THEN Finishing(0) ELSE Call("claim_work")

\* The stock sellers quote the right total.
BuyerBrain(h) ==
  IF Delivery(h) # {}
  THEN IF SinceDelivery(h, "ack_work", "recorded") THEN Finishing(0) ELSE Acking({"right"})
  ELSE IF Results(h, "list_participants", "listed") = {} THEN Call("list_participants")
  ELSE IF Results(h, "send_work", "accepted") = {} THEN Sending(QuoteRequest)
  ELSE IF Idleness(h) >= BuyerPatience THEN Finishing(5)
  ELSE Call("claim_work")

\* A tool that failed is called again with the same arguments.
Choice(p, h) ==
  IF h # <<>> /\ h[Len(h)].result = "error" THEN h[Len(h)].call
  ELSE IF p = Buyer THEN BuyerBrain(h) ELSE SellerBrain(h)

-----------------------------------------------------------------------------
(* The harness.                                                            *)

\* What the brain is told of the town's answer.
ToldRecorded(answer) ==   \* faulty variant: a refused acknowledgement reads as recorded
  IF answer = "stale" THEN "recorded" ELSE answer
Reported(answer) == IF answer = "stale" THEN "error" ELSE answer

\* tool_error: the result of the first claim is lost, the claim kept.
LosesResult(p) ==
  fault = "tool_error" /\ procs[p].answer = "work" /\ ~loops[p].tool_errors

Result(p) == IF LosesResult(p) THEN "error" ELSE Reported(procs[p].answer)

Entry(p) ==
  [call |-> loops[p].call, result |-> Result(p),
   known |-> Result(p) = "work" /\ Remembered(p) # {}]

Heard(p) ==
  IF loops[p].call.tool = "begin" THEN <<>> ELSE Append(loops[p].history, Entry(p))

\* _maybe_truncate: past MESSAGE_BUDGET only the last two calls are kept.
Truncates(p) == fault = "context_truncation" /\ Len(Heard(p)) > 2
Conversation(p) ==
  IF Truncates(p) THEN SubSeq(Heard(p), Len(Heard(p)) - 1, Len(Heard(p))) ELSE Heard(p)

Released(proc) == [proc EXCEPT !.message = Nothing, !.fence = 0]

\* The counts go with every acknowledgement.
Counted(l, note) ==
  note \cup (IF l.tool_errors THEN {"tool_errors"} ELSE {})
       \cup (IF l.truncations THEN {"context_truncations"} ELSE {})

\* _execute, up to the first request to the town.
Executing(l, call, proc) ==
  CASE call.tool = "list_participants" -> [proc EXCEPT !.answer = "listed"]
    [] call.tool = "claim_work" ->
         IF l.stashed THEN [proc EXCEPT !.answer = "work"]
         ELSE [proc EXCEPT !.pc = "hinting", !.since = clock]
    [] call.tool = "send_work" -> [proc EXCEPT !.pc = "sending", !.reply = call.reply]
    [] call.tool = "ack_work" ->
         IF l.stashed \/ proc.fence = 0 THEN [proc EXCEPT !.answer = "error"]
         ELSE [proc EXCEPT !.pc = "acking", !.note = Counted(l, call.note)]
    [] call.tool = "finish" -> [Idle EXCEPT !.pc = "exited", !.code = call.code]

Give(p, code) == Move(p, Exited(p, code)) /\ loops' = [loops EXCEPT ![p] = NoLoop]

\* One pass of run: the result of the last call is heard, the next one is chosen and begun.
\* An acknowledgement that was recorded is journalled only here.
Think(p) ==
  /\ p \in Models /\ At(p, "thinking")
  /\ LET answer == procs[p].answer
         h == Conversation(p)
         call == Choice(p, h)
         l == [loops[p] EXCEPT !.history = h, !.call = call, !.turns = @ + 1,
                               !.stashed = LosesResult(p) \/ (@ /\ loops[p].call.tool # "claim_work"),
                               !.tool_errors = @ \/ LosesResult(p),
                               !.truncations = @ \/ Truncates(p)]
         proc == IF answer \in {"recorded", "stale"} THEN Released(procs[p]) ELSE procs[p]
     IN /\ journal' = IF answer = "recorded"
                      THEN [journal EXCEPT ![p] =
                              @ \cup {[message |-> procs[p].message, reply |-> Nothing, unreported |-> FALSE]}]
                      ELSE journal
        /\ IF loops[p].turns = MaxTurns THEN Give(p, 8)
           ELSE IF clock >= Deadline THEN Give(p, 6)
           ELSE Move(p, Executing(l, call, proc)) /\ loops' = [loops EXCEPT ![p] = l]
  /\ UNCHANGED <<mailbox, memory, marker, applications, given, runner, mortal, log>>

\* claim_work waits for a hint for a while, then claims whatever the hint said.
AwaitHint(p) ==
  /\ p \in Models /\ At(p, "hinting") /\ Notify(p)
  /\ Move(p, [procs[p] EXCEPT !.pc = "claiming"])
  /\ UNCHANGED <<memory, disk, control, log>>

TownInit == TrackInit /\ loops = [p \in Participants |-> NoLoop]

TownNext ==
  \/ \E p \in Participants :
       \/ Think(p) \/ AwaitHint(p)
       \/ Participant(p) \/ Accident(p)
  \/ HandlerEnds \/ Runner \/ TimePasses

TownSpec == TownInit /\ [][TownNext]_trackVars

-----------------------------------------------------------------------------
(* A prompt town: time passes only while everybody waits for it, and a     *)
(* model that waits for a hint waits some of it.                           *)

Patient(p) == At(p, "hinting") /\ NoHint(p) /\ clock <= procs[p].since

PromptStep(p) ==
  \/ Think(p)
  \/ ~Patient(p) /\ AwaitHint(p)
  \/ Participant(p)
PromptTime ==
  /\ \A p \in Participants : Waits(p) \/ Patient(p)
  /\ RunnerWaits /\ TimePasses
PromptNext == (\E p \in Participants : PromptStep(p)) \/ Runner \/ PromptTime

\* Every process keeps running and so does the clock; nothing else is assumed.
PromptSpec ==
  /\ TownInit /\ [][PromptNext]_trackVars
  /\ \A p \in Participants : WF_trackVars(PromptStep(p))
  /\ WF_trackVars(Runner) /\ WF_trackVars(PromptTime)

-----------------------------------------------------------------------------
(* Properties.                                                             *)

\* A model-driven buyer ends with exit code 0 only when the town has its assertion: what
\* the stock buyer does not promise holds here, because the brain finishes on "recorded".
ModelAssertionTravels ==
  cast[Buyer] = "model" /\ At(Buyer, "exited") /\ procs[Buyer].code = 0 => Reporting("right") # {}
=============================================================================
